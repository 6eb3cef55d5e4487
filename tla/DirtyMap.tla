------------------------------ MODULE DirtyMap ------------------------------
(***************************************************************************)
(* What a sync engine's dirty log promises, whatever its representation:   *)
(* one entry per record, the version still to be pushed.  A push takes the *)
(* entries one after the other, those added while it runs included, and    *)
(* when it ends exactly the entries it settled leave the log.  An entry    *)
(* leaves in no other way than by a pull that settles its record, and the  *)
(* log comes back from its last save after a restart.                      *)
(***************************************************************************)
EXTENDS Naturals

CONSTANTS
  Ids,      \* record ids
  Pushes,   \* calls of push
  NoId      \* no record in hand

VARIABLES
  entry,    \* version to be pushed of each record, 0 if it is not listed
  saved,    \* the log as last saved
  push      \* what each push has still to visit, has in hand and has settled

vars == <<entry, saved, push>>

NotPushing == [active |-> FALSE, todo |-> {}, hand |-> NoId, done |-> {}]

Pushing(todo, hand, done) ==
  [active |-> TRUE, todo |-> todo, hand |-> hand, done |-> done]

Init ==
  /\ entry = [i \in Ids |-> 0]
  /\ saved = [i \in Ids |-> 0]
  /\ push = [p \in Pushes |-> NotPushing]

Resting == \A p \in Pushes : ~push[p].active

Track(id) ==
  /\ entry'[id] # 0
  /\ entry' = [entry EXCEPT ![id] = entry'[id]]
  /\ UNCHANGED <<saved, push>>

\* A pull settles a record: it took the remote's copy, or asserted its own.
Drop(id) ==
  /\ Resting
  /\ entry' = [entry EXCEPT ![id] = 0]
  /\ UNCHANGED <<saved, push>>

Save ==
  /\ saved' = entry
  /\ UNCHANGED <<entry, push>>

\* sync() begins its push as the save of its pull lands.
Begin(p) ==
  /\ ~push[p].active
  /\ push'[p].todo \subseteq Ids
  /\ push' = [push EXCEPT ![p] = Pushing(push'[p].todo, NoId, {})]
  /\ saved' = saved \/ saved' = entry
  /\ UNCHANGED entry

Visit(p, id) ==
  /\ push[p].active /\ push[p].hand = NoId
  /\ id \in push[p].todo /\ entry[id] # 0
  /\ push' = [push EXCEPT ![p] = Pushing(@.todo \ {id}, id, @.done)]
  /\ UNCHANGED <<entry, saved>>

Settle(p) ==
  /\ push[p].hand # NoId
  /\ push' = [push EXCEPT ![p] = Pushing(@.todo, NoId, @.done \cup {@.hand})]
  /\ UNCHANGED <<entry, saved>>

Fail(p) ==
  /\ push[p].hand # NoId
  /\ push' = [push EXCEPT ![p] = Pushing(@.todo, NoId, @.done)]
  /\ UNCHANGED <<entry, saved>>

Finish(p) ==
  /\ push[p].active /\ push[p].hand = NoId
  /\ \A id \in push[p].todo : entry[id] = 0
  /\ entry' = [i \in Ids |-> IF i \in push[p].done THEN 0 ELSE entry[i]]
  /\ push' = [push EXCEPT ![p] = NotPushing]
  /\ UNCHANGED saved

Restart ==
  /\ entry' = saved
  /\ push' = [p \in Pushes |-> NotPushing]
  /\ UNCHANGED saved

Next ==
  \/ \E id \in Ids : Track(id) \/ Drop(id)
  \/ \E p \in Pushes : Begin(p) \/ Settle(p) \/ Fail(p) \/ Finish(p)
  \/ \E p \in Pushes, id \in Ids : Visit(p, id)
  \/ Save \/ Restart

Spec == Init /\ [][Next]_vars
=============================================================================
