------------------------------ MODULE TxCommit ------------------------------
(***************************************************************************)
(* db.transaction(fn) next to plain Collection.put calls in one process:   *)
(* the body reads and stages, then the commit drains the plain writes in   *)
(* flight on its keys, checks every expectedVersion, and either writes op  *)
(* by op (each write a Collection.put of its own, reverted on a failure) or*)
(* hands the batch to the store at once.  A put mints its version from the *)
(* collection's cache, and the cache follows the store a step behind.      *)
(* Deletes are writes here: with sync on, a delete is a marker put at the  *)
(* next version.                                                           *)
(***************************************************************************)
EXTENDS Naturals, Sequences, FiniteSets

CONSTANTS
  Records,
  Txs,        \* the transactions that may run
  Puts,       \* the plain puts that may be called
  Before,     \* who wrote what a record holds at the start
  OpLists,    \* the batches a body may stage: sequences of [rec, checked]
  MaxFaults,  \* bound: puts, finalizers and invariants that throw
  Overlap     \* may two plain puts of one record overlap?

ASSUME ActorsAssumption == Txs \cap Puts = {} /\ Before \notin Txs \cup Puts
ASSUME OpListsAssumption == OpLists \subseteq Seq([rec : Records, checked : BOOLEAN]) \ {<<>>}
ASSUME MaxFaultsAssumption == MaxFaults \in Nat /\ Overlap \in BOOLEAN

VARIABLES
  store,    \* the stored envelope of each record: its version and its writer
  cache,    \* the collection's cache, by which put mints versions
  txAtomic, \* does the store apply a batch as one?
  job,      \* the commits and the puts, each at its place in the code
  faults    \* consumed bound

vars == <<store, cache, txAtomic, job, faults>>

Actors == Txs \cup Puts
Envelopes == [v : Nat \ {0}, by : Actors \cup {Before}]
Initially == [r \in Records |-> [v |-> 1, by |-> Before]]

\* `prior` is the pre-flight's snapshot, `plan` the revert plan, newest first;
\* `seen` is what the body read.  History: `early` holds the puts called before
\* the drain began, `alone` says that no other commit ran at the same time.
Idle == [pc |-> "idle", ops |-> <<>>, at |-> 1, atomic |-> FALSE, waits |-> {},
         seen |-> Initially, prior |-> Initially, plan |-> <<>>, env |-> Initially,
         early |-> {}, alone |-> TRUE]

Places == {"idle", "body", "drain", "preflight", "exec", "put", "cache", "batch",
           "finalize", "revert", "uncache", "done", "aborted"}
Active(a) == job[a].pc \notin {"idle", "done", "aborted"}

\* Every commit and put stands at a place of the code, with envelopes to match: one
\* that reverts has something to revert, one that has ended has not.
TypeOK ==
  /\ {store, cache} \subseteq [Records -> Envelopes] /\ txAtomic \in BOOLEAN
  /\ faults \in 0..MaxFaults
  /\ \A a \in Actors :
       /\ job[a].pc \in Places /\ job[a].ops \in OpLists \cup {<<>>} \cup
                                    {<<[rec |-> r, checked |-> FALSE]>> : r \in Records}
       /\ job[a].at \in 1..(Len(job[a].ops) + 1)
       /\ {job[a].seen, job[a].prior, job[a].env} \subseteq [Records -> Envelopes]
       /\ job[a].plan \in Seq(Records)
       /\ job[a].pc \in {"uncache", "revert"} => job[a].plan # <<>>
       /\ Active(a) \/ job[a].plan = <<>>

Init ==
  /\ store = Initially /\ cache = Initially /\ txAtomic \in BOOLEAN
  /\ job = [a \in Actors |-> Idle] /\ faults = 0

Op(a) == job[a].ops[job[a].at]
Keys(a) == {job[a].ops[i].rec : i \in DOMAIN job[a].ops}
Touched(a) == {job[a].ops[i].rec : i \in 1..(job[a].at - 1)}

\* Mutant of Registered: a commit registers its batch before it drains.
RegisteredCommit(a) == job[a].pc \in {"put", "cache", "body", "drain"}

\* The in-flight gate knows a write from the call of put to its end.
Registered(a) == job[a].pc \in {"put", "cache"}

InFlight(keys) == {a \in Actors : Registered(a) /\ Op(a).rec \in keys}

Becomes(a, next) == job' = [job EXCEPT ![a] = next]
Goes(a, pc) == [job[a] EXCEPT !.pc = pc]

-----------------------------------------------------------------------------
(* Collection.put, called by an application or by a commit's replay. *)

\* The version comes from the cache, not from the store.
Minted(a, r) == [v |-> cache[r].v + 1, by |-> a]

Put(p) ==
  /\ job[p].pc = "idle"
  /\ \E r \in Records :
       /\ Overlap \/ InFlight({r}) \cap Puts = {}
       /\ Becomes(p, [job[p] EXCEPT !.pc = "put", !.ops = <<[rec |-> r, checked |-> FALSE]>>,
                                    !.env[r] = Minted(p, r)])
  /\ UNCHANGED <<store, cache, txAtomic, faults>>

\* The envelope reaches the store, without an expectation.
PutStore(a) ==
  /\ job[a].pc = "put"
  /\ store' = [store EXCEPT ![Op(a).rec] = job[a].env[Op(a).rec]]
  /\ Becomes(a, Goes(a, "cache"))
  /\ UNCHANGED <<cache, txAtomic, faults>>

\* The put returns: a plain one is done, a commit's goes on with the next op.
PutReturns(a) ==
  /\ job[a].pc = "cache"
  /\ cache' = [cache EXCEPT ![Op(a).rec] = job[a].env[Op(a).rec]]
  /\ Becomes(a, IF a \in Puts THEN Goes(a, "done")
                ELSE [job[a] EXCEPT !.pc = "exec", !.at = @ + 1])
  /\ UNCHANGED <<store, txAtomic, faults>>

\* The put throws: before the store write, or in the tail after it.
PutThrows(a) ==
  /\ faults < MaxFaults /\ faults' = faults + 1
  /\ \/ job[a].pc = "put" /\ UNCHANGED cache
     \/ job[a].pc = "cache" /\ cache' = [cache EXCEPT ![Op(a).rec] = job[a].env[Op(a).rec]]
  /\ Becomes(a, Goes(a, IF a \in Puts THEN "aborted" ELSE "revert"))
  /\ UNCHANGED <<store, txAtomic>>

-----------------------------------------------------------------------------
(* runTransaction. *)

\* The body runs on what the collections hold, and stages its ops.
Body(t) ==
  /\ job[t].pc = "idle"
  /\ \E ops \in OpLists :
       job' = [a \in Actors |->
         IF a = t THEN [Idle EXCEPT !.pc = "body", !.ops = ops, !.seen = cache,
                                    !.alone = ~\E u \in Txs \ {t} : Active(u)]
         ELSE IF a \in Txs /\ Active(a) THEN [job[a] EXCEPT !.alone = FALSE]
         ELSE job[a]]
  /\ UNCHANGED <<store, cache, txAtomic, faults>>

\* Mutant of Drain: nothing is waited for.
DrainNothing(t) ==
  /\ job[t].pc = "body"
  /\ Becomes(t, [job[t] EXCEPT !.pc = "drain", !.early = {p \in Puts : job[p].pc # "idle"}])
  /\ UNCHANGED <<store, cache, txAtomic, faults>>

\* The drain takes its snapshot of the writes in flight on the batch's keys.
Drain(t) ==
  /\ job[t].pc = "body"
  /\ Becomes(t, [job[t] EXCEPT !.pc = "drain", !.early = {p \in Puts : job[p].pc # "idle"},
                   !.waits = {<<a, job[a].at>> : a \in InFlight(Keys(t))}])
  /\ UNCHANGED <<store, cache, txAtomic, faults>>

Settled(w) == ~(job[w[1]].at = w[2] /\ Registered(w[1]))

Drained(t) ==
  /\ job[t].pc = "drain" /\ \A w \in job[t].waits : Settled(w)
  /\ Becomes(t, [job[t] EXCEPT !.pc = "preflight", !.waits = {}])
  /\ UNCHANGED <<store, cache, txAtomic, faults>>

\* An op with an expectedVersion that the stored record does not have.
Conflicts(t, env) == Op(t).checked /\ env.v # job[t].seen[Op(t).rec].v

\* The pre-flight reads one op's record, the first time it meets it.
Preflight(t) ==
  /\ job[t].pc = "preflight"
  /\ LET r == Op(t).rec
         env == IF r \in Touched(t) THEN job[t].prior[r] ELSE store[r]
         last == job[t].at = Len(job[t].ops)
     IN Becomes(t, IF Conflicts(t, env) THEN Goes(t, "aborted")
                   ELSE [job[t] EXCEPT !.prior[r] = env, !.at = IF last THEN 1 ELSE @ + 1,
                                       !.pc = IF last THEN "exec" ELSE "preflight"])
  /\ UNCHANGED <<store, cache, txAtomic, faults>>

\* canCommitAtomically, of which the store's side and the repeated id are kept.
MayBeAtomic(t) == txAtomic /\ Cardinality(Keys(t)) = Len(job[t].ops)

\* Mutant of Reverting: the revert runs whatever the plan holds.
RevertingAlways(t, plan) == "revert"

\* The commit has nothing to undo, or starts to undo.
Reverting(t, plan) == IF plan = <<>> THEN "aborted" ELSE "revert"

\* Mutant of Execute: the op enters the revert plan before its check.
ExecutePlansFirst(t) ==
  /\ job[t].pc = "exec" /\ job[t].at <= Len(job[t].ops)
  /\ LET r == Op(t).rec IN
     Becomes(t, IF r \notin Touched(t) /\ Conflicts(t, store[r])
                THEN [job[t] EXCEPT !.pc = "revert", !.plan = <<r>> \o @]
                ELSE [job[t] EXCEPT !.pc = "put", !.plan = <<r>> \o @,
                                    !.env[r] = Minted(t, r)])
  /\ UNCHANGED <<store, cache, txAtomic, faults>>

\* One op on the per-op path: its version is checked again, it enters the revert
\* plan and Collection.put is called.
Execute(t) ==
  /\ job[t].pc = "exec" /\ job[t].at <= Len(job[t].ops)
  /\ LET r == Op(t).rec IN
     Becomes(t, IF r \notin Touched(t) /\ Conflicts(t, store[r])
                THEN Goes(t, Reverting(t, job[t].plan))
                ELSE [job[t] EXCEPT !.pc = "put", !.plan = <<r>> \o @,
                                    !.env[r] = Minted(t, r)])
  /\ UNCHANGED <<store, cache, txAtomic, faults>>

\* The batch is prepared op by op without side effects.
Prepare(t) ==
  /\ job[t].pc = "exec" /\ job[t].at = 1 /\ MayBeAtomic(t)
  /\ Becomes(t, [job[t] EXCEPT !.pc = "batch", !.atomic = TRUE,
       !.env = [r \in Records |-> IF r \in Keys(t) THEN Minted(t, r) ELSE job[t].env[r]],
       !.plan = [i \in DOMAIN job[t].ops |-> job[t].ops[Len(job[t].ops) + 1 - i].rec]])
  /\ UNCHANGED <<store, cache, txAtomic, faults>>

\* store.tx: every leg expects the pre-flight's version, checked or not.
LegFits(t, r) == store[r].v = job[t].prior[r].v

Batch(t) ==
  /\ job[t].pc = "batch"
  /\ \/ /\ \A r \in Keys(t) : LegFits(t, r)
        /\ store' = [r \in Records |-> IF r \in Keys(t) THEN job[t].env[r] ELSE store[r]]
        /\ Becomes(t, Goes(t, "finalize"))
     \/ /\ \E r \in Keys(t) : ~LegFits(t, r)
        /\ Becomes(t, [job[t] EXCEPT !.pc = "aborted", !.plan = <<>>])
        /\ UNCHANGED store
  /\ UNCHANGED <<cache, txAtomic, faults>>

Finalize(t) ==
  /\ job[t].pc = "finalize" /\ job[t].at <= Len(job[t].ops)
  /\ cache' = [cache EXCEPT ![Op(t).rec] = job[t].env[Op(t).rec]]
  /\ Becomes(t, [job[t] EXCEPT !.at = @ + 1])
  /\ UNCHANGED <<store, txAtomic, faults>>

Commit(t) ==
  /\ job[t].pc \in {"exec", "finalize"} /\ job[t].at > Len(job[t].ops)
  /\ Becomes(t, [job[t] EXCEPT !.pc = "done", !.plan = <<>>])
  /\ UNCHANGED <<store, cache, txAtomic, faults>>

\* A finalizer throws, or an invariant refuses the changes already written.
Refused(t) ==
  /\ faults < MaxFaults /\ faults' = faults + 1
  /\ job[t].pc = "finalize" \/ (job[t].pc = "exec" /\ job[t].at > Len(job[t].ops))
  /\ Becomes(t, Goes(t, "revert"))
  /\ UNCHANGED <<store, cache, txAtomic>>

\* revertExecuted puts the snapshot back raw: all at once when the store can.
Revert(t) ==
  /\ job[t].pc = "revert"
  /\ LET back == IF txAtomic THEN {job[t].plan[i] : i \in DOMAIN job[t].plan}
                 ELSE {job[t].plan[1]}
     IN store' = [r \in Records |-> IF r \in back THEN job[t].prior[r] ELSE store[r]]
  /\ Becomes(t, Goes(t, "uncache"))
  /\ UNCHANGED <<cache, txAtomic, faults>>

\* Mutant of Uncache: the cache keeps the reverted write.
UncacheNothing(t) ==
  /\ job[t].pc = "uncache"
  /\ Becomes(t, [job[t] EXCEPT !.plan = Tail(@),
                   !.pc = IF Len(job[t].plan) = 1 THEN "aborted"
                          ELSE IF txAtomic THEN "uncache" ELSE "revert"])
  /\ UNCHANGED <<store, cache, txAtomic, faults>>

\* _invalidateCacheEntry reads the record again; then the next leg, or the throw.
Uncache(t) ==
  /\ job[t].pc = "uncache"
  /\ cache' = [cache EXCEPT ![job[t].plan[1]] = store[job[t].plan[1]]]
  /\ Becomes(t, [job[t] EXCEPT !.plan = Tail(@),
                   !.pc = IF Len(job[t].plan) = 1 THEN "aborted"
                          ELSE IF txAtomic THEN "uncache" ELSE "revert"])
  /\ UNCHANGED <<store, txAtomic, faults>>

PutStep(a) == PutStore(a) \/ PutReturns(a) \/ PutThrows(a)
TxStep(t) == Drain(t) \/ Drained(t) \/ Preflight(t) \/ Execute(t) \/ Prepare(t) \/ Batch(t)
             \/ Finalize(t) \/ Commit(t) \/ Refused(t) \/ Revert(t) \/ Uncache(t)

Next == \/ \E p \in Puts : Put(p) \/ PutStep(p)
        \/ \E t \in Txs : Body(t) \/ TxStep(t) \/ PutStep(t)

\* The store answers and promises resolve.
Fairness == /\ \A a \in Actors : WF_vars(PutStep(a))
            /\ \A t \in Txs : WF_vars(TxStep(t))
Spec == Init /\ [][Next]_vars /\ Fairness

-----------------------------------------------------------------------------
(* Properties. *)

\* Commit t writes its first op on r in this step, and that op gave a version.
Checked(t, r) == \E i \in DOMAIN job[t].ops :
  /\ job[t].ops[i] = [rec |-> r, checked |-> TRUE]
  /\ \A j \in 1..(i - 1) : job[t].ops[j].rec # r
WritesFirst(t, r) ==
  /\ Checked(t, r)
  /\ \/ job[t].pc = "put" /\ job'[t].pc = "cache" /\ Op(t).rec = r /\ r \notin Touched(t)
     \/ job[t].pc = "batch" /\ job'[t].pc = "finalize"

\* Of a put called before the drain and a commit with an expectedVersion neither
\* overwrites the other unseen: the commit replaces what its body read, and the put
\* does not land on the commit.  (Other commits at the same time are not excluded
\* by the code; they are here.)
CommitRespectsEarlierPuts ==
  [][\A t \in Txs, r \in Records : job[t].alone /\ WritesFirst(t, r) =>
       /\ store[r].by \in job[t].early => store[r] = job[t].seen[r]
       /\ \A p \in job[t].early : job[p].pc = "put" => Op(p).rec # r]_vars

\* After an aborted commit nothing of it is left, in the store or in the cache.
AbortedLeavesNothing ==
  \A t \in Txs, r \in Records :
    job[t].pc = "aborted" /\ job[t].alone => store[r].by # t /\ cache[r].by # t

\* A revert puts back only what the commit wrote or was writing: never the record
\* whose check refused it, which holds another writer's put.
RevertStaysInside ==
  [][\A t \in Txs, r \in Records :
       job[t].pc = "revert" /\ job'[t].pc = "uncache" /\ store'[r] # store[r]
         => job[t].env[r].by = t]_vars

\* A commit ends: the drain waits for no one who waits for it.
CommitEnds == \A t \in Txs : job[t].pc = "body" ~> job[t].pc \in {"done", "aborted"}
=============================================================================
