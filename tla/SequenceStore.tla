---------------------------- MODULE SequenceStore ----------------------------
(***************************************************************************)
(* One sequence of a vault: calls of next and seedTo, from any number of   *)
(* devices, read the counter row, and put its successor with a compare-    *)
(* and-swap on the row's version, up to MaxAttempts times.  An answer of   *)
(* the store may be lost: the call then throws, or the withRetry           *)
(* middleware sends the same put again.                                    *)
(***************************************************************************)
EXTENDS Naturals, FiniteSets

CONSTANTS
  Calls,       \* the calls that may be made
  Seeds,       \* the floors seedTo may be called with
  MaxAttempts, \* MAX_NEXT_ATTEMPTS
  MaxFaults    \* bound: store answers lost and store calls failed

ASSUME CallsAssumption == IsFiniteSet(Calls)
ASSUME SeedsAssumption == Seeds \subseteq Nat \ {0}
ASSUME BoundsAssumption == MaxAttempts \in Nat \ {0} /\ MaxFaults \in Nat

VARIABLES
  row,     \* the counter row; version 0 stands for no row
  call,    \* the calls
  faults,  \* consumed bound
  burned   \* history: puts of next that were applied and whose answer was lost

vars == <<row, call, faults, burned>>

Rows == [v : Nat, value : Nat]

\* `op` is 0 for next and the floor for seedTo; `seen` is the row as last read.
\* History: the row's version and the highest number given or seeded at the start.
Idle == [pc |-> "idle", op |-> 0, attempt |-> 0, seen |-> [v |-> 0, value |-> 0],
         result |-> 0, start |-> 0, floor |-> 0]

\* A call counts its conflicts up to the bound, and only a done next has a result.
TypeOK ==
  /\ row \in Rows /\ faults \in 0..MaxFaults /\ burned \in Nat
  /\ call \in [Calls -> [pc : {"idle", "read", "put", "done", "failed"},
                         op : Seeds \cup {0}, attempt : 0..MaxAttempts, seen : Rows,
                         result : Nat, start : Nat, floor : Nat]]
  /\ \A c \in Calls : call[c].pc # "failed" => call[c].attempt < MaxAttempts

Init ==
  /\ row = [v |-> 0, value |-> 0]
  /\ call = [c \in Calls |-> Idle]
  /\ faults = 0 /\ burned = 0

Given == {call[c].result : c \in Calls} \ {0}
Seeded == {call[c].op : c \in {d \in Calls : call[d].pc = "done"}} \ {0}

\* Nothing given or seeded so far is above n.
Above(n) == \A m \in Given \cup Seeded : m <= n

-----------------------------------------------------------------------------
Begin(c) ==
  /\ call[c].pc = "idle"
  /\ \E op \in Seeds \cup {0}, f \in Given \cup Seeded \cup {0} :
       /\ Above(f)
       /\ call' = [call EXCEPT ![c] =
            [pc |-> "read", op |-> op, attempt |-> 0, seen |-> [v |-> 0, value |-> 0],
             result |-> 0, start |-> row.v, floor |-> f]]
  /\ UNCHANGED <<row, faults, burned>>

\* Mutant of SeedReached: seedTo sets the counter whatever it holds.
SeedNeverReached(op, value) == FALSE

\* The floor is reached already: seedTo returns without a write.
SeedReached(op, value) == op # 0 /\ value >= op

Read(c) ==
  /\ call[c].pc = "read"
  /\ call' = [call EXCEPT ![c] = [@ EXCEPT !.seen = row,
                 !.pc = IF SeedReached(call[c].op, row.value) THEN "done" ELSE "put"]]
  /\ UNCHANGED <<row, faults, burned>>

\* Mutant of CasAccepts: the put goes out without an expectation.
CasAcceptsAny(v) == TRUE

\* The store's compare-and-swap.  A missing row accepts any expectation.
CasAccepts(v) == row.v \in {0, v}

\* Mutant of Successor: a seed is added to the counter.
SuccessorAdds(c) ==
  [v |-> call[c].seen.v + 1,
   value |-> call[c].seen.value + (IF call[c].op = 0 THEN 1 ELSE call[c].op)]

\* The row a call writes over the row it has seen.
Successor(c) ==
  [v |-> call[c].seen.v + 1,
   value |-> IF call[c].op = 0 THEN call[c].seen.value + 1 ELSE call[c].op]

Put(c) ==
  /\ call[c].pc = "put" /\ CasAccepts(call[c].seen.v)
  /\ row' = Successor(c)
  /\ call' = [call EXCEPT ![c] = [@ EXCEPT !.pc = "done",
                 !.result = IF call[c].op = 0 THEN Successor(c).value ELSE 0]]
  /\ UNCHANGED <<faults, burned>>

\* Mutant of Refused: the loop never gives up.
RefusedForever(r) == [r EXCEPT !.attempt = r.attempt + 1, !.pc = "read"]

\* Mutant of Refused: the refused put is sent again as it is.
RefusedSentAgain(r) == r

\* What a refused put leaves: the next attempt, or SequenceContentionError.
Refused(r) ==
  [r EXCEPT !.attempt = r.attempt + 1,
            !.pc = IF r.attempt + 1 = MaxAttempts THEN "failed" ELSE "read"]

Conflict(c) ==
  /\ call[c].pc = "put" /\ ~CasAccepts(call[c].seen.v)
  /\ call' = [call EXCEPT ![c] = Refused(call[c])]
  /\ UNCHANGED <<row, faults, burned>>

\* The put is applied and its answer lost: the error reaches the caller, or the
\* middleware sends the same put again.
AnswerLost(c) ==
  /\ faults < MaxFaults /\ faults' = faults + 1
  /\ call[c].pc = "put" /\ CasAccepts(call[c].seen.v)
  /\ row' = Successor(c)
  /\ burned' = IF call[c].op = 0 THEN burned + 1 ELSE burned
  /\ \/ call' = [call EXCEPT ![c].pc = "failed"]
     \/ UNCHANGED call

\* Mutant of StoreFails: any error counts as a conflict.
StoreFailsAsConflict(c) ==
  /\ faults < MaxFaults /\ faults' = faults + 1
  /\ call[c].pc \in {"read", "put"}
  /\ call' = [call EXCEPT ![c] = Refused(call[c])]
  /\ UNCHANGED <<row, burned>>

\* A read or a put fails without effect (a retry of it by the middleware is the
\* same step taken later), or the process of the call dies.
StoreFails(c) ==
  /\ faults < MaxFaults /\ faults' = faults + 1
  /\ call[c].pc \in {"read", "put"}
  /\ call' = [call EXCEPT ![c].pc = "failed"]
  /\ UNCHANGED <<row, burned>>

CallStep(c) == Read(c) \/ Put(c) \/ Conflict(c) \/ AnswerLost(c) \/ StoreFails(c)
Next == \E c \in Calls : Begin(c) \/ CallStep(c)

\* The store answers every read and put some time.
Spec == Init /\ [][Next]_vars /\ \A c \in Calls : WF_vars(CallStep(c))

-----------------------------------------------------------------------------
(* Properties. *)

\* Numbers follow real time: a call gets a number above every number returned,
\* and every floor seeded, before it began.
RealTimeOrder == \A c \in Calls : call[c].result # 0 => call[c].result > call[c].floor

\* A number that nobody holds was burned by a lost answer or lies under a seed.
GapsAreLostAnswers ==
  Cardinality({n \in 1..row.value : n \notin Given /\
                 \A c \in Calls : call[c].pc # "idle" => n > call[c].op}) <= burned

\* A call is refused only by puts that landed while it ran: contention fails a
\* call after MaxAttempts successes of others (or lost answers of its own).
LosesOnlyToOthers == \A c \in Calls : call[c].attempt <= row.v - call[c].start

\* Every call returns or throws.
CallsEnd == \A c \in Calls : call[c].pc = "read" ~> call[c].pc \in {"done", "failed"}

\* The sequence is an atomic counter whose step is the accepted put: no number is
\* returned twice.
Counter == INSTANCE CasCounter WITH value <- row.value, got <- [c \in Calls |-> call[c].result]
ImplementsCounter == Counter!Spec
=============================================================================
