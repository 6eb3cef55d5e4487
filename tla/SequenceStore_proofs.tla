------------------------ MODULE SequenceStore_proofs ------------------------
(***************************************************************************)
(* Theorems about SequenceStore for any calls, seeds, bounds and faults.   *)
(***************************************************************************)
EXTENDS SequenceStore, FiniteSetTheorems, TLAPS

CallRecords == [pc : {"idle", "read", "put", "done", "failed"},
                op : Seeds \cup {0}, attempt : 0..MaxAttempts, seen : Rows,
                result : Nat, start : Nat, floor : Nat]

\* The row and what the calls know of it.  A row's version identifies its value, so a
\* call about to put either has the current row in hand or is behind its version.
RowInv ==
  /\ row.v = 0 => row.value = 0
  /\ \A c \in Calls : call[c].pc = "put" =>
       /\ call[c].seen.v <= row.v /\ call[c].seen.value <= row.value
       /\ call[c].seen.v = row.v => call[c].seen = row
       /\ call[c].op # 0 => call[c].seen.value < call[c].op

\* Everything given or seeded lies at or below the row's value, and so did what a call
\* found given when it began.
OrderInv ==
  \A c \in Calls :
    /\ call[c].pc # "done" => call[c].result = 0
    /\ call[c].result <= row.value
    /\ call[c].pc = "done" => call[c].op <= row.value
    /\ call[c].floor <= row.value
    /\ call[c].pc = "put" => call[c].floor <= call[c].seen.value
    /\ call[c].result # 0 => call[c].result > call[c].floor

\* Every attempt counted so far was lost to a version written since the call began.
AttemptInv ==
  \A c \in Calls :
    /\ call[c].start <= row.v
    /\ call[c].attempt <= row.v - call[c].start
    /\ call[c].pc = "put" => /\ call[c].start <= call[c].seen.v
                             /\ call[c].attempt <= call[c].seen.v - call[c].start

SeqInv == TypeOK /\ RowInv /\ OrderInv /\ AttemptInv

LEMMA InitInv == Init => SeqInv
<1> SUFFICES ASSUME Init PROVE SeqInv
  OBVIOUS
<1>1. /\ row \in Rows /\ row.v = 0 /\ row.value = 0
      /\ faults \in 0..MaxFaults /\ burned \in Nat
  BY BoundsAssumption DEF Init, Rows
<1>2. Idle \in CallRecords
  BY BoundsAssumption DEF Idle, CallRecords, Rows
<1>3. \A c \in Calls : call[c] = Idle
  BY DEF Init
<1>4. TypeOK
  <2>1. call \in [Calls -> CallRecords]
    BY <1>2 DEF Init
  <2> QED
    BY <1>1, <1>3, <2>1, BoundsAssumption DEF TypeOK, CallRecords, Idle
<1> QED
  BY <1>1, <1>3, <1>4 DEF SeqInv, RowInv, OrderInv, AttemptInv, Idle

\* What the invariant says of one call.
CallInv(r, q) ==
  /\ r \in CallRecords
  /\ r.pc # "failed" => r.attempt < MaxAttempts
  /\ r.pc = "put" =>
       /\ r.seen.v <= q.v /\ r.seen.value <= q.value
       /\ r.seen.v = q.v => r.seen = q
       /\ r.op # 0 => r.seen.value < r.op
       /\ r.floor <= r.seen.value
       /\ r.start <= r.seen.v /\ r.attempt <= r.seen.v - r.start
  /\ r.pc # "done" => r.result = 0
  /\ r.result <= q.value /\ r.floor <= q.value
  /\ r.pc = "done" => r.op <= q.value
  /\ r.result # 0 => r.result > r.floor
  /\ r.start <= q.v /\ r.attempt <= q.v - r.start

GlobalInv(q) ==
  /\ q \in Rows /\ faults \in 0..MaxFaults /\ burned \in Nat
  /\ q.v = 0 => q.value = 0

LEMMA PerCall ==
  SeqInv <=> /\ GlobalInv(row) /\ call \in [Calls -> CallRecords]
             /\ \A c \in Calls : CallInv(call[c], row)
BY DEF SeqInv, TypeOK, RowInv, OrderInv, AttemptInv, GlobalInv, CallInv, CallRecords

LEMMA RecordTypes ==
  ASSUME NEW r \in CallRecords
  PROVE  /\ r.op \in Nat /\ r.attempt \in Nat /\ r.result \in Nat /\ r.start \in Nat
         /\ r.floor \in Nat /\ r.seen \in Rows /\ r.seen.v \in Nat /\ r.seen.value \in Nat
<1>1. Seeds \cup {0} \subseteq Nat /\ 0..MaxAttempts \subseteq Nat
  BY SeedsAssumption, BoundsAssumption
<1>2. r.op \in Seeds \cup {0} /\ r.attempt \in 0..MaxAttempts /\ r.seen \in Rows
      /\ r.result \in Nat /\ r.start \in Nat /\ r.floor \in Nat
  BY DEF CallRecords
<1>3. r.seen.v \in Nat /\ r.seen.value \in Nat
  BY <1>2 DEF Rows
<1> QED
  BY <1>1, <1>2, <1>3

\* A newer row leaves the other calls as they are.
LEMMA RowMoves ==
  ASSUME NEW q \in Rows, NEW q2 \in Rows, q2.v > q.v, q2.value >= q.value,
         NEW r, CallInv(r, q)
  PROVE  CallInv(r, q2)
<1>1. q.v \in Nat /\ q2.v \in Nat /\ q.value \in Nat /\ q2.value \in Nat
  BY DEF Rows
<1>2. r.seen.v \in Nat /\ r.seen.value \in Nat /\ r.op \in Nat /\ r.attempt \in Nat
      /\ r.result \in Nat /\ r.start \in Nat /\ r.floor \in Nat
  BY RecordTypes DEF CallInv
<1>3. r.pc = "put" => r.seen.v < q2.v /\ r.seen.value <= q2.value
  BY <1>1, <1>2 DEF CallInv
<1>4. r.start <= q2.v /\ r.attempt <= q2.v - r.start
  BY <1>1, <1>2 DEF CallInv
<1>5. r.result <= q2.value /\ r.floor <= q2.value /\ (r.pc = "done" => r.op <= q2.value)
  BY <1>1, <1>2 DEF CallInv
<1>6. r.pc = "put" => r.seen.v # q2.v
  BY <1>1, <1>2, <1>3
<1> QED
  BY <1>1, <1>2, <1>3, <1>4, <1>5, <1>6 DEF CallInv

\* A step that moves call c, and may put a newer row.
LEMMA OneCallMoves ==
  ASSUME SeqInv, NEW c \in Calls, NEW r,
         row' = row \/ (row' \in Rows /\ row'.v > row.v /\ row'.value >= row.value),
         CallInv(r, row'),
         faults' \in 0..MaxFaults, burned' \in Nat, call' = [call EXCEPT ![c] = r]
  PROVE  SeqInv'
<1>1. /\ GlobalInv(row) /\ call \in [Calls -> CallRecords]
      /\ \A d \in Calls : CallInv(call[d], row)
  BY PerCall
<1>2. row' \in Rows /\ (row'.v = 0 => row'.value = 0)
  BY <1>1 DEF GlobalInv, Rows
<1>3. call' \in [Calls -> CallRecords]
  BY <1>1 DEF CallInv
<1>4. ASSUME NEW d \in Calls PROVE CallInv(call'[d], row')
  <2>1. CASE d = c
    BY <1>1, <2>1
  <2>2. CASE d # c /\ row' = row
    BY <1>1, <2>2
  <2>3. CASE d # c /\ row' # row
    <3>1. row \in Rows /\ CallInv(call[d], row)
      BY <1>1 DEF GlobalInv
    <3> QED
      BY <1>1, <2>3, <3>1, RowMoves
  <2> QED
    BY <2>1, <2>2, <2>3
<1> QED
  BY <1>2, <1>3, <1>4 DEF SeqInv, TypeOK, RowInv, OrderInv, AttemptInv, CallInv, CallRecords

\* What was given or seeded lies at or below the row's value.
LEMMA Types ==
  ASSUME SeqInv, NEW c \in Calls
  PROVE  /\ call[c] \in CallRecords /\ CallInv(call[c], row) /\ GlobalInv(row)
         /\ row.v \in Nat /\ row.value \in Nat /\ row = [v |-> row.v, value |-> row.value]
         /\ call[c].seen.v \in Nat /\ call[c].seen.value \in Nat /\ call[c].op \in Nat
         /\ call[c].attempt \in Nat /\ call[c].result \in Nat /\ call[c].start \in Nat
         /\ call[c].floor \in Nat
<1>1. /\ GlobalInv(row) /\ call[c] \in CallRecords /\ CallInv(call[c], row)
  BY PerCall
<1>2. row \in Rows
  BY <1>1 DEF GlobalInv
<1>3. /\ call[c].op \in Nat /\ call[c].attempt \in Nat /\ call[c].result \in Nat
      /\ call[c].start \in Nat /\ call[c].floor \in Nat /\ call[c].seen \in Rows
  BY <1>1, RecordTypes
<1>4. \A q \in Rows : q.v \in Nat /\ q.value \in Nat /\ q = [v |-> q.v, value |-> q.value]
  BY DEF Rows
<1> QED
  BY <1>1, <1>2, <1>3, <1>4

LEMMA GivenBelow ==
  ASSUME SeqInv, NEW f \in Given \cup Seeded \cup {0}
  PROVE  f \in Nat /\ f <= row.value
<1>1. row.value \in Nat
  BY DEF SeqInv, TypeOK, Rows
<1>2. \A c \in Calls : call[c].result \in Nat /\ call[c].op \in Nat
  BY Types
<1> QED
  BY <1>1, <1>2 DEF SeqInv, OrderInv, Given, Seeded

LEMMA BeginInv == ASSUME SeqInv, NEW c \in Calls, Begin(c) PROVE SeqInv'
<1>1. PICK op \in Seeds \cup {0}, f \in Given \cup Seeded \cup {0} :
        call' = [call EXCEPT ![c] =
          [pc |-> "read", op |-> op, attempt |-> 0, seen |-> [v |-> 0, value |-> 0],
           result |-> 0, start |-> row.v, floor |-> f]]
  BY DEF Begin
<1> DEFINE r == [pc |-> "read", op |-> op, attempt |-> 0, seen |-> [v |-> 0, value |-> 0],
                 result |-> 0, start |-> row.v, floor |-> f]
<1>2. call' = [call EXCEPT ![c] = r]
  BY <1>1
<1>3. f \in Nat /\ f <= row.value
  BY GivenBelow
<1>4. row' = row /\ faults' \in 0..MaxFaults /\ burned' \in Nat
      /\ row.v \in Nat /\ row.value \in Nat
  BY Types DEF Begin, GlobalInv
<1>5. r \in CallRecords
  BY <1>3, <1>4, BoundsAssumption DEF CallRecords, Rows
<1>6. CallInv(r, row)
  BY <1>3, <1>4, <1>5, BoundsAssumption DEF CallInv
<1> HIDE DEF r
<1> QED
  BY <1>2, <1>4, <1>6, OneCallMoves

LEMMA ReadInv == ASSUME SeqInv, NEW c \in Calls, Read(c) PROVE SeqInv'
<1> DEFINE pc == IF SeedReached(call[c].op, row.value) THEN "done" ELSE "put"
           r == [call[c] EXCEPT !.seen = row, !.pc = pc]
<1>1. call' = [call EXCEPT ![c] = r]
  BY DEF Read
<1>2. row' = row /\ faults' \in 0..MaxFaults /\ burned' \in Nat
  BY Types DEF Read, GlobalInv
<1>3. /\ r \in CallRecords /\ r.seen = row /\ r.pc = pc
      /\ r.op = call[c].op /\ r.attempt = call[c].attempt /\ r.result = call[c].result
      /\ r.start = call[c].start /\ r.floor = call[c].floor
  BY Types DEF CallRecords, GlobalInv
<1>4. call[c].pc = "read"
  BY DEF Read
<1>5. pc = "put" /\ call[c].op # 0 => row.value < call[c].op
  BY Types DEF SeedReached
<1>6. pc = "done" => call[c].op <= row.value
  BY Types DEF SeedReached
<1>7. pc \in {"put", "done"}
  OBVIOUS
<1> HIDE DEF r, pc
<1>8. CallInv(r, row)
  BY <1>3, <1>4, <1>5, <1>6, <1>7, Types DEF CallInv
<1> QED
  BY <1>1, <1>2, <1>8, OneCallMoves

\* The accepted put is the successor of the row that is there.
LEMMA PutIsSuccessor ==
  ASSUME SeqInv, NEW c \in Calls, call[c].pc = "put", CasAccepts(call[c].seen.v)
  PROVE  /\ call[c].seen = row
         /\ Successor(c) \in Rows /\ Successor(c).v = row.v + 1
         /\ call[c].op = 0 => Successor(c).value = row.value + 1
         /\ call[c].op # 0 => Successor(c).value = call[c].op /\ call[c].op > row.value
<1>1. call[c].seen = row
  BY Types DEF CasAccepts, CallInv
<1>2. call[c].op # 0 => row.value < call[c].op
  BY <1>1 DEF SeqInv, RowInv
<1>3. row.v \in Nat /\ row.value \in Nat /\ call[c].op \in Nat
  BY Types
<1> QED
  BY <1>1, <1>2, <1>3 DEF Successor, Rows

LEMMA PutInv == ASSUME SeqInv, NEW c \in Calls, Put(c) PROVE SeqInv'
<1> DEFINE given == IF call[c].op = 0 THEN Successor(c).value ELSE 0
           r == [call[c] EXCEPT !.pc = "done", !.result = given]
<1>1. call' = [call EXCEPT ![c] = r]
  BY DEF Put
<1>2. row' = Successor(c) /\ call[c].pc = "put" /\ CasAccepts(call[c].seen.v)
      /\ faults' \in 0..MaxFaults /\ burned' \in Nat
  BY Types DEF Put, GlobalInv
<1>3. /\ row' \in Rows /\ row'.v = row.v + 1 /\ call[c].seen = row
      /\ call[c].op = 0 => row'.value = row.value + 1
      /\ call[c].op # 0 => row'.value = call[c].op /\ call[c].op > row.value
  BY <1>2, PutIsSuccessor
<1>4. given \in Nat /\ given <= row'.value /\ (given # 0 => given > row.value)
  BY <1>2, <1>3, Types
<1>5. /\ r \in CallRecords /\ r.pc = "done" /\ r.result = given
      /\ r.op = call[c].op /\ r.attempt = call[c].attempt
      /\ r.start = call[c].start /\ r.floor = call[c].floor
  BY <1>4, Types DEF CallRecords
<1> HIDE DEF r, given
<1>6. row'.v > row.v /\ row'.value > row.value
  BY <1>3, Types
<1>7. CallInv(r, row')
  <2>1. call[c].floor <= row.value /\ call[c].start <= row.v
        /\ call[c].attempt <= row.v - call[c].start /\ call[c].attempt < MaxAttempts
    BY <1>2, Types DEF CallInv
  <2>2. row'.v \in Nat /\ row'.value \in Nat
    BY <1>3 DEF Rows
  <2>3. r.floor <= row'.value /\ r.start <= row'.v /\ r.attempt <= row'.v - r.start
    BY <2>1, <2>2, <1>5, <1>6, Types
  <2>4. r.op <= row'.value
    BY <2>2, <1>3, <1>5, Types
  <2>5. r.result # 0 => r.result > r.floor
    BY <2>1, <1>4, <1>5, Types
  <2> QED
    BY <2>1, <2>3, <2>4, <2>5, <1>4, <1>5 DEF CallInv
<1> QED
  <2>1. row' \in Rows /\ row'.v > row.v /\ row'.value >= row.value
    BY <1>3, <1>6, Types DEF Rows
  <2> QED
    BY <2>1, <1>1, <1>2, <1>7, OneCallMoves

LEMMA ConflictInv == ASSUME SeqInv, NEW c \in Calls, Conflict(c) PROVE SeqInv'
<1> DEFINE r == Refused(call[c])
<1>1. call' = [call EXCEPT ![c] = r]
  BY DEF Conflict
<1>2. row' = row /\ faults' \in 0..MaxFaults /\ burned' \in Nat
      /\ call[c].pc = "put" /\ ~CasAccepts(call[c].seen.v)
  BY Types DEF Conflict, GlobalInv
<1>3. call[c].attempt < MaxAttempts /\ call[c].attempt + 1 <= row.v - call[c].start
  BY <1>2, Types DEF CallInv, CasAccepts
<1> DEFINE n == call[c].attempt + 1
           pc == IF n = MaxAttempts THEN "failed" ELSE "read"
<1>4. /\ r \in CallRecords /\ r.attempt = n /\ r.pc = pc
      /\ r.op = call[c].op /\ r.result = call[c].result
      /\ r.start = call[c].start /\ r.floor = call[c].floor
  <2>1. n \in 0..MaxAttempts /\ pc \in {"failed", "read"} /\ call[c] \in CallRecords
    BY <1>3, Types, BoundsAssumption
  <2>2. r = [call[c] EXCEPT !.attempt = n, !.pc = pc]
    BY DEF Refused
  <2> HIDE DEF n, pc, r
  <2> QED
    BY <2>1, <2>2 DEF CallRecords
<1> HIDE DEF r
<1>5. CallInv(r, row)
  BY <1>2, <1>3, <1>4, Types, BoundsAssumption DEF CallInv
<1> QED
  BY <1>1, <1>2, <1>5, OneCallMoves

\* A call that fails, whatever it was doing, over the same or a newer row.
LEMMA FailedCall ==
  ASSUME NEW r \in CallRecords, NEW q \in Rows, CallInv(r, q), r.pc \in {"read", "put"}
  PROVE  CallInv([r EXCEPT !.pc = "failed"], q)
<1> DEFINE f == [r EXCEPT !.pc = "failed"]
<1>1. /\ f \in CallRecords /\ f.pc = "failed" /\ f.op = r.op /\ f.attempt = r.attempt
      /\ f.result = r.result /\ f.start = r.start /\ f.floor = r.floor
  BY DEF CallRecords
<1> HIDE DEF f
<1>2. CallInv(f, q)
  BY <1>1 DEF CallInv
<1> QED
  BY <1>2 DEF f

LEMMA StoreFailsInv == ASSUME SeqInv, NEW c \in Calls, StoreFails(c) PROVE SeqInv'
<1> DEFINE r == [call[c] EXCEPT !.pc = "failed"]
<1>1. call' = [call EXCEPT ![c] = r] /\ call[c].pc \in {"read", "put"}
  BY DEF StoreFails
<1>2. row' = row /\ faults' \in 0..MaxFaults /\ burned' \in Nat
  BY Types, BoundsAssumption DEF StoreFails, GlobalInv
<1>3. CallInv(r, row)
  BY <1>1, Types, FailedCall DEF GlobalInv
<1> HIDE DEF r
<1> QED
  BY <1>1, <1>2, <1>3, OneCallMoves

LEMMA AnswerLostInv == ASSUME SeqInv, NEW c \in Calls, AnswerLost(c) PROVE SeqInv'
<1>1. row' = Successor(c) /\ call[c].pc = "put" /\ CasAccepts(call[c].seen.v)
      /\ faults' \in 0..MaxFaults /\ burned' \in Nat
  BY Types, BoundsAssumption DEF AnswerLost, GlobalInv
<1>2. /\ row' \in Rows /\ row'.v = row.v + 1 /\ row'.value > row.value
  BY <1>1, PutIsSuccessor, Types
<1>3. row'.v > row.v /\ row'.value >= row.value /\ row \in Rows
  BY <1>2, Types DEF GlobalInv, Rows
<1>4. CallInv(call[c], row')
  BY <1>2, <1>3, Types, RowMoves
<1>5. CASE call' = [call EXCEPT ![c].pc = "failed"]
  <2> DEFINE r == [call[c] EXCEPT !.pc = "failed"]
  <2>1. CallInv(r, row')
    BY <1>1, <1>2, <1>4, Types, FailedCall
  <2>2. call' = [call EXCEPT ![c] = r]
    BY <1>5
  <2> HIDE DEF r
  <2> QED
    BY <2>1, <2>2, <1>1, <1>2, <1>3, OneCallMoves
<1>6. CASE call' = call
  <2>1. call' = [call EXCEPT ![c] = call[c]]
    BY <1>6 DEF SeqInv, TypeOK
  <2> QED
    BY <2>1, <1>1, <1>2, <1>3, <1>4, OneCallMoves
<1> QED
  BY <1>5, <1>6 DEF AnswerLost

LEMMA StepInv == SeqInv /\ [Next]_vars => SeqInv'
<1> SUFFICES ASSUME SeqInv, [Next]_vars PROVE SeqInv'
  OBVIOUS
<1>1. ASSUME NEW c \in Calls, Begin(c) \/ CallStep(c) PROVE SeqInv'
  BY <1>1, BeginInv, ReadInv, PutInv, ConflictInv, AnswerLostInv, StoreFailsInv DEF CallStep
<1>2. CASE UNCHANGED vars
  BY <1>2 DEF vars, SeqInv, TypeOK, RowInv, OrderInv, AttemptInv
<1> QED
  BY <1>1, <1>2 DEF Next

LEMMA Invariance == Spec => []SeqInv
<1>1. Init => SeqInv
  BY InitInv
<1> QED
  BY <1>1, StepInv, PTL DEF Spec

-----------------------------------------------------------------------------
(* The theorems. *)

\* Every reachable state is well formed: a call that has not failed has attempts left.
THEOREM TypeCorrect == Spec => []TypeOK
BY Invariance, PTL DEF SeqInv

\* However many calls race and whatever answers are lost, a number is above every
\* number returned, and every floor seeded, before its call began.
THEOREM NumbersFollowTime == Spec => []RealTimeOrder
<1>1. SeqInv => RealTimeOrder
  BY DEF SeqInv, OrderInv, RealTimeOrder
<1> QED
  BY <1>1, Invariance, PTL

\* A call loses its attempts only to puts that were applied while it ran.
THEOREM ContentionIsProgress == Spec => []LosesOnlyToOthers
<1>1. SeqInv => LosesOnlyToOthers
  BY DEF SeqInv, AttemptInv, LosesOnlyToOthers
<1> QED
  BY <1>1, Invariance, PTL

-----------------------------------------------------------------------------
(* Numbers that nobody holds. *)

Gaps == {n \in 1..row.value : n \notin Given /\
           \A c \in Calls : call[c].pc # "idle" => n > call[c].op}

GapInv == SeqInv /\ Cardinality(Gaps) <= burned

LEMMA GapsFinite ==
  ASSUME NEW top \in Nat, NEW S, S \subseteq 1..top
  PROVE  IsFiniteSet(S) /\ Cardinality(S) \in Nat
<1>1. IsFiniteSet(1..top) /\ S \in SUBSET (1..top)
  BY FS_Interval
<1>2. IsFiniteSet(S)
  BY <1>1, FS_Subset
<1> QED
  BY <1>2, FS_CardinalityType

\* A call that has begun keeps its floor, and a result once given is kept.
CallsKeep ==
  \A c \in Calls :
    /\ call[c].pc # "idle" => call'[c].pc # "idle" /\ call'[c].op = call[c].op
    /\ call[c].result # 0 => call'[c].result = call[c].result

LEMMA OneCallKeeps ==
  ASSUME SeqInv, NEW c \in Calls, NEW r, call' = [call EXCEPT ![c] = r],
         call[c].pc = "idle" \/ (r.pc # "idle" /\ r.op = call[c].op),
         call[c].pc # "done" \/ r.result = call[c].result
  PROVE  CallsKeep
<1>1. call[c].pc # "done" => call[c].result = 0
  BY DEF SeqInv, OrderInv
<1> QED
  BY <1>1 DEF CallsKeep, SeqInv, TypeOK

LEMMA StepKeepsCalls == SeqInv /\ [Next]_vars => CallsKeep
<1> SUFFICES ASSUME SeqInv, [Next]_vars PROVE CallsKeep
  OBVIOUS
<1>1. CASE UNCHANGED vars
  BY <1>1 DEF vars, CallsKeep
<1>2. ASSUME NEW c \in Calls, Begin(c) PROVE CallsKeep
  <2>1. PICK r : call' = [call EXCEPT ![c] = r]
    BY <1>2 DEF Begin
  <2> QED
    BY <1>2, <2>1, OneCallKeeps DEF Begin
<1>3. ASSUME NEW c \in Calls, CallStep(c) PROVE CallsKeep
  <2>1. call[c] \in CallRecords
    BY Types
  <2>2. CASE Read(c)
    <3> DEFINE r == [call[c] EXCEPT !.seen = row,
                       !.pc = IF SeedReached(call[c].op, row.value) THEN "done" ELSE "put"]
    <3>1. call' = [call EXCEPT ![c] = r]
      BY <2>2 DEF Read
    <3>2. r.pc # "idle" /\ r.op = call[c].op /\ call[c].pc # "done"
      BY <2>1, <2>2 DEF CallRecords, Read
    <3> HIDE DEF r
    <3> QED
      BY <3>1, <3>2, OneCallKeeps
  <2>3. CASE Put(c)
    <3> DEFINE r == [call[c] EXCEPT !.pc = "done",
                       !.result = IF call[c].op = 0 THEN Successor(c).value ELSE 0]
    <3>1. call' = [call EXCEPT ![c] = r]
      BY <2>3 DEF Put
    <3>2. r.pc # "idle" /\ r.op = call[c].op /\ call[c].pc # "done"
      BY <2>1, <2>3 DEF CallRecords, Put
    <3> HIDE DEF r
    <3> QED
      BY <3>1, <3>2, OneCallKeeps
  <2>4. CASE Conflict(c)
    <3> DEFINE r == Refused(call[c])
    <3>1. call' = [call EXCEPT ![c] = r]
      BY <2>4 DEF Conflict
    <3>2. r.pc # "idle" /\ r.op = call[c].op /\ call[c].pc # "done"
      BY <2>1, <2>4 DEF CallRecords, Conflict, Refused
    <3> HIDE DEF r
    <3> QED
      BY <3>1, <3>2, OneCallKeeps
  <2>5. CASE call' = [call EXCEPT ![c].pc = "failed"] /\ call[c].pc \in {"read", "put"}
    <3> DEFINE r == [call[c] EXCEPT !.pc = "failed"]
    <3>1. call' = [call EXCEPT ![c] = r]
      BY <2>5
    <3>2. r.pc # "idle" /\ r.op = call[c].op /\ call[c].pc # "done"
      BY <2>1, <2>5 DEF CallRecords
    <3> HIDE DEF r
    <3> QED
      BY <3>1, <3>2, OneCallKeeps
  <2>6. CASE UNCHANGED call
    BY <2>6 DEF CallsKeep
  <2> QED
    BY <1>3, <2>2, <2>3, <2>4, <2>5, <2>6 DEF CallStep, AnswerLost, StoreFails
<1> QED
  BY <1>1, <1>2, <1>3 DEF Next

\* A number at or below the row's value that is a gap after a step was one before it.
LEMMA NoOldGaps ==
  ASSUME SeqInv, CallsKeep, NEW n \in Gaps', n <= row.value
  PROVE  n \in Gaps
<1>1. n \in 1..row.value
  BY DEF Gaps, SeqInv, TypeOK, Rows
<1>2. n \notin Given
  <2>1. n \notin Given' /\ n # 0
    BY <1>1 DEF Gaps
  <2>2. ASSUME NEW c \in Calls, call[c].result = n PROVE FALSE
    <3>1. call'[c].result = n
      BY <2>1, <2>2 DEF CallsKeep
    <3> QED
      BY <2>1, <3>1 DEF Given
  <2> QED
    BY <2>2 DEF Given
<1>3. \A c \in Calls : call[c].pc # "idle" => n > call[c].op
  BY DEF Gaps, CallsKeep
<1> QED
  BY <1>1, <1>2, <1>3 DEF Gaps

\* A step adds the number it burns, and no other, to the gaps.
LEMMA NewGap ==
  ASSUME SeqInv, [Next]_vars, SeqInv'
  PROVE  \/ Gaps' \subseteq Gaps /\ burned' \in {burned, burned + 1}
         \/ Gaps' \subseteq Gaps \cup {row.value + 1} /\ burned' = burned + 1
<1>1. CallsKeep /\ row.value \in Nat /\ row'.value \in Nat
  BY StepKeepsCalls DEF SeqInv, TypeOK, Rows
<1>2. CASE row' = row /\ burned' = burned
  <2>1. Gaps' \subseteq Gaps
    BY <1>1, <1>2, NoOldGaps DEF Gaps
  <2> QED
    BY <1>2, <2>1
<1>3. ASSUME NEW c \in Calls, call[c].pc = "put", CasAccepts(call[c].seen.v),
             row' = Successor(c), Put(c) \/ AnswerLost(c)
      PROVE  \/ Gaps' \subseteq Gaps /\ burned' \in {burned, burned + 1}
             \/ Gaps' \subseteq Gaps \cup {row.value + 1} /\ burned' = burned + 1
  <2>1. /\ call[c].op = 0 => row'.value = row.value + 1
        /\ call[c].op # 0 => row'.value = call[c].op /\ call[c].op > row.value
    BY <1>3, PutIsSuccessor
  <2>2. call[c].op \in Nat
    BY Types
  <2>3. \A n \in Gaps' : n \in Nat /\ n <= row'.value /\ n \notin Given'
                         /\ (call'[c].pc # "idle" => n > call'[c].op)
    BY <1>1 DEF Gaps
  <2>4. CASE call[c].op # 0
    <3>1. \A n \in Gaps' : n <= row.value
      BY <1>1, <1>3, <2>1, <2>2, <2>3, <2>4 DEF CallsKeep
    <3> QED
      BY <1>1, <1>3, <2>4, <3>1, NoOldGaps DEF Put, AnswerLost
  <2>5. CASE call[c].op = 0
    <3>1. \A n \in Gaps' : n <= row.value \/ n = row.value + 1
      BY <1>1, <2>1, <2>3, <2>5
    <3>2. CASE AnswerLost(c)
      BY <1>1, <2>5, <3>1, <3>2, NoOldGaps DEF AnswerLost
    <3>3. CASE Put(c)
      <4>1. call'[c].result = Successor(c).value
        <5>1. call[c] \in CallRecords /\ call \in [Calls -> CallRecords]
          BY PerCall
        <5> QED
          BY <5>1, <2>5, <3>3 DEF Put, CallRecords
      <4>2. row.value + 1 \in Given'
        BY <1>1, <1>3, <2>1, <2>5, <4>1 DEF Given
      <4> QED
        BY <1>1, <2>3, <3>1, <3>3, <4>2, NoOldGaps DEF Put
    <3> QED
      BY <1>3, <3>2, <3>3
  <2> QED
    BY <2>4, <2>5
<1> QED
  BY <1>2, <1>3 DEF Next, CallStep, Begin, Read, Put, Conflict, AnswerLost, StoreFails, vars

LEMMA GapInvStep == GapInv /\ [Next]_vars => GapInv'
<1> SUFFICES ASSUME GapInv, [Next]_vars PROVE GapInv'
  OBVIOUS
<1>1. SeqInv /\ SeqInv'
  BY StepInv DEF GapInv
<1>2. /\ IsFiniteSet(Gaps) /\ Cardinality(Gaps) \in Nat
      /\ IsFiniteSet(Gaps') /\ Cardinality(Gaps') \in Nat
  <2>1. row.value \in Nat /\ row'.value \in Nat
    BY <1>1 DEF SeqInv, TypeOK, Rows
  <2>2. Gaps \subseteq 1..row.value /\ Gaps' \subseteq 1..row'.value
    BY DEF Gaps
  <2> QED
    BY <2>1, <2>2, GapsFinite
<1>3. burned \in Nat /\ Cardinality(Gaps) <= burned
  BY <1>1 DEF GapInv, SeqInv, TypeOK
<1>4. CASE Gaps' \subseteq Gaps /\ burned' \in {burned, burned + 1}
  <2>1. Cardinality(Gaps') <= Cardinality(Gaps)
    BY <1>2, <1>4, FS_Subset
  <2> QED
    BY <1>1, <1>2, <1>3, <1>4, <2>1 DEF GapInv
<1>5. CASE Gaps' \subseteq Gaps \cup {row.value + 1} /\ burned' = burned + 1
  <2> DEFINE more == Gaps \cup {row.value + 1}
  <2>1. IsFiniteSet(more) /\ Cardinality(more) \in Nat
        /\ Cardinality(more) <= Cardinality(Gaps) + 1
    BY <1>2, FS_AddElement
  <2>2. Cardinality(Gaps') <= Cardinality(more)
    BY <1>5, <2>1, FS_Subset
  <2> HIDE DEF more
  <2> QED
    BY <1>1, <1>2, <1>3, <1>5, <2>1, <2>2 DEF GapInv
<1> QED
  BY <1>1, <1>4, <1>5, NewGap

\* However many calls race, and whatever answers are lost, the numbers at or below the
\* counter that nobody holds and no seed covers are at most the puts whose answer was lost.
THEOREM GapsAreBurned == Spec => []GapsAreLostAnswers
<1>1. Init => GapInv
  <2> SUFFICES ASSUME Init PROVE GapInv
    OBVIOUS
  <2>1. SeqInv
    BY InitInv
  <2>2. Gaps = {} /\ burned = 0
    BY DEF Init, Gaps
  <2> QED
    BY <2>1, <2>2, FS_EmptySet DEF GapInv
<1>2. GapInv => GapsAreLostAnswers
  BY DEF GapInv, GapsAreLostAnswers, Gaps
<1> QED
  BY <1>1, <1>2, GapInvStep, PTL DEF Spec

-----------------------------------------------------------------------------
(* Refinement: the accepted put is the counter's step. *)

got == [c \in Calls |-> call[c].result]

LEMMA SameResults ==
  ASSUME SeqInv, NEW c \in Calls, NEW r \in CallRecords, r.result = call[c].result,
         call' = [call EXCEPT ![c] = r]
  PROVE  got' = got
BY DEF got, SeqInv, TypeOK

LEMMA BeginStutters == ASSUME SeqInv, NEW c \in Calls, Begin(c) PROVE got' = got
<1>1. call[c].result = 0 /\ call[c].pc = "idle"
  BY Types DEF Begin, CallInv
<1>2. PICK op, f : call' = [call EXCEPT ![c] =
          [pc |-> "read", op |-> op, attempt |-> 0, seen |-> [v |-> 0, value |-> 0],
           result |-> 0, start |-> row.v, floor |-> f]]
  BY DEF Begin
<1> QED
  BY <1>1, <1>2 DEF got, SeqInv, TypeOK

LEMMA PutTakes ==
  ASSUME SeqInv, NEW c \in Calls, Put(c)
  PROVE  Counter!Take(c) \/ \E n \in Seeds : Counter!Seed(n)
<1>1. /\ row' = Successor(c) /\ call[c].pc = "put" /\ CasAccepts(call[c].seen.v)
      /\ call' = [call EXCEPT ![c] = [call[c] EXCEPT !.pc = "done",
                    !.result = IF call[c].op = 0 THEN Successor(c).value ELSE 0]]
  BY DEF Put
<1>2. /\ call[c].op = 0 => row'.value = row.value + 1
      /\ call[c].op # 0 => row'.value = call[c].op /\ call[c].op > row.value
  BY <1>1, PutIsSuccessor
<1>3. call[c].result = 0 /\ call \in [Calls -> CallRecords]
  BY <1>1, PerCall DEF SeqInv, OrderInv
<1>4. CASE call[c].op = 0
  <2>1. \A d \in Calls : call'[d].result = IF d = c THEN row.value + 1 ELSE call[d].result
    BY <1>1, <1>2, <1>3, <1>4 DEF CallRecords
  <2>2. got' = [got EXCEPT ![c] = row.value + 1]
    BY <2>1 DEF got
  <2> QED
    BY <2>2, <1>2, <1>3, <1>4 DEF Counter!Take, got
<1>5. CASE call[c].op # 0
  <2>1. \A d \in Calls : call'[d].result = call[d].result
    BY <1>1, <1>3, <1>5 DEF CallRecords
  <2>2. got' = got
    BY <2>1 DEF got
  <2>3. call[c].op \in Seeds
    BY <1>3, <1>5 DEF CallRecords
  <2> QED
    BY <2>2, <2>3, <1>2, <1>5 DEF Counter!Seed, got
<1> QED
  BY <1>4, <1>5

LEMMA LostPutBurns ==
  ASSUME SeqInv, NEW c \in Calls, AnswerLost(c)
  PROVE  Counter!Burn \/ \E n \in Seeds : Counter!Seed(n)
<1>1. row' = Successor(c) /\ call[c].pc = "put" /\ CasAccepts(call[c].seen.v)
      /\ (call' = [call EXCEPT ![c].pc = "failed"] \/ UNCHANGED call)
  BY DEF AnswerLost
<1>2. /\ call[c].op = 0 => row'.value = row.value + 1
      /\ call[c].op # 0 => row'.value = call[c].op /\ call[c].op > row.value
  BY <1>1, PutIsSuccessor
<1>3. call \in [Calls -> CallRecords]
  BY PerCall
<1>4. \A d \in Calls : call'[d].result = call[d].result
  BY <1>1, <1>3 DEF CallRecords
<1>5. got' = got
  BY <1>4 DEF got
<1>6. call[c].op # 0 => call[c].op \in Seeds
  BY <1>3 DEF CallRecords
<1> QED
  BY <1>2, <1>5, <1>6 DEF Counter!Burn, Counter!Seed, got

LEMMA OthersStutter ==
  ASSUME SeqInv, NEW c \in Calls, Read(c) \/ Conflict(c) \/ StoreFails(c)
  PROVE  UNCHANGED <<row, got>>
<1>1. call \in [Calls -> CallRecords]
  BY PerCall
<1>2. row' = row
  BY DEF Read, Conflict, StoreFails
<1>3. \A d \in Calls : call'[d].result = call[d].result
  <2>1. CASE Read(c)
    BY <2>1, <1>1 DEF Read, CallRecords
  <2>2. CASE Conflict(c)
    <3>1. Refused(call[c]).result = call[c].result
      BY <1>1 DEF Refused, CallRecords
    <3> QED
      BY <2>2, <3>1, <1>1 DEF Conflict
  <2>3. CASE StoreFails(c)
    BY <2>3, <1>1 DEF StoreFails, CallRecords
  <2> QED
    BY <2>1, <2>2, <2>3
<1> QED
  BY <1>2, <1>3 DEF got

LEMMA InitMaps == Init => Counter!Init
BY DEF Init, Idle, Counter!Init

LEMMA StepMaps == SeqInv /\ [Next]_vars => [Counter!Next]_<<row.value, got>>
<1> SUFFICES ASSUME SeqInv, [Next]_vars
             PROVE  Counter!Next \/ (row'.value = row.value /\ got' = got)
  OBVIOUS
<1>1. ASSUME NEW c \in Calls, Begin(c) \/ CallStep(c)
      PROVE  Counter!Next \/ (row'.value = row.value /\ got' = got)
  <2>1. CASE Begin(c)
    BY <2>1, BeginStutters DEF Begin
  <2>2. CASE Put(c)
    BY <2>2, PutTakes DEF Counter!Next
  <2>3. CASE AnswerLost(c)
    BY <2>3, LostPutBurns DEF Counter!Next
  <2>4. CASE Read(c) \/ Conflict(c) \/ StoreFails(c)
    BY <2>4, OthersStutter
  <2> QED
    BY <1>1, <2>1, <2>2, <2>3, <2>4 DEF CallStep
<1>2. CASE UNCHANGED vars
  BY <1>2 DEF vars, got
<1> QED
  BY <1>1, <1>2 DEF Next

\* The retry loop over a shared row is an atomic counter: for any number of calls,
\* attempts and faults no number is returned twice.
THEOREM SequenceIsCounter == Spec => ImplementsCounter
<1>1. SeqInv /\ [Next]_vars => [Counter!Next]_<<row.value, [c \in Calls |-> call[c].result]>>
  BY StepMaps DEF got
<1> QED
  BY <1>1, InitMaps, Invariance, PTL DEF Spec, ImplementsCounter, Counter!Spec
=============================================================================
