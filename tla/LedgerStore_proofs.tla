------------------------- MODULE LedgerStore_proofs -------------------------
(***************************************************************************)
(* Theorems about LedgerStore for any stores, calls and bounds.            *)
(***************************************************************************)
EXTENDS LedgerStore, FiniteSetTheorems, SequenceTheorems, TLAPS

N == Len(rows)

\* The hash of the chain's first n entries, and the heads the chain has had.
HashAt(n) == IF n = 0 THEN Genesis ELSE HashEntry(rows[n])
HeadAt(n) == [length |-> n, hash |-> HashAt(n)]
Heads == {HeadAt(n) : n \in 0..N}

PCs == {"idle", "load", "cache", "put", "delta", "hash", "backoff", "done", "failed"}
CallTypes == [pc : PCs, store : Stores \cup {Unknown}, attempt : 0..MaxAttempts,
              at : Heads, lost : Nat]

\* The slot of entry i is c's, with its delta unless a purge may have taken it.
Stored(c, i) ==
  /\ rows[i].call = c
  /\ c \in Plain \/ i \in DOMAIN deltas \/ (c \in Forgotten /\ purge.pc # "idle")

RowInv ==
  /\ \E S : rows \in Seq(S)
  /\ \A i \in 1..N : rows[i].call \in Calls /\ rows[i].index = i /\ rows[i].prev = HashAt(i - 1)

\* Whoever holds a head holds one that the chain has had.
HeadInv ==
  /\ cache \in [Stores -> Heads \cup {Unknown}]
  /\ call \in [Calls -> CallTypes]
  /\ \A c \in Calls : /\ call[c].pc # "failed" => call[c].attempt < MaxAttempts
                      /\ call[c].pc = "done" => call[c].store = Unknown

\* A call past its claim stands on its own entry.
ClaimInv ==
  \A c \in Calls :
    /\ call[c].pc \in {"delta", "hash"} => Entry(c).index \in 1..N /\ rows[Entry(c).index] = Entry(c)
    /\ call[c].pc = "hash" => Stored(c, Entry(c).index)
    /\ call[c].pc = "done" => \E i \in 1..N : Stored(c, i)

DeltaInv ==
  /\ DOMAIN deltas \subseteq 1..N
  /\ \A i \in DOMAIN deltas : rows[i].call = deltas[i]

\* What the purge owes is listed as long as its delta is there.
PurgeInv ==
  /\ purge \in [pc : {"idle", "purging", "done"}, todo : SUBSET (1..N), owed : SUBSET Calls]
  /\ purge.pc # "purging" => purge.todo = {}
  /\ \A i \in purge.todo : rows[i].call \in Forgotten
  /\ \A c \in purge.owed : call[c].pc = "done"
  /\ purge.pc # "idle" => \A i \in DOMAIN deltas : deltas[i] \in purge.owed => i \in purge.todo

FaultInv == faults \in 0..MaxFaults

LedgerInv == RowInv /\ HeadInv /\ ClaimInv /\ DeltaInv /\ PurgeInv /\ FaultInv

\* What every step keeps of the chain.
Kept ==
  /\ N \in Nat /\ N' \in Nat /\ N <= N'
  /\ \A i \in 1..N : rows'[i] = rows[i]
  /\ Heads \subseteq Heads'

LEMMA Unmoved == ASSUME RowInv, UNCHANGED rows PROVE RowInv' /\ Kept /\ N' = N
<1>1. N \in Nat
  BY DEF RowInv, N
<1> QED
  BY <1>1 DEF RowInv, Kept, Heads, HeadAt, HashAt, N

\* The heart of the compare-and-swap: a free slot is the one after the last.
LEMMA Claiming ==
  ASSUME RowInv, NEW c \in Calls, call[c].at \in Heads,
         SlotIsFree(Entry(c).index), Claim(c)
  PROVE  /\ RowInv' /\ Kept /\ N' = N + 1 /\ Entry(c).index = N + 1
         /\ rows' = Append(rows, Entry(c)) /\ rows'[N + 1] = Entry(c)
<1>1. PICK S : rows \in Seq(S)
  BY DEF RowInv
<1>2. N \in Nat /\ DOMAIN rows = 1..N
  BY <1>1 DEF N
<1>3. PICK n \in 0..N : call[c].at = HeadAt(n)
  BY DEF Heads
<1>4. Entry(c) = [call |-> c, index |-> n + 1, prev |-> HashAt(n)]
  BY <1>3 DEF Entry, HeadAt
<1>5. n = N
  BY <1>2, <1>4 DEF SlotIsFree
<1>6. Entry(c).index = N + 1
  BY <1>4, <1>5
<1>7. rows' = [i \in 1..(N + 1) |-> IF i = N + 1 THEN Entry(c) ELSE rows[i]]
  BY <1>2, <1>6 DEF Claim
<1>8. rows' = Append(rows, Entry(c))
  <2>1. /\ Append(rows, Entry(c)) \in Seq(S \cup {Entry(c)})
        /\ Len(Append(rows, Entry(c))) = N + 1
        /\ \A i \in 1..N : Append(rows, Entry(c))[i] = rows[i]
        /\ Append(rows, Entry(c))[N + 1] = Entry(c)
    BY <1>1, AppendProperties, rows \in Seq(S \cup {Entry(c)}) DEF N
  <2>2. Append(rows, Entry(c)) = [i \in 1..(N + 1) |-> Append(rows, Entry(c))[i]]
    <3> DEFINE log == Append(rows, Entry(c))
    <3>1. log \in [1..Len(log) -> S \cup {Entry(c)}] /\ Len(log) = N + 1
      BY <2>1, LenProperties
    <3> HIDE DEF log
    <3>2. log = [i \in 1..(N + 1) |-> log[i]]
      BY <3>1
    <3> QED
      BY <3>2 DEF log
  <2>3. rows' = [i \in 1..(N + 1) |-> rows'[i]]
    BY <1>7
  <2>4. \A i \in 1..(N + 1) : rows'[i] = Append(rows, Entry(c))[i]
    BY <1>2, <1>7, <2>1
  <2> QED
    BY <2>2, <2>3, <2>4, Zenon
<1>9. rows' \in Seq(S \cup {Entry(c)}) /\ N' = N + 1
  BY <1>1, <1>8 DEF N
<1>10. /\ \A i \in 1..N : rows'[i] = rows[i]
       /\ rows'[N + 1] = Entry(c)
  BY <1>2, <1>7
<1>11. \A m \in 0..N : HashAt(m)' = HashAt(m)
  BY <1>2, <1>10 DEF HashAt
<1>12. Heads \subseteq Heads'
  BY <1>2, <1>9, <1>11 DEF Heads, HeadAt
<1>13. \A i \in 1..(N + 1) : rows'[i].call \in Calls /\ rows'[i].index = i /\ rows'[i].prev = HashAt(i - 1)'
  <2>1. ASSUME NEW i \in 1..N
        PROVE  rows'[i].call \in Calls /\ rows'[i].index = i /\ rows'[i].prev = HashAt(i - 1)'
    BY <1>2, <1>10, <1>11, i - 1 \in 0..N DEF RowInv
  <2>2. /\ rows'[n + 1].call \in Calls /\ rows'[n + 1].index = n + 1
        /\ rows'[n + 1].prev = HashAt(n)'
    BY <1>2, <1>4, <1>5, <1>10, <1>11
  <2>3. ASSUME NEW i \in 1..(N + 1), i \notin 1..N PROVE i = n + 1 /\ i - 1 = n
    BY <1>2, <1>5, <2>3
  <2> QED
    BY <1>2, <2>1, <2>2, <2>3
<1>14. RowInv'
  BY <1>9, <1>13 DEF RowInv
<1>15. Kept
  BY <1>2, <1>9, <1>10, <1>12 DEF Kept
<1> QED
  BY <1>6, <1>8, <1>9, <1>10, <1>14, <1>15

\* The entry that a call standing on head h builds.
EntryOn(c, h) == [call |-> c, index |-> h.length + 1, prev |-> h.hash]

\* A step of call c that leaves it as `new`.
LEMMA CallMoves ==
  ASSUME LedgerInv, Kept, NEW c \in Calls, NEW new \in CallTypes',
         call' = [call EXCEPT ![c] = new],
         cache' \in [Stores -> Heads' \cup {Unknown}],
         \A d \in Calls, i \in 1..N : Stored(d, i) => Stored(d, i)',
         new.pc # "failed" => new.attempt < MaxAttempts,
         new.pc \in {"delta", "hash"} =>
           new.at.length + 1 \in 1..N' /\ rows'[new.at.length + 1] = EntryOn(c, new.at),
         new.pc = "hash" => \A i \in 1..N' : i = new.at.length + 1 => Stored(c, i)',
         new.pc = "done" => new.store = Unknown /\ \E i \in 1..N' : Stored(c, i)'
  PROVE  HeadInv' /\ ClaimInv'
<1>1. \A d \in Calls : call'[d] = IF d = c THEN new ELSE call[d]
  BY DEF LedgerInv, HeadInv
<1>2. CallTypes \subseteq CallTypes'
  BY DEF Kept, CallTypes
<1>3. call' \in [Calls -> CallTypes']
  BY <1>2 DEF LedgerInv, HeadInv
<1>4. HeadInv'
  BY <1>1, <1>3 DEF LedgerInv, HeadInv
<1>5. \A d \in Calls : Entry(d)' = EntryOn(d, call'[d].at) /\ Entry(d) = EntryOn(d, call[d].at)
  BY DEF Entry, EntryOn
<1>6. ASSUME NEW d \in Calls, d # c
      PROVE  /\ call'[d].pc \in {"delta", "hash"} =>
                  Entry(d)'.index \in 1..N' /\ rows'[Entry(d)'.index] = Entry(d)'
             /\ call'[d].pc = "hash" => Stored(d, Entry(d).index)'
             /\ call'[d].pc = "done" => \E i \in 1..N' : Stored(d, i)'
  <2>1. call'[d] = call[d] /\ Entry(d)' = Entry(d)
    BY <1>1, <1>5, <1>6
  <2>2. N \in Nat /\ N' \in Nat /\ N <= N' /\ \A i \in 1..N : rows'[i] = rows[i]
    BY DEF Kept
  <2>3. CASE call[d].pc \in {"delta", "hash"}
    <3>1. PICK i \in 1..N : i = Entry(d).index /\ rows[i] = Entry(d)
      BY <2>3 DEF LedgerInv, ClaimInv
    <3>2. i \in 1..N' /\ rows'[i] = Entry(d)
      BY <2>2, <3>1
    <3>3. call[d].pc = "hash" => Stored(d, i)'
      BY <3>1 DEF LedgerInv, ClaimInv
    <3>4. Stored(d, i)' <=> Stored(d, Entry(d).index)'
      BY <2>1, <3>1 DEF Stored
    <3> QED
      BY <2>1, <2>3, <3>1, <3>2, <3>3, <3>4
  <2>4. CASE call[d].pc = "done"
    <3>1. PICK i \in 1..N : Stored(d, i)
      BY <2>4 DEF LedgerInv, ClaimInv
    <3> QED
      BY <2>1, <2>2, <2>4, <3>1
  <2> QED
    BY <2>1, <2>3, <2>4
<1>7. /\ call'[c].pc \in {"delta", "hash"} =>
           Entry(c)'.index \in 1..N' /\ rows'[Entry(c)'.index] = Entry(c)'
      /\ call'[c].pc = "hash" => Stored(c, Entry(c).index)'
      /\ call'[c].pc = "done" => \E i \in 1..N' : Stored(c, i)'
  <2>1. call'[c] = new /\ Entry(c)'.index = new.at.length + 1 /\ Entry(c)' = EntryOn(c, new.at)
    BY <1>1, <1>5 DEF EntryOn
  <2>2. ASSUME new.pc = "hash" PROVE Stored(c, Entry(c).index)'
    <3>1. PICK i \in 1..N' : i = new.at.length + 1
      BY <2>2
    <3>2. Stored(c, i)'
      BY <2>2, <3>1
    <3>3. Stored(c, i)' <=> Stored(c, Entry(c).index)'
      BY <2>1, <3>1 DEF Stored
    <3> QED
      BY <3>2, <3>3
  <2> QED
    BY <2>1, <2>2
<1>8. ClaimInv'
  BY <1>6, <1>7 DEF ClaimInv
<1> QED
  BY <1>4, <1>8

LEMMA RestStays ==
  ASSUME LedgerInv, Kept, UNCHANGED <<deltas, purge>>,
         \A d \in Calls : call[d].pc = "done" => call'[d].pc = "done"
  PROVE  /\ DeltaInv' /\ PurgeInv'
         /\ \A d \in Calls, i \in 1..N : Stored(d, i) => Stored(d, i)'
<1>1. N \in Nat /\ N' \in Nat /\ N <= N' /\ \A i \in 1..N : rows'[i] = rows[i]
  BY DEF Kept
<1>2. DeltaInv'
  BY <1>1 DEF LedgerInv, DeltaInv
<1>3. PurgeInv'
  BY <1>1 DEF LedgerInv, PurgeInv
<1> QED
  BY <1>1, <1>2, <1>3 DEF Stored

LEMMA DeltaWritten ==
  ASSUME LedgerInv, NEW c \in Calls, call[c].pc = "delta", WriteDelta(c),
         UNCHANGED <<rows, purge>>,
         \A d \in Calls : call[d].pc = "done" => call'[d].pc = "done"
  PROVE  /\ DeltaInv' /\ PurgeInv'
         /\ \A d \in Calls, i \in 1..N : Stored(d, i) => Stored(d, i)'
         /\ \A i \in 1..N : i = Entry(c).index => Stored(c, i)'
<1>1. Entry(c).index \in 1..N /\ rows[Entry(c).index].call = c
  <2>1. Entry(c).call = c
    BY DEF Entry
  <2> QED
    BY <2>1 DEF LedgerInv, ClaimInv
<1>2. /\ DOMAIN deltas' = DOMAIN deltas \cup {Entry(c).index}
      /\ \A i \in DOMAIN deltas' : deltas'[i] = IF i = Entry(c).index THEN c ELSE deltas[i]
  BY DEF WriteDelta
<1>3. DeltaInv'
  BY <1>1, <1>2 DEF LedgerInv, DeltaInv, N
<1>4. PurgeInv'
  <2>1. c \notin purge.owed /\ N' = N
    BY DEF LedgerInv, PurgeInv, N
  <2>2. \A i \in DOMAIN deltas' : deltas'[i] \in purge.owed => i \in DOMAIN deltas /\ deltas[i] \in purge.owed
    BY <1>2, <2>1
  <2> QED
    BY <2>1, <2>2 DEF LedgerInv, PurgeInv
<1>5. \A d \in Calls, i \in 1..N : Stored(d, i) => Stored(d, i)'
  BY <1>2 DEF Stored
<1>6. \A i \in 1..N : i = Entry(c).index => Stored(c, i)'
  BY <1>1, <1>2 DEF Stored
<1> QED
  BY <1>3, <1>4, <1>5, <1>6

-----------------------------------------------------------------------------
(* Every step. *)

LEMMA InitLedger == Init => LedgerInv
<1> SUFFICES ASSUME Init PROVE LedgerInv
  OBVIOUS
<1>1. N = 0 /\ rows \in Seq({}) /\ DOMAIN deltas = {}
  BY EmptySeq DEF Init, N
<1>2. RowInv
  BY <1>1 DEF RowInv
<1>3. HeadOf(<<>>) \in Heads
  BY <1>1 DEF HeadOf, Heads, HeadAt, HashAt
<1>4. HeadInv
  BY <1>3, BoundsAssumption DEF Init, HeadInv, CallTypes, PCs, Idle
<1>5. ClaimInv
  BY DEF Init, ClaimInv, Idle
<1>6. DeltaInv /\ PurgeInv /\ FaultInv
  BY <1>1, BoundsAssumption DEF Init, DeltaInv, PurgeInv, NoPurge, FaultInv
<1> QED
  BY <1>2, <1>4, <1>5, <1>6 DEF LedgerInv

\* HeadOf is the newest head.
LEMMA Newest == RowInv => HeadOf(rows) \in Heads
<1> SUFFICES ASSUME RowInv PROVE HeadOf(rows) \in Heads
  OBVIOUS
<1>1. N \in Nat /\ (rows = <<>> <=> N = 0)
  BY EmptySeq DEF RowInv, N
<1>2. HeadOf(rows) = HeadAt(N)
  BY <1>1 DEF HeadOf, HeadAt, HashAt, N
<1> QED
  BY <1>1, <1>2 DEF Heads

\* A call's step that leaves rows, deltas and the purge alone.
LEMMA QuietMove ==
  ASSUME LedgerInv, NEW c \in Calls, call[c].pc # "done", NEW new \in CallTypes,
         UNCHANGED <<rows, deltas, purge>>, call' = [call EXCEPT ![c] = new],
         cache' \in [Stores -> Heads \cup {Unknown}], FaultInv',
         new.pc # "failed" => new.attempt < MaxAttempts,
         new.pc \in {"delta", "hash"} => new = call[c],
         new.pc = "done" => new.store = Unknown /\ \E i \in 1..N : Stored(c, i)
  PROVE  LedgerInv'
<1>1. RowInv' /\ Kept /\ N' = N
  BY Unmoved DEF LedgerInv
<1>2. Heads' = Heads /\ CallTypes' = CallTypes
  BY <1>1 DEF Heads, HeadAt, HashAt, CallTypes
<1>3. \A d \in Calls : call[d].pc = "done" => call'[d].pc = "done"
  BY DEF LedgerInv, HeadInv
<1>4. /\ DeltaInv' /\ PurgeInv'
      /\ \A d \in Calls, i \in 1..N : Stored(d, i) => Stored(d, i)'
  BY <1>1, <1>3, RestStays
<1>5. new.pc \in {"delta", "hash"} =>
        new.at.length + 1 \in 1..N' /\ rows'[new.at.length + 1] = EntryOn(c, new.at)
  BY <1>1 DEF LedgerInv, ClaimInv, Entry, EntryOn
<1>6. new.pc = "hash" => \A i \in 1..N' : i = new.at.length + 1 => Stored(c, i)'
  BY <1>1, <1>4 DEF LedgerInv, ClaimInv, Entry
<1>7. new.pc = "done" => new.store = Unknown /\ \E i \in 1..N' : Stored(c, i)'
  BY <1>1, <1>4
<1>8. HeadInv' /\ ClaimInv'
  BY <1>1, <1>2, <1>4, <1>5, <1>6, <1>7, CallMoves
<1> QED
  BY <1>1, <1>4, <1>8 DEF LedgerInv

\* A put of an entry lands; the call stays, goes on or ends.
LEMMA EntryLands ==
  ASSUME LedgerInv, NEW c \in Calls, call[c].pc = "put", NEW new \in CallTypes,
         SlotIsFree(Entry(c).index), Claim(c), UNCHANGED <<deltas, cache, purge>>,
         call' = [call EXCEPT ![c] = new], FaultInv',
         new.pc # "failed" => new.attempt < MaxAttempts, new.pc # "done",
         new.pc \in {"delta", "hash"} => new.at = call[c].at,
         new.pc = "hash" => c \in Plain
  PROVE  LedgerInv'
<1>1. call[c].at \in Heads
  BY DEF LedgerInv, HeadInv, CallTypes
<1>2. /\ RowInv' /\ Kept /\ N' = N + 1 /\ Entry(c).index = N + 1
      /\ rows'[N + 1] = Entry(c)
  BY <1>1, Claiming DEF LedgerInv
<1>3. \A d \in Calls : call[d].pc = "done" => call'[d].pc = "done"
  BY DEF LedgerInv, HeadInv
<1>4. /\ DeltaInv' /\ PurgeInv'
      /\ \A d \in Calls, i \in 1..N : Stored(d, i) => Stored(d, i)'
  BY <1>2, <1>3, RestStays
<1>5. new \in CallTypes' /\ cache' \in [Stores -> Heads' \cup {Unknown}]
  BY <1>2 DEF LedgerInv, HeadInv, Kept, CallTypes
<1>6. N \in Nat /\ Entry(c) = EntryOn(c, call[c].at) /\ Entry(c).call = c
      /\ Entry(c).index = call[c].at.length + 1
  BY <1>2 DEF Kept, Entry, EntryOn
<1>7. new.pc \in {"delta", "hash"} =>
        new.at.length + 1 \in 1..N' /\ rows'[new.at.length + 1] = EntryOn(c, new.at)
  BY <1>2, <1>6
<1>8. new.pc = "hash" => \A i \in 1..N' : i = new.at.length + 1 => Stored(c, i)'
  BY <1>2, <1>6 DEF Stored
<1>9. HeadInv' /\ ClaimInv'
  BY <1>2, <1>4, <1>5, <1>7, <1>8, CallMoves
<1> QED
  BY <1>2, <1>4, <1>9 DEF LedgerInv

\* A put of a delta lands.
LEMMA DeltaLands ==
  ASSUME LedgerInv, NEW c \in Calls, call[c].pc = "delta", NEW new \in CallTypes,
         WriteDelta(c), UNCHANGED <<rows, cache, purge>>,
         call' = [call EXCEPT ![c] = new], FaultInv',
         new.pc # "failed" => new.attempt < MaxAttempts, new.pc # "done",
         new.pc \in {"delta", "hash"} => new.at = call[c].at
  PROVE  LedgerInv'
<1>1. RowInv' /\ Kept /\ N' = N
  BY Unmoved DEF LedgerInv
<1>2. Heads' = Heads /\ CallTypes' = CallTypes
  BY <1>1 DEF Heads, HeadAt, HashAt, CallTypes
<1>3. \A d \in Calls : call[d].pc = "done" => call'[d].pc = "done"
  BY DEF LedgerInv, HeadInv
<1>4. /\ DeltaInv' /\ PurgeInv'
      /\ \A d \in Calls, i \in 1..N : Stored(d, i) => Stored(d, i)'
      /\ \A i \in 1..N : i = Entry(c).index => Stored(c, i)'
  BY <1>3, DeltaWritten
<1>5. /\ Entry(c) = EntryOn(c, call[c].at) /\ Entry(c).index = call[c].at.length + 1
      /\ Entry(c).index \in 1..N /\ rows[Entry(c).index] = Entry(c)
  BY DEF Entry, EntryOn, LedgerInv, ClaimInv
<1>6. new.pc \in {"delta", "hash"} =>
        new.at.length + 1 \in 1..N' /\ rows'[new.at.length + 1] = EntryOn(c, new.at)
  BY <1>1, <1>5
<1>7. new.pc = "hash" => \A i \in 1..N' : i = new.at.length + 1 => Stored(c, i)'
  BY <1>1, <1>4, <1>5
<1>8. cache' \in [Stores -> Heads' \cup {Unknown}]
  BY <1>2 DEF LedgerInv, HeadInv
<1>9. HeadInv' /\ ClaimInv'
  BY <1>1, <1>2, <1>4, <1>6, <1>7, <1>8, CallMoves
<1> QED
  BY <1>1, <1>4, <1>9 DEF LedgerInv

LEMMA EndedType ==
  ASSUME LedgerInv, NEW c \in Calls, NEW pc \in PCs
  PROVE  /\ Ended(c, pc) \in CallTypes /\ Ended(c, pc).pc = pc /\ Ended(c, pc).store = Unknown
         /\ Ended(c, pc).attempt = call[c].attempt /\ Ended(c, pc).lost = call[c].lost
<1>1. call[c] \in CallTypes
  BY DEF LedgerInv, HeadInv
<1>2. N \in Nat
  BY DEF LedgerInv, RowInv, N
<1>3. HeadOf(<<>>) \in Heads
  BY <1>2 DEF HeadOf, Heads, HeadAt, HashAt
<1> QED
  BY <1>1, <1>3 DEF Ended, CallTypes

LEMMA BeginKeeps ==
  ASSUME LedgerInv, NEW c \in Calls, NEW s \in Stores, Begin(c, s)
  PROVE  LedgerInv'
<1> DEFINE new == IF cache[s] = Unknown
                  THEN [Idle EXCEPT !.pc = "load", !.store = s]
                  ELSE [Idle EXCEPT !.pc = "put", !.store = s, !.at = cache[s]]
<1>1. call' = [call EXCEPT ![c] = new] /\ call[c].pc = "idle"
  BY DEF Begin
<1>2. HeadOf(<<>>) \in Heads
  <2>1. N \in Nat
    BY DEF LedgerInv, RowInv, N
  <2> QED
    BY <2>1 DEF HeadOf, Heads, HeadAt, HashAt
<1>3. new \in CallTypes /\ new.pc \in {"load", "put"} /\ new.attempt < MaxAttempts
  <2>1. cache[s] = Unknown \/ cache[s] \in Heads
    BY DEF LedgerInv, HeadInv
  <2>2. PICK pc \in {"load", "put"}, h \in Heads :
          new = [pc |-> pc, store |-> s, attempt |-> 0, at |-> h, lost |-> 0]
    BY <1>2, <2>1 DEF Idle
  <2> HIDE DEF new
  <2> QED
    BY <2>2, BoundsAssumption DEF CallTypes, PCs
<1>4. UNCHANGED <<rows, deltas, purge>> /\ cache' \in [Stores -> Heads \cup {Unknown}] /\ FaultInv'
  BY DEF Begin, LedgerInv, HeadInv, FaultInv
<1> HIDE DEF new
<1> QED
  BY <1>1, <1>3, <1>4, QuietMove

LEMMA CallStepKeeps ==
  ASSUME LedgerInv, NEW c \in Calls, CallStep(c)
  PROVE  LedgerInv'
<1>0. /\ call[c] \in CallTypes /\ (call[c].pc # "failed" => call[c].attempt < MaxAttempts)
      /\ cache \in [Stores -> Heads \cup {Unknown}] /\ faults \in 0..MaxFaults
  BY DEF LedgerInv, HeadInv, FaultInv
<1>1. CASE Load(c)
  <2>1. HeadOf(rows) \in Heads
    BY Newest DEF LedgerInv
  <2>2. CASE rows = <<>>
    <3>1. HeadOf(<<>>) \in Heads
      BY <2>1, <2>2
    <3>2. cache' \in [Stores -> Heads \cup {Unknown}]
      BY <1>0, <1>1, <2>2, <3>1 DEF Load
    <3> DEFINE new == [call[c] EXCEPT !.pc = "put", !.at = HeadOf(<<>>)]
    <3>3. new \in CallTypes /\ new.pc = "put" /\ new.attempt = call[c].attempt
      BY <1>0, <3>1 DEF CallTypes, PCs
    <3>4. call' = [call EXCEPT ![c] = new]
      BY <1>1, <2>2 DEF Load
    <3> HIDE DEF new
    <3> QED
      BY <1>0, <1>1, <3>2, <3>3, <3>4, QuietMove DEF Load, FaultInv
  <2>3. CASE rows # <<>>
    <3> DEFINE new == [call[c] EXCEPT !.pc = "cache", !.at = HeadOf(rows)]
    <3>1. new \in CallTypes /\ new.pc = "cache" /\ new.attempt = call[c].attempt
      BY <1>0, <2>1 DEF CallTypes, PCs
    <3>2. call' = [call EXCEPT ![c] = new] /\ UNCHANGED cache
      BY <1>1, <2>3 DEF Load
    <3> HIDE DEF new
    <3> QED
      BY <1>0, <1>1, <3>1, <3>2, QuietMove DEF Load, FaultInv
  <2> QED
    BY <2>2, <2>3
<1>2. CASE CacheHead(c) \/ Retry(c)
  <2>1. PICK pc \in {"put", "load"} : call' = [call EXCEPT ![c].pc = pc]
    BY <1>2 DEF CacheHead, Retry
  <2> DEFINE new == [call[c] EXCEPT !.pc = pc]
  <2>2. new \in CallTypes /\ new.pc = pc /\ new.attempt = call[c].attempt
    BY <1>0 DEF CallTypes, PCs
  <2>3. call' = [call EXCEPT ![c] = new]
    BY <2>1
  <2>4. cache' \in [Stores -> Heads \cup {Unknown}]
    BY <1>0, <1>2 DEF CacheHead, Retry, CallTypes
  <2> HIDE DEF new
  <2> QED
    BY <1>0, <1>2, <2>2, <2>3, <2>4, QuietMove DEF CacheHead, Retry, FaultInv
<1>3. CASE PutEntry(c)
  <2> DEFINE new == [call[c] EXCEPT !.pc = AfterEntry(c)]
  <2>1. /\ new \in CallTypes /\ new.pc = AfterEntry(c) /\ new.attempt = call[c].attempt
        /\ new.at = call[c].at
    BY <1>0 DEF CallTypes, PCs, AfterEntry
  <2>2. call' = [call EXCEPT ![c] = new]
    BY <1>3 DEF PutEntry
  <2>3. AfterEntry(c) \in {"delta", "hash"} /\ (AfterEntry(c) = "hash" => c \in Plain)
    BY DEF AfterEntry
  <2> HIDE DEF new
  <2> QED
    BY <1>0, <1>3, <2>1, <2>2, <2>3, EntryLands DEF PutEntry, FaultInv
<1>4. CASE PutDelta(c)
  <2> DEFINE new == [call[c] EXCEPT !.pc = "hash"]
  <2>1. /\ new \in CallTypes /\ new.pc = "hash" /\ new.attempt = call[c].attempt
        /\ new.at = call[c].at
    BY <1>0 DEF CallTypes, PCs
  <2>2. call' = [call EXCEPT ![c] = new]
    BY <1>4 DEF PutDelta
  <2> HIDE DEF new
  <2> QED
    BY <1>0, <1>4, <2>1, <2>2, DeltaLands DEF PutDelta, FaultInv
<1>5. CASE Conflict(c)
  <2> DEFINE kept == IF call[c].attempt + 1 = MaxAttempts THEN Ended(c, "failed")
                     ELSE [call[c] EXCEPT !.pc = "backoff"]
             new == [kept EXCEPT !.attempt = @ + 1]
  <2>1. call[c].attempt \in 0..(MaxAttempts - 1)
    BY <1>0, <1>5, BoundsAssumption DEF Conflict, CallTypes
  <2>2. /\ kept \in CallTypes /\ kept.attempt = call[c].attempt
        /\ kept.pc = IF call[c].attempt + 1 = MaxAttempts THEN "failed" ELSE "backoff"
    BY <1>0, EndedType DEF CallTypes, PCs
  <2> HIDE DEF kept
  <2>3. /\ new \in CallTypes /\ new.pc \in {"failed", "backoff"}
        /\ (new.pc # "failed" => new.attempt < MaxAttempts)
    BY <2>1, <2>2, BoundsAssumption DEF CallTypes
  <2>4. call' = [call EXCEPT ![c] = new]
    BY <1>5 DEF Conflict, kept
  <2> HIDE DEF new
  <2> QED
    BY <1>0, <1>5, <2>3, <2>4, QuietMove DEF Conflict, FaultInv
<1>6. CASE Finish(c)
  <2>1. /\ Entry(c).index \in 1..N /\ rows[Entry(c).index] = Entry(c)
        /\ Stored(c, Entry(c).index)
    BY <1>6 DEF Finish, LedgerInv, ClaimInv
  <2>2. NewHead(c) \in Heads
    <3>1. NewHead(c) = HeadAt(Entry(c).index) /\ Entry(c).index \in 0..N
      BY <2>1 DEF NewHead, HeadAt, HashAt
    <3> QED
      BY <3>1 DEF Heads
  <2>3. cache' \in [Stores -> Heads \cup {Unknown}]
    BY <1>0, <1>6, <2>2 DEF Finish
  <2>4. /\ Ended(c, "done") \in CallTypes /\ Ended(c, "done").pc = "done"
        /\ Ended(c, "done").store = Unknown /\ Ended(c, "done").attempt = call[c].attempt
    BY EndedType DEF PCs
  <2> QED
    BY <1>0, <1>6, <2>1, <2>3, <2>4, QuietMove DEF Finish, FaultInv
<1>7. CASE AnswerLost(c)
  <2>1. FaultInv'
    BY <1>0, <1>7, BoundsAssumption DEF AnswerLost, FaultInv
  <2>2. PICK new \in {[Ended(c, "failed") EXCEPT !.lost = @ + 1], [call[c] EXCEPT !.lost = @ + 1]} :
          call' = [call EXCEPT ![c] = new]
    BY <1>7 DEF AnswerLost, Unanswered
  <2>3. /\ new \in CallTypes /\ new.pc \in {"failed", call[c].pc}
        /\ new.attempt = call[c].attempt
        /\ (new.pc # "failed" => new.at = call[c].at)
    <3>1. /\ Ended(c, "failed") \in CallTypes /\ Ended(c, "failed").pc = "failed"
          /\ Ended(c, "failed").attempt = call[c].attempt
      BY EndedType DEF PCs
    <3> QED
      BY <1>0, <2>2, <3>1 DEF CallTypes
  <2>4. CASE call[c].pc = "put" /\ SlotIsFree(Entry(c).index) /\ Claim(c) /\ UNCHANGED deltas
    BY <1>0, <1>7, <2>1, <2>2, <2>3, <2>4, EntryLands DEF AnswerLost
  <2>5. CASE call[c].pc = "delta" /\ WriteDelta(c) /\ UNCHANGED rows
    BY <1>0, <1>7, <2>1, <2>2, <2>3, <2>5, DeltaLands DEF AnswerLost
  <2> QED
    BY <1>7, <2>4, <2>5 DEF AnswerLost
<1>8. CASE StoreFails(c)
  <2>1. FaultInv'
    BY <1>0, <1>8, BoundsAssumption DEF StoreFails, FaultInv
  <2>2. Ended(c, "failed") \in CallTypes /\ Ended(c, "failed").pc = "failed"
    BY EndedType DEF PCs
  <2> QED
    BY <1>0, <1>8, <2>1, <2>2, QuietMove DEF StoreFails
<1> QED
  BY <1>1, <1>2, <1>3, <1>4, <1>5, <1>6, <1>7, <1>8 DEF CallStep

LEMMA CrashKeeps ==
  ASSUME LedgerInv, NEW s \in Stores, Crash(s)
  PROVE  LedgerInv'
<1>1. RowInv' /\ Kept /\ N' = N
  BY Unmoved DEF Crash, LedgerInv
<1>2. Heads' = Heads /\ CallTypes' = CallTypes
  BY <1>1 DEF Crash, Heads, HeadAt, HashAt, CallTypes
<1>3. \A d \in Calls : call'[d] = IF call[d].store = s THEN Ended(d, "failed") ELSE call[d]
  BY DEF Crash
<1>4. \A d \in Calls : /\ call[d].store = s => call'[d].pc = "failed"
                       /\ call[d].store # s => call'[d] = call[d]
                       /\ call'[d] \in CallTypes
  BY <1>3, EndedType DEF PCs, LedgerInv, HeadInv
<1>5. \A d \in Calls : call[d].pc = "done" => call'[d].pc = "done"
  BY <1>4, UnknownAssumption DEF LedgerInv, HeadInv
<1>6. /\ DeltaInv' /\ PurgeInv'
      /\ \A d \in Calls, i \in 1..N : Stored(d, i) => Stored(d, i)'
  BY <1>1, <1>5, RestStays DEF Crash
<1>7. HeadInv'
  <2>1. cache' \in [Stores -> Heads \cup {Unknown}]
    BY DEF Crash, LedgerInv, HeadInv
  <2>2. call' \in [Calls -> CallTypes]
    BY <1>4 DEF Crash
  <2> QED
    BY <1>2, <1>4, <2>1, <2>2 DEF LedgerInv, HeadInv
<1>8. ClaimInv'
  <2> SUFFICES ASSUME NEW d \in Calls
               PROVE  /\ call'[d].pc \in {"delta", "hash"} =>
                           Entry(d)'.index \in 1..N' /\ rows'[Entry(d)'.index] = Entry(d)'
                      /\ call'[d].pc = "hash" => Stored(d, Entry(d).index)'
                      /\ call'[d].pc = "done" => \E i \in 1..N' : Stored(d, i)'
    BY DEF ClaimInv
  <2>1. CASE call[d].store = s
    BY <1>4, <2>1
  <2>2. CASE call[d].store # s
    <3>1. call'[d] = call[d] /\ Entry(d)' = Entry(d)
      BY <1>4, <2>2 DEF Entry
    <3>2. UNCHANGED <<rows, deltas, purge>>
      BY DEF Crash
    <3>3. Stored(d, Entry(d).index)' <=> Stored(d, Entry(d).index)
      BY <3>1, <3>2 DEF Stored
    <3> QED
      BY <1>1, <1>6, <3>1, <3>2, <3>3 DEF LedgerInv, ClaimInv
  <2> QED
    BY <2>1, <2>2
<1>9. FaultInv'
  BY BoundsAssumption DEF Crash, LedgerInv, FaultInv
<1> QED
  BY <1>1, <1>6, <1>7, <1>8, <1>9 DEF LedgerInv

LEMMA PurgeKeeps == ASSUME LedgerInv, Purge PROVE LedgerInv'
<1>1. UNCHANGED <<rows, cache, call, faults>>
  BY DEF Purge, PurgeStart, PurgeOne, PurgeEnd
<1>2. RowInv' /\ Kept /\ N' = N /\ DOMAIN rows = 1..N
  BY <1>1, Unmoved DEF LedgerInv, RowInv, N
<1>3. HeadInv' /\ FaultInv'
  BY <1>1 DEF LedgerInv, HeadInv, FaultInv, Heads, HeadAt, HashAt, CallTypes, N
<1>4. CASE PurgeStart
  <2>1. /\ purge' = [pc |-> "purging", todo |-> {i \in 1..N : rows[i].call \in Forgotten},
                    owed |-> {c \in Forgotten : call[c].pc = "done"}]
        /\ UNCHANGED deltas
    BY <1>2, <1>4 DEF PurgeStart
  <2>2. DeltaInv'
    BY <1>1, <1>2, <2>1 DEF LedgerInv, DeltaInv
  <2>3. PurgeInv'
    BY <1>1, <1>2, <2>1, CallsAssumption DEF LedgerInv, DeltaInv, PurgeInv
  <2>4. \A c \in Calls, i \in 1..N : Stored(c, i) => Stored(c, i)'
    BY <1>1, <2>1 DEF Stored
  <2> QED
    BY <1>1, <1>2, <1>3, <2>2, <2>3, <2>4 DEF LedgerInv, ClaimInv, Entry
<1>5. CASE PurgeOne
  <2>1. PICK k \in purge.todo :
          /\ deltas' = [j \in DOMAIN deltas \ {k} |-> deltas[j]]
          /\ purge' = [purge EXCEPT !.todo = @ \ {k}]
    BY <1>5 DEF PurgeOne
  <2>2. /\ purge.pc = "purging" /\ rows[k].call \in Forgotten
        /\ purge'.pc = "purging" /\ purge'.todo = purge.todo \ {k} /\ purge'.owed = purge.owed
    BY <1>5, <2>1 DEF PurgeOne, LedgerInv, PurgeInv
  <2>3. DeltaInv'
    BY <1>1, <1>2, <2>1 DEF LedgerInv, DeltaInv
  <2>4. PurgeInv'
    <3>1. purge' \in [pc : {"idle", "purging", "done"}, todo : SUBSET (1..N), owed : SUBSET Calls]
      BY <2>1 DEF LedgerInv, PurgeInv
    <3> QED
      BY <1>1, <1>2, <2>1, <2>2, <3>1 DEF LedgerInv, PurgeInv
  <2>5. \A c \in Calls, i \in 1..N : Stored(c, i) => Stored(c, i)'
    BY <1>1, <2>1, <2>2 DEF Stored
  <2> QED
    BY <1>1, <1>2, <1>3, <2>3, <2>4, <2>5 DEF LedgerInv, ClaimInv, Entry
<1>6. CASE PurgeEnd
  <2>1. /\ purge.pc = "purging" /\ purge.todo = {} /\ UNCHANGED deltas
        /\ purge' = [purge EXCEPT !.pc = "done"]
    BY <1>6 DEF PurgeEnd
  <2>2. purge'.pc = "done" /\ purge'.todo = {} /\ purge'.owed = purge.owed
    BY <2>1 DEF LedgerInv, PurgeInv
  <2>3. DeltaInv'
    BY <1>1, <1>2, <2>1 DEF LedgerInv, DeltaInv
  <2>4. PurgeInv'
    <3>1. purge' \in [pc : {"idle", "purging", "done"}, todo : SUBSET (1..N), owed : SUBSET Calls]
      BY <2>1 DEF LedgerInv, PurgeInv
    <3> QED
      BY <1>1, <1>2, <2>1, <2>2, <3>1 DEF LedgerInv, PurgeInv
  <2>5. \A c \in Calls, i \in 1..N : Stored(c, i) => Stored(c, i)'
    BY <1>1, <2>1, <2>2 DEF Stored
  <2> QED
    BY <1>1, <1>2, <1>3, <2>3, <2>4, <2>5 DEF LedgerInv, ClaimInv, Entry
<1> QED
  BY <1>4, <1>5, <1>6 DEF Purge

LEMMA StutterKeeps == LedgerInv /\ UNCHANGED vars => LedgerInv'
BY DEF vars, LedgerInv, RowInv, HeadInv, ClaimInv, DeltaInv, PurgeInv, FaultInv, N, Heads, HeadAt,
       HashAt, CallTypes, Stored, Entry

LEMMA StepLedger == LedgerInv /\ [Next]_vars => LedgerInv'
BY BeginKeeps, CallStepKeeps, CrashKeeps, PurgeKeeps, StutterKeeps DEF Next

LEMMA LedgerInvariance == Spec => []LedgerInv
BY InitLedger, StepLedger, PTL DEF Spec

-----------------------------------------------------------------------------
(* The theorems. *)

LEMMA Consequences ==
  LedgerInv => TypeOK /\ ChainVerifies /\ ReturnedIsComplete /\ PurgeIsComplete
<1> SUFFICES ASSUME LedgerInv
             PROVE  TypeOK /\ ChainVerifies /\ ReturnedIsComplete /\ PurgeIsComplete
  OBVIOUS
<1>1. PICK S : rows \in Seq(S)
  BY DEF LedgerInv, RowInv
<1>2. N \in Nat /\ DOMAIN rows = 1..N /\ Len(rows) = N
  BY <1>1 DEF N
<1>3. TypeOK
  <2>1. \A s \in Stores : cache[s] # Unknown => cache[s].length <= N
    <3>1. \A h \in Heads : h.length \in 0..N
      BY DEF Heads, HeadAt
    <3> QED
      BY <1>2, <3>1 DEF LedgerInv, HeadInv
  <2> QED
    BY <1>2, <2>1
    DEF TypeOK, LedgerInv, RowInv, HeadInv, DeltaInv, PurgeInv, FaultInv, CallTypes
<1>4. ChainVerifies
  <2> SUFFICES ASSUME NEW i \in 1..N
               PROVE  HeadOf(SubSeq(rows, 1, i - 1)).hash = HashAt(i - 1)
    BY <1>2 DEF ChainVerifies, LedgerInv, RowInv
  <2> DEFINE before == SubSeq(rows, 1, i - 1)
  <2>1. /\ before \in Seq(S) /\ Len(before) = i - 1
        /\ \A j \in 1..(i - 1) : before[j] = rows[j]
    BY <1>1, <1>2
  <2>2. before = <<>> <=> i - 1 = 0
    BY <2>1, EmptySeq
  <2> HIDE DEF before
  <2>3. HeadOf(before).hash = HashAt(i - 1)
    BY <2>1, <2>2 DEF HeadOf, HashAt
  <2> QED
    BY <2>3 DEF before
<1>5. ReturnedIsComplete
  BY <1>2 DEF ReturnedIsComplete, LedgerInv, ClaimInv, DeltaInv, Stored, Places
<1>6. PurgeIsComplete
  BY DEF PurgeIsComplete, LedgerInv, PurgeInv
<1> QED
  BY <1>3, <1>4, <1>5, <1>6

\* No store ever believes in a longer chain than there is, calls count their attempts
\* up to the bound, and delta rows stand beside entries.
THEOREM TypeCorrect == Spec => []TypeOK
BY LedgerInvariance, Consequences, PTL

\* The chain verifies in every state: the compare-and-swap keeps every append that
\* started from a stale head out of it.
THEOREM ChainAlwaysVerifies == Spec => []ChainVerifies
BY LedgerInvariance, Consequences, PTL

\* An append that returned is in the chain, with its delta unless it was purged.
THEOREM ReturnedAppendsAreComplete == Spec => []ReturnedIsComplete
BY LedgerInvariance, Consequences, PTL

\* A purge that has ended has removed the delta of every append of the forgotten
\* record that had returned before it.
THEOREM PurgesAreComplete == Spec => []PurgeIsComplete
BY LedgerInvariance, Consequences, PTL

-----------------------------------------------------------------------------
(* The ledger implements the append-only log. *)

\* A step appends one call's entry to the chain, or leaves the chain alone.
LEMMA StepRows ==
  ASSUME LedgerInv, [Next]_vars
  PROVE  \/ UNCHANGED rows
         \/ \E c \in Calls : rows' = Append(rows, Entry(c)) /\ N' = N + 1 /\ Kept
<1>1. ASSUME NEW c \in Calls, call[c].pc = "put", SlotIsFree(Entry(c).index), Claim(c)
      PROVE  rows' = Append(rows, Entry(c)) /\ N' = N + 1 /\ Kept
  <2>1. call[c].at \in Heads
    BY DEF LedgerInv, HeadInv, CallTypes
  <2> QED
    BY <1>1, <2>1, Claiming DEF LedgerInv
<1>2. ASSUME NEW c \in Calls, CallStep(c)
      PROVE  UNCHANGED rows \/ (rows' = Append(rows, Entry(c)) /\ N' = N + 1 /\ Kept)
  <2>1. UNCHANGED rows \/ (call[c].pc = "put" /\ SlotIsFree(Entry(c).index) /\ Claim(c))
    BY <1>2 DEF CallStep, Load, CacheHead, PutEntry, PutDelta, Conflict, Retry, Finish,
                AnswerLost, StoreFails
  <2> QED
    BY <1>1, <2>1
<1>3. ASSUME NEW c \in Calls, NEW s \in Stores, Begin(c, s) PROVE UNCHANGED rows
  BY <1>3 DEF Begin
<1>4. ASSUME NEW s \in Stores, Crash(s) PROVE UNCHANGED rows
  BY <1>4 DEF Crash
<1>5. CASE Purge \/ UNCHANGED vars
  BY <1>5 DEF Purge, PurgeStart, PurgeOne, PurgeEnd, vars
<1> QED
  BY <1>2, <1>3, <1>4, <1>5 DEF Next

\* The chain of a ledger, seen as its calls, is a log that only grows at its end.
THEOREM ChainIsLog == Spec => ImplementsLog
<1> DEFINE entries == [i \in DOMAIN rows |-> rows[i].call]
<1>1. Init => entries = <<>>
  BY DEF Init
<1>2. LedgerInv /\ [Next]_vars => [\E e \in Calls : entries' = Append(entries, e)]_entries
  <2> SUFFICES ASSUME LedgerInv, [Next]_vars
               PROVE  UNCHANGED entries \/ \E e \in Calls : entries' = Append(entries, e)
    OBVIOUS
  <2>1. CASE UNCHANGED rows
    BY <2>1
  <2>2. ASSUME NEW c \in Calls, rows' = Append(rows, Entry(c)), N' = N + 1, Kept
        PROVE  entries' = Append(entries, c)
    <3>1. PICK S : rows \in Seq(S)
      BY DEF LedgerInv, RowInv
    <3>2. PICK T : rows' \in Seq(T)
      BY <2>2, StepLedger DEF LedgerInv, RowInv
    <3>3. DOMAIN rows = 1..N /\ DOMAIN rows' = 1..(N + 1) /\ N \in Nat
      BY <2>2, <3>1, <3>2 DEF N
    <3>4. rows'[N + 1].call = c /\ \A i \in 1..N : rows'[i] = rows[i]
      <4>1. rows \in Seq(S \cup {Entry(c)})
        BY <3>1
      <4>2. rows'[N + 1] = Entry(c)
        BY <2>2, <4>1, AppendProperties DEF N
      <4> QED
        BY <2>2, <4>2, Entry(c).call = c DEF Kept, Entry
    <3>5. entries \in Seq(Calls) /\ Len(entries) = N
      <4>1. entries = [i \in 1..N |-> rows[i].call]
        BY <3>3
      <4>2. \A i \in 1..N : rows[i].call \in Calls
        BY DEF LedgerInv, RowInv
      <4> QED
        BY <3>3, <4>1, <4>2
    <3>6. entries' = [i \in 1..(N + 1) |-> IF i = N + 1 THEN c ELSE entries[i]]
      BY <3>3, <3>4
    <3>7. Append(entries, c) = [i \in 1..(N + 1) |-> IF i = N + 1 THEN c ELSE entries[i]]
      <4> DEFINE longer == Append(entries, c)
      <4>1. longer \in Seq(Calls) /\ Len(longer) = N + 1
        BY <3>5, AppendProperties
      <4>2. longer[N + 1] = c /\ \A i \in 1..N : longer[i] = entries[i]
        BY <3>5, AppendProperties
      <4>3. longer \in [1..(N + 1) -> Calls]
        BY <4>1, LenProperties
      <4> HIDE DEF longer, entries
      <4>4. longer = [i \in 1..(N + 1) |-> IF i = N + 1 THEN c ELSE entries[i]]
        BY <3>3, <4>2, <4>3
      <4> QED
        BY <4>4 DEF longer
    <3> QED
      BY <3>6, <3>7
  <2> HIDE DEF entries
  <2> QED
    BY <2>1, <2>2, StepRows
<1> QED
  BY <1>1, <1>2, LedgerInvariance, PTL DEF Spec, ImplementsLog, Log!Spec, Log!Init, Log!Next

-----------------------------------------------------------------------------
(* No call is in the chain more often than its lost answers explain. *)

\* A call that has ended, or whose delta is not there yet, may have one place
\* beyond the answers it lost; one that will start over may not.
HasClaimed(c) ==
  call[c].pc \in {"hash", "done", "failed"} \/ (call[c].pc = "delta" /\ DeltaIsFree(c))
Budget(c) == call[c].lost + IF HasClaimed(c) THEN 1 ELSE 0
OnceInv == \A c \in Calls : /\ Cardinality(Places(c)) <= Budget(c)
                            /\ call[c].pc = "idle" => call[c].lost = 0

LEMMA PlacesFinite ==
  ASSUME LedgerInv, NEW c \in Calls
  PROVE  /\ Places(c) \subseteq 1..N /\ N \in Nat
         /\ IsFiniteSet(Places(c)) /\ Cardinality(Places(c)) \in Nat
<1>1. Places(c) \subseteq 1..N /\ N \in Nat
  BY DEF LedgerInv, RowInv, Places, N
<1>2. IsFiniteSet(1..N)
  BY <1>1, FS_Interval
<1>3. IsFiniteSet(Places(c))
  BY <1>1, <1>2, FS_Subset
<1> QED
  BY <1>1, <1>3, FS_CardinalityType

LEMMA InitOnce == Init => OnceInv
<1> SUFFICES ASSUME Init, NEW c \in Calls
             PROVE  Cardinality(Places(c)) <= Budget(c) /\ (call[c].pc = "idle" => call[c].lost = 0)
  BY DEF OnceInv
<1>1. Places(c) = {}
  BY DEF Init, Places
<1>2. call[c].lost = 0 /\ call[c].pc = "idle"
  BY DEF Init, Idle
<1> QED
  BY <1>1, <1>2, FS_EmptySet DEF Budget, HasClaimed

\* The slot that call c claims adds one to its places and none to another's.
LEMMA ClaimedPlaces ==
  ASSUME LedgerInv, LedgerInv', NEW c \in Calls, NEW d \in Calls, call[c].pc = "put",
         SlotIsFree(Entry(c).index), Claim(c)
  PROVE  Cardinality(Places(d)') = Cardinality(Places(d)) + IF d = c THEN 1 ELSE 0
<1>1. call[c].at \in Heads
  BY DEF LedgerInv, HeadInv, CallTypes
<1>2. /\ Kept /\ N' = N + 1 /\ rows'[N + 1] = Entry(c)
  BY <1>1, Claiming DEF LedgerInv
<1>3. DOMAIN rows = 1..N /\ DOMAIN rows' = 1..(N + 1) /\ N \in Nat
  BY <1>2 DEF LedgerInv, RowInv, N
<1>4. rows'[N + 1].call = c /\ \A i \in 1..N : rows'[i] = rows[i]
  BY <1>2, Entry(c).call = c DEF Kept, Entry
<1>5. CASE d = c
  <2>1. Places(d)' = Places(d) \cup {N + 1} /\ N + 1 \notin Places(d)
    BY <1>3, <1>4, <1>5 DEF Places
  <2> QED
    BY <1>5, <2>1, PlacesFinite, FS_AddElement
<1>6. CASE d # c
  <2>1. Places(d)' = Places(d)
    BY <1>3, <1>4, <1>6 DEF Places
  <2> QED
    BY <1>6, <2>1, PlacesFinite
<1> QED
  BY <1>5, <1>6

\* Other calls keep their budget: their deltas have slots of their own.
LEMMA OthersBudget ==
  ASSUME LedgerInv, NEW d \in Calls, call'[d] = call[d],
         \/ DOMAIN deltas' \subseteq DOMAIN deltas
         \/ \E c \in Calls \ {d} : call[c].pc = "delta" /\ WriteDelta(c)
  PROVE  Budget(d)' >= Budget(d)
<1>1. Entry(d)' = Entry(d) /\ call[d].lost \in Nat
  BY DEF Entry, LedgerInv, HeadInv, CallTypes
<1>2. ASSUME call[d].pc = "delta", DeltaIsFree(d) PROVE DeltaIsFree(d)'
  <2>1. CASE DOMAIN deltas' \subseteq DOMAIN deltas
    BY <1>1, <1>2, <2>1 DEF DeltaIsFree
  <2>2. ASSUME NEW c \in Calls \ {d}, call[c].pc = "delta", WriteDelta(c)
        PROVE  DeltaIsFree(d)'
    <3>1. rows[Entry(c).index] = Entry(c) /\ rows[Entry(d).index] = Entry(d)
      BY <1>2, <2>2 DEF LedgerInv, ClaimInv
    <3>2. Entry(c).call = c /\ Entry(d).call = d
      BY DEF Entry
    <3>3. Entry(c).index # Entry(d).index
      BY <3>1, <3>2
    <3>4. DOMAIN deltas' = DOMAIN deltas \cup {Entry(c).index}
      BY <2>2 DEF WriteDelta
    <3> QED
      BY <1>1, <1>2, <3>3, <3>4 DEF DeltaIsFree
  <2> QED
    BY <2>1, <2>2
<1>3. HasClaimed(d) => HasClaimed(d)'
  BY <1>2 DEF HasClaimed
<1> QED
  BY <1>1, <1>3 DEF Budget

LEMMA OnceKept ==
  ASSUME LedgerInv, LedgerInv', OnceInv,
         \A d \in Calls : /\ Cardinality(Places(d)') - Cardinality(Places(d)) <= Budget(d)' - Budget(d)
                          /\ call'[d].pc = "idle" => call'[d] = call[d]
  PROVE  OnceInv'
<1> SUFFICES ASSUME NEW d \in Calls
             PROVE  Cardinality(Places(d)') <= Budget(d)' /\ (call'[d].pc = "idle" => call'[d].lost = 0)
  BY DEF OnceInv
<1>1. call[d].lost \in Nat /\ call'[d].lost \in Nat
  BY DEF LedgerInv, HeadInv, CallTypes
<1>2. Budget(d) \in Nat /\ Budget(d)' \in Nat
  BY <1>1 DEF Budget
<1>3. Cardinality(Places(d)) \in Nat /\ Cardinality(Places(d)') \in Nat
  <2>1. IsFiniteSet(Places(d)')
    <3>1. Places(d)' \subseteq 1..N' /\ N' \in Nat
      BY DEF LedgerInv, RowInv, Places, N
    <3>2. IsFiniteSet(1..N')
      BY <3>1, FS_Interval
    <3> QED
      BY <3>1, <3>2, FS_Subset
  <2> QED
    BY <2>1, PlacesFinite, FS_CardinalityType
<1> QED
  BY <1>2, <1>3 DEF OnceInv

LEMMA CallStepOnce ==
  ASSUME LedgerInv, LedgerInv', OnceInv, NEW c \in Calls, CallStep(c)
  PROVE  OnceInv'
<1> DEFINE claims == call[c].pc = "put" /\ SlotIsFree(Entry(c).index) /\ Claim(c)
<1>0. /\ call[c] \in CallTypes /\ call'[c] \in CallTypes' /\ call[c].lost \in Nat
  BY DEF LedgerInv, HeadInv, CallTypes
<1>1. \A d \in Calls \ {c} : call'[d] = call[d]
  BY DEF CallStep, Load, CacheHead, PutEntry, PutDelta, Conflict, Retry, Finish, AnswerLost,
         StoreFails, Unanswered, LedgerInv, HeadInv
<1>2. UNCHANGED deltas \/ (call[c].pc = "delta" /\ WriteDelta(c))
  BY DEF CallStep, Load, CacheHead, PutEntry, PutDelta, Conflict, Retry, Finish, AnswerLost,
         StoreFails
<1>3. UNCHANGED rows \/ claims
  BY DEF CallStep, Load, CacheHead, PutEntry, PutDelta, Conflict, Retry, Finish, AnswerLost,
         StoreFails
<1>4. \A d \in Calls : UNCHANGED rows => Cardinality(Places(d)') = Cardinality(Places(d))
  BY DEF Places
<1>5. \A d \in Calls : claims => Cardinality(Places(d)') = Cardinality(Places(d)) + IF d = c THEN 1 ELSE 0
  BY ClaimedPlaces
<1>6. \A d \in Calls \ {c} : Budget(d)' >= Budget(d)
  BY <1>1, <1>2, OthersBudget
<1>7. Budget(c)' >= Budget(c) + IF UNCHANGED rows THEN 0 ELSE 1
  <2>1. CASE PutEntry(c)
    <3>1. /\ call'[c].pc = AfterEntry(c) /\ call'[c].lost = call[c].lost
          /\ Entry(c)' = Entry(c) /\ UNCHANGED deltas
      BY <1>0, <2>1 DEF PutEntry, Entry, LedgerInv, HeadInv, CallTypes
    <3>2. DeltaIsFree(c)'
      <4>1. call[c].at \in Heads /\ claims
        BY <1>0, <2>1 DEF CallTypes, PutEntry
      <4>2. Entry(c).index = N + 1 /\ N \in Nat
        BY <4>1, Claiming, PlacesFinite DEF LedgerInv
      <4> QED
        BY <3>1, <4>2 DEF LedgerInv, DeltaInv, DeltaIsFree
    <3> QED
      BY <1>0, <2>1, <3>1, <3>2 DEF Budget, HasClaimed, AfterEntry, PutEntry
  <2>2. CASE AnswerLost(c)
    <3>1. /\ call'[c].lost = call[c].lost + 1
          /\ call'[c].pc = "failed" \/ (call'[c].pc = call[c].pc /\ call'[c].at = call[c].at)
      BY <1>0, <2>2, EndedType DEF AnswerLost, Unanswered, LedgerInv, HeadInv, CallTypes, PCs
    <3>2. CASE call'[c].pc = "failed"
      BY <1>0, <3>1, <3>2 DEF Budget, HasClaimed
    <3>3. CASE call'[c].pc = call[c].pc /\ call'[c].at = call[c].at
      BY <1>0, <2>2, <3>1, <3>3 DEF AnswerLost, Budget, HasClaimed
    <3> QED
      BY <3>1, <3>2, <3>3
  <2>3. CASE UNCHANGED rows /\ call'[c].lost = call[c].lost /\ (HasClaimed(c) => HasClaimed(c)')
    BY <1>0, <2>3 DEF Budget
  <2>4. CASE Load(c) \/ CacheHead(c) \/ Retry(c)
    <3>1. PICK pc \in {"put", "cache", "load"}, at \in {HeadOf(rows), HeadOf(<<>>), call[c].at} :
            call' = [call EXCEPT ![c] = [@ EXCEPT !.pc = pc, !.at = at]]
      <4>1. CASE Load(c)
        BY <4>1 DEF Load
      <4>2. CASE CacheHead(c) \/ Retry(c)
        <5>1. PICK p \in {"put", "load"} : call' = [call EXCEPT ![c].pc = p]
          BY <4>2 DEF CacheHead, Retry
        <5>2. [call[c] EXCEPT !.pc = p] = [call[c] EXCEPT !.pc = p, !.at = call[c].at]
          BY <1>0 DEF CallTypes
        <5> QED
          BY <5>1, <5>2
      <4> QED
        BY <2>4, <4>1, <4>2
    <3>2. call'[c].lost = call[c].lost
      BY <1>0, <3>1 DEF LedgerInv, HeadInv, CallTypes
    <3> QED
      BY <2>3, <2>4, <3>2 DEF Load, CacheHead, Retry, HasClaimed
  <2>5. CASE PutDelta(c)
    <3>1. call'[c].lost = call[c].lost /\ call'[c].pc = "hash"
      BY <1>0, <2>5 DEF PutDelta, LedgerInv, HeadInv, CallTypes
    <3> QED
      BY <2>3, <2>5, <3>1 DEF PutDelta, HasClaimed
  <2>6. CASE Conflict(c)
    <3>1. call'[c].lost = call[c].lost
      BY <1>0, <2>6, EndedType DEF Conflict, LedgerInv, HeadInv, CallTypes, PCs
    <3>2. ~HasClaimed(c)
      BY <2>6 DEF Conflict, HasClaimed
    <3> QED
      BY <2>3, <2>6, <3>1, <3>2 DEF Conflict
  <2>7. CASE Finish(c)
    <3>1. call'[c].lost = call[c].lost /\ call'[c].pc = "done"
      BY <1>0, <2>7, EndedType DEF Finish, LedgerInv, HeadInv, PCs
    <3> QED
      BY <2>3, <2>7, <3>1 DEF Finish, HasClaimed
  <2>8. CASE StoreFails(c)
    <3>1. call'[c].lost = call[c].lost /\ call'[c].pc = "failed"
      BY <1>0, <2>8, EndedType DEF StoreFails, LedgerInv, HeadInv, PCs
    <3> QED
      BY <2>3, <2>8, <3>1 DEF StoreFails, HasClaimed
  <2> QED
    BY <2>1, <2>2, <2>4, <2>5, <2>6, <2>7, <2>8 DEF CallStep
<1>8. call'[c].pc # "idle"
  <2> USE DEF LedgerInv, HeadInv, CallTypes
  <2>1. CASE CacheHead(c) \/ Retry(c) \/ PutDelta(c)
    BY <1>0, <2>1 DEF CacheHead, Retry, PutDelta
  <2>6. CASE Load(c)
    <3>1. PICK p \in {"put", "cache"}, at \in {HeadOf(rows), HeadOf(<<>>), call[c].at} :
            call' = [call EXCEPT ![c] = [@ EXCEPT !.pc = p, !.at = at]]
      BY <2>6 DEF Load
    <3> QED
      BY <1>0, <3>1
  <2>2. CASE PutEntry(c)
    BY <1>0, <2>2 DEF PutEntry, AfterEntry
  <2>3. CASE Conflict(c)
    BY <1>0, <2>3, EndedType DEF Conflict, PCs
  <2>4. CASE Finish(c) \/ StoreFails(c)
    BY <1>0, <2>4, EndedType DEF Finish, StoreFails, PCs
  <2>5. CASE AnswerLost(c)
    <3>1. call'[c].pc = Ended(c, "failed").pc \/ call'[c].pc = call[c].pc
      BY <1>0, <2>5, EndedType DEF AnswerLost, Unanswered, PCs
    <3> QED
      BY <2>5, <3>1, EndedType DEF AnswerLost, PCs
  <2> QED
    BY <2>1, <2>2, <2>3, <2>4, <2>5, <2>6 DEF CallStep
<1>9. \A d \in Calls : /\ Budget(d) \in Nat /\ Budget(d)' \in Nat
                        /\ Cardinality(Places(d)) \in Nat
  <2>1. \A d \in Calls : call[d].lost \in Nat /\ call'[d].lost \in Nat
    BY DEF LedgerInv, HeadInv, CallTypes
  <2> QED
    BY <2>1, PlacesFinite DEF Budget
<1>10. \A d \in Calls : Cardinality(Places(d)') - Cardinality(Places(d)) <= Budget(d)' - Budget(d)
  <2> HIDE DEF claims
  <2> QED
    BY <1>3, <1>4, <1>5, <1>6, <1>7, <1>9
<1> QED
  BY <1>1, <1>8, <1>10, OnceKept

LEMMA StepOnce == LedgerInv /\ LedgerInv' /\ OnceInv /\ [Next]_vars => OnceInv'
<1> SUFFICES ASSUME LedgerInv, LedgerInv', OnceInv, [Next]_vars PROVE OnceInv'
  OBVIOUS
<1>1. ASSUME UNCHANGED rows,
             \A d \in Calls : Budget(d)' >= Budget(d) /\ (call'[d].pc = "idle" => call'[d] = call[d])
      PROVE  OnceInv'
  <2>1. \A d \in Calls : Cardinality(Places(d)') = Cardinality(Places(d))
    BY <1>1 DEF Places
  <2>2. \A d \in Calls : Budget(d) \in Nat /\ Budget(d)' \in Nat /\ Cardinality(Places(d)) \in Nat
    <3>1. \A d \in Calls : call[d].lost \in Nat /\ call'[d].lost \in Nat
      BY DEF LedgerInv, HeadInv, CallTypes
    <3> QED
      BY <3>1, PlacesFinite DEF Budget
  <2> QED
    BY <1>1, <2>1, <2>2, OnceKept
<1>2. ASSUME NEW c \in Calls, NEW s \in Stores, Begin(c, s) PROVE OnceInv'
  <2>1. \A d \in Calls \ {c} : call'[d] = call[d]
    BY <1>2 DEF Begin, LedgerInv, HeadInv
  <2>2. call[c].pc = "idle" /\ call[c].lost = 0 /\ call'[c].pc # "idle" /\ call'[c].lost = 0
    BY <1>2 DEF Begin, Idle, LedgerInv, HeadInv, OnceInv
  <2>3. \A d \in Calls \ {c} : Budget(d)' >= Budget(d)
    BY <1>2, <2>1, OthersBudget DEF Begin
  <2>4. Budget(c)' >= Budget(c)
    BY <2>2 DEF Budget, HasClaimed
  <2> QED
    BY <1>1, <1>2, <2>1, <2>2, <2>3, <2>4 DEF Begin
<1>3. ASSUME NEW s \in Stores, Crash(s) PROVE OnceInv'
  <2>1. ASSUME NEW d \in Calls PROVE Budget(d)' >= Budget(d) /\ (call'[d].pc = "idle" => call'[d] = call[d])
    <3>1. CASE call[d].store = s
      <4>1. call'[d].lost = call[d].lost /\ call'[d].pc = "failed" /\ call[d].lost \in Nat
        BY <1>3, <3>1, EndedType DEF Crash, PCs, LedgerInv, HeadInv, CallTypes
      <4> QED
        BY <4>1 DEF Budget, HasClaimed
    <3>2. CASE call[d].store # s
      BY <1>3, <3>2, OthersBudget DEF Crash
    <3> QED
      BY <3>1, <3>2
  <2> QED
    BY <1>1, <1>3, <2>1 DEF Crash
<1>4. CASE Purge
  <2>1. UNCHANGED <<rows, call>> /\ DOMAIN deltas' \subseteq DOMAIN deltas
    BY <1>4 DEF Purge, PurgeStart, PurgeOne, PurgeEnd
  <2> QED
    BY <1>1, <2>1, OthersBudget
<1>5. CASE UNCHANGED vars
  <2>1. UNCHANGED <<rows, call, deltas>>
    BY <1>5 DEF vars
  <2> QED
    BY <1>1, <2>1, OthersBudget
<1> QED
  BY <1>2, <1>3, <1>4, <1>5, CallStepOnce DEF Next

\* A call is in the chain once, and once more at most for each answer it lost.
THEOREM AppendsLandOnce == Spec => []OncePerCall
<1>1. LedgerInv /\ OnceInv => OncePerCall
  <2> SUFFICES ASSUME LedgerInv, OnceInv, NEW c \in Calls
               PROVE  Cardinality(Places(c)) <= 1 + call[c].lost
    BY DEF OncePerCall
  <2>1. call[c].lost \in Nat /\ Cardinality(Places(c)) \in Nat
    BY PlacesFinite DEF LedgerInv, HeadInv, CallTypes
  <2> QED
    BY <2>1 DEF OnceInv, Budget
<1>2. Spec => []OnceInv
  BY InitLedger, StepLedger, InitOnce, StepOnce, PTL DEF Spec
<1> QED
  BY <1>1, <1>2, LedgerInvariance, PTL
=============================================================================
