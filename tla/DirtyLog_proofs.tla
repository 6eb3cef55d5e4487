-------------------------- MODULE DirtyLog_proofs ---------------------------
(***************************************************************************)
(* Theorems about the array of DirtyLog, for any number of records, writes *)
(* and restarts.  The first part is about the operators on arrays, the     *)
(* second about the invariants that keep an index walk over a changing     *)
(* array right.                                                            *)
(***************************************************************************)
EXTENDS DirtyLog, FiniteSetTheorems, SequenceTheorems, TLAPS

-----------------------------------------------------------------------------
(* Positions that are kept, and the ranks they move to. *)

LEMMA KeptFinite ==
  ASSUME NEW S, NEW log \in Seq(S), NEW kept \in SUBSET DOMAIN log
  PROVE  kept \in SUBSET Nat /\ IsFiniteSet(kept) /\ Cardinality(kept) \in Nat
<1>1. Len(log) \in Nat /\ DOMAIN log = 1..Len(log)
  OBVIOUS
<1>2. IsFiniteSet(1..Len(log))
  BY <1>1, FS_Interval
<1>3. IsFiniteSet(kept)
  BY <1>1, <1>2, FS_Subset
<1> QED
  BY <1>1, <1>3, FS_CardinalityType

LEMMA RankRises ==
  ASSUME NEW kept \in SUBSET Nat, IsFiniteSet(kept),
         NEW i \in kept, NEW j \in kept, i < j
  PROVE  Rank(kept, i) < Rank(kept, j)
<1> DEFINE low == {k \in kept : k <= i}  high == {k \in kept : k <= j}
<1>a. \A k \in kept : k \in Nat
  OBVIOUS
<1>1. low \subseteq high /\ j \in high /\ j \notin low
  <2>1. \A k \in kept : k <= i => k <= j
    BY <1>a
  <2>2. j <= j /\ ~(j <= i)
    BY <1>a
  <2> QED
    BY <2>1, <2>2
<1>2. high \in SUBSET kept /\ low \in SUBSET kept
  OBVIOUS
<1>3. IsFiniteSet(high) /\ Cardinality(high) \in Nat /\ Cardinality(low) \in Nat
  BY <1>2, FS_Subset, FS_CardinalityType
<1>4. Cardinality(low) <= Cardinality(high) /\ Cardinality(low) # Cardinality(high)
  BY <1>1, <1>3, FS_Subset
<1> QED
  BY <1>3, <1>4 DEF Rank

LEMMA RankRange ==
  ASSUME NEW kept \in SUBSET Nat, IsFiniteSet(kept), NEW i \in kept
  PROVE  Rank(kept, i) \in 1..Cardinality(kept)
<1> DEFINE low == {k \in kept : k <= i}
<1>1. IsFiniteSet(kept) /\ low \in SUBSET kept /\ i \in low
  OBVIOUS
<1>2. /\ IsFiniteSet(low) /\ Cardinality(low) \in Nat /\ Cardinality(kept) \in Nat
      /\ Cardinality(low) <= Cardinality(kept)
  BY <1>1, FS_Subset, FS_CardinalityType
<1>3. Cardinality(low) # 0
  BY <1>1, <1>2, FS_EmptySet
<1> QED
  BY <1>2, <1>3 DEF Rank

LEMMA RankInjective ==
  ASSUME NEW kept \in SUBSET Nat, IsFiniteSet(kept),
         NEW i \in kept, NEW j \in kept, Rank(kept, i) = Rank(kept, j)
  PROVE  i = j
<1>1. Rank(kept, i) \in Nat /\ Rank(kept, j) \in Nat
  BY RankRange
<1>2. ~(i < j)
  BY <1>1, RankRises
<1>3. ~(j < i)
  BY <1>1, RankRises
<1> QED
  BY <1>2, <1>3

\* The ranks of the kept positions are all the positions of the shorter array.
LEMMA RankOnto ==
  ASSUME NEW kept \in SUBSET Nat, IsFiniteSet(kept), NEW r \in 1..Cardinality(kept)
  PROVE  \E i \in kept : Rank(kept, i) = r
<1> DEFINE c == Cardinality(kept)  f == [i \in kept |-> Rank(kept, i)]
<1>1. IsFiniteSet(kept) /\ c \in Nat
  BY FS_CardinalityType
<1>2. f \in [kept -> 1..c]
  BY RankRange
<1>3. f \in Injection(kept, 1..c)
  BY <1>2, RankInjective DEF Injection, IsInjective
<1>4. IsFiniteSet(1..c) /\ Cardinality(1..c) = c
  BY <1>1, FS_Interval
<1>5. f \in Surjection(kept, 1..c)
  BY <1>1, <1>3, <1>4, FS_Injection
<1> QED
  BY <1>5 DEF Surjection

\* Kept is an array of the kept entries, each at its rank, and of nothing else.
LEMMA KeptGives ==
  ASSUME NEW S, NEW log \in Seq(S), NEW kept \in SUBSET DOMAIN log
  PROVE  /\ Kept(log, kept) \in Seq(S)
         /\ DOMAIN Kept(log, kept) = 1..Cardinality(kept)
         /\ \A i \in kept : /\ Rank(kept, i) \in DOMAIN Kept(log, kept)
                            /\ Kept(log, kept)[Rank(kept, i)] = log[i]
         /\ \A r \in DOMAIN Kept(log, kept) : \E i \in kept : Rank(kept, i) = r
<1> DEFINE c == Cardinality(kept)
           At(r) == CHOOSE i \in kept : Rank(kept, i) = r
<1>1. Len(log) \in Nat /\ DOMAIN log = 1..Len(log)
  OBVIOUS
<1>2. kept \in SUBSET Nat /\ IsFiniteSet(kept)
  BY KeptFinite
<1>3. c \in Nat
  BY <1>2, FS_CardinalityType
<1>4. \A r \in 1..c : At(r) \in kept /\ Rank(kept, At(r)) = r
  BY <1>1, <1>2, RankOnto
<1>5. \A i \in kept : Rank(kept, i) \in 1..c /\ At(Rank(kept, i)) = i
  BY <1>1, <1>2, <1>4, RankRange, RankInjective
<1>6. Kept(log, kept) = [r \in 1..c |-> log[At(r)]]
  BY DEF Kept
<1>7. \A r \in 1..c : log[At(r)] \in S
  BY <1>4, ElementOfSeq
<1> HIDE DEF At
<1>8. Kept(log, kept) \in [1..c -> S]
  BY <1>6, <1>7
<1>9. Kept(log, kept) \in Seq(S)
  BY <1>3, <1>8, SeqDef
<1> QED
  BY <1>4, <1>5, <1>6, <1>9

\* Removing positions keeps the records distinct.
LEMMA KeptDistinct ==
  ASSUME NEW S, NEW log \in Seq(S), NEW kept \in SUBSET DOMAIN log, Distinct(log)
  PROVE  Distinct(Kept(log, kept))
<1> DEFINE new == Kept(log, kept)
<1> SUFFICES ASSUME NEW r \in DOMAIN new, NEW t \in DOMAIN new, new[r].id = new[t].id
             PROVE  r = t
  BY DEF Distinct
<1>1. PICK i \in kept : Rank(kept, i) = r
  BY KeptGives
<1>2. PICK j \in kept : Rank(kept, j) = t
  BY KeptGives
<1>3. new[r] = log[i] /\ new[t] = log[j]
  BY <1>1, <1>2, KeptGives
<1>4. i = j
  BY <1>3 DEF Distinct
<1> QED
  BY <1>1, <1>2, <1>4

\* A tracked write names its record and version at one position and leaves the
\* other entries where they are.
LEMMA TrackedGives ==
  ASSUME NEW log \in Seq(Entries), NEW id \in Ids, NEW v \in Nat \ {0}
  PROVE  LET new == Tracked(log, id, v)
         IN /\ new \in Seq(Entries)
            /\ DOMAIN log \subseteq DOMAIN new
            /\ \A k \in DOMAIN log : new[k].id = log[k].id
            /\ \A k \in DOMAIN log : log[k].id # id => new[k] = log[k]
            /\ \A k \in DOMAIN new \ DOMAIN log :
                 new[k].id = id /\ \A j \in DOMAIN log : log[j].id # id
            /\ \A k \in DOMAIN new : new[k].id = id => new[k].version = v
            /\ \E k \in DOMAIN new : new[k].id = id
<1> DEFINE new == Tracked(log, id, v)  e == [id |-> id, version |-> v]
<1>1. e \in Entries /\ e.id = id /\ e.version = v
  BY DEF Entries
<1>2. Len(log) \in Nat /\ DOMAIN log = 1..Len(log) /\ log \in [1..Len(log) -> Entries]
  BY LenProperties
<1>3. CASE Positions(log, id) = {}
  <2>1. new = Append(log, e)
    BY <1>3 DEF Tracked
  <2> HIDE DEF e
  <2>2. /\ new \in Seq(Entries) /\ Len(new) = Len(log) + 1
        /\ \A k \in 1..Len(log) : new[k] = log[k]
        /\ new[Len(log) + 1] = e
    BY <1>1, <1>2, <2>1
  <2>3. DOMAIN new = 1..(Len(log) + 1)
    BY <2>2, LenProperties
  <2>4. \A j \in DOMAIN log : log[j].id # id
    BY <1>3 DEF Positions
  <2>5. \A k \in DOMAIN new \ DOMAIN log : k = Len(log) + 1
    BY <1>2, <2>3
  <2>6. \A k \in DOMAIN new : k \in DOMAIN log \/ k = Len(log) + 1
    BY <1>2, <2>3
  <2>7. DOMAIN log \subseteq DOMAIN new /\ Len(log) + 1 \in DOMAIN new
    BY <1>2, <2>3
  <2> QED
    BY <1>1, <1>2, <2>2, <2>4, <2>5, <2>6, <2>7
<1>4. CASE Positions(log, id) # {}
  <2>1. new = [k \in DOMAIN log |-> IF k \in Positions(log, id) THEN e ELSE log[k]]
    BY <1>4 DEF Tracked
  <2> HIDE DEF e
  <2>2. \A k \in DOMAIN log : k \in Positions(log, id) <=> log[k].id = id
    BY DEF Positions
  <2>3. new \in [1..Len(log) -> Entries]
    BY <1>1, <1>2, <2>1
  <2>4. new \in Seq(Entries)
    BY <1>2, <2>3, SeqDef
  <2>5. \E k \in DOMAIN log : log[k].id = id
    BY <1>4 DEF Positions
  <2> QED
    BY <1>1, <2>1, <2>2, <2>4, <2>5
<1> QED
  BY <1>3, <1>4

LEMMA TrackedDistinct ==
  ASSUME NEW log \in Seq(Entries), NEW id \in Ids, NEW v \in Nat \ {0}, Distinct(log)
  PROVE  Distinct(Tracked(log, id, v))
<1> DEFINE new == Tracked(log, id, v)
<1> SUFFICES ASSUME NEW j \in DOMAIN new, NEW k \in DOMAIN new, new[j].id = new[k].id
             PROVE  j = k
  BY DEF Distinct
<1>a. /\ \A i \in DOMAIN log : new[i].id = log[i].id
      /\ \A i \in DOMAIN new \ DOMAIN log :
           new[i].id = id /\ \A h \in DOMAIN log : log[h].id # id
  BY TrackedGives
<1> HIDE DEF new
<1>1. CASE j \in DOMAIN log /\ k \in DOMAIN log
  BY <1>a, <1>1 DEF Distinct
<1>2. CASE j \notin DOMAIN log /\ k \notin DOMAIN log
  <2>1. Positions(log, id) = {}
    BY <1>a, <1>2 DEF Positions
  <2>2. new = Append(log, [id |-> id, version |-> v])
    BY <2>1 DEF Tracked, new
  <2>3. DOMAIN new = 1..(Len(log) + 1) /\ DOMAIN log = 1..Len(log) /\ Len(log) \in Nat
    BY <2>2 DEF Entries
  <2> QED
    BY <1>2, <2>3
<1>3. CASE j \in DOMAIN log /\ k \notin DOMAIN log
  BY <1>a, <1>3
<1>4. CASE j \notin DOMAIN log /\ k \in DOMAIN log
  BY <1>a, <1>4
<1> QED
  BY <1>1, <1>2, <1>3, <1>4

-----------------------------------------------------------------------------
(* Types, and one entry per record. *)

\* A push holds a record exactly while it awaits its settlement.
HandHeld == \A p \in Pushes : run[p].hand # NoId <=> run[p].pc = "await"

LogInv == TypeOK /\ UniqueEntries /\ HandHeld

\* Shortening the log keeps it a log of distinct records.
LEMMA Shortened ==
  ASSUME LogInv, NEW kept \in SUBSET DOMAIN dirty
  PROVE  Kept(dirty, kept) \in Seq(Entries) /\ Distinct(Kept(dirty, kept))
BY KeptGives, KeptDistinct DEF LogInv, TypeOK, UniqueEntries

LEMMA LogInvInit == Init => LogInv
<1> SUFFICES ASSUME Init PROVE LogInv
  OBVIOUS
<1>1. <<>> \in Seq(Entries) /\ Distinct(<<>>)
  BY DEF Distinct
<1>2. NoRun \in Runs
  BY DEF NoRun, Runs
<1>3. 0 \in 0..MaxWrites /\ 0 \in 0..MaxCrashes
  BY BoundsAssumption
<1>4. TypeOK
  BY <1>1, <1>2, <1>3 DEF Init, TypeOK
<1>5. HandHeld
  BY DEF Init, HandHeld, NoRun
<1> QED
  BY <1>1, <1>4, <1>5 DEF Init, LogInv, UniqueEntries

LEMMA RunTypes ==
  ASSUME LogInv, NEW p \in Pushes
  PROVE  /\ run[p] \in Runs
         /\ run[p].at \in Nat \ {0} /\ run[p].at + 1 \in Nat \ {0}
         /\ run[p].completed \subseteq Nat /\ run[p].done \subseteq Ids
         /\ run[p].hand \in Ids \cup {NoId} /\ run[p].only \subseteq Ids
<1>1. run[p] \in Runs
  BY DEF LogInv, TypeOK
<1> QED
  BY <1>1 DEF Runs

LEMMA EntryTypes ==
  ASSUME LogInv, NEW k \in Nat \ {0}, k <= Len(dirty)
  PROVE  k \in DOMAIN dirty /\ dirty[k].id \in Ids
<1>1. dirty \in Seq(Entries)
  BY DEF LogInv, TypeOK
<1>2. k \in DOMAIN dirty /\ dirty[k] \in Entries
  BY <1>1, LenProperties
<1> QED
  BY <1>2 DEF Entries

LEMMA LogInvStep == LogInv /\ [Next]_vars => LogInv'
<1> SUFFICES ASSUME LogInv, [Next]_vars PROVE LogInv'
  OBVIOUS
<1> USE DEF LogInv, UniqueEntries, TypeOK, HandHeld
<1>r. NoRun \in Runs /\ NoRun.hand = NoId /\ NoRun.pc = "idle"
  BY DEF NoRun, Runs
<1>1. CASE UNCHANGED vars
  BY <1>1 DEF vars
<1>2. ASSUME NEW c \in Loads, LoadStart(c) \/ EnsureLoaded(c)
      PROVE  LogInv'
  BY <1>2 DEF LoadStart, EnsureLoaded
<1>3. ASSUME NEW id \in Ids, TrackChange(id)
      PROVE  LogInv'
  <2>1. writes + 1 \in Nat \ {0} /\ writes + 1 \in 0..MaxWrites
    BY <1>3, BoundsAssumption DEF TrackChange
  <2>2. dirty' \in Seq(Entries) /\ Distinct(dirty')
    BY <1>3, <2>1, TrackedGives, TrackedDistinct DEF TrackChange
  <2> QED
    BY <1>3, <2>1, <2>2 DEF TrackChange
<1>4. ASSUME NEW id \in Ids, RemoveDirty(id)
      PROVE  LogInv'
  BY <1>4, Shortened DEF RemoveDirty, Filtered
<1>5. CASE PersistMeta
  BY <1>5 DEF PersistMeta
<1>6. CASE Crash
  <2>1. <<>> \in Seq(Entries) /\ Distinct(<<>>)
    BY DEF Distinct
  <2>2. crashes' \in 0..MaxCrashes
    BY <1>6, BoundsAssumption DEF Crash
  <2> QED
    BY <1>6, <1>r, <2>1, <2>2 DEF Crash
<1>7. ASSUME NEW p \in Pushes, NEW only \in SUBSET Ids, PushStart(p, only)
      PROVE  LogInv'
  <2>1. [NoRun EXCEPT !.pc = "loop", !.only = only] \in Runs
    BY <1>r DEF Runs
  <2>2. run' \in [Pushes -> Runs] /\ HandHeld'
    BY <1>7, <1>r, <2>1 DEF PushStart, Runs
  <2> QED
    BY <1>7, <2>2 DEF PushStart
<1>8. ASSUME NEW p \in Pushes, PushNext(p)
      PROVE  LogInv'
  <2> DEFINE id == dirty[run[p].at].id
  <2>1. id \in Ids /\ id # NoId
    BY <1>8, RunTypes, EntryTypes, NoIdAssumption DEF PushNext
  <2> HIDE DEF id
  <2>2. ASSUME run' = [run EXCEPT ![p].pc = "await", ![p].hand = id]
        PROVE  run' \in [Pushes -> Runs] /\ HandHeld'
    <3>1. [run[p] EXCEPT !.pc = "await", !.hand = id] \in Runs
      BY <2>1, RunTypes DEF Runs
    <3> QED
      BY <2>1, <2>2, <3>1, RunTypes DEF Runs
  <2>3. ASSUME run' = [run EXCEPT ![p].at = @ + 1]
        PROVE  run' \in [Pushes -> Runs] /\ HandHeld'
    <3>1. [run[p] EXCEPT !.at = @ + 1] \in Runs
      BY RunTypes DEF Runs
    <3> QED
      BY <2>3, <3>1, RunTypes DEF Runs
  <2>4. run' \in [Pushes -> Runs] /\ HandHeld'
    BY <1>8, <2>2, <2>3 DEF PushNext, id
  <2> QED
    BY <1>8, <2>4 DEF PushNext
<1>9. ASSUME NEW p \in Pushes, PushCompleted(p)
      PROVE  LogInv'
  <2>1. run[p].hand \in Ids
    BY <1>9, RunTypes DEF PushCompleted
  <2>2. run' \in [Pushes -> Runs] /\ HandHeld'
    BY <1>9, <2>1, RunTypes DEF PushCompleted, Runs
  <2> QED
    BY <1>9, <2>2 DEF PushCompleted
<1>10. ASSUME NEW p \in Pushes, PushFailed(p)
       PROVE  LogInv'
  <2>1. run' \in [Pushes -> Runs] /\ HandHeld'
    BY <1>10, RunTypes DEF PushFailed, Runs
  <2> QED
    BY <1>10, <2>1 DEF PushFailed
<1>11. ASSUME NEW p \in Pushes, PushFinish(p)
       PROVE  LogInv'
  <2>1. run' \in [Pushes -> Runs] /\ HandHeld'
    BY <1>11, <1>r DEF PushFinish
  <2> QED
    BY <1>11, <2>1, Shortened DEF PushFinish, Spliced
<1> QED
  BY <1>1, <1>2, <1>3, <1>4, <1>5, <1>6, <1>7, <1>8, <1>9, <1>10, <1>11
     DEF Next, PushStep

\* The array is always an array of entries and a push stands in it where the
\* loop's variables say.
THEOREM TypeCorrect == Spec => []TypeOK
<1>1. LogInv => TypeOK
  BY DEF LogInv
<1> QED
  BY <1>1, LogInvInit, LogInvStep, PTL DEF Spec

\* However writes, pulls, loads, restarts and any number of overlapping pushes
\* interleave, trackChange leaves at most one entry per record.
THEOREM EntriesUnique == Spec => []UniqueEntries
<1>1. LogInv => UniqueEntries
  BY DEF LogInv
<1> QED
  BY <1>1, LogInvInit, LogInvStep, PTL DEF Spec

-----------------------------------------------------------------------------
(* The walk of a single push. *)

\* Pushes do not overlap, and no two calls race to load the log.
OneAtATime == ~Overlap /\ \A b, c \in Loads : b = c

\* Before the saved log is loaded there is nothing to walk, and afterwards
\* nobody replaces the array.
LoadHeld ==
  /\ ~loaded => dirty = <<>> /\ \A p \in Pushes : ~Running(p)
  /\ loaded => loading = {}
  /\ ~saved => meta = <<>>

\* One push walks; its index has passed those it completed, and is in the array
\* or just behind it.
WalkHeld ==
  /\ \A p, q \in Pushes : Running(p) /\ Running(q) => p = q
  /\ \A p \in Pushes :
       /\ ~Running(p) => run[p] = NoRun
       /\ \A k \in run[p].completed : k < run[p].at
       /\ run[p].at <= Len(dirty) + 1

WalkInv == LogInv /\ IndicesStable /\ LoadHeld /\ WalkHeld

LEMMA NoRunFields ==
  /\ NoRun.pc = "idle" /\ NoRun.only = {} /\ NoRun.at = 1 /\ NoRun.hand = NoId
  /\ NoRun.completed = {} /\ NoRun.done = {}
BY DEF NoRun

\* No walk at all satisfies everything that is said of walks.
LEMMA AllIdle ==
  ASSUME \A p \in Pushes : run[p] = NoRun, dirty \in Seq(Entries)
  PROVE  IndicesStable /\ WalkHeld /\ \A p \in Pushes : ~Running(p)
<1>1. Len(dirty) \in Nat
  BY LenProperties
<1> QED
  BY <1>1, NoRunFields DEF IndicesStable, WalkHeld, Running

LEMMA WalkInvInit == Init => WalkInv
<1> SUFFICES ASSUME Init PROVE WalkInv
  OBVIOUS
<1>1. LogInv
  BY LogInvInit
<1>2. IndicesStable /\ WalkHeld /\ \A p \in Pushes : ~Running(p)
  BY <1>1, AllIdle DEF Init, LogInv, TypeOK
<1> QED
  BY <1>1, <1>2 DEF Init, WalkInv, LoadHeld

LEMMA AllIdleNext ==
  ASSUME \A p \in Pushes : run'[p] = NoRun, dirty' \in Seq(Entries)
  PROVE  IndicesStable' /\ WalkHeld' /\ \A p \in Pushes : ~Running(p)'
<1>1. Len(dirty') \in Nat
  BY LenProperties
<1> QED
  BY <1>1, NoRunFields DEF IndicesStable, WalkHeld, Running

LEMMA WalkInvStep == OneAtATime /\ WalkInv /\ [Next]_vars => WalkInv'
<1> SUFFICES ASSUME OneAtATime, WalkInv, [Next]_vars PROVE WalkInv'
  OBVIOUS
<1>t. LogInv /\ LogInv' /\ dirty \in Seq(Entries) /\ dirty' \in Seq(Entries)
  BY LogInvStep DEF WalkInv, LogInv, TypeOK
<1>n. Len(dirty) \in Nat /\ DOMAIN dirty = 1..Len(dirty)
  BY <1>t, LenProperties
<1>f. run \in [Pushes -> Runs]
  BY <1>t DEF LogInv, TypeOK
<1>i. (\A p \in Pushes : ~Running(p)) /\ UNCHANGED run =>
        IndicesStable' /\ WalkHeld' /\ \A p \in Pushes : ~Running(p)'
  BY <1>t, AllIdleNext DEF WalkInv, WalkHeld
<1>1. CASE UNCHANGED vars
  BY <1>1, <1>t DEF vars, WalkInv, IndicesStable, LoadHeld, WalkHeld, Running
<1>2. ASSUME NEW c \in Loads, LoadStart(c)
      PROVE  WalkInv'
  BY <1>2, <1>t, <1>i DEF LoadStart, WalkInv, LoadHeld
<1>3. ASSUME NEW c \in Loads, EnsureLoaded(c)
      PROVE  WalkInv'
  <2>1. ~loaded /\ \A p \in Pushes : ~Running(p)
    BY <1>3 DEF EnsureLoaded, WalkInv, LoadHeld
  <2>2. loading' = {}
    BY <1>3, <1>t DEF EnsureLoaded, OneAtATime, LogInv, TypeOK
  <2> QED
    BY <1>3, <1>t, <1>i, <2>1, <2>2 DEF EnsureLoaded, WalkInv, LoadHeld
<1>4. ASSUME NEW id \in Ids, TrackChange(id)
      PROVE  WalkInv'
  <2>1. writes + 1 \in Nat \ {0}
    BY <1>4, <1>t, BoundsAssumption DEF TrackChange, LogInv, TypeOK
  <2>2. DOMAIN dirty \subseteq DOMAIN dirty' /\ \A k \in DOMAIN dirty : dirty'[k].id = dirty[k].id
    <3> DEFINE v == writes + 1
    <3>1. dirty' = Tracked(dirty, id, v) /\ v \in Nat \ {0}
      BY <1>4, <2>1 DEF TrackChange
    <3> HIDE DEF v
    <3>2. /\ DOMAIN dirty \subseteq DOMAIN Tracked(dirty, id, v)
          /\ \A k \in DOMAIN dirty : Tracked(dirty, id, v)[k].id = dirty[k].id
      BY <1>t, <3>1, TrackedGives
    <3> QED
      BY <3>1, <3>2
  <2>3. Len(dirty') \in Nat /\ DOMAIN dirty' = 1..Len(dirty')
    BY <1>t, LenProperties
  <2>4. Len(dirty) <= Len(dirty')
    BY <1>n, <2>2, <2>3
  <2>5. IndicesStable'
    <3> SUFFICES ASSUME NEW p \in Pushes
                 PROVE  /\ run[p].completed \subseteq DOMAIN dirty'
                        /\ run[p].done = {dirty'[k].id : k \in run[p].completed}
                        /\ run[p].pc = "await" =>
                             run[p].at \in DOMAIN dirty' /\ dirty'[run[p].at].id = run[p].hand
      BY <1>4 DEF TrackChange, IndicesStable
    <3>1. /\ run[p].completed \subseteq DOMAIN dirty
          /\ run[p].done = {dirty[k].id : k \in run[p].completed}
          /\ run[p].pc = "await" =>
               run[p].at \in DOMAIN dirty /\ dirty[run[p].at].id = run[p].hand
      BY DEF WalkInv, IndicesStable
    <3> QED
      BY <2>2, <3>1
  <2>6. WalkHeld'
    <3> SUFFICES ASSUME NEW p \in Pushes PROVE run[p].at <= Len(dirty') + 1
      BY <1>4 DEF TrackChange, WalkInv, WalkHeld, Running
    <3>1. run[p].at \in Nat /\ run[p].at <= Len(dirty) + 1
      BY <1>t, RunTypes DEF WalkInv, WalkHeld
    <3> QED
      BY <1>n, <2>3, <2>4, <3>1
  <2>7. LoadHeld'
    BY <1>4 DEF TrackChange, WalkInv, LoadHeld
  <2> QED
    BY <1>t, <2>5, <2>6, <2>7 DEF WalkInv
<1>5. ASSUME NEW id \in Ids, RemoveDirty(id)
      PROVE  WalkInv'
  BY <1>5, <1>t, <1>i DEF RemoveDirty, WalkInv, LoadHeld
<1>6. CASE PersistMeta
  BY <1>6, <1>t DEF PersistMeta, WalkInv, LoadHeld, IndicesStable, WalkHeld, Running
<1>7. CASE Crash
  <2>1. IndicesStable' /\ WalkHeld' /\ \A p \in Pushes : ~Running(p)'
    BY <1>7, <1>t, AllIdleNext DEF Crash
  <2> QED
    BY <1>7, <1>t, <2>1 DEF Crash, WalkInv, LoadHeld
<1>8. ASSUME NEW p \in Pushes, NEW only \in SUBSET Ids, PushStart(p, only)
      PROVE  WalkInv'
  <2>1. \A q \in Pushes : ~Running(q) /\ run[q] = NoRun
    BY <1>8 DEF PushStart, OneAtATime, WalkInv, WalkHeld
  <2>2. \A q \in Pushes \ {p} : run'[q] = NoRun
    BY <1>8, <1>f, <2>1 DEF PushStart
  <2>3. run'[p] = [NoRun EXCEPT !.pc = "loop", !.only = only]
    BY <1>8, <1>f DEF PushStart
  <2>4. /\ run'[p].pc = "loop" /\ run'[p].at = 1
        /\ run'[p].completed = {} /\ run'[p].done = {}
    BY <2>3 DEF NoRun
  <2> QED
    BY <1>8, <1>t, <1>n, <2>2, <2>4, NoRunFields
       DEF PushStart, WalkInv, LoadHeld, IndicesStable, WalkHeld, Running
<1>9. ASSUME NEW p \in Pushes, PushNext(p) \/ PushCompleted(p) \/ PushFailed(p)
      PROVE  WalkInv'
  <2>1. UNCHANGED <<dirty, loaded, loading, meta, saved>> /\ Running(p) /\ Running(p)'
    BY <1>9, <1>f DEF PushNext, PushCompleted, PushFailed, Running, Runs
  <2>2. \A q \in Pushes \ {p} : run'[q] = run[q]
    BY <1>9, <1>f DEF PushNext, PushCompleted, PushFailed
  <2>3. /\ run[p].at \in Nat \ {0} /\ run[p].completed \subseteq DOMAIN dirty
        /\ run[p].done = {dirty[k].id : k \in run[p].completed}
        /\ \A k \in run[p].completed : k < run[p].at
        /\ run[p].at <= Len(dirty) + 1
        /\ run[p].pc = "await" =>
             run[p].at \in DOMAIN dirty /\ dirty[run[p].at].id = run[p].hand
    BY <1>t, RunTypes DEF WalkInv, IndicesStable, WalkHeld
  <2>4. /\ run'[p].completed \subseteq DOMAIN dirty
        /\ run'[p].done = {dirty[k].id : k \in run'[p].completed}
        /\ \A k \in run'[p].completed : k < run'[p].at
        /\ run'[p].at <= Len(dirty) + 1
        /\ run'[p].pc = "await" =>
             run'[p].at \in DOMAIN dirty /\ dirty[run'[p].at].id = run'[p].hand
    <3>1. CASE PushNext(p)
      BY <1>n, <1>f, <2>3, <3>1 DEF PushNext, Runs
    <3>2. CASE PushCompleted(p)
      BY <1>n, <1>f, <2>3, <3>2 DEF PushCompleted, Runs
    <3>3. CASE PushFailed(p)
      BY <1>n, <1>f, <2>3, <3>3 DEF PushFailed, Runs
    <3> QED
      BY <1>9, <3>1, <3>2, <3>3
  <2>5. IndicesStable'
    BY <2>1, <2>2, <2>4 DEF WalkInv, IndicesStable
  <2>6. WalkHeld'
    BY <2>1, <2>2, <2>4 DEF WalkInv, WalkHeld, Running
  <2>7. LoadHeld'
    BY <2>1, <2>2 DEF WalkInv, LoadHeld, Running
  <2> QED
    BY <1>t, <2>5, <2>6, <2>7 DEF WalkInv
<1>10. ASSUME NEW p \in Pushes, PushFinish(p)
       PROVE  WalkInv'
  <2>1. \A q \in Pushes : run'[q] = NoRun
    BY <1>10, <1>f DEF PushFinish, WalkInv, WalkHeld, Running
  <2>2. IndicesStable' /\ WalkHeld' /\ \A q \in Pushes : ~Running(q)'
    BY <1>t, <2>1, AllIdleNext
  <2>3. loaded
    BY <1>10 DEF PushFinish, WalkInv, LoadHeld, Running
  <2> QED
    BY <1>10, <1>t, <2>2, <2>3 DEF PushFinish, WalkInv, LoadHeld
<1> QED
  BY <1>1, <1>2, <1>3, <1>4, <1>5, <1>6, <1>7, <1>8, <1>9, <1>10 DEF Next, PushStep

\* While one push runs at a time and one call loads the log, the indices the
\* push remembers across its awaits stay those of the records it completed,
\* whatever is tracked meanwhile.
THEOREM IndicesStay == OneAtATime => (Spec => []IndicesStable)
<1> SUFFICES ASSUME OneAtATime PROVE Spec => []IndicesStable
  OBVIOUS
<1>1. WalkInv => IndicesStable
  BY DEF WalkInv
<1>2. WalkInv /\ [Next]_vars => WalkInv'
  BY WalkInvStep
<1> QED
  BY <1>1, <1>2, WalkInvInit, PTL DEF Spec

-----------------------------------------------------------------------------
(* The array implements the map. *)

LEMMA VersionInIs ==
  ASSUME NEW log \in Seq(Entries), Distinct(log), NEW i \in Ids
  PROVE  /\ \A k \in DOMAIN log : log[k].id = i => VersionIn(log)[i] = log[k].version
         /\ (\A k \in DOMAIN log : log[k].id # i) => VersionIn(log)[i] = 0
<1>1. ASSUME NEW k \in DOMAIN log, log[k].id = i
      PROVE  VersionIn(log)[i] = log[k].version
  <2>1. Positions(log, i) = {k}
    BY <1>1 DEF Positions, Distinct
  <2> QED
    BY <2>1 DEF VersionIn, Listed
<1>2. ASSUME \A k \in DOMAIN log : log[k].id # i
      PROVE  VersionIn(log)[i] = 0
  BY <1>2 DEF VersionIn, Listed, Positions
<1> QED
  BY <1>1, <1>2

LEMMA VersionInDomain ==
  ASSUME NEW log
  PROVE  VersionIn(log) = [i \in Ids |-> VersionIn(log)[i]]
BY DEF VersionIn

\* trackChange on the array is an assignment in the map.
LEMMA TrackedMap ==
  ASSUME NEW log \in Seq(Entries), Distinct(log), NEW id \in Ids, NEW v \in Nat \ {0}
  PROVE  VersionIn(Tracked(log, id, v)) = [VersionIn(log) EXCEPT ![id] = v]
<1> DEFINE new == Tracked(log, id, v)
<1>1. /\ new \in Seq(Entries)
      /\ DOMAIN log \subseteq DOMAIN new
      /\ \A k \in DOMAIN log : new[k].id = log[k].id
      /\ \A k \in DOMAIN log : log[k].id # id => new[k] = log[k]
      /\ \A k \in DOMAIN new \ DOMAIN log :
           new[k].id = id /\ \A j \in DOMAIN log : log[j].id # id
      /\ \A k \in DOMAIN new : new[k].id = id => new[k].version = v
      /\ \E k \in DOMAIN new : new[k].id = id
  BY TrackedGives
<1>2. Distinct(new)
  BY TrackedDistinct
<1> HIDE DEF new
<1>3. VersionIn(new)[id] = v
  BY <1>1, <1>2, VersionInIs
<1>4. ASSUME NEW i \in Ids, i # id
      PROVE  VersionIn(new)[i] = VersionIn(log)[i]
  <2>1. CASE \E k \in DOMAIN log : log[k].id = i
    <3>1. PICK k \in DOMAIN log : log[k].id = i
      BY <2>1
    <3>2. k \in DOMAIN new /\ new[k] = log[k]
      BY <1>1, <1>4, <3>1
    <3> QED
      BY <1>1, <1>2, <3>1, <3>2, VersionInIs
  <2>2. CASE \A k \in DOMAIN log : log[k].id # i
    <3>1. \A k \in DOMAIN new : new[k].id # i
      BY <1>1, <1>4, <2>2
    <3> QED
      BY <1>1, <1>2, <2>2, <3>1, VersionInIs
  <2> QED
    BY <2>1, <2>2
<1>5. VersionIn(new) = [i \in Ids |-> VersionIn(new)[i]]
  BY VersionInDomain
<1>6. [VersionIn(log) EXCEPT ![id] = v] =
        [i \in Ids |-> IF i = id THEN v ELSE VersionIn(log)[i]]
  BY VersionInDomain
<1>7. VersionIn(new) = [VersionIn(log) EXCEPT ![id] = v]
  BY <1>3, <1>4, <1>5, <1>6
<1> QED
  BY <1>7 DEF new

\* Removing positions from the array clears the records that stood there.
LEMMA KeptMap ==
  ASSUME NEW log \in Seq(Entries), Distinct(log), NEW kept \in SUBSET DOMAIN log, NEW i \in Ids
  PROVE  VersionIn(Kept(log, kept))[i] =
           IF \E k \in DOMAIN log \ kept : log[k].id = i THEN 0 ELSE VersionIn(log)[i]
<1> DEFINE new == Kept(log, kept)
<1>1. /\ new \in Seq(Entries)
      /\ \A k \in kept : Rank(kept, k) \in DOMAIN new /\ new[Rank(kept, k)] = log[k]
      /\ \A r \in DOMAIN new : \E k \in kept : Rank(kept, k) = r
  BY KeptGives
<1>2. Distinct(new)
  BY KeptDistinct
<1> HIDE DEF new
<1>3. CASE \E k \in kept : log[k].id = i
  <2>1. PICK k \in kept : log[k].id = i
    BY <1>3
  <2>2. VersionIn(new)[i] = log[k].version /\ VersionIn(log)[i] = log[k].version
    BY <1>1, <1>2, <2>1, VersionInIs
  <2>3. ~\E j \in DOMAIN log \ kept : log[j].id = i
    BY <2>1 DEF Distinct
  <2> QED
    BY <2>2, <2>3 DEF new
<1>4. CASE \A k \in kept : log[k].id # i
  <2>1. \A r \in DOMAIN new : new[r].id # i
    BY <1>1, <1>4
  <2>2. VersionIn(new)[i] = 0
    BY <1>1, <1>2, <2>1, VersionInIs
  <2>3. (~\E j \in DOMAIN log \ kept : log[j].id = i) => VersionIn(log)[i] = 0
    BY <1>4, VersionInIs
  <2> QED
    BY <2>2, <2>3 DEF new
<1> QED
  BY <1>3, <1>4

\* The map's variables as the refinement reads them off the array.
Listing == IF loaded THEN VersionIn(dirty) ELSE VersionIn(meta)
AsPushes == [p \in Pushes |-> AsPush(p)]

LEMMA EmptyLog == VersionIn(<<>>) = [i \in Ids |-> 0]
BY DEF VersionIn, Listed, Positions

LEMMA IdlePush ==
  ASSUME NEW p \in Pushes, run[p] = NoRun
  PROVE  AsPush(p) = Map!NotPushing
BY NoRunFields DEF AsPush, Running, Map!NotPushing

LEMMA MapInit == Init => Map!Init
<1> SUFFICES ASSUME Init PROVE Map!Init
  OBVIOUS
<1>1. \A p \in Pushes : AsPush(p) = Map!NotPushing
  BY IdlePush DEF Init
<1>2. Listing = [i \in Ids |-> 0] /\ VersionIn(meta) = [i \in Ids |-> 0]
  BY EmptyLog DEF Init, Listing
<1> QED
  BY <1>1, <1>2 DEF Map!Init, Listing

\* What the array says of a push in progress.
LEMMA PushFacts ==
  ASSUME WalkInv, NEW p \in Pushes
  PROVE  /\ AsPush(p).active <=> Running(p)
         /\ AsPush(p).hand = run[p].hand /\ AsPush(p).done = run[p].done
         /\ AsPush(p).todo = run[p].only \ Visited(p)
BY DEF AsPush

\* Loading the log, and a push passing over a record it was not asked to send,
\* change nothing in the map.
LEMMA LoadStutters ==
  ASSUME OneAtATime, WalkInv, NEW c \in Loads, LoadStart(c) \/ EnsureLoaded(c)
  PROVE  UNCHANGED <<Listing, VersionIn(meta), AsPushes>>
<1>1. ~loaded /\ UNCHANGED <<meta, run>> /\ \A p \in Pushes : run[p] = NoRun
  BY DEF LoadStart, EnsureLoaded, WalkInv, LoadHeld, WalkHeld
<1>2. \A p \in Pushes : AsPush(p)' = AsPush(p)
  BY <1>1, NoRunFields DEF AsPush, Running
<1>3. loaded' => dirty' = meta
  BY <1>1 DEF LoadStart, EnsureLoaded, WalkInv, LoadHeld
<1> QED
  BY <1>1, <1>2, <1>3 DEF Listing, AsPushes

LEMMA TrackIsTrack ==
  ASSUME WalkInv, NEW id \in Ids, TrackChange(id)
  PROVE  Map!Track(id)
<1> DEFINE v == writes + 1
<1>1. /\ loaded /\ UNCHANGED <<loaded, meta, run>>
      /\ dirty' = Tracked(dirty, id, v) /\ v \in Nat \ {0}
      /\ dirty \in Seq(Entries) /\ Distinct(dirty)
  BY BoundsAssumption DEF TrackChange, WalkInv, LogInv, TypeOK, UniqueEntries
<1> HIDE DEF v
<1>2. VersionIn(dirty') = [VersionIn(dirty) EXCEPT ![id] = v]
  BY <1>1, TrackedMap
<1>3. ASSUME NEW p \in Pushes
      PROVE  AsPush(p)' = AsPush(p)
  <2> DEFINE passed(d) == {d[k].id : k \in {j \in DOMAIN d : j < run[p].at}}
  <2>1. /\ DOMAIN dirty \subseteq DOMAIN dirty'
        /\ \A k \in DOMAIN dirty : dirty'[k].id = dirty[k].id
    <3>1. /\ DOMAIN dirty \subseteq DOMAIN Tracked(dirty, id, v)
          /\ \A k \in DOMAIN dirty : Tracked(dirty, id, v)[k].id = dirty[k].id
      BY <1>1, TrackedGives
    <3> QED
      BY <1>1, <3>1
  <2>2. /\ run[p].at \in Nat /\ run[p].at <= Len(dirty) + 1
        /\ Len(dirty) \in Nat /\ DOMAIN dirty = 1..Len(dirty)
    BY <1>1, RunTypes, LenProperties DEF WalkInv, WalkHeld
  <2>3. DOMAIN dirty' \subseteq Nat \ {0}
    <3>1. dirty' \in Seq(Entries)
      <4>1. Tracked(dirty, id, v) \in Seq(Entries)
        BY <1>1, TrackedGives
      <4> QED
        BY <1>1, <4>1
    <3> QED
      BY <3>1, LenProperties
  <2>4. \A j : j \in DOMAIN dirty' /\ j < run[p].at <=> j \in DOMAIN dirty /\ j < run[p].at
    BY <2>1, <2>2, <2>3
  <2>5. passed(dirty') = passed(dirty)
    BY <2>1, <2>4
  <2> QED
    BY <1>1, <2>5 DEF AsPush, Visited, Running
<1>4. [p \in Pushes |-> AsPush(p)]' = [p \in Pushes |-> AsPush(p)]
  BY <1>3
<1>5. VersionIn(dirty)' = VersionIn(dirty') /\ UNCHANGED VersionIn(meta)
  BY <1>1 DEF VersionIn, Listed, Positions
<1>6. VersionIn(dirty) = [i \in Ids |-> VersionIn(dirty)[i]] /\ v # 0
  BY <1>1, VersionInDomain
<1>7. VersionIn(dirty)'[id] = v
  BY <1>2, <1>5, <1>6
<1> QED
  BY <1>1, <1>2, <1>4, <1>5, <1>6, <1>7 DEF Map!Track

LEMMA RemoveIsDrop ==
  ASSUME WalkInv, NEW id \in Ids, RemoveDirty(id)
  PROVE  Map!Drop(id)
<1>1. /\ loaded /\ UNCHANGED <<loaded, meta, run>> /\ \A p \in Pushes : ~Running(p)
      /\ dirty' = Filtered(dirty, id)
      /\ dirty \in Seq(Entries) /\ Distinct(dirty)
  BY DEF RemoveDirty, WalkInv, LogInv, TypeOK, UniqueEntries
<1>2. \A p \in Pushes : run[p] = NoRun /\ run'[p] = NoRun
  BY <1>1 DEF WalkInv, WalkHeld
<1>3. \A p \in Pushes : AsPush(p)' = AsPush(p) /\ ~AsPush(p).active
  BY <1>1, <1>2, NoRunFields DEF AsPush, Running
<1>4. ASSUME NEW i \in Ids
      PROVE  VersionIn(dirty')[i] = IF i = id THEN 0 ELSE VersionIn(dirty)[i]
  <2> DEFINE kept == DOMAIN dirty \ Positions(dirty, id)
  <2>1. VersionIn(Kept(dirty, kept))[i] =
          IF \E k \in DOMAIN dirty \ kept : dirty[k].id = i THEN 0 ELSE VersionIn(dirty)[i]
    BY <1>1, KeptMap
  <2>2. (\E k \in DOMAIN dirty \ kept : dirty[k].id = i) =>  i = id
    BY DEF Positions
  <2>3. i = id /\ (\A k \in DOMAIN dirty \ kept : dirty[k].id # i) =>
          \A k \in DOMAIN dirty : dirty[k].id # i
    BY DEF Positions
  <2>4. (\A k \in DOMAIN dirty : dirty[k].id # i) => VersionIn(dirty)[i] = 0
    BY <1>1, VersionInIs
  <2> QED
    BY <1>1, <2>1, <2>2, <2>3, <2>4 DEF Filtered
<1>5. VersionIn(dirty)' = VersionIn(dirty') /\ UNCHANGED VersionIn(meta)
  BY <1>1 DEF VersionIn, Listed, Positions
<1>6. VersionIn(dirty') = [VersionIn(dirty) EXCEPT ![id] = 0]
  <2>1. VersionIn(dirty') = [i \in Ids |-> VersionIn(dirty')[i]]
    BY VersionInDomain
  <2>2. VersionIn(dirty) = [i \in Ids |-> VersionIn(dirty)[i]]
    BY VersionInDomain
  <2> QED
    BY <1>4, <2>1, <2>2
<1>7. [p \in Pushes |-> AsPush(p)]' = [p \in Pushes |-> AsPush(p)]
  BY <1>3
<1> QED
  BY <1>1, <1>3, <1>5, <1>6, <1>7 DEF Map!Drop, Map!Resting

LEMMA PersistIsSave == ASSUME WalkInv, PersistMeta PROVE Map!Save
<1>1. /\ loaded /\ UNCHANGED <<dirty, loaded, run>> /\ meta' = dirty
  BY DEF PersistMeta
<1>2. VersionIn(meta)' = VersionIn(dirty) /\ UNCHANGED VersionIn(dirty)
  BY <1>1 DEF VersionIn, Listed, Positions
<1>3. \A p \in Pushes : AsPush(p)' = AsPush(p)
  BY <1>1 DEF AsPush, Visited, Running
<1>4. [p \in Pushes |-> AsPush(p)]' = [p \in Pushes |-> AsPush(p)]
  BY <1>3
<1> QED
  BY <1>1, <1>2, <1>4 DEF Map!Save

LEMMA CrashIsRestart == ASSUME WalkInv, Crash PROVE Map!Restart
<1>1. ~loaded' /\ UNCHANGED meta /\ \A p \in Pushes : run'[p] = NoRun
  BY DEF Crash
<1>2. UNCHANGED VersionIn(meta)
  BY <1>1 DEF VersionIn, Listed, Positions
<1>3. \A p \in Pushes : AsPush(p)' = Map!NotPushing
  BY <1>1, NoRunFields DEF AsPush, Running, Map!NotPushing
<1> QED
  BY <1>1, <1>2, <1>3 DEF Map!Restart

\* A step of push p that leaves the array alone changes that push only.
LEMMA OnePushMoves ==
  ASSUME WalkInv, NEW p \in Pushes, NEW r,
         run' = [run EXCEPT ![p] = r], UNCHANGED <<dirty, loaded, meta>>
  PROVE  /\ UNCHANGED <<Listing, VersionIn(dirty), VersionIn(meta)>>
         /\ AsPushes' = [AsPushes EXCEPT ![p] = AsPush(p)']
         /\ run'[p] = r
<1>1. run'[p] = r /\ \A q \in Pushes \ {p} : run'[q] = run[q]
  BY DEF WalkInv, LogInv, TypeOK
<1>2. \A q \in Pushes \ {p} : AsPush(q)' = AsPush(q)
  BY <1>1 DEF AsPush, Visited, Running
<1>3. UNCHANGED <<VersionIn(dirty), VersionIn(meta)>>
  BY DEF VersionIn, Listed, Positions
<1>4. AsPushes' = [q \in Pushes |-> AsPush(q)']
  BY DEF AsPushes
<1>5. [AsPushes EXCEPT ![p] = AsPush(p)'] =
        [q \in Pushes |-> IF q = p THEN AsPush(p)' ELSE AsPush(q)]
  BY DEF AsPushes
<1> QED
  BY <1>1, <1>2, <1>3, <1>4, <1>5 DEF Listing

LEMMA StartIsBegin ==
  ASSUME OneAtATime, WalkInv, NEW p \in Pushes, NEW only \in SUBSET Ids, PushStart(p, only)
  PROVE  Map!Begin(p)
<1> DEFINE r == [NoRun EXCEPT !.pc = "loop", !.only = only]
<1>1. run' = [run EXCEPT ![p] = r] /\ UNCHANGED <<dirty, loaded, meta>> /\ ~Running(p)
  BY DEF PushStart
<1>2. /\ UNCHANGED <<Listing, VersionIn(dirty), VersionIn(meta)>>
      /\ AsPushes' = [AsPushes EXCEPT ![p] = AsPush(p)']
      /\ run'[p] = r
  BY <1>1, OnePushMoves
<1>3. r.pc = "loop" /\ r.only = only /\ r.at = 1 /\ r.hand = NoId /\ r.done = {}
  BY DEF NoRun
<1>4. DOMAIN dirty \subseteq Nat \ {0}
  BY LenProperties DEF WalkInv, LogInv, TypeOK
<1> HIDE DEF r
<1>5. Visited(p)' = {}
  BY <1>1, <1>2, <1>3, <1>4 DEF Visited
<1>6. AsPush(p)' = [active |-> TRUE, todo |-> only, hand |-> NoId, done |-> {}]
  BY <1>2, <1>3, <1>5 DEF AsPush, Running
<1>7. AsPush(p)' = Map!Pushing(only, NoId, {}) /\ AsPush(p)'.todo = only
  BY <1>6 DEF Map!Pushing
<1>8. AsPushes'[p] = AsPush(p)' /\ AsPushes[p] = AsPush(p) /\ ~AsPush(p).active
  BY <1>1, PushFacts DEF AsPushes
<1> QED
  BY <1>2, <1>7, <1>8 DEF Map!Begin, AsPushes, Listing

LEMMA NextIsVisit ==
  ASSUME WalkInv, NEW p \in Pushes, PushNext(p)
  PROVE  (\E id \in Ids : Map!Visit(p, id)) \/ UNCHANGED <<Listing, VersionIn(meta), AsPushes>>
<1> DEFINE at == run[p].at  id == dirty[at].id
<1>1. /\ run[p] \in Runs /\ run[p].pc = "loop" /\ run[p].hand = NoId
      /\ at \in Nat \ {0} /\ at \in DOMAIN dirty /\ id \in Ids
      /\ dirty \in Seq(Entries) /\ Distinct(dirty) /\ DOMAIN dirty \subseteq Nat
  BY RunTypes, EntryTypes, LenProperties
     DEF PushNext, WalkInv, LogInv, HandHeld, TypeOK, UniqueEntries
<1>2. loaded
  BY <1>1 DEF WalkInv, LoadHeld, Running
<1>3. CASE id \in run[p].only
  <2> DEFINE r == [run[p] EXCEPT !.pc = "await", !.hand = id]
  <2>1. run' = [run EXCEPT ![p] = r] /\ UNCHANGED <<dirty, loaded, meta>>
    BY <1>3 DEF PushNext
  <2>2. /\ UNCHANGED <<Listing, VersionIn(dirty), VersionIn(meta)>>
        /\ AsPushes' = [AsPushes EXCEPT ![p] = AsPush(p)']
        /\ run'[p] = r
    BY <2>1, OnePushMoves
  <2>3. /\ r.pc = "await" /\ r.hand = id /\ r.at = at
        /\ r.only = run[p].only /\ r.done = run[p].done
    BY <1>1 DEF Runs
  <2> HIDE DEF r
  <2>4. Visited(p)' = Visited(p) \cup {id}
    BY <1>1, <2>1, <2>2, <2>3 DEF Visited
  <2>5. AsPush(p)' = [active |-> TRUE, todo |-> (run[p].only \ Visited(p)) \ {id},
                      hand |-> id, done |-> run[p].done]
    BY <2>2, <2>3, <2>4 DEF AsPush, Running
  <2>6. AsPush(p) = [active |-> TRUE, todo |-> run[p].only \ Visited(p),
                     hand |-> NoId, done |-> run[p].done]
    BY <1>1 DEF AsPush, Running
  <2>7. AsPush(p)' = Map!Pushing(AsPush(p).todo \ {id}, id, AsPush(p).done)
    BY <2>5, <2>6 DEF Map!Pushing
  <2>8. id \notin Visited(p)
    BY <1>1 DEF Visited, Distinct
  <2>9. VersionIn(dirty)[id] # 0
    <3>1. VersionIn(dirty)[id] = dirty[at].version
      BY <1>1, VersionInIs
    <3>2. dirty[at] \in Entries
      BY <1>1, LenProperties
    <3> QED
      BY <3>1, <3>2 DEF Entries
  <2>10. AsPushes[p] = AsPush(p)
    BY DEF AsPushes
  <2> HIDE DEF id, at
  <2>11. AsPushes' = [AsPushes EXCEPT ![p] = Map!Pushing(@.todo \ {id}, id, @.done)]
    BY <2>2, <2>7, <2>10
  <2>12. Map!Visit(p, id)
    BY <1>2, <1>3, <2>2, <2>6, <2>8, <2>9, <2>10, <2>11 DEF Map!Visit, AsPushes, Listing
  <2> QED
    BY <1>1, <2>12
<1>4. CASE id \notin run[p].only
  <2> DEFINE r == [run[p] EXCEPT !.at = @ + 1]
  <2>1. run' = [run EXCEPT ![p] = r] /\ UNCHANGED <<dirty, loaded, meta>>
    BY <1>4 DEF PushNext
  <2>2. /\ UNCHANGED <<Listing, VersionIn(dirty), VersionIn(meta)>>
        /\ AsPushes' = [AsPushes EXCEPT ![p] = AsPush(p)']
        /\ run'[p] = r
    BY <2>1, OnePushMoves
  <2>3. /\ r.pc = "loop" /\ r.hand = NoId /\ r.at = at + 1
        /\ r.only = run[p].only /\ r.done = run[p].done
    BY <1>1 DEF Runs
  <2> HIDE DEF r
  <2>4. Visited(p)' = Visited(p) \cup {id}
    BY <1>1, <2>1, <2>2, <2>3 DEF Visited
  <2>5. AsPush(p)' = AsPush(p)
    BY <1>1, <1>4, <2>2, <2>3, <2>4 DEF AsPush, Running
  <2> QED
    BY <2>2, <2>5 DEF AsPushes
<1> QED
  BY <1>3, <1>4

LEMMA AnswerIsSettleOrFail ==
  ASSUME WalkInv, NEW p \in Pushes, PushCompleted(p) \/ PushFailed(p)
  PROVE  Map!Settle(p) \/ Map!Fail(p)
<1> DEFINE at == run[p].at  id == run[p].hand
           done == IF PushCompleted(p) THEN run[p].done \cup {id} ELSE run[p].done
<1>1. /\ run[p] \in Runs /\ run[p].pc = "await" /\ id # NoId
      /\ at \in Nat \ {0} /\ at \in DOMAIN dirty /\ dirty[at].id = id
      /\ DOMAIN dirty \subseteq Nat
  BY RunTypes, LenProperties
     DEF PushCompleted, PushFailed, WalkInv, LogInv, HandHeld, TypeOK, IndicesStable
<1>2. /\ UNCHANGED <<dirty, loaded, meta>>
      /\ run' = [run EXCEPT ![p] = run'[p]]
      /\ run'[p].pc = "loop" /\ run'[p].at = at + 1 /\ run'[p].hand = NoId
      /\ run'[p].only = run[p].only /\ run'[p].done = done
  <2>1. CASE PushCompleted(p)
    BY <1>1, <2>1 DEF PushCompleted, WalkInv, LogInv, TypeOK, Runs
  <2>2. CASE PushFailed(p) /\ ~PushCompleted(p)
    BY <1>1, <2>2 DEF PushFailed, WalkInv, LogInv, TypeOK, Runs
  <2> QED
    BY <2>1, <2>2
<1> HIDE DEF done
<1>3. /\ UNCHANGED <<Listing, VersionIn(dirty), VersionIn(meta)>>
      /\ AsPushes' = [AsPushes EXCEPT ![p] = AsPush(p)']
  BY <1>2, OnePushMoves
<1>4. Visited(p)' = Visited(p)
  BY <1>1, <1>2 DEF Visited
<1>5. AsPush(p)' = [active |-> TRUE, todo |-> run[p].only \ Visited(p),
                    hand |-> NoId, done |-> done]
  BY <1>2, <1>4 DEF AsPush, Running
<1>6. AsPush(p) = [active |-> TRUE, todo |-> run[p].only \ Visited(p),
                   hand |-> id, done |-> run[p].done]
  BY <1>1 DEF AsPush, Running
<1>7. AsPush(p)' = Map!Pushing(AsPush(p).todo, NoId, done)
  BY <1>5, <1>6 DEF Map!Pushing
<1>8. done = AsPush(p).done \cup {AsPush(p).hand} \/ done = AsPush(p).done
  BY <1>6 DEF done
<1>9. AsPushes[p] = AsPush(p) /\ AsPush(p).hand # NoId
  BY <1>1, <1>6 DEF AsPushes
<1>10. CASE done = AsPush(p).done \cup {AsPush(p).hand}
  <2>1. AsPushes' = [AsPushes EXCEPT ![p] = Map!Pushing(@.todo, NoId, @.done \cup {@.hand})]
    BY <1>3, <1>7, <1>9, <1>10
  <2> QED
    BY <1>3, <1>9, <2>1 DEF Map!Settle, AsPushes, Listing
<1>11. CASE done = AsPush(p).done
  <2>1. AsPushes' = [AsPushes EXCEPT ![p] = Map!Pushing(@.todo, NoId, @.done)]
    BY <1>3, <1>7, <1>9, <1>11
  <2> QED
    BY <1>3, <1>9, <2>1 DEF Map!Fail, AsPushes, Listing
<1> QED
  BY <1>8, <1>10, <1>11

LEMMA FinishIsFinish ==
  ASSUME WalkInv, NEW p \in Pushes, PushFinish(p)
  PROVE  Map!Finish(p)
<1> DEFINE kept == DOMAIN dirty \ run[p].completed
<1>1. /\ run[p].pc = "loop" /\ run[p].hand = NoId /\ Running(p) /\ loaded
      /\ run[p].at \in Nat /\ run[p].at > Len(dirty)
      /\ dirty \in Seq(Entries) /\ Distinct(dirty)
      /\ DOMAIN dirty = 1..Len(dirty) /\ Len(dirty) \in Nat
      /\ run[p].completed \subseteq DOMAIN dirty
      /\ run[p].done = {dirty[k].id : k \in run[p].completed}
      /\ UNCHANGED <<loaded, meta>> /\ dirty' = Kept(dirty, kept)
  BY RunTypes, LenProperties
     DEF PushFinish, Spliced, Running, WalkInv, LogInv, HandHeld, LoadHeld, IndicesStable,
         TypeOK, UniqueEntries
<1>2. /\ \A q \in Pushes \ {p} : run'[q] = run[q]
      /\ run'[p] = NoRun
  BY DEF PushFinish, WalkInv, LogInv, TypeOK
<1>3. \A q \in Pushes \ {p} : run[q] = NoRun
  BY <1>1 DEF WalkInv, WalkHeld
<1>4. /\ \A q \in Pushes \ {p} : AsPush(q)' = AsPush(q)
      /\ AsPush(p)' = Map!NotPushing
  BY <1>2, <1>3, NoRunFields DEF AsPush, Running, Map!NotPushing
<1>5. AsPushes' = [AsPushes EXCEPT ![p] = Map!NotPushing]
  <2>1. AsPushes' = [q \in Pushes |-> AsPush(q)']
    BY DEF AsPushes
  <2>2. [AsPushes EXCEPT ![p] = Map!NotPushing] =
          [q \in Pushes |-> IF q = p THEN Map!NotPushing ELSE AsPush(q)]
    BY DEF AsPushes
  <2> QED
    BY <1>4, <2>1, <2>2
<1>6. ASSUME NEW id \in AsPush(p).todo
      PROVE  VersionIn(dirty)[id] = 0
  <2>1. id \in run[p].only /\ id \notin Visited(p) /\ id \in Ids
    BY RunTypes, PushFacts DEF WalkInv
  <2>2. \A k \in DOMAIN dirty : dirty[k].id # id
    BY <1>1, <2>1 DEF Visited
  <2> QED
    BY <1>1, <2>1, <2>2, VersionInIs
<1>7. ASSUME NEW i \in Ids
      PROVE  VersionIn(dirty')[i] = IF i \in run[p].done THEN 0 ELSE VersionIn(dirty)[i]
  <2>1. VersionIn(Kept(dirty, kept))[i] =
          IF \E k \in DOMAIN dirty \ kept : dirty[k].id = i THEN 0 ELSE VersionIn(dirty)[i]
    BY <1>1, KeptMap
  <2>2. (\E k \in DOMAIN dirty \ kept : dirty[k].id = i) <=> i \in run[p].done
    BY <1>1
  <2> QED
    BY <1>1, <2>1, <2>2
<1>8. VersionIn(dirty)' = [i \in Ids |-> IF i \in AsPush(p).done THEN 0 ELSE VersionIn(dirty)[i]]
  <2>1. VersionIn(dirty)' = VersionIn(dirty')
    BY DEF VersionIn, Listed, Positions
  <2>2. VersionIn(dirty') = [i \in Ids |-> VersionIn(dirty')[i]]
    BY VersionInDomain
  <2> QED
    BY <1>7, <2>1, <2>2, PushFacts
<1>9. UNCHANGED VersionIn(meta)
  BY <1>1 DEF VersionIn, Listed, Positions
<1>10. AsPushes[p] = AsPush(p) /\ AsPush(p).active /\ AsPush(p).hand = NoId
  BY <1>1, PushFacts DEF AsPushes
<1> QED
  BY <1>1, <1>5, <1>6, <1>8, <1>9, <1>10 DEF Map!Finish, AsPushes

\* While one push runs at a time and one call loads the log, the array keeps the
\* promise of the map SyncEngine works with: every entry is visited once, those
\* added meanwhile included, and exactly the completed ones leave.
THEOREM ArrayImplementsMap == OneAtATime => (Spec => ImplementsMap)
<1> SUFFICES ASSUME OneAtATime PROVE Spec => Map!Spec
  BY DEF ImplementsMap
<1>1. WalkInv /\ [Next]_vars => [Map!Next]_(Map!vars)
  <2> SUFFICES ASSUME WalkInv, [Next]_vars PROVE Map!Next \/ UNCHANGED Map!vars
    OBVIOUS
  <2> DEFINE Stutter == UNCHANGED <<Listing, VersionIn(meta), AsPushes>>
  <2>1. Stutter => UNCHANGED Map!vars
    BY DEF Map!vars, Listing, AsPushes
  <2>2. CASE UNCHANGED vars
    BY <2>1, <2>2 DEF vars, Listing, AsPushes, AsPush, Visited, Running, VersionIn, Listed, Positions
  <2>3. ASSUME NEW c \in Loads, LoadStart(c) \/ EnsureLoaded(c)
        PROVE  UNCHANGED Map!vars
    BY <2>1, <2>3, LoadStutters
  <2>4. ASSUME NEW id \in Ids, TrackChange(id) \/ RemoveDirty(id)
        PROVE  Map!Next
    BY <2>4, TrackIsTrack, RemoveIsDrop DEF Map!Next
  <2>5. CASE PersistMeta \/ Crash
    BY <2>5, PersistIsSave, CrashIsRestart DEF Map!Next
  <2>6. ASSUME NEW p \in Pushes, NEW only \in SUBSET Ids, PushStart(p, only)
        PROVE  Map!Next
    BY <2>6, StartIsBegin DEF Map!Next
  <2>7. ASSUME NEW p \in Pushes, PushNext(p)
        PROVE  Map!Next \/ UNCHANGED Map!vars
    BY <2>1, <2>7, NextIsVisit DEF Map!Next
  <2>8. ASSUME NEW p \in Pushes, PushCompleted(p) \/ PushFailed(p) \/ PushFinish(p)
        PROVE  Map!Next
    BY <2>8, AnswerIsSettleOrFail, FinishIsFinish DEF Map!Next
  <2> HIDE DEF Stutter
  <2> QED
    BY <2>2, <2>3, <2>4, <2>5, <2>6, <2>7, <2>8 DEF Next, PushStep
<1>2. WalkInv /\ [Next]_vars => WalkInv'
  BY WalkInvStep
<1> QED
  BY <1>1, <1>2, WalkInvInit, MapInit, PTL DEF Spec, Map!Spec
=============================================================================
