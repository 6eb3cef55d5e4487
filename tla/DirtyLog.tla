------------------------------ MODULE DirtyLog ------------------------------
(***************************************************************************)
(* The dirty log of one SyncEngine as the code keeps it: an array.         *)
(* trackChange replaces a record's entry where it stands or appends one, a *)
(* push walks the array by index across its awaits, remembers the INDICES  *)
(* it completed and splices them out when the walk ends; pull and          *)
(* removeDirty filter the array.  What the remote answers is arbitrary     *)
(* here (SyncEngine models it).  The log implements DirtyMap as long as    *)
(* only one call loads it, and nothing but a single push removes entries   *)
(* while that push runs.                                                   *)
(***************************************************************************)
EXTENDS Naturals, Sequences, FiniteSets

CONSTANTS
  Ids,        \* record ids
  Pushes,     \* calls of push that may be made
  Loads,      \* calls that may find the log not loaded yet
  NoId,       \* no record in hand
  MaxWrites,  \* bound: tracked writes in a behaviour
  MaxCrashes, \* bound: restarts in a behaviour
  Overlap     \* may a push start while another one runs?

ASSUME NoIdAssumption == NoId \notin Ids
ASSUME BoundsAssumption == {MaxWrites, MaxCrashes} \subseteq Nat
ASSUME OverlapAssumption == Overlap \in BOOLEAN

VARIABLES
  dirty,      \* the array
  loaded,     \* has the engine read its saved log since it was opened?
  loading,    \* calls that await the read of the saved log
  meta,       \* the dirty log as last saved under `_sync/meta`
  saved,      \* does `_sync/meta` exist?
  run,        \* the pushes in progress
  writes,     \* consumed bound; also the version the next write is tracked at
  crashes     \* consumed bound

vars == <<dirty, loaded, loading, meta, saved, run, writes, crashes>>

\* A push expects the predecessor of an entry's version on the remote.
Entries == [id : Ids, version : Nat \ {0}]

\* `at` is the loop index, `completed` the indices to splice; `done` is history:
\* the records whose push has completed, as the remote saw it.
NoRun == [pc |-> "idle", only |-> {}, at |-> 1, hand |-> NoId,
          completed |-> {}, done |-> {}]

Runs == [pc : {"idle", "loop", "await"}, only : SUBSET Ids, at : Nat \ {0},
         hand : Ids \cup {NoId}, completed : SUBSET Nat, done : SUBSET Ids]

\* The log and its saved copy are arrays of entries, and a push walks one of them.
TypeOK ==
  /\ dirty \in Seq(Entries)
  /\ loaded \in BOOLEAN /\ loading \subseteq Loads
  /\ meta \in Seq(Entries) /\ saved \in BOOLEAN
  /\ run \in [Pushes -> Runs]
  /\ writes \in 0..MaxWrites /\ crashes \in 0..MaxCrashes

\* The engine is opened on a new store, or on one whose saved log is empty.
Init ==
  /\ dirty = <<>>
  /\ loaded = FALSE /\ loading = {}
  /\ meta = <<>> /\ saved \in BOOLEAN
  /\ run = [p \in Pushes |-> NoRun]
  /\ writes = 0 /\ crashes = 0

Running(p) == run[p].pc # "idle"

-----------------------------------------------------------------------------
(* The array. *)

Positions(log, id) == {k \in DOMAIN log : log[k].id = id}

\* Mutant of Tracked: a change is appended without looking for the record's entry.
TrackedAppends(log, id, v) == Append(log, [id |-> id, version |-> v])

\* Mutant of Tracked: the entry names the version the write replaced.
TrackedBefore(log, id, v) == Append(log, [id |-> id, version |-> v - 1])

\* Mutant of Tracked: the replaced entry moves to the end of the array.
TrackedMovesToEnd(log, id, v) ==
  Append(SelectSeq(log, LAMBDA e : e.id # id), [id |-> id, version |-> v])

\* One entry per record: replaced where it stands, appended if there is none.
Tracked(log, id, v) ==
  IF Positions(log, id) = {} THEN Append(log, [id |-> id, version |-> v])
  ELSE [k \in DOMAIN log |->
          IF k \in Positions(log, id) THEN [id |-> id, version |-> v] ELSE log[k]]

\* The entries at the positions in `kept`, in order: the k-th of them is the one
\* with k kept positions up to it.
Rank(kept, i) == Cardinality({k \in kept : k <= i})

Kept(log, kept) ==
  [k \in 1..Cardinality(kept) |-> log[CHOOSE i \in kept : Rank(kept, i) = k]]

\* Mutant of Spliced: lowest index first, so that each splice shifts the next.
SplicedAscending(log, completed) ==
  Kept(log, DOMAIN log \
    {c + Cardinality({b \in completed : b < c}) : c \in completed})

\* Highest index first: an index that is past the end removes nothing.
Spliced(log, completed) == Kept(log, DOMAIN log \ completed)

Filtered(log, id) == Kept(log, DOMAIN log \ Positions(log, id))

-----------------------------------------------------------------------------
(* The operations. *)

\* Every call first awaits the saved log if none of them has loaded it yet ...
LoadStart(c) ==
  /\ ~loaded /\ c \notin loading
  /\ loading' = loading \cup {c}
  /\ UNCHANGED <<dirty, loaded, meta, saved, run, writes, crashes>>

\* ... and replaces the array by what it read, without looking again.
EnsureLoaded(c) ==
  /\ c \in loading
  /\ loading' = loading \ {c}
  /\ loaded' = TRUE
  /\ dirty' = IF saved THEN meta ELSE dirty
  /\ UNCHANGED <<meta, saved, run, writes, crashes>>

TrackChange(id) ==
  /\ loaded
  /\ writes < MaxWrites
  /\ writes' = writes + 1
  /\ dirty' = Tracked(dirty, id, writes + 1)
  /\ UNCHANGED <<loaded, loading, meta, saved, run, crashes>>

\* A pull that settled the record, or removeDirty undoing a satellite's write.
RemoveDirty(id) ==
  /\ loaded
  /\ \A p \in Pushes : ~Running(p)
  /\ dirty' = Filtered(dirty, id)
  /\ UNCHANGED <<loaded, loading, meta, saved, run, writes, crashes>>

PersistMeta ==
  /\ loaded
  /\ meta' = dirty /\ saved' = TRUE
  /\ UNCHANGED <<dirty, loaded, loading, run, writes, crashes>>

\* push() takes every record, push(collections) and pushFiltered() some of them.
PushStart(p, only) ==
  /\ loaded
  /\ ~Running(p)
  /\ Overlap \/ \A q \in Pushes : ~Running(q)
  /\ run' = [run EXCEPT ![p] = [NoRun EXCEPT !.pc = "loop", !.only = only]]
  /\ UNCHANGED <<dirty, loaded, loading, meta, saved, writes, crashes>>

PushNext(p) ==
  /\ run[p].pc = "loop" /\ run[p].at <= Len(dirty)
  /\ LET id == dirty[run[p].at].id
     IN IF id \in run[p].only
        THEN run' = [run EXCEPT ![p].pc = "await", ![p].hand = id]
        ELSE run' = [run EXCEPT ![p].at = @ + 1]
  /\ UNCHANGED <<dirty, loaded, loading, meta, saved, writes, crashes>>

\* The record in hand was sent, or its conflict settled: its index is completed.
PushCompleted(p) ==
  /\ run[p].pc = "await"
  /\ run' = [run EXCEPT ![p].pc = "loop", ![p].at = @ + 1, ![p].hand = NoId,
                        ![p].completed = @ \cup {run[p].at},
                        ![p].done = @ \cup {run[p].hand}]
  /\ UNCHANGED <<dirty, loaded, loading, meta, saved, writes, crashes>>

\* An error or a conflict left to the user: the record stays in the log.
PushFailed(p) ==
  /\ run[p].pc = "await"
  /\ run' = [run EXCEPT ![p].pc = "loop", ![p].at = @ + 1, ![p].hand = NoId]
  /\ UNCHANGED <<dirty, loaded, loading, meta, saved, writes, crashes>>

PushFinish(p) ==
  /\ run[p].pc = "loop" /\ run[p].at > Len(dirty)
  /\ dirty' = Spliced(dirty, run[p].completed)
  /\ run' = [run EXCEPT ![p] = NoRun]
  /\ UNCHANGED <<loaded, loading, meta, saved, writes, crashes>>

\* The process dies; the engine is opened again on the saved log.
Crash ==
  /\ crashes < MaxCrashes
  /\ crashes' = crashes + 1
  /\ dirty' = <<>>
  /\ loaded' = FALSE /\ loading' = {}
  /\ run' = [p \in Pushes |-> NoRun]
  /\ UNCHANGED <<meta, saved, writes>>

PushStep(p) ==
  PushNext(p) \/ PushCompleted(p) \/ PushFailed(p) \/ PushFinish(p)

Next ==
  \/ \E c \in Loads : LoadStart(c) \/ EnsureLoaded(c)
  \/ PersistMeta \/ Crash
  \/ \E id \in Ids : TrackChange(id) \/ RemoveDirty(id)
  \/ \E p \in Pushes, only \in SUBSET Ids : PushStart(p, only)
  \/ \E p \in Pushes : PushStep(p)

Spec == Init /\ [][Next]_vars

-----------------------------------------------------------------------------
(* Properties. *)

Distinct(log) == \A j, k \in DOMAIN log : log[j].id = log[k].id => j = k

\* However writes, pushes, pulls, loads and restarts interleave, a record has at
\* most one entry, in memory and as saved: trackChange never adds a second one.
UniqueEntries == Distinct(dirty) /\ Distinct(meta)

\* The indices a running push is about to splice are still those of the records
\* it completed, and the one in hand still stands where the loop is.
IndicesStable ==
  \A p \in Pushes :
    /\ run[p].completed \subseteq DOMAIN dirty
    /\ run[p].done = {dirty[k].id : k \in run[p].completed}
    /\ run[p].pc = "await" =>
         run[p].at \in DOMAIN dirty /\ dirty[run[p].at].id = run[p].hand

Listed(log, id) == Positions(log, id) # {}

\* An entry leaves the log only with a push that completed its record, with a
\* pull that settled it, or when the process dies before it was saved.
OnlyCompletedLeave ==
  [][\A id \in Ids :
       Listed(dirty, id) /\ ~Listed(dirty', id) =>
         \/ RemoveDirty(id) \/ Crash
         \/ \E p \in Pushes : id \in run[p].done /\ PushFinish(p)]_vars

\* The array read as a map: the version in a record's entry.
VersionIn(log) ==
  [i \in Ids |-> IF Listed(log, i)
                 THEN log[CHOOSE k \in Positions(log, i) : TRUE].version ELSE 0]

Visited(p) ==
  {dirty[k].id : k \in {j \in DOMAIN dirty : j < run[p].at}}
    \cup (IF run[p].pc = "await" THEN {run[p].hand} ELSE {})

AsPush(p) ==
  [active |-> Running(p), todo |-> run[p].only \ Visited(p),
   hand |-> run[p].hand, done |-> run[p].done]

Map == INSTANCE DirtyMap WITH
  entry <- IF loaded THEN VersionIn(dirty) ELSE VersionIn(meta),
  saved <- VersionIn(meta),
  push <- [p \in Pushes |-> AsPush(p)]

\* The array keeps the promise of the map SyncEngine works with: a push visits
\* every entry once, those added meanwhile included, and exactly the ones it
\* completed leave the log.
ImplementsMap == Map!Spec
=============================================================================
