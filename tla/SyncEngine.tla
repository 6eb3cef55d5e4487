----------------------------- MODULE SyncEngine -----------------------------
(***************************************************************************)
(* Several devices keep one collection offline-first against one shared    *)
(* remote store.  On each device an application writes through             *)
(* `Collection` (put, delete, forget), whose dirty records the device's    *)
(* `SyncEngine` pushes, and the engine pulls the other devices' writes.    *)
(*                                                                         *)
(* A step is what runs between two awaits on a store: a handler is split   *)
(* where it reads a store and later acts on what it read.  A device is one *)
(* JavaScript process, so a step is never interrupted; what interleaves is *)
(* the awaits of the application's calls, of the engine and of the other   *)
(* devices.                                                                *)
(***************************************************************************)
EXTENDS Envelope, FiniteSets

CONSTANTS
  Devices,        \* devices that share the vault
  Ids,            \* record ids of the collection
  Strategies,     \* `conflict` options the devices may be opened with
  Ops,            \* the application calls exercised
  MaxOps,         \* bound: application calls in a behaviour
  Faults,         \* disturbances exercised
  MaxFaults,      \* bound: disturbances in a behaviour
  DevicesOverlap, \* may two devices sync at the same time?
  ResolveWindow,  \* may a device write the remote inside another's resolution?
  RecreateErased, \* may the application put an id it holds a tombstone of?
  AppDuringSync   \* may the application write while its own engine syncs?

ASSUME DevicesAssumption == Devices # {}
ASSUME StrategyAssumption == Strategies \subseteq {"version", "local-wins", "remote-wins"}
ASSUME OpsAssumption == Ops \subseteq {"put", "delete", "forget"}
ASSUME FaultsAssumption == Faults \subseteq {"call fails", "answer lost", "crash"}
ASSUME BoundsAssumption == {MaxOps, MaxFaults} \subseteq Nat
ASSUME EnvironmentAssumption ==
  {DevicesOverlap, ResolveWindow, RecreateErased, AppDuringSync} \subseteq BOOLEAN
ASSUME BodiesAssumption == NoBody \notin Bodies
ASSUME NilAssumption == Nil \notin Ids /\ Nil \notin Envelopes

VARIABLES
  remote,     \* the shared store: one slot per id
  local,      \* each device's own store
  cached,     \* version of each device's decrypted in-memory entry, 0 if none
  markerIds,  \* ids each Collection knows to hold a delete marker
  dirty,      \* version each device still has to push, 0 if none
  meta,       \* the dirty log as last saved under `_sync/meta`
  app,        \* the application call in progress on each device
  task,       \* the push, pull or sync in progress on each device
  strategy,   \* the `conflict` option each device was opened with
  unmarked,   \* history: records whose pending mark a crash lost
  setBack,    \* history: records whose copy on the remote a put set back
  ops, faults \* consumed bounds

vars == <<remote, local, cached, markerIds, dirty, meta, app, task,
          strategy, unmarked, setBack, ops, faults>>
remoteVars == <<remote, setBack>>
appVars == <<cached, markerIds, dirty, meta, app>>
others == <<strategy, unmarked, ops, faults>>

-----------------------------------------------------------------------------
(* The shapes of the two activities of a device. *)

NoCall == [pc |-> "idle", id |-> Nil, env |-> Nil]

Calls == {NoCall} \cup
  [pc : {"prepared", "stored"}, id : Ids, env : Envelopes]

\* What becomes of the dirty entry when an applied envelope has settled.
Afters == {"keep", "drop", "done", "assert"}

NoRecord == [id |-> Nil, env |-> Nil, ver |-> 0, after |-> "keep"]

Records == {NoRecord} \cup
  [id : Ids, env : Slots, ver : Nat, after : Afters]

IdleTask == [pc |-> "idle", phase |-> "pull", thenPush |-> FALSE,
             snap |-> [i \in Ids |-> Nil], todo |-> {}, done |-> {},
             rec |-> NoRecord]

\* Between a conflict's remote.get and the unconditional put of its winner.
Forcing == {"force", "forceApply"}

RecordPcs == {"read", "apply", "refresh", "assert", "put", "resolve"} \cup Forcing

Tasks ==
  [pc : {"idle", "loop", "meta"} \cup RecordPcs, phase : {"pull", "push"},
   thenPush : BOOLEAN, snap : [Ids -> Slots], todo : SUBSET Ids,
   done : SUBSET Ids, rec : Records]

\* Every store, cache and log holds well-formed values; in particular a delete
\* marker or a tombstone carries no body: delete and forget leave no ciphertext.
TypeOK ==
  /\ remote \in [Ids -> Slots]
  /\ local \in [Devices -> [Ids -> Slots]]
  /\ cached \in [Devices -> [Ids -> Nat]]
  /\ markerIds \in [Devices -> SUBSET Ids]
  /\ dirty \in [Devices -> [Ids -> Nat]]
  /\ meta \in [Devices -> [Ids -> Nat]]
  /\ app \in [Devices -> Calls]
  /\ task \in [Devices -> Tasks]
  /\ strategy \in [Devices -> Strategies]
  /\ unmarked \subseteq Devices \X Ids /\ setBack \subseteq Ids
  /\ ops \in 0..MaxOps /\ faults \in 0..MaxFaults

Init ==
  /\ remote = [i \in Ids |-> Nil]
  /\ local = [d \in Devices |-> [i \in Ids |-> Nil]]
  /\ cached = [d \in Devices |-> [i \in Ids |-> 0]]
  /\ markerIds = [d \in Devices |-> {}]
  /\ dirty = [d \in Devices |-> [i \in Ids |-> 0]]
  /\ meta = [d \in Devices |-> [i \in Ids |-> 0]]
  /\ app = [d \in Devices |-> NoCall]
  /\ task = [d \in Devices |-> IdleTask]
  /\ strategy \in [Devices -> Strategies]
  /\ unmarked = {} /\ setBack = {}
  /\ ops = 0 /\ faults = 0

-----------------------------------------------------------------------------
(* The environment. *)

AppMayCall(d) ==
  /\ app[d].pc = "idle"
  /\ AppDuringSync \/ task[d].pc = "idle"

TaskMayStart(d) ==
  /\ task[d].pc = "idle"
  /\ AppDuringSync \/ app[d].pc = "idle"
  /\ DevicesOverlap \/ \A e \in Devices : task[e].pc = "idle"

Disturb(fault) ==
  /\ fault \in Faults
  /\ faults < MaxFaults
  /\ faults' = faults + 1

\* Another device's write lands in this id's slot of the remote.
RemoteOpen(d, id) ==
  ResolveWindow \/
    \A e \in Devices \ {d} : task[e].pc \in Forcing => task[e].rec.id # id

-----------------------------------------------------------------------------
(* Application calls on a Collection. *)

\* Mutant of NextVersion: a put after a delete forgets the marker's version.
NextVersionIgnoresMarker(d, id) ==
  IF cached[d][id] > 0 THEN cached[d][id] + 1 ELSE 1

\* A put continues the cached version, or the version of a known delete
\* marker; otherwise it starts at 1, a tombstone in the slot included.
NextVersion(d, id) ==
  IF cached[d][id] > 0 THEN cached[d][id] + 1
  ELSE IF id \in markerIds[d] /\ IsKind(local[d][id], "marker")
       THEN local[d][id].v + 1
       ELSE 1

Prepare(d, id, env) ==
  /\ AppMayCall(d)
  /\ ops < MaxOps
  /\ ops' = ops + 1
  /\ app' = [app EXCEPT ![d] = [pc |-> "prepared", id |-> id, env |-> env]]
  /\ UNCHANGED <<remoteVars, local, cached, markerIds, dirty, meta, task,
                 strategy, unmarked, faults>>

PreparePut(d, id) ==
  /\ "put" \in Ops
  /\ RecreateErased \/ ~IsKind(local[d][id], "tombstone")
  /\ \E body \in Bodies : Prepare(d, id, Live(NextVersion(d, id), body))

PrepareDelete(d, id) ==
  /\ "delete" \in Ops
  /\ IsKind(local[d][id], "live")
  /\ Prepare(d, id, Marker(local[d][id].v + 1))

PrepareForget(d, id) ==
  /\ "forget" \in Ops
  /\ IsKind(local[d][id], "live")
  /\ Prepare(d, id, Tombstone(local[d][id].v))

\* Mutant of OwnMarkers: a put over a delete marker leaves the id listed.
OwnMarkersNeverLeave(d, id, env) ==
  IF IsKind(env, "marker") THEN markerIds[d] \cup {id} ELSE markerIds[d]

\* `markerIds` after this device stores an envelope of its own.
OwnMarkers(d, id, env) ==
  IF IsKind(env, "marker") THEN markerIds[d] \cup {id}
  ELSE IF IsKind(env, "live") THEN markerIds[d] \ {id}
  ELSE markerIds[d]

CommitCall(d) ==
  /\ app[d].pc = "prepared"
  /\ local' = [local EXCEPT ![d][app[d].id] = app[d].env]
  /\ markerIds' = [markerIds EXCEPT ![d] = OwnMarkers(d, app[d].id, app[d].env)]
  /\ app' = [app EXCEPT ![d].pc = "stored"]
  /\ UNCHANGED <<remoteVars, cached, dirty, meta, task, others>>

\* The write tail: the cache entry, then onDirty, whose trackChange is not awaited.
TrackChange(d, id, v) == dirty' = [dirty EXCEPT ![d][id] = v]

FinishCall(d) ==
  LET id == app[d].id  env == app[d].env
  IN /\ app[d].pc = "stored"
     /\ cached' = [cached EXCEPT ![d][id] = CachedVersion(env)]
     /\ markerIds' = [markerIds EXCEPT ![d] = OwnMarkers(d, id, env)]
     /\ TrackChange(d, id, env.v)
     /\ app' = [app EXCEPT ![d] = NoCall]
     /\ unmarked' = unmarked \ {<<d, id>>}
     /\ UNCHANGED <<remoteVars, local, meta, task, strategy, ops, faults>>

\* The save that trackChange issued reaches the store.
PersistMeta(d) ==
  /\ meta[d] # dirty[d]
  /\ meta' = [meta EXCEPT ![d] = dirty[d]]
  /\ UNCHANGED <<remoteVars, local, cached, markerIds, dirty, app, task, others>>

-----------------------------------------------------------------------------
(* Conflict rules. *)

\* Same version, one side an ordinary delete: version order cannot decide.
DeleteTie(r, l) ==
  r.v = l.v /\ IsKind(r, "marker") # IsKind(l, "marker")

LocalWins(conflict, l, r) ==
  conflict = "local-wins" \/ (conflict = "version" /\ l.v >= r.v)

\* Mutant of AdvancePastRemote: the winner keeps the version it had.
AdvanceNowhere(winner, r) == winner

AdvancePastRemote(winner, r) ==
  IF winner.v > r.v THEN winner ELSE AtVersion(winner, r.v + 1)

\* Mutant of TakesRemote: a tombstone is compared by version like any record.
TakesRemoteByVersion(conflict, r, l, isDirty) ==
  l # Nil =>
    \/ IsKind(r, "tombstone")
    \/ DeleteTie(r, l) /\ IsKind(r, "marker")
    \/ /\ ~DeleteTie(r, l) /\ r.v > l.v
       /\ isDirty => ~LocalWins(conflict, l, r)

\* Pull writes the remote envelope `r` over the local slot `l`.
TakesRemote(conflict, r, l, isDirty) ==
  l # Nil =>
    IF IsKind(l, "tombstone") THEN IsKind(r, "tombstone") /\ r.v > l.v
    ELSE \/ IsKind(r, "tombstone")
         \/ DeleteTie(r, l) /\ IsKind(r, "marker")
         \/ /\ ~DeleteTie(r, l) /\ r.v > l.v
            /\ isDirty => ~LocalWins(conflict, l, r)

Reasserts(r, l) == IsKind(l, "tombstone") /\ ~IsKind(r, "tombstone")

\* Mutant of DropsDirty: a lost conflict leaves its pending push behind.
DropsDirtyOnErasure(r, l, isDirty) ==
  l # Nil /\ ~IsKind(l, "tombstone") /\ IsKind(r, "tombstone")

\* ... and forgets the pending push of that record.
DropsDirty(r, l, isDirty) ==
  /\ l # Nil /\ ~IsKind(l, "tombstone")
  /\ IsKind(r, "tombstone") \/ DeleteTie(r, l) \/ isDirty

-----------------------------------------------------------------------------
(* Steps shared by push and pull. *)

SetTask(d, t) == task' = [task EXCEPT ![d] = t]

\* The new slot is at a higher version; only an erasure, or a delete in a tie,
\* may land at a version not higher.
Supersedes(new, old) ==
  \/ old = Nil
  \/ IsKind(new, "tombstone")
  \/ new.v > old.v
  \/ DeleteTie(new, old) /\ IsKind(new, "marker")

\* A pull of the new slot acts on whatever a pull of the old one did not.
Forward(new, old) ==
  \/ new = old
  \/ /\ Supersedes(new, old)
     /\ IsKind(old, "tombstone") => IsKind(new, "tombstone")

\* The remote's slot of this id after a put, and whether it went forward.
PutRemote(id, env) ==
  /\ remote' = [remote EXCEPT ![id] = env]
  /\ setBack' = IF Forward(env, remote[id]) THEN setBack ELSE setBack \cup {id}

\* The record in hand is finished; its id counts as completed if `completed`.
NextRecord(d, completed) ==
  SetTask(d, [task[d] EXCEPT !.pc = "loop", !.rec = NoRecord,
    !.done = IF completed THEN @ \cup {task[d].rec.id} ELSE @])

ApplyRemote(d) ==
  LET id == task[d].rec.id  env == task[d].rec.env
  IN /\ task[d].pc = "apply"
     /\ local' = [local EXCEPT ![d][id] = env]
     /\ markerIds' = [markerIds EXCEPT ![d] =
          IF IsKind(env, "live") THEN @ \ {id} ELSE @ \cup {id}]
     /\ SetTask(d, [task[d] EXCEPT !.pc = "refresh"])
     /\ UNCHANGED <<remoteVars, cached, dirty, meta, app, others>>

\* The cache invalidator re-reads the slot; then the caller settles the dirty entry.
InvalidateCacheEntry(d) ==
  LET id == task[d].rec.id  slot == local[d][id]
  IN /\ task[d].pc = "refresh"
     /\ cached' = [cached EXCEPT ![d][id] = CachedVersion(slot)]
     /\ markerIds' = [markerIds EXCEPT ![d] =
          IF IsKind(slot, "marker") THEN @ \cup {id} ELSE @ \ {id}]
     /\ dirty' = IF task[d].rec.after = "drop"
                 THEN [dirty EXCEPT ![d][id] = 0] ELSE dirty
     /\ IF task[d].rec.after = "assert"
        THEN SetTask(d, [task[d] EXCEPT !.pc = "assert"])
        ELSE NextRecord(d, task[d].rec.after = "done")
     /\ UNCHANGED <<remoteVars, local, meta, app, others>>

\* A remote call fails before it takes effect: the record keeps its dirty entry.
RemoteFails(d) ==
  /\ task[d].pc \in {"assert", "put", "resolve"} \cup Forcing
  /\ Disturb("call fails")
  /\ NextRecord(d, FALSE)
  /\ UNCHANGED <<remoteVars, local, appVars, strategy, unmarked, ops>>

\* A put reaches the remote but its answer is lost: the engine sees an error.
AnswerLost(d) ==
  LET id == task[d].rec.id  env == task[d].rec.env
  IN /\ task[d].pc \in {"assert", "put"} \cup Forcing
     /\ Disturb("answer lost")
     /\ RemoteOpen(d, id)
     /\ task[d].pc = "put" /\ ~IsKind(env, "tombstone") =>
          CasAccepts(remote[id], task[d].rec.ver - 1)
     /\ PutRemote(id, env)
     /\ NextRecord(d, FALSE)
     /\ UNCHANGED <<local, appVars, strategy, unmarked, ops>>

-----------------------------------------------------------------------------
(* pull() *)

\* loadAll answers with the whole remote at one moment.
PullStart(d, thenPush) ==
  /\ TaskMayStart(d)
  /\ SetTask(d, [IdleTask EXCEPT !.pc = "loop", !.phase = "pull",
       !.thenPush = thenPush, !.snap = remote])
  /\ UNCHANGED <<remoteVars, local, appVars, others>>

\* The local read of one snapshot record, and the verdict taken on it.
PullRecord(d, id) ==
  LET r == task[d].snap[id]  l == local[d][id]  isDirty == dirty[d][id] # 0
      Hand(pc, env, after) ==
        SetTask(d, [task[d] EXCEPT !.snap[id] = Nil, !.pc = pc,
          !.rec = [id |-> id, env |-> env, ver |-> 0, after |-> after]])
  IN /\ task[d].pc = "loop" /\ task[d].phase = "pull"
     /\ r # Nil
     /\ \/ /\ TakesRemote(strategy[d], r, l, isDirty)
           /\ Hand("apply", r, IF DropsDirty(r, l, isDirty) THEN "drop" ELSE "keep")
        \/ /\ Reasserts(r, l)
           /\ IF r.v > l.v
              THEN Hand("apply", AtVersion(l, r.v), "assert")
              ELSE Hand("assert", l, "assert")
        \/ /\ ~TakesRemote(strategy[d], r, l, isDirty) /\ ~Reasserts(r, l)
           /\ SetTask(d, [task[d] EXCEPT !.snap[id] = Nil])
     /\ UNCHANGED <<remoteVars, local, appVars, others>>

ReassertTombstone(d) ==
  LET id == task[d].rec.id
  IN /\ task[d].pc = "assert"
     /\ RemoteOpen(d, id)
     /\ PutRemote(id, task[d].rec.env)
     /\ dirty' = [dirty EXCEPT ![d][id] = 0]
     /\ NextRecord(d, FALSE)
     /\ UNCHANGED <<local, cached, markerIds, meta, app, others>>

PullFinish(d) ==
  /\ task[d].pc = "loop" /\ task[d].phase = "pull"
  /\ \A i \in Ids : task[d].snap[i] = Nil
  /\ SetTask(d, [task[d] EXCEPT !.pc = "meta"])
  /\ UNCHANGED <<remoteVars, local, appVars, others>>

-----------------------------------------------------------------------------
(* push() *)

\* Mutant of PushTask: a push that finds nothing to visit.
PushTaskVisitsNothing == [IdleTask EXCEPT !.pc = "loop", !.phase = "push"]

PushTask == [IdleTask EXCEPT !.pc = "loop", !.phase = "push", !.todo = Ids]

PushStart(d) ==
  /\ TaskMayStart(d)
  /\ SetTask(d, PushTask)
  /\ UNCHANGED <<remoteVars, local, appVars, others>>

\* The next dirty entry in the log; its envelope is still to be read.
PushRecord(d, id) ==
  /\ task[d].pc = "loop" /\ task[d].phase = "push"
  /\ id \in task[d].todo /\ dirty[d][id] # 0
  /\ SetTask(d, [task[d] EXCEPT !.todo = @ \ {id}, !.pc = "read",
       !.rec = [id |-> id, env |-> Nil, ver |-> dirty[d][id], after |-> "done"]])
  /\ UNCHANGED <<remoteVars, local, appVars, others>>

PushRead(d) ==
  LET env == local[d][task[d].rec.id]
  IN /\ task[d].pc = "read"
     /\ IF env = Nil THEN NextRecord(d, TRUE)
        ELSE SetTask(d, [task[d] EXCEPT !.pc = "put", !.rec.env = env])
     /\ UNCHANGED <<remoteVars, local, appVars, others>>

\* A tombstone is asserted unconditionally, anything else by compare-and-swap.
PushPut(d) ==
  LET id == task[d].rec.id  env == task[d].rec.env
  IN /\ task[d].pc = "put"
     /\ RemoteOpen(d, id)
     /\ \/ /\ IsKind(env, "tombstone") \/ CasAccepts(remote[id], task[d].rec.ver - 1)
           /\ PutRemote(id, env)
           /\ NextRecord(d, TRUE)
        \/ /\ ~IsKind(env, "tombstone")
           /\ ~CasAccepts(remote[id], task[d].rec.ver - 1)
           /\ SetTask(d, [task[d] EXCEPT !.pc = "resolve"])
           /\ UNCHANGED remoteVars
     /\ UNCHANGED <<local, appVars, others>>

\* The put was refused: read the remote and decide who wins.
PushResolve(d) ==
  LET id == task[d].rec.id  env == task[d].rec.env  r == remote[id]
      Take == SetTask(d, [task[d] EXCEPT !.pc = "apply", !.rec.env = r])
      Force(winner) == SetTask(d, [task[d] EXCEPT !.rec.env = winner,
        !.pc = IF winner = env THEN "force" ELSE "forceApply"])
  IN /\ task[d].pc = "resolve"
     /\ RemoteOpen(d, id)
     /\ \/ r = Nil /\ NextRecord(d, FALSE)
        \/ IsKind(r, "tombstone") /\ Take
        \/ /\ r # Nil /\ ~IsKind(r, "tombstone")
           /\ IF DeleteTie(r, env)
              THEN IF IsKind(r, "marker") THEN Take ELSE Force(env)
              ELSE IF LocalWins(strategy[d], env, r)
                   THEN Force(AdvancePastRemote(env, r)) ELSE Take
     /\ UNCHANGED <<remoteVars, local, appVars, others>>

\* The winner overwrites the remote; a restamped winner is applied locally too.
PushForce(d) ==
  LET id == task[d].rec.id  env == task[d].rec.env
  IN /\ task[d].pc \in Forcing
     /\ PutRemote(id, env)
     /\ IF task[d].pc = "force" THEN NextRecord(d, TRUE)
        ELSE SetTask(d, [task[d] EXCEPT !.pc = "apply"])
     /\ UNCHANGED <<local, appVars, others>>

\* Mutant of PushFinish: every entry leaves the log, the failed ones too.
PushFinishClearsLog(d) ==
  /\ task[d].pc = "loop" /\ task[d].phase = "push"
  /\ \A i \in task[d].todo : dirty[d][i] = 0
  /\ dirty' = [dirty EXCEPT ![d] = [i \in Ids |-> 0]]
  /\ SetTask(d, [task[d] EXCEPT !.pc = "meta"])
  /\ UNCHANGED <<remoteVars, local, cached, markerIds, meta, app, others>>

\* No dirty entry is left unvisited: the completed ones leave the log.
PushFinish(d) ==
  /\ task[d].pc = "loop" /\ task[d].phase = "push"
  /\ \A i \in task[d].todo : dirty[d][i] = 0
  /\ dirty' = [dirty EXCEPT ![d] =
       [i \in Ids |-> IF i \in task[d].done THEN 0 ELSE @[i]]]
  /\ SetTask(d, [task[d] EXCEPT !.pc = "meta"])
  /\ UNCHANGED <<remoteVars, local, cached, markerIds, meta, app, others>>

\* persistMeta at the end of a push or a pull; sync() then goes on to push.
SaveMeta(d) ==
  /\ task[d].pc = "meta"
  /\ meta' = [meta EXCEPT ![d] = dirty[d]]
  /\ SetTask(d, IF task[d].thenPush THEN PushTask ELSE IdleTask)
  /\ UNCHANGED <<remoteVars, local, cached, markerIds, dirty, app, others>>

-----------------------------------------------------------------------------
(* The process dies and is started again on the same local store. *)

\* The saved log lacks the record's mark, or names another version than the store.
MarkLost(d, id) ==
  \/ app[d].pc = "stored" /\ app[d].id = id
  \/ meta[d][id] = 0 /\ dirty[d][id] # 0
  \/ /\ meta[d][id] # 0 /\ ~IsKind(local[d][id], "tombstone")
     /\ local[d][id] # Nil => local[d][id].v # meta[d][id]

Crash(d) ==
  /\ Disturb("crash")
  /\ app' = [app EXCEPT ![d] = NoCall]
  /\ task' = [task EXCEPT ![d] = IdleTask]
  /\ dirty' = [dirty EXCEPT ![d] = meta[d]]
  /\ cached' = [cached EXCEPT ![d] = [i \in Ids |-> CachedVersion(local[d][i])]]
  /\ markerIds' = [markerIds EXCEPT ![d] = {i \in Ids : IsKind(local[d][i], "marker")}]
  /\ unmarked' = unmarked \cup {<<d, i>> : i \in {j \in Ids : MarkLost(d, j)}}
  /\ UNCHANGED <<remoteVars, local, meta, strategy, ops>>

-----------------------------------------------------------------------------
AppStep(d) ==
  \/ \E id \in Ids : PreparePut(d, id) \/ PrepareDelete(d, id) \/ PrepareForget(d, id)
  \/ CommitCall(d)
  \/ FinishCall(d)

TaskStep(d) ==
  \/ ApplyRemote(d) \/ InvalidateCacheEntry(d)
  \/ \E id \in Ids : PullRecord(d, id) \/ PushRecord(d, id)
  \/ ReassertTombstone(d) \/ PullFinish(d)
  \/ PushRead(d) \/ PushPut(d) \/ PushResolve(d) \/ PushForce(d) \/ PushFinish(d)
  \/ SaveMeta(d)

Start(d) == PushStart(d) \/ \E thenPush \in BOOLEAN : PullStart(d, thenPush)

Step(d) ==
  \/ AppStep(d) \/ TaskStep(d) \/ Start(d) \/ PersistMeta(d)
  \/ RemoteFails(d) \/ AnswerLost(d) \/ Crash(d)

Next == \E d \in Devices : Step(d)

Spec == Init /\ [][Next]_vars

\* The auto-sync interval starts sync() on every device again and again, and
\* a call or a sync that has begun runs on.
Fairness == \A d \in Devices :
  /\ WF_vars(CommitCall(d) \/ FinishCall(d))
  /\ WF_vars(TaskStep(d))
  /\ SF_vars(PullStart(d, TRUE))

FairSpec == Spec /\ Fairness

-----------------------------------------------------------------------------
(* Properties. *)

\* Nothing in progress on the device can still change or report this record.
AtRest(d, id) ==
  app[d].id # id /\ task[d].rec.id # id /\ id \notin task[d].done

MarksIntact(id) == \A d \in Devices : <<d, id>> \notin unmarked

\* A pull of this record would change something.
PullActs(d, id) ==
  remote[id] # Nil /\ (TakesRemote(strategy[d], remote[id], local[d][id], FALSE)
                       \/ Reasserts(remote[id], local[d][id]))

SameOnRemote(d, id) ==
  \/ remote[id] = local[d][id]
  \/ IsKind(remote[id], "tombstone") /\ IsKind(local[d][id], "tombstone")

\* What a device holds without a pending push is what the remote holds, or
\* differs in a way its next pull acts upon: push, pull and the resolution of a
\* conflict never leave two copies that no later sync would tell apart.  A record
\* whose remote copy a put has set back is the exception (see README): SupersedesRemote
\* and RemoteErasureTerminal say when that happens.
NoSilentDivergence ==
  \A d \in Devices, id \in Ids :
    /\ AtRest(d, id) /\ dirty[d][id] = 0 /\ local[d][id] # Nil
    /\ <<d, id>> \notin unmarked /\ id \notin setBack
    =>
      SameOnRemote(d, id) \/ PullActs(d, id)

\* A push writes the remote only with something that supersedes what is there,
\* so that the other devices' next pull sees it (advancePastRemote, CAS put).
SupersedesRemote ==
  [][\A id \in Ids :
       \/ remote'[id] = remote[id]
       \/ Supersedes(remote'[id], remote[id])
       \/ ~MarksIntact(id)]_vars

\* The device's application call stores its envelope.
OwnPut(d, id) == app[d].pc = "prepared" /\ app[d].id = id /\ app'[d].pc = "stored"

\* A tombstone in a device's store gives way to nothing but the device's own
\* put: pull, conflict resolution and restart never bring a forgotten body back.
ErasureTerminal ==
  [][\A d \in Devices, id \in Ids :
       IsKind(local[d][id], "tombstone") =>
         IsKind(local'[d][id], "tombstone") \/ OwnPut(d, id)]_vars

\* The version a put or a delete mints from the caches supersedes the record it
\* lands on: a re-created id continues past its delete marker.
OwnWritesSupersede ==
  [][\A d \in Devices, id \in Ids :
       OwnPut(d, id) /\ local[d][id] # Nil /\ ~IsKind(local[d][id], "tombstone") =>
         Supersedes(local'[d][id], local[d][id])]_vars

\* The dirty entry names the version push must find locally: its compare-and-
\* swap expects the predecessor of that version on the remote.
DirtyVersionMatches ==
  \A d \in Devices, id \in Ids :
    /\ AtRest(d, id) /\ dirty[d][id] # 0
    /\ <<d, id>> \notin unmarked
    => /\ local[d][id] # Nil
       /\ IsKind(local[d][id], "tombstone") \/ local[d][id].v = dirty[d][id]

\* The in-memory views of a record, its cache entry and the marker set a put
\* consults, agree with the store whoever wrote it: the application, a pull or
\* the resolution of a push.
ViewsCoherent ==
  \A d \in Devices, id \in Ids :
    app[d].id # id /\ ~(task[d].pc = "refresh" /\ task[d].rec.id = id) =>
      /\ cached[d][id] = CachedVersion(local[d][id])
      /\ id \in markerIds[d] <=> IsKind(local[d][id], "marker")

\* The dirty log of a device and the push walking it, as DirtyMap describes them.
PushOf(t) ==
  IF t.phase = "push" /\ t.pc \notin {"idle", "meta"}
  THEN [active |-> TRUE, todo |-> t.todo, hand |-> t.rec.id, done |-> t.done]
  ELSE [active |-> FALSE, todo |-> {}, hand |-> Nil, done |-> {}]

Log(d) == INSTANCE DirtyMap WITH
  Pushes <- {d}, NoId <- Nil, entry <- dirty[d], saved <- meta[d],
  push <- [p \in {d} |-> PushOf(task[d])]

\* However pulls, pushes, crashes and application calls interleave, each device
\* uses its dirty log as the array of DirtyLog allows: only a settled record's
\* entry leaves it, and a restart brings back the saved one.
ImplementsDirtyMap ==
  /\ \A d \in Devices : Log(d)!Init
  /\ [][\A d \in Devices : [Log(d)!Next]_(Log(d)!vars)]_vars

\* Every device holds what the remote holds.
Converged == \A d \in Devices, id \in Ids : SameOnRemote(d, id)

\* When the application rests, repeated sync() makes all devices hold the same
\* records as the remote, for good.
EventuallyConverged == <>[]Converged

Idle(d) == app[d].pc = "idle" /\ task[d].pc = "idle"

\* `caughtUp` of a push-only target: with nothing queued and nothing running,
\* every local write has reached it.
CaughtUp ==
  \A d \in Devices :
    Idle(d) /\ (\A id \in Ids : dirty[d][id] = 0) =>
      \A id \in Ids : SameOnRemote(d, id)

\* Repeated sync() empties the dirty log of every device: no entry is retried
\* for ever, nor re-queued by the conflict it ran into.
EventuallyCaughtUp == <>[](\A d \in Devices, id \in Ids : dirty[d][id] = 0)

\* Once the remote holds a tombstone no push puts a live body back.
RemoteErasureTerminal ==
  [][\A id \in Ids :
       IsKind(remote[id], "tombstone") => ~IsKind(remote'[id], "live")]_vars
=============================================================================
