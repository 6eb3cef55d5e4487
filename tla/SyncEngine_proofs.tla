-------------------------- MODULE SyncEngine_proofs --------------------------
(***************************************************************************)
(* Theorems about SyncEngine for any number of devices, records, bodies,   *)
(* calls and disturbances.                                                 *)
(***************************************************************************)
EXTENDS SyncEngine, TLAPS

-----------------------------------------------------------------------------
(* Type correctness. *)

\* A task that works on a record has one in hand, with its envelope once read.
RecordInHand ==
  \A d \in Devices :
    task[d].pc \in RecordPcs =>
      /\ task[d].rec.id \in Ids
      /\ task[d].pc # "read" => task[d].rec.env \in Envelopes

TypeInv == TypeOK /\ RecordInHand

LEMMA SlotShape ==
  ASSUME NEW slot \in Slots, slot # Nil
  PROVE  /\ slot \in Envelopes
         /\ slot.v \in Nat
         /\ slot.kind \in {"live", "marker", "tombstone"}
         /\ \A w \in Nat : AtVersion(slot, w) \in Envelopes
<1>1. slot \in Envelopes
  BY DEF Slots
<1>2. \A w \in Nat : AtVersion(slot, w) \in Envelopes
  BY <1>1 DEF Envelopes, AtVersion
<1> QED
  BY <1>1, <1>2 DEF Envelopes

LEMMA NewEnvelopes ==
  ASSUME NEW v \in Nat
  PROVE  /\ \A body \in Bodies : Live(v, body) \in Envelopes
         /\ Marker(v) \in Envelopes
         /\ Tombstone(v) \in Envelopes
BY DEF Live, Marker, Tombstone, Envelopes

LEMMA CachedVersionType ==
  ASSUME NEW slot \in Slots
  PROVE  CachedVersion(slot) \in Nat
BY SlotShape DEF CachedVersion, IsKind

LEMMA InitType == Init => TypeInv
<1> SUFFICES ASSUME Init PROVE TypeInv
  OBVIOUS
<1>1. IdleTask \in Tasks
  BY DEF IdleTask, Tasks, Slots, Records, NoRecord
<1>2. NoCall \in Calls
  BY DEF Calls
<1>3. TypeOK
  BY <1>1, <1>2, BoundsAssumption DEF Init, TypeOK, Slots
<1>4. RecordInHand
  BY DEF Init, RecordInHand, IdleTask, RecordPcs, Forcing
<1> QED
  BY <1>3, <1>4 DEF TypeInv

\* What TypeInv says of one device, in the form the action proofs use.
LEMMA DeviceTypes ==
  ASSUME TypeInv, NEW d \in Devices
  PROVE  /\ task[d] \in Tasks
         /\ app[d] \in Calls
         /\ \A i \in Ids : local[d][i] \in Slots /\ remote[i] \in Slots
         /\ \A i \in Ids : dirty[d][i] \in Nat /\ meta[d][i] \in Nat /\ cached[d][i] \in Nat
BY DEF TypeInv, TypeOK

\* Replacing a device's task by a well-formed one keeps the tasks well-formed.
LEMMA SetTaskType ==
  ASSUME TypeInv, NEW d \in Devices, NEW t \in Tasks, SetTask(d, t),
         t.pc \in RecordPcs =>
           t.rec.id \in Ids /\ (t.pc # "read" => t.rec.env \in Envelopes)
  PROVE  task' \in [Devices -> Tasks] /\ RecordInHand'
BY DEF TypeInv, TypeOK, RecordInHand, SetTask

LEMMA NextRecordType ==
  ASSUME TypeInv, NEW d \in Devices, NEW completed \in BOOLEAN,
         NextRecord(d, completed), task[d].pc \in RecordPcs
  PROVE  task' \in [Devices -> Tasks] /\ RecordInHand'
<1> DEFINE t == [task[d] EXCEPT !.pc = "loop", !.rec = NoRecord,
                   !.done = IF completed THEN @ \cup {task[d].rec.id} ELSE @]
<1>1. task[d] \in Tasks /\ task[d].rec.id \in Ids
  BY DeviceTypes DEF TypeInv, RecordInHand
<1>2. t \in Tasks /\ t.pc \notin RecordPcs
  BY <1>1 DEF Tasks, Records, RecordPcs, Forcing
<1>3. SetTask(d, t)
  BY DEF NextRecord
<1> QED
  BY <1>2, <1>3, SetTaskType

LEMMA IdleTasksType ==
  /\ IdleTask \in Tasks /\ IdleTask.pc \notin RecordPcs
  /\ PushTask \in Tasks /\ PushTask.pc \notin RecordPcs
<1>1. IdleTask \in Tasks /\ IdleTask.pc \notin RecordPcs
  BY DEF IdleTask, Tasks, Slots, Records, NoRecord, RecordPcs, Forcing
<1>2. PushTask \in Tasks /\ PushTask.pc \notin RecordPcs
  BY <1>1 DEF PushTask, IdleTask, Tasks, RecordPcs, Forcing
<1> QED
  BY <1>1, <1>2

LEMMA AppStepType ==
  ASSUME TypeInv, NEW d \in Devices, AppStep(d)
  PROVE  TypeInv'
<1> USE DEF appVars, others, remoteVars, PutRemote
<1>1. ASSUME NEW id \in Ids, NEW env \in Envelopes, Prepare(d, id, env)
      PROVE  TypeInv'
  <2>1. app' \in [Devices -> Calls]
    BY <1>1 DEF TypeInv, TypeOK, Prepare, Calls
  <2>2. ops' \in 0..MaxOps
    BY <1>1, BoundsAssumption DEF TypeInv, TypeOK, Prepare
  <2>3. TypeOK'
    BY <1>1, <2>1, <2>2 DEF TypeInv, TypeOK, Prepare
  <2>4. RecordInHand'
    BY <1>1 DEF TypeInv, RecordInHand, Prepare
  <2> QED
    BY <2>3, <2>4 DEF TypeInv
<1>2. ASSUME NEW id \in Ids, PreparePut(d, id)
      PROVE  TypeInv'
  <2>1. NextVersion(d, id) \in Nat
    BY DeviceTypes, SlotShape DEF NextVersion, IsKind
  <2> QED
    BY <1>1, <1>2, <2>1, NewEnvelopes DEF PreparePut
<1>3. ASSUME NEW id \in Ids, PrepareDelete(d, id)
      PROVE  TypeInv'
  <2>1. local[d][id].v + 1 \in Nat
    BY <1>3, DeviceTypes, SlotShape DEF PrepareDelete, IsKind
  <2> QED
    BY <1>1, <1>3, <2>1, NewEnvelopes DEF PrepareDelete
<1>4. ASSUME NEW id \in Ids, PrepareForget(d, id)
      PROVE  TypeInv'
  <2>1. local[d][id].v \in Nat
    BY <1>4, DeviceTypes, SlotShape DEF PrepareForget, IsKind
  <2> QED
    BY <1>1, <1>4, <2>1, NewEnvelopes DEF PrepareForget
<1>5. CASE CommitCall(d)
  <2>1. app[d] \in [pc : {"prepared", "stored"}, id : Ids, env : Envelopes]
    BY <1>5, DeviceTypes DEF CommitCall, Calls, NoCall
  <2>2. app' \in [Devices -> Calls]
    <3>1. [app[d] EXCEPT !.pc = "stored"] \in Calls
      BY <2>1 DEF Calls
    <3> QED
      BY <1>5, <3>1 DEF TypeInv, TypeOK, CommitCall
  <2>3. local' \in [Devices -> [Ids -> Slots]]
    BY <1>5, <2>1 DEF TypeInv, TypeOK, CommitCall, Slots
  <2>4. markerIds' \in [Devices -> SUBSET Ids]
    BY <1>5, <2>1 DEF TypeInv, TypeOK, CommitCall, OwnMarkers
  <2>5. TypeOK'
    BY <1>5, <2>2, <2>3, <2>4 DEF TypeInv, TypeOK, CommitCall
  <2>6. RecordInHand'
    BY <1>5 DEF TypeInv, RecordInHand, CommitCall
  <2> QED
    BY <2>5, <2>6 DEF TypeInv
<1>6. CASE FinishCall(d)
  <2> DEFINE id == app[d].id  env == app[d].env
  <2>1. id \in Ids /\ env \in Envelopes /\ env \in Slots
    BY <1>6, DeviceTypes DEF FinishCall, Calls, NoCall, Slots
  <2>2. app' \in [Devices -> Calls]
    BY <1>6 DEF TypeInv, TypeOK, FinishCall, Calls
  <2>3. cached' \in [Devices -> [Ids -> Nat]]
    BY <1>6, <2>1, CachedVersionType DEF TypeInv, TypeOK, FinishCall
  <2>4. env.v \in Nat
    BY <2>1 DEF Envelopes
  <2>5. dirty' \in [Devices -> [Ids -> Nat]]
    BY <1>6, <2>1, <2>4 DEF TypeInv, TypeOK, FinishCall, TrackChange
  <2>6. markerIds' \in [Devices -> SUBSET Ids]
    BY <1>6, <2>1 DEF TypeInv, TypeOK, FinishCall, OwnMarkers
  <2>7. TypeOK'
    BY <1>6, <2>2, <2>3, <2>5, <2>6 DEF TypeInv, TypeOK, FinishCall
  <2>8. RecordInHand'
    BY <1>6 DEF TypeInv, RecordInHand, FinishCall
  <2> QED
    BY <2>7, <2>8 DEF TypeInv
<1> QED
  BY <1>2, <1>3, <1>4, <1>5, <1>6 DEF AppStep

LEMMA TaskStepType ==
  ASSUME TypeInv, NEW d \in Devices, TaskStep(d)
  PROVE  TypeInv'
<1> USE DEF appVars, others, remoteVars, PutRemote
<1> DEFINE id == task[d].rec.id  env == task[d].rec.env
<1>a. task[d] \in Tasks /\ task[d].rec \in Records /\ task[d].rec.ver \in Nat
  BY DeviceTypes DEF Tasks, Records, NoRecord
<1>b. task[d].pc \in RecordPcs => id \in Ids
  BY DEF TypeInv, RecordInHand
<1>c. task[d].pc \in RecordPcs \ {"read"} => env \in Envelopes /\ env \in Slots
  BY DEF TypeInv, RecordInHand, Slots
<1>1. CASE ApplyRemote(d)
  <2>1. id \in Ids /\ env \in Envelopes /\ env \in Slots
    BY <1>1, <1>b, <1>c DEF ApplyRemote, RecordPcs
  <2>2. [task[d] EXCEPT !.pc = "refresh"] \in Tasks
    BY <1>a DEF Tasks, RecordPcs
  <2>3. task' \in [Devices -> Tasks] /\ RecordInHand'
    BY <1>1, <1>a, <2>1, <2>2, SetTaskType DEF ApplyRemote, Tasks
  <2>4. local' \in [Devices -> [Ids -> Slots]]
    BY <1>1, <2>1 DEF TypeInv, TypeOK, ApplyRemote
  <2>5. markerIds' \in [Devices -> SUBSET Ids]
    BY <1>1, <2>1 DEF TypeInv, TypeOK, ApplyRemote
  <2> QED
    BY <1>1, <2>3, <2>4, <2>5 DEF TypeInv, TypeOK, ApplyRemote
<1>2. CASE InvalidateCacheEntry(d)
  <2>1. id \in Ids /\ env \in Envelopes
    BY <1>2, <1>b, <1>c DEF InvalidateCacheEntry, RecordPcs
  <2>2. task' \in [Devices -> Tasks] /\ RecordInHand'
    <3>1. CASE task[d].rec.after = "assert"
      <4>1. [task[d] EXCEPT !.pc = "assert"] \in Tasks
        BY <1>a DEF Tasks, RecordPcs
      <4> QED
        BY <1>2, <1>a, <2>1, <3>1, <4>1, SetTaskType DEF InvalidateCacheEntry, Tasks
    <3>2. CASE task[d].rec.after # "assert"
      BY <1>2, <3>2, NextRecordType DEF InvalidateCacheEntry, RecordPcs
    <3> QED
      BY <3>1, <3>2
  <2>3. local[d][id] \in Slots
    BY <2>1, DeviceTypes
  <2>4. cached' \in [Devices -> [Ids -> Nat]]
    BY <1>2, <2>1, <2>3, CachedVersionType DEF TypeInv, TypeOK, InvalidateCacheEntry
  <2>5. markerIds' \in [Devices -> SUBSET Ids] /\ dirty' \in [Devices -> [Ids -> Nat]]
    BY <1>2, <2>1 DEF TypeInv, TypeOK, InvalidateCacheEntry
  <2> QED
    BY <1>2, <2>2, <2>4, <2>5 DEF TypeInv, TypeOK, InvalidateCacheEntry
<1>3. ASSUME NEW i \in Ids, PullRecord(d, i)
      PROVE  TypeInv'
  <2> DEFINE r == task[d].snap[i]  l == local[d][i]
             t(pc, e, after) == [task[d] EXCEPT !.snap[i] = Nil, !.pc = pc,
               !.rec = [id |-> i, env |-> e, ver |-> 0, after |-> after]]
             done == [task[d] EXCEPT !.snap[i] = Nil]
  <2>1. r \in Slots /\ r # Nil /\ l \in Slots
    BY <1>3, <1>a, DeviceTypes DEF PullRecord, Tasks
  <2>2. r \in Envelopes /\ r.v \in Nat
    BY <2>1, SlotShape
  <2>3. ASSUME NEW pc \in {"apply", "assert"}, NEW e \in Envelopes,
               NEW after \in Afters, SetTask(d, t(pc, e, after))
        PROVE  task' \in [Devices -> Tasks] /\ RecordInHand'
    <3>1. t(pc, e, after) \in Tasks
      BY <1>a, <2>3 DEF Tasks, Records, Slots, RecordPcs
    <3>2. t(pc, e, after).rec.id = i /\ t(pc, e, after).rec.env = e
      BY <1>a DEF Tasks
    <3> HIDE DEF t
    <3> QED
      BY <2>3, <3>1, <3>2, SetTaskType
  <2>4. CASE SetTask(d, done)
    <3>1. done \in Tasks /\ done.pc \notin RecordPcs
      BY <1>3, <1>a DEF PullRecord, Tasks, Slots, RecordPcs, Forcing
    <3> QED
      BY <2>4, <3>1, SetTaskType, <1>3 DEF PullRecord, TypeInv, TypeOK
  <2>5. CASE TakesRemote(strategy[d], r, l, dirty[d][i] # 0)
             /\ SetTask(d, t("apply", r, IF DropsDirty(r, l, dirty[d][i] # 0)
                                         THEN "drop" ELSE "keep"))
    BY <1>3, <2>2, <2>3, <2>5 DEF PullRecord, TypeInv, TypeOK, Afters
  <2>6. ASSUME Reasserts(r, l)
        PROVE  l \in Envelopes /\ AtVersion(l, r.v) \in Envelopes
    BY <2>1, <2>2, <2>6, SlotShape DEF Reasserts, IsKind
  <2>7. CASE Reasserts(r, l) /\ SetTask(d, t("apply", AtVersion(l, r.v), "assert"))
    BY <1>3, <2>3, <2>6, <2>7 DEF PullRecord, TypeInv, TypeOK, Afters
  <2>8. CASE Reasserts(r, l) /\ SetTask(d, t("assert", l, "assert"))
    BY <1>3, <2>3, <2>6, <2>8 DEF PullRecord, TypeInv, TypeOK, Afters
  <2> QED
    BY <1>3, <2>4, <2>5, <2>7, <2>8 DEF PullRecord
<1>4. ASSUME NEW i \in Ids, PushRecord(d, i)
      PROVE  TypeInv'
  <2> DEFINE t == [task[d] EXCEPT !.todo = @ \ {i}, !.pc = "read",
                     !.rec = [id |-> i, env |-> Nil, ver |-> dirty[d][i], after |-> "done"]]
  <2>1. t \in Tasks /\ t.rec.id = i /\ t.pc = "read"
    BY <1>4, <1>a, DeviceTypes DEF Tasks, Records, Slots, RecordPcs, Afters
  <2> QED
    BY <1>4, <2>1, SetTaskType DEF PushRecord, TypeInv, TypeOK
<1>5. CASE ReassertTombstone(d)
  <2>1. id \in Ids /\ env \in Slots /\ task[d].pc \in RecordPcs
    BY <1>5, <1>b, <1>c DEF ReassertTombstone, RecordPcs
  <2>2. remote' \in [Ids -> Slots] /\ dirty' \in [Devices -> [Ids -> Nat]]
    BY <1>5, <2>1 DEF ReassertTombstone, TypeInv, TypeOK
  <2> QED
    BY <1>5, <2>1, <2>2, NextRecordType DEF ReassertTombstone, TypeInv, TypeOK
<1>6. CASE PullFinish(d)
  <2>1. [task[d] EXCEPT !.pc = "meta"] \in Tasks
    BY <1>a DEF Tasks
  <2> QED
    BY <1>6, <1>a, <2>1, SetTaskType
    DEF PullFinish, TypeInv, TypeOK, Tasks, RecordPcs, Forcing
<1>7. CASE PushRead(d)
  <2> DEFINE e == local[d][id]
  <2>1. id \in Ids /\ e \in Slots /\ task[d].pc \in RecordPcs
    BY <1>7, <1>b, DeviceTypes DEF PushRead, RecordPcs
  <2>2. CASE e = Nil
    BY <1>7, <2>1, <2>2, NextRecordType DEF PushRead, TypeInv, TypeOK
  <2>3. CASE e # Nil
    <3> DEFINE t == [task[d] EXCEPT !.pc = "put", !.rec.env = e]
    <3>1. e \in Envelopes
      BY <2>1, <2>3, SlotShape
    <3>2. task[d].rec \in [id : Ids, env : Slots, ver : Nat, after : Afters]
      BY <1>a, <2>1, NilAssumption DEF Records, NoRecord
    <3>3. [task[d].rec EXCEPT !.env = e] \in Records
      BY <2>1, <3>2 DEF Records
    <3>4. t \in Tasks
      BY <1>a, <3>3 DEF Tasks, RecordPcs
    <3>5. t.rec.id = id /\ t.rec.env = e
      BY <1>a, <3>2 DEF Tasks
    <3> QED
      BY <1>7, <2>1, <2>3, <3>1, <3>4, <3>5, SetTaskType DEF PushRead, TypeInv, TypeOK
  <2> QED
    BY <2>2, <2>3
<1>8. CASE PushPut(d)
  <2>1. id \in Ids /\ env \in Slots /\ task[d].pc \in RecordPcs
    BY <1>8, <1>b, <1>c DEF PushPut, RecordPcs
  <2>2. CASE remote' = [remote EXCEPT ![id] = env] /\ NextRecord(d, TRUE)
    BY <1>8, <2>1, <2>2, NextRecordType DEF PushPut, TypeInv, TypeOK
  <2>3. CASE SetTask(d, [task[d] EXCEPT !.pc = "resolve"]) /\ UNCHANGED remote
    <3>1. [task[d] EXCEPT !.pc = "resolve"] \in Tasks
      BY <1>a DEF Tasks, RecordPcs
    <3> QED
      BY <1>8, <1>a, <1>b, <1>c, <2>3, <3>1, SetTaskType
      DEF PushPut, TypeInv, TypeOK, Tasks, RecordPcs
  <2> QED
    BY <1>8, <2>2, <2>3 DEF PushPut
<1>9. CASE PushResolve(d)
  <2> DEFINE r == remote[id]
             t(pc, e) == [task[d] EXCEPT !.pc = pc, !.rec.env = e]
  <2>1. /\ id \in Ids /\ env \in Envelopes /\ task[d].pc \in RecordPcs
        /\ task[d].rec \in [id : Ids, env : Slots, ver : Nat, after : Afters]
    BY <1>9, <1>a, <1>b, <1>c, NilAssumption DEF PushResolve, RecordPcs, Records, NoRecord
  <2>2. r \in Slots /\ env \in Slots
    BY <2>1, DeviceTypes DEF Slots
  <2>3. CASE NextRecord(d, FALSE)
    BY <1>9, <2>1, <2>3, NextRecordType DEF PushResolve, TypeInv, TypeOK
  <2>4. ASSUME NEW pc \in {"apply", "force", "forceApply"}, NEW e \in Envelopes,
               SetTask(d, t(pc, e))
        PROVE  TypeInv'
    <3>1. [task[d].rec EXCEPT !.env = e] \in Records
      BY <2>1 DEF Records, Slots
    <3>2. t(pc, e) \in Tasks
      BY <1>a, <3>1 DEF Tasks, RecordPcs, Forcing
    <3>3. t(pc, e).rec.id = id /\ t(pc, e).rec.env = e
      BY <1>a, <2>1 DEF Tasks
    <3>4. task' \in [Devices -> Tasks] /\ RecordInHand'
      <4> HIDE DEF t
      <4> QED
        BY <2>1, <2>4, <3>2, <3>3, SetTaskType
    <3> QED
      BY <1>9, <3>4 DEF PushResolve, TypeInv, TypeOK
  <2>5. CASE r # Nil /\ SetTask(d, t("apply", r))
    BY <2>2, <2>4, <2>5, SlotShape
  <2>6. ASSUME r # Nil
        PROVE  AdvancePastRemote(env, r) \in Envelopes
    <3>1. r.v + 1 \in Nat
      BY <2>2, <2>6, SlotShape
    <3>2. AtVersion(env, r.v + 1) \in Envelopes
      BY <2>1, <2>2, <3>1, NilAssumption, SlotShape
    <3> QED
      BY <2>1, <3>2 DEF AdvancePastRemote
  <2>7. ASSUME NEW e \in Envelopes,
               SetTask(d, [task[d] EXCEPT !.rec.env = e,
                             !.pc = IF e = env THEN "force" ELSE "forceApply"])
        PROVE  TypeInv'
    <3> DEFINE pc == IF e = env THEN "force" ELSE "forceApply"
    <3>1. t(pc, e) = [task[d] EXCEPT !.rec.env = e, !.pc = pc]
      BY <1>a DEF Tasks
    <3> QED
      BY <2>4, <2>7, <3>1
  <2> QED
    BY <1>9, <2>1, <2>3, <2>5, <2>6, <2>7 DEF PushResolve, IsKind
<1>10. CASE PushForce(d)
  <2>1. id \in Ids /\ env \in Slots /\ task[d].pc \in RecordPcs
    BY <1>10, <1>b, <1>c DEF PushForce, RecordPcs, Forcing
  <2>2. remote' \in [Ids -> Slots]
    BY <1>10, <2>1 DEF PushForce, TypeInv, TypeOK
  <2>3. CASE NextRecord(d, TRUE)
    BY <1>10, <2>1, <2>2, <2>3, NextRecordType DEF PushForce, TypeInv, TypeOK
  <2>4. CASE SetTask(d, [task[d] EXCEPT !.pc = "apply"])
    <3>1. [task[d] EXCEPT !.pc = "apply"] \in Tasks
      BY <1>a DEF Tasks, RecordPcs
    <3> QED
      BY <1>10, <1>a, <1>b, <1>c, <2>2, <2>4, <3>1, SetTaskType
      DEF PushForce, TypeInv, TypeOK, Tasks, RecordPcs, Forcing
  <2> QED
    BY <1>10, <2>3, <2>4 DEF PushForce
<1>11. CASE PushFinish(d)
  <2>1. [task[d] EXCEPT !.pc = "meta"] \in Tasks
    BY <1>a DEF Tasks
  <2>2. dirty' \in [Devices -> [Ids -> Nat]]
    BY <1>11 DEF PushFinish, TypeInv, TypeOK
  <2> QED
    BY <1>11, <1>a, <2>1, <2>2, SetTaskType
    DEF PushFinish, TypeInv, TypeOK, Tasks, RecordPcs, Forcing
<1>12. CASE SaveMeta(d)
  <2>1. /\ IdleTask \in Tasks /\ IdleTask.pc \notin RecordPcs
        /\ PushTask \in Tasks /\ PushTask.pc \notin RecordPcs
    BY IdleTasksType
  <2>2. meta' \in [Devices -> [Ids -> Nat]]
    BY <1>12 DEF SaveMeta, TypeInv, TypeOK
  <2>3. task' \in [Devices -> Tasks] /\ RecordInHand'
    BY <1>12, <2>1, SetTaskType DEF SaveMeta
  <2> QED
    BY <1>12, <2>2, <2>3 DEF SaveMeta, TypeInv, TypeOK
<1> QED
  BY <1>1, <1>2, <1>3, <1>4, <1>5, <1>6, <1>7, <1>8, <1>9, <1>10, <1>11, <1>12
  DEF TaskStep

LEMMA DisturbType ==
  ASSUME TypeInv, NEW fault, Disturb(fault)
  PROVE  faults' \in 0..MaxFaults
BY BoundsAssumption DEF Disturb, TypeInv, TypeOK

LEMMA EnvironmentStepType ==
  ASSUME TypeInv, NEW d \in Devices,
         Start(d) \/ PersistMeta(d) \/ RemoteFails(d) \/ AnswerLost(d) \/ Crash(d)
  PROVE  TypeInv'
<1> USE DEF appVars, others, remoteVars, PutRemote
<1>1. CASE PushStart(d)
  <2>1. task' \in [Devices -> Tasks] /\ RecordInHand'
    BY <1>1, IdleTasksType, SetTaskType DEF PushStart
  <2> QED
    BY <1>1, <2>1 DEF PushStart, TypeInv, TypeOK
<1>2. ASSUME NEW thenPush \in BOOLEAN, PullStart(d, thenPush)
      PROVE  TypeInv'
  <2> DEFINE t == [IdleTask EXCEPT !.pc = "loop", !.phase = "pull",
                     !.thenPush = thenPush, !.snap = remote]
  <2>1. t \in Tasks /\ t.pc \notin RecordPcs
    BY IdleTasksType DEF IdleTask, Tasks, TypeInv, TypeOK, RecordPcs, Forcing
  <2>2. task' \in [Devices -> Tasks] /\ RecordInHand'
    BY <1>2, <2>1, SetTaskType DEF PullStart
  <2> QED
    BY <1>2, <2>2 DEF PullStart, TypeInv, TypeOK
<1>3. CASE PersistMeta(d)
  <2>1. meta' \in [Devices -> [Ids -> Nat]]
    BY <1>3 DEF PersistMeta, TypeInv, TypeOK
  <2> QED
    BY <1>3, <2>1 DEF PersistMeta, TypeInv, TypeOK, RecordInHand
<1>4. CASE RemoteFails(d)
  <2>1. task' \in [Devices -> Tasks] /\ RecordInHand'
    BY <1>4, NextRecordType DEF RemoteFails, RecordPcs, Forcing
  <2>2. faults' \in 0..MaxFaults
    BY <1>4, DisturbType DEF RemoteFails
  <2> QED
    BY <1>4, <2>1, <2>2 DEF RemoteFails, Disturb, TypeInv, TypeOK
<1>5. CASE AnswerLost(d)
  <2>1. task[d].rec.id \in Ids /\ task[d].rec.env \in Slots /\ task[d].pc \in RecordPcs
    BY <1>5 DEF AnswerLost, TypeInv, RecordInHand, RecordPcs, Forcing, Slots
  <2>2. task' \in [Devices -> Tasks] /\ RecordInHand'
    BY <1>5, <2>1, NextRecordType DEF AnswerLost
  <2>3. faults' \in 0..MaxFaults
    BY <1>5, DisturbType DEF AnswerLost
  <2>4. remote' \in [Ids -> Slots] /\ setBack' \subseteq Ids
    BY <1>5, <2>1 DEF AnswerLost, TypeInv, TypeOK
  <2> QED
    BY <1>5, <2>2, <2>3, <2>4 DEF AnswerLost, Disturb, TypeInv, TypeOK
<1>6. CASE Crash(d)
  <2>1. task' \in [Devices -> Tasks] /\ RecordInHand'
    BY <1>6, IdleTasksType, SetTaskType DEF Crash, SetTask
  <2>2. app' \in [Devices -> Calls]
    BY <1>6 DEF Crash, TypeInv, TypeOK, Calls
  <2>3. cached' \in [Devices -> [Ids -> Nat]]
    <3>1. [i \in Ids |-> CachedVersion(local[d][i])] \in [Ids -> Nat]
      BY DeviceTypes, CachedVersionType
    <3> QED
      BY <1>6, <3>1 DEF Crash, TypeInv, TypeOK
  <2>4. dirty' \in [Devices -> [Ids -> Nat]]
    BY <1>6 DEF Crash, TypeInv, TypeOK
  <2>5. markerIds' \in [Devices -> SUBSET Ids]
    BY <1>6 DEF Crash, TypeInv, TypeOK
  <2>6. unmarked' \subseteq Devices \X Ids
    BY <1>6 DEF Crash, TypeInv, TypeOK
  <2>7. faults' \in 0..MaxFaults
    BY <1>6, DisturbType DEF Crash
  <2> QED
    BY <1>6, <2>1, <2>2, <2>3, <2>4, <2>5, <2>6, <2>7 DEF Crash, Disturb, TypeInv, TypeOK
<1> QED
  BY <1>1, <1>2, <1>3, <1>4, <1>5, <1>6 DEF Start

LEMMA TypeStep == TypeInv /\ [Next]_vars => TypeInv'
<1> SUFFICES ASSUME TypeInv, [Next]_vars PROVE TypeInv'
  OBVIOUS
<1>1. CASE UNCHANGED vars
  BY <1>1 DEF vars, TypeInv, TypeOK, RecordInHand
<1>2. CASE Next
  BY <1>2, AppStepType, TaskStepType, EnvironmentStepType DEF Next, Step
<1> QED
  BY <1>1, <1>2

\* Every reachable state is well-typed, and a task that works on a record has
\* that record and its envelope in hand.
THEOREM TypeCorrect == Spec => []TypeOK
<1>1. TypeInv => TypeOK
  BY DEF TypeInv
<1> QED
  BY <1>1, InitType, TypeStep, PTL DEF Spec

-----------------------------------------------------------------------------
(* What one device's step leaves alone. *)

LEMMA OthersUntouched ==
  ASSUME TypeInv, NEW d \in Devices, Step(d), NEW e \in Devices, e # d
  PROVE  /\ task'[e] = task[e] /\ app'[e] = app[e]
         /\ local'[e] = local[e] /\ cached'[e] = cached[e]
         /\ markerIds'[e] = markerIds[e]
<1> USE DEF TypeInv, TypeOK, appVars, others, remoteVars, SetTask, NextRecord
<1>1. CASE AppStep(d)
  BY <1>1 DEF AppStep, PreparePut, PrepareDelete, PrepareForget, Prepare,
              CommitCall, FinishCall, TrackChange
<1>2. CASE TaskStep(d)
  <2>1. ASSUME NEW id \in Ids, PullRecord(d, id) \/ PushRecord(d, id)
        PROVE  task'[e] = task[e] /\ UNCHANGED <<app, local, cached, markerIds>>
    BY <2>1 DEF PullRecord, PushRecord
  <2>2. CASE ApplyRemote(d) \/ InvalidateCacheEntry(d)
    BY <2>2 DEF ApplyRemote, InvalidateCacheEntry
  <2>3. CASE ReassertTombstone(d) \/ PullFinish(d) \/ PushFinish(d) \/ SaveMeta(d)
    BY <2>3 DEF ReassertTombstone, PullFinish, PushFinish, SaveMeta
  <2>4. CASE PushRead(d) \/ PushPut(d) \/ PushResolve(d) \/ PushForce(d)
    BY <2>4 DEF PushRead, PushPut, PushResolve, PushForce
  <2> QED
    BY <1>2, <2>1, <2>2, <2>3, <2>4 DEF TaskStep
<1>3. CASE Start(d) \/ PersistMeta(d) \/ RemoteFails(d) \/ AnswerLost(d) \/ Crash(d)
  BY <1>3 DEF Start, PushStart, PullStart, PersistMeta, RemoteFails, AnswerLost, Crash
<1> QED
  BY <1>1, <1>2, <1>3 DEF Step

-----------------------------------------------------------------------------
(* An erased record stays erased on its device. *)

\* What a device's task may still write over the record it works on: while no
\* call of the application runs, a verdict taken on a slot stays true of it.
ErasureHeld(d) ==
  LET slot == local[d][task[d].rec.id]  env == task[d].rec.env
  IN /\ app[d].pc = "idle" \/ task[d].pc = "idle"
     /\ task[d].pc = "put" => env = slot
     /\ task[d].pc \in {"resolve"} \cup Forcing => ~IsKind(slot, "tombstone")
     /\ task[d].pc = "apply" /\ IsKind(slot, "tombstone") => IsKind(env, "tombstone")

LEMMA SetTaskGives ==
  ASSUME TypeInv, NEW d \in Devices, NEW t, SetTask(d, t)
  PROVE  task'[d] = t
BY DEF TypeInv, TypeOK, SetTask

LEMMA NextRecordGives ==
  ASSUME TypeInv, NEW d \in Devices, NEW completed, NextRecord(d, completed)
  PROVE  task'[d].pc = "loop" /\ task'[d].rec = NoRecord
<1> DEFINE t == [task[d] EXCEPT !.pc = "loop", !.rec = NoRecord,
                   !.done = IF completed THEN @ \cup {task[d].rec.id} ELSE @]
<1>1. task'[d] = t
  BY SetTaskGives DEF NextRecord
<1>2. t.pc = "loop" /\ t.rec = NoRecord
  BY DeviceTypes DEF Tasks
<1> QED
  BY <1>1, <1>2

LEMMA IdleTaskPcs ==
  /\ IdleTask.pc = "idle" /\ PushTask.pc = "loop"
  /\ \A thenPush, snap :
       [IdleTask EXCEPT !.pc = "loop", !.phase = "pull",
          !.thenPush = thenPush, !.snap = snap].pc = "loop"
BY DEF IdleTask, PushTask

LEMMA ErasureHeldStep ==
  ASSUME ~AppDuringSync, TypeInv, NEW d \in Devices, ErasureHeld(d), Step(d)
  PROVE  ErasureHeld(d)'
<1> USE DEF appVars, others, remoteVars, PutRemote
<1> DEFINE id == task[d].rec.id  env == task[d].rec.env
<1>t. task[d] \in Tasks /\ task[d].rec \in Records
  BY DeviceTypes DEF Tasks
<1>i. task[d].pc = "idle" => ErasureHeld(d)' \/ task'[d] # task[d]
  BY DEF ErasureHeld, Forcing
<1>1. CASE AppStep(d)
  <2>1. task' = task /\ task[d].pc = "idle"
    BY <1>1 DEF AppStep, PreparePut, PrepareDelete, PrepareForget, Prepare, AppMayCall,
                CommitCall, FinishCall, ErasureHeld
  <2> QED
    BY <2>1, <1>i
<1>2. ASSUME task'[d].pc \in {"idle", "loop", "meta", "refresh", "read", "assert"},
             app' = app, task[d].pc # "idle"
      PROVE  ErasureHeld(d)'
  BY <1>2 DEF ErasureHeld, Forcing
<1>3. CASE ApplyRemote(d)
  <2>1. task'[d].pc = "refresh"
    BY <1>3, <1>t, SetTaskGives DEF ApplyRemote, Tasks
  <2> QED
    BY <1>2, <1>3, <2>1 DEF ApplyRemote
<1>4. CASE InvalidateCacheEntry(d)
  <2>1. task'[d].pc \in {"assert", "loop"}
    BY <1>4, <1>t, SetTaskGives, NextRecordGives DEF InvalidateCacheEntry, Tasks
  <2> QED
    BY <1>2, <1>4, <2>1 DEF InvalidateCacheEntry
<1>5. CASE ReassertTombstone(d) \/ RemoteFails(d) \/ AnswerLost(d)
  BY <1>2, <1>5, NextRecordGives DEF ReassertTombstone, RemoteFails, AnswerLost, Forcing
<1>6. CASE PullFinish(d) \/ PushFinish(d)
  <2>1. task'[d].pc = "meta"
    BY <1>6, <1>t, SetTaskGives DEF PullFinish, PushFinish, Tasks
  <2> QED
    BY <1>2, <1>6, <2>1 DEF PullFinish, PushFinish
<1>7. CASE SaveMeta(d)
  <2>1. task'[d] \in {IdleTask, PushTask}
    BY <1>7, SetTaskGives DEF SaveMeta
  <2> QED
    BY <1>2, <1>7, <2>1, IdleTaskPcs DEF SaveMeta
<1>8. ASSUME NEW i \in Ids, PushRecord(d, i)
      PROVE  ErasureHeld(d)'
  <2>1. task'[d].pc = "read"
    BY <1>8, <1>t, SetTaskGives DEF PushRecord, Tasks
  <2> QED
    BY <1>2, <1>8, <2>1 DEF PushRecord
<1>9. ASSUME NEW i \in Ids, PullRecord(d, i)
      PROVE  ErasureHeld(d)'
  <2> DEFINE r == task[d].snap[i]  l == local[d][i]
             t(pc, e, after) == [task[d] EXCEPT !.snap[i] = Nil, !.pc = pc,
               !.rec = [id |-> i, env |-> e, ver |-> 0, after |-> after]]
  <2>1. \A pc, e, after : SetTask(d, t(pc, e, after)) =>
          task'[d].pc = pc /\ task'[d].rec.id = i /\ task'[d].rec.env = e
    <3> SUFFICES ASSUME NEW pc, NEW e, NEW after, SetTask(d, t(pc, e, after))
                 PROVE  task'[d].pc = pc /\ task'[d].rec.id = i /\ task'[d].rec.env = e
      OBVIOUS
    <3>1. task'[d] = t(pc, e, after)
      BY SetTaskGives
    <3>2. t(pc, e, after).pc = pc /\ t(pc, e, after).rec.id = i /\ t(pc, e, after).rec.env = e
      BY <1>t DEF Tasks
    <3> QED
      BY <3>1, <3>2
  <2>2. app' = app /\ local' = local /\ app[d].pc = "idle"
    BY <1>9 DEF PullRecord, ErasureHeld
  <2>3. ASSUME NEW after, SetTask(d, t("assert", l, after))
        PROVE  ErasureHeld(d)'
    <3> HIDE DEF t
    <3>1. task'[d].pc = "assert"
      BY <2>1, <2>3
    <3> QED
      BY <1>2, <1>9, <2>2, <3>1 DEF PullRecord
  <2>4. ASSUME NEW e, NEW after, SetTask(d, t("apply", e, after)),
               IsKind(l, "tombstone") => IsKind(e, "tombstone")
        PROVE  ErasureHeld(d)'
    <3> HIDE DEF t
    <3>1. task'[d].pc = "apply" /\ task'[d].rec.id = i /\ task'[d].rec.env = e
      BY <2>1, <2>4
    <3> QED
      BY <2>2, <2>4, <3>1 DEF ErasureHeld, Forcing
  <2>5. TakesRemote(strategy[d], r, l, dirty[d][i] # 0) /\ IsKind(l, "tombstone")
          => IsKind(r, "tombstone")
    BY DEF TakesRemote, IsKind
  <2>6. IsKind(l, "tombstone") => IsKind(AtVersion(l, r.v), "tombstone")
    <3>1. r \in Slots /\ r # Nil /\ l \in Slots
      BY <1>9, <1>t, DeviceTypes DEF PullRecord, Tasks
    <3> QED
      BY <3>1, SlotShape, NilAssumption DEF IsKind, AtVersion, Envelopes
  <2>7. CASE SetTask(d, [task[d] EXCEPT !.snap[i] = Nil])
    <3>1. task'[d].pc = "loop"
      BY <1>9, <1>t, <2>7, SetTaskGives DEF PullRecord, Tasks
    <3> QED
      BY <1>2, <1>9, <2>2, <3>1 DEF PullRecord
  <2> QED
    BY <1>9, <2>3, <2>4, <2>5, <2>6, <2>7 DEF PullRecord
<1>10. CASE PushRead(d)
  <2>1. CASE NextRecord(d, TRUE)
    BY <1>2, <1>10, <2>1, NextRecordGives DEF PushRead
  <2>2. CASE SetTask(d, [task[d] EXCEPT !.pc = "put", !.rec.env = local[d][id]])
    <3> DEFINE t == [task[d] EXCEPT !.pc = "put", !.rec.env = local[d][id]]
    <3>1. task'[d] = t
      BY <2>2, SetTaskGives
    <3>2. t.pc = "put" /\ t.rec.env = local[d][t.rec.id]
      BY <1>t DEF Tasks, Records, NoRecord
    <3> QED
      BY <1>10, <3>1, <3>2 DEF PushRead, ErasureHeld, Forcing
  <2> QED
    BY <1>10, <2>1, <2>2 DEF PushRead
<1>11. CASE PushPut(d)
  <2>1. CASE NextRecord(d, TRUE)
    BY <1>2, <1>11, <2>1, NextRecordGives DEF PushPut
  <2>2. CASE ~IsKind(env, "tombstone") /\ SetTask(d, [task[d] EXCEPT !.pc = "resolve"])
    <3>1. task'[d].pc = "resolve" /\ task'[d].rec = task[d].rec
      BY <1>t, <2>2, SetTaskGives DEF Tasks
    <3> QED
      BY <1>11, <2>2, <3>1 DEF PushPut, ErasureHeld, Forcing
  <2> QED
    BY <1>11, <2>1, <2>2 DEF PushPut
<1>12. CASE PushResolve(d)
  <2>1. CASE NextRecord(d, FALSE)
    BY <1>2, <1>12, <2>1, NextRecordGives DEF PushResolve
  <2>2. ASSUME NEW pc \in {"apply"} \cup Forcing, NEW e,
               task'[d] = [task[d] EXCEPT !.pc = pc, !.rec.env = e]
        PROVE  ErasureHeld(d)'
    <3>1. task'[d].pc = pc /\ task'[d].rec.id = id
      BY <1>t, <2>2 DEF Tasks, Records, NoRecord
    <3> QED
      BY <1>12, <3>1 DEF PushResolve, ErasureHeld, Forcing
  <2>3. CASE SetTask(d, [task[d] EXCEPT !.pc = "apply", !.rec.env = remote[id]])
    BY <2>2, <2>3, SetTaskGives
  <2>4. ASSUME NEW e, SetTask(d, [task[d] EXCEPT !.rec.env = e,
                                    !.pc = IF e = env THEN "force" ELSE "forceApply"])
        PROVE  ErasureHeld(d)'
    <3> DEFINE pc == IF e = env THEN "force" ELSE "forceApply"
    <3>1. [task[d] EXCEPT !.rec.env = e, !.pc = pc] = [task[d] EXCEPT !.pc = pc, !.rec.env = e]
      BY <1>t DEF Tasks
    <3>2. pc \in Forcing
      BY DEF Forcing
    <3> QED
      BY <2>2, <2>4, <3>1, <3>2, SetTaskGives
  <2> QED
    BY <1>12, <2>1, <2>3, <2>4 DEF PushResolve
<1>13. CASE PushForce(d)
  <2>1. CASE NextRecord(d, TRUE)
    BY <1>2, <1>13, <2>1, NextRecordGives DEF PushForce, Forcing
  <2>2. CASE SetTask(d, [task[d] EXCEPT !.pc = "apply"])
    <3>1. task'[d].pc = "apply" /\ task'[d].rec = task[d].rec
      BY <1>t, <2>2, SetTaskGives DEF Tasks
    <3> QED
      BY <1>13, <3>1 DEF PushForce, ErasureHeld, Forcing
  <2> QED
    BY <1>13, <2>1, <2>2 DEF PushForce
<1>14. CASE Start(d)
  <2>1. app' = app /\ app[d].pc = "idle"
    BY <1>14 DEF Start, PushStart, PullStart, TaskMayStart
  <2>2. CASE PushStart(d)
    <3>1. task'[d].pc = "loop"
      BY <2>2, SetTaskGives, IdleTaskPcs DEF PushStart
    <3> QED
      BY <2>1, <3>1 DEF ErasureHeld, Forcing
  <2>3. ASSUME NEW thenPush \in BOOLEAN, PullStart(d, thenPush)
        PROVE  ErasureHeld(d)'
    <3> DEFINE t == [IdleTask EXCEPT !.pc = "loop", !.phase = "pull",
                       !.thenPush = thenPush, !.snap = remote]
    <3>1. task'[d] = t /\ t.pc = "loop"
      BY <2>3, SetTaskGives, IdleTaskPcs DEF PullStart
    <3> QED
      BY <2>1, <3>1 DEF ErasureHeld, Forcing
  <2> QED
    BY <1>14, <2>2, <2>3 DEF Start
<1>15. CASE PersistMeta(d)
  BY <1>15 DEF PersistMeta, ErasureHeld
<1>16. CASE Crash(d)
  <2>1. task'[d].pc = "idle"
    BY <1>16 DEF Crash, IdleTask, TypeInv, TypeOK
  <2> QED
    BY <2>1 DEF ErasureHeld, Forcing
<1> QED
  BY <1>1, <1>3, <1>4, <1>5, <1>6, <1>7, <1>8, <1>9, <1>10, <1>11, <1>12, <1>13,
     <1>14, <1>15, <1>16 DEF Step, TaskStep

ErasureInv == TypeInv /\ \A d \in Devices : ErasureHeld(d)

LEMMA ErasureInvInit == Init => ErasureInv
BY InitType DEF Init, ErasureInv, ErasureHeld, IdleTask, NoCall, Forcing

LEMMA ErasureInvStep == ~AppDuringSync /\ ErasureInv /\ [Next]_vars => ErasureInv'
<1> SUFFICES ASSUME ~AppDuringSync, ErasureInv, [Next]_vars PROVE ErasureInv'
  OBVIOUS
<1>1. TypeInv'
  BY TypeStep DEF ErasureInv
<1>2. CASE UNCHANGED vars
  BY <1>1, <1>2 DEF vars, ErasureInv, ErasureHeld
<1>3. ASSUME NEW d \in Devices, Step(d), NEW e \in Devices
      PROVE  ErasureHeld(e)'
  <2>1. CASE e = d
    BY <1>3, <2>1, ErasureHeldStep DEF ErasureInv
  <2>2. CASE e # d
    BY <1>3, <2>2, OthersUntouched DEF ErasureInv, ErasureHeld
  <2> QED
    BY <2>1, <2>2
<1> QED
  BY <1>1, <1>2, <1>3 DEF Next, ErasureInv

\* While a device's application does not write during its own sync, a tombstone
\* in its store gives way to nothing but the device's own put: neither a pull,
\* nor a resolved push, nor a crash brings the erased body back.
THEOREM ErasureIsTerminal == ~AppDuringSync => (Spec => ErasureTerminal)
<1> SUFFICES ASSUME ~AppDuringSync PROVE Spec => ErasureTerminal
  OBVIOUS
<1> DEFINE A == \A d \in Devices, id \in Ids :
             IsKind(local[d][id], "tombstone") =>
               IsKind(local'[d][id], "tombstone") \/ OwnPut(d, id)
<1>1. ErasureInv /\ [Next]_vars => [A]_vars
  <2> SUFFICES ASSUME ErasureInv, NEW d \in Devices, Step(d),
                      NEW e \in Devices, NEW id \in Ids,
                      IsKind(local[e][id], "tombstone")
               PROVE  IsKind(local'[e][id], "tombstone") \/ OwnPut(e, id)
    BY DEF Next
  <2>1. CASE e # d
    BY <2>1, OthersUntouched DEF ErasureInv
  <2>2. CASE local' = local
    BY <2>2
  <2>3. CASE CommitCall(d)
    BY <2>1, <2>3 DEF CommitCall, OwnPut, ErasureInv, TypeInv, TypeOK
  <2>4. CASE ApplyRemote(d)
    BY <2>1, <2>4 DEF ApplyRemote, ErasureInv, ErasureHeld, TypeInv, TypeOK
  <2> QED
    BY <2>1, <2>2, <2>3, <2>4 DEF Step, AppStep, PreparePut, PrepareDelete, PrepareForget,
       Prepare, FinishCall, TaskStep, InvalidateCacheEntry, PullRecord, PushRecord,
       ReassertTombstone, PullFinish, PushRead, PushPut, PushResolve, PushForce, PushFinish,
       SaveMeta, Start, PushStart, PullStart, PersistMeta, RemoteFails, AnswerLost, Crash
<1>2. ErasureInv /\ [Next]_vars => ErasureInv'
  BY ErasureInvStep
<1> QED
  BY <1>1, <1>2, ErasureInvInit, PTL DEF Spec, ErasureTerminal
=============================================================================
