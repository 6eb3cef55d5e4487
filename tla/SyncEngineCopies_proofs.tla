----------------------- MODULE SyncEngineCopies_proofs -----------------------
(***************************************************************************)
(* Theorems about the copies of a record that a device keeps (its store,   *)
(* the cache, the dirty log) and about the remote's, for any number of     *)
(* devices, records, calls and disturbances.                               *)
(***************************************************************************)
EXTENDS SyncEngine_proofs

-----------------------------------------------------------------------------
(* What a step does to the task of its device, field by field. *)

Moves(d, pc) ==
  /\ task'[d].pc = pc /\ task'[d].phase = task[d].phase
  /\ task'[d].snap = task[d].snap /\ task'[d].todo = task[d].todo
  /\ task'[d].done = task[d].done /\ task'[d].rec = task[d].rec

Finishes(d, completed) ==
  /\ task'[d].pc = "loop" /\ task'[d].phase = task[d].phase
  /\ task'[d].snap = task[d].snap /\ task'[d].todo = task[d].todo
  /\ task'[d].rec = NoRecord
  /\ task'[d].done = IF completed THEN task[d].done \cup {task[d].rec.id} ELSE task[d].done

\* The record stays in hand, with another envelope.
Reseals(d, pc, env) ==
  /\ task'[d].pc = pc /\ task'[d].phase = task[d].phase
  /\ task'[d].snap = task[d].snap /\ task'[d].todo = task[d].todo
  /\ task'[d].done = task[d].done
  /\ task'[d].rec.id = task[d].rec.id /\ task'[d].rec.env = env
  /\ task'[d].rec.ver = task[d].rec.ver /\ task'[d].rec.after = task[d].rec.after

\* Pull takes a record of its snapshot in hand, or passes it over.
Hands(d, i, pc, env, after) ==
  /\ task'[d].pc = pc /\ task'[d].phase = task[d].phase
  /\ task'[d].snap = [task[d].snap EXCEPT ![i] = Nil] /\ task'[d].todo = task[d].todo
  /\ task'[d].done = task[d].done
  /\ task'[d].rec = [id |-> i, env |-> env, ver |-> 0, after |-> after]

Passes(d, i) ==
  /\ task'[d].pc = task[d].pc /\ task'[d].phase = task[d].phase
  /\ task'[d].snap = [task[d].snap EXCEPT ![i] = Nil] /\ task'[d].todo = task[d].todo
  /\ task'[d].done = task[d].done /\ task'[d].rec = task[d].rec

Visits(d, i) ==
  /\ task'[d].pc = "read" /\ task'[d].phase = task[d].phase
  /\ task'[d].snap = task[d].snap /\ task'[d].todo = task[d].todo \ {i}
  /\ task'[d].done = task[d].done
  /\ task'[d].rec = [id |-> i, env |-> Nil, ver |-> dirty[d][i], after |-> "done"]

\* A task begins, or ends.
Enters(d, pc, phase, snap, todo) ==
  /\ task'[d].pc = pc /\ task'[d].phase = phase /\ task'[d].snap = snap
  /\ task'[d].todo = todo /\ task'[d].done = {} /\ task'[d].rec = NoRecord

NoSnap == [i \in Ids |-> Nil]

LEMMA TaskRecord ==
  ASSUME TypeInv, NEW d \in Devices
  PROVE  /\ task[d] \in Tasks /\ task[d].rec \in Records
         /\ task[d].rec.ver \in Nat /\ task[d].rec.after \in Afters
         /\ task[d].snap \in [Ids -> Slots] /\ task[d].todo \subseteq Ids
         /\ task[d].done \subseteq Ids /\ task[d].phase \in {"pull", "push"}
         /\ task[d].pc \in {"idle", "loop", "meta"} \cup RecordPcs
<1>1. task[d] \in Tasks
  BY DeviceTypes
<1>2. \A t \in Tasks :
        /\ t.rec \in Records /\ t.snap \in [Ids -> Slots] /\ t.todo \subseteq Ids
        /\ t.done \subseteq Ids /\ t.phase \in {"pull", "push"}
        /\ t.pc \in {"idle", "loop", "meta"} \cup RecordPcs
  BY DEF Tasks
<1>3. \A r \in Records : r.ver \in Nat /\ r.after \in Afters
  BY DEF Records, NoRecord, Afters
<1> QED
  BY <1>1, <1>2, <1>3

LEMMA MovesTask ==
  ASSUME TypeInv, NEW d \in Devices, NEW pc, SetTask(d, [task[d] EXCEPT !.pc = pc])
  PROVE  Moves(d, pc)
BY SetTaskGives, DeviceTypes DEF Moves, Tasks

LEMMA FinishesTask ==
  ASSUME TypeInv, NEW d \in Devices, NEW completed \in BOOLEAN, NextRecord(d, completed)
  PROVE  Finishes(d, completed)
<1> DEFINE done == IF completed THEN task[d].done \cup {task[d].rec.id} ELSE task[d].done
           t == [task[d] EXCEPT !.pc = "loop", !.rec = NoRecord, !.done = done]
<1>1. task'[d] = [task[d] EXCEPT !.pc = "loop", !.rec = NoRecord,
                    !.done = IF completed THEN @ \cup {task[d].rec.id} ELSE @]
  BY SetTaskGives DEF NextRecord
<1>2. task'[d] = t
  BY <1>1
<1>3. /\ t.pc = "loop" /\ t.rec = NoRecord /\ t.done = done /\ t.phase = task[d].phase
      /\ t.snap = task[d].snap /\ t.todo = task[d].todo
  BY DeviceTypes DEF Tasks
<1> HIDE DEF t
<1> QED
  BY <1>2, <1>3 DEF Finishes

LEMMA ResealsTask ==
  ASSUME TypeInv, NEW d \in Devices, NEW pc, NEW env,
         \/ SetTask(d, [task[d] EXCEPT !.pc = pc, !.rec.env = env])
         \/ SetTask(d, [task[d] EXCEPT !.rec.env = env, !.pc = pc])
  PROVE  Reseals(d, pc, env)
<1> DEFINE rec == [task[d].rec EXCEPT !.env = env]
           t == [task[d] EXCEPT !.pc = pc, !.rec = rec]
<1>1. task[d] \in Tasks /\ task[d].rec \in Records
  BY TaskRecord
<1>2. [task[d] EXCEPT !.pc = pc, !.rec.env = env] = t
  BY <1>1 DEF Tasks
<1>3. [task[d] EXCEPT !.rec.env = env, !.pc = pc] = t
  BY <1>1 DEF Tasks
<1>4. task'[d] = t
  BY <1>2, <1>3, SetTaskGives
<1>5. /\ rec.id = task[d].rec.id /\ rec.env = env /\ rec.ver = task[d].rec.ver
      /\ rec.after = task[d].rec.after
  BY <1>1 DEF Records, NoRecord
<1> HIDE DEF rec
<1>6. /\ t.pc = pc /\ t.rec = rec /\ t.phase = task[d].phase /\ t.snap = task[d].snap
      /\ t.todo = task[d].todo /\ t.done = task[d].done
  BY <1>1 DEF Tasks
<1> HIDE DEF t
<1> QED
  BY <1>4, <1>5, <1>6 DEF Reseals

LEMMA HandsTask ==
  ASSUME TypeInv, NEW d \in Devices, NEW i \in Ids, NEW pc, NEW env, NEW after,
         SetTask(d, [task[d] EXCEPT !.snap[i] = Nil, !.pc = pc,
           !.rec = [id |-> i, env |-> env, ver |-> 0, after |-> after]])
  PROVE  Hands(d, i, pc, env, after)
<1> DEFINE rec == [id |-> i, env |-> env, ver |-> 0, after |-> after]
           t == [task[d] EXCEPT !.snap[i] = Nil, !.pc = pc, !.rec = rec]
<1>1. task'[d] = t
  BY SetTaskGives
<1> HIDE DEF rec
<1>2. /\ t.pc = pc /\ t.rec = rec /\ t.phase = task[d].phase
      /\ t.snap = [task[d].snap EXCEPT ![i] = Nil]
      /\ t.todo = task[d].todo /\ t.done = task[d].done
  BY DeviceTypes DEF Tasks
<1> HIDE DEF t
<1> QED
  BY <1>1, <1>2 DEF Hands, rec

LEMMA PassesTask ==
  ASSUME TypeInv, NEW d \in Devices, NEW i \in Ids,
         SetTask(d, [task[d] EXCEPT !.snap[i] = Nil])
  PROVE  Passes(d, i)
BY SetTaskGives, DeviceTypes DEF Passes, Tasks

LEMMA VisitsTask ==
  ASSUME TypeInv, NEW d \in Devices, NEW i \in Ids, PushRecord(d, i)
  PROVE  Visits(d, i)
<1> DEFINE rec == [id |-> i, env |-> Nil, ver |-> dirty[d][i], after |-> "done"]
           t == [task[d] EXCEPT !.todo = @ \ {i}, !.pc = "read", !.rec = rec]
<1>1. task'[d] = t
  BY SetTaskGives DEF PushRecord
<1> HIDE DEF rec
<1>2. /\ t.pc = "read" /\ t.rec = rec /\ t.phase = task[d].phase
      /\ t.snap = task[d].snap
      /\ t.todo = task[d].todo \ {i} /\ t.done = task[d].done
  BY DeviceTypes DEF Tasks
<1> HIDE DEF t
<1> QED
  BY <1>1, <1>2 DEF Visits, rec

LEMMA EntersTask ==
  ASSUME TypeInv, NEW d \in Devices
  PROVE  /\ PushStart(d) => Enters(d, "loop", "push", NoSnap, Ids)
         /\ \A p \in BOOLEAN : PullStart(d, p) => Enters(d, "loop", "pull", remote, {})
         /\ SaveMeta(d) => \/ Enters(d, "loop", "push", NoSnap, Ids)
                           \/ Enters(d, "idle", "pull", NoSnap, {})
         /\ Crash(d) => Enters(d, "idle", "pull", NoSnap, {})
<1>1. SetTask(d, PushTask) => Enters(d, "loop", "push", NoSnap, Ids)
  BY SetTaskGives DEF Enters, PushTask, IdleTask, NoSnap
<1>2. SetTask(d, IdleTask) => Enters(d, "idle", "pull", NoSnap, {})
  BY SetTaskGives DEF Enters, IdleTask, NoSnap
<1>3. ASSUME NEW p \in BOOLEAN, PullStart(d, p)
      PROVE  Enters(d, "loop", "pull", remote, {})
  <2>1. task'[d] = [IdleTask EXCEPT !.pc = "loop", !.phase = "pull",
                      !.thenPush = p, !.snap = remote]
    BY <1>3, SetTaskGives DEF PullStart
  <2> QED
    BY <2>1 DEF Enters, IdleTask
<1> QED
  BY <1>1, <1>2, <1>3 DEF PushStart, SaveMeta, Crash, SetTask

\* A pull's verdict on a record of its snapshot.
PullVerdict(d, i) ==
  LET r == task[d].snap[i]  l == local[d][i]  isDirty == dirty[d][i] # 0
  IN \/ /\ TakesRemote(strategy[d], r, l, isDirty)
        /\ Hands(d, i, "apply", r, IF DropsDirty(r, l, isDirty) THEN "drop" ELSE "keep")
     \/ Reasserts(r, l) /\ Hands(d, i, "apply", AtVersion(l, r.v), "assert")
     \/ Reasserts(r, l) /\ Hands(d, i, "assert", l, "assert")
     \/ Passes(d, i)

LEMMA PullRecordGives ==
  ASSUME TypeInv, NEW d \in Devices, NEW i \in Ids, PullRecord(d, i)
  PROVE  /\ PullVerdict(d, i) /\ task[d].pc = "loop" /\ task[d].phase = "pull"
         /\ task[d].snap[i] # Nil
         /\ UNCHANGED <<remoteVars, local, appVars, others>>
<1> DEFINE r == task[d].snap[i]  l == local[d][i]
<1>1. \A pc, env, after :
        SetTask(d, [task[d] EXCEPT !.snap[i] = Nil, !.pc = pc,
           !.rec = [id |-> i, env |-> env, ver |-> 0, after |-> after]])
        => Hands(d, i, pc, env, after)
  BY HandsTask
<1>2. SetTask(d, [task[d] EXCEPT !.snap[i] = Nil]) => Passes(d, i)
  BY PassesTask
<1> QED
  BY <1>1, <1>2 DEF PullRecord, PullVerdict

\* A put of the remote is refused or accepted; a refused one is resolved.
LEMMA PushPutGives ==
  ASSUME TypeInv, NEW d \in Devices, PushPut(d)
  PROVE  \/ PutRemote(task[d].rec.id, task[d].rec.env) /\ Finishes(d, TRUE)
            /\ (\/ IsKind(task[d].rec.env, "tombstone")
                \/ CasAccepts(remote[task[d].rec.id], task[d].rec.ver - 1))
         \/ ~IsKind(task[d].rec.env, "tombstone") /\ UNCHANGED remoteVars
            /\ Moves(d, "resolve")
BY FinishesTask, MovesTask DEF PushPut

LEMMA PushResolveGives ==
  ASSUME TypeInv, NEW d \in Devices, PushResolve(d)
  PROVE  LET env == task[d].rec.env  r == remote[task[d].rec.id]
         IN \/ Finishes(d, FALSE)
            \/ r # Nil /\ Reseals(d, "apply", r)
            \/ /\ r # Nil /\ DeleteTie(r, env) /\ ~IsKind(r, "marker")
               /\ Reseals(d, "force", env)
            \/ /\ r # Nil
               /\ AdvancePastRemote(env, r) = env /\ Reseals(d, "force", env)
            \/ /\ r # Nil
               /\ Reseals(d, "forceApply", AdvancePastRemote(env, r))
               /\ AdvancePastRemote(env, r) # env
<1> DEFINE env == task[d].rec.env  r == remote[task[d].rec.id]
<1>1. \A w : SetTask(d, [task[d] EXCEPT !.rec.env = w,
                           !.pc = IF w = env THEN "force" ELSE "forceApply"])
             => Reseals(d, IF w = env THEN "force" ELSE "forceApply", w)
  <2> SUFFICES ASSUME NEW w,
                      SetTask(d, [task[d] EXCEPT !.rec.env = w,
                                    !.pc = IF w = env THEN "force" ELSE "forceApply"])
               PROVE  Reseals(d, IF w = env THEN "force" ELSE "forceApply", w)
    OBVIOUS
  <2> DEFINE pc == IF w = env THEN "force" ELSE "forceApply"
  <2>1. SetTask(d, [task[d] EXCEPT !.rec.env = w, !.pc = pc])
    OBVIOUS
  <2> HIDE DEF pc
  <2>2. Reseals(d, pc, w)
    BY <2>1, ResealsTask
  <2> QED
    BY <2>2 DEF pc
<1>2. SetTask(d, [task[d] EXCEPT !.pc = "apply", !.rec.env = r]) => Reseals(d, "apply", r)
  BY ResealsTask
<1>3. NextRecord(d, FALSE) => Finishes(d, FALSE)
  BY FinishesTask
<1>4. CASE NextRecord(d, FALSE)
  BY <1>3, <1>4
<1>5. CASE r # Nil /\ SetTask(d, [task[d] EXCEPT !.pc = "apply", !.rec.env = r])
  BY <1>2, <1>5
<1>6. CASE /\ r # Nil /\ DeleteTie(r, env) /\ ~IsKind(r, "marker")
           /\ SetTask(d, [task[d] EXCEPT !.rec.env = env,
                            !.pc = IF env = env THEN "force" ELSE "forceApply"])
  <2>1. Reseals(d, IF env = env THEN "force" ELSE "forceApply", env)
    BY <1>1, <1>6
  <2> QED
    BY <1>6, <2>1
<1>7. CASE /\ r # Nil
           /\ SetTask(d, [task[d] EXCEPT !.rec.env = AdvancePastRemote(env, r),
                !.pc = IF AdvancePastRemote(env, r) = env THEN "force" ELSE "forceApply"])
  <2> DEFINE w == AdvancePastRemote(env, r)
  <2>1. Reseals(d, IF w = env THEN "force" ELSE "forceApply", w)
    BY <1>1, <1>7
  <2>2. CASE w = env
    BY <1>7, <2>1, <2>2
  <2>3. CASE w # env
    BY <1>7, <2>1, <2>3
  <2> QED
    BY <2>2, <2>3
<1> QED
  BY <1>4, <1>5, <1>6, <1>7 DEF PushResolve, IsKind

LEMMA PushForceGives ==
  ASSUME TypeInv, NEW d \in Devices, PushForce(d)
  PROVE  /\ task[d].pc \in Forcing /\ PutRemote(task[d].rec.id, task[d].rec.env)
         /\ \/ task[d].pc = "force" /\ Finishes(d, TRUE)
            \/ task[d].pc = "forceApply" /\ Moves(d, "apply")
BY FinishesTask, MovesTask DEF PushForce, Forcing

LEMMA PushReadGives ==
  ASSUME TypeInv, NEW d \in Devices, PushRead(d)
  PROVE  LET env == local[d][task[d].rec.id]
         IN \/ env = Nil /\ Finishes(d, TRUE)
            \/ env # Nil /\ Reseals(d, "put", env)
BY FinishesTask, ResealsTask DEF PushRead

LEMMA InvalidateGives ==
  ASSUME TypeInv, NEW d \in Devices, InvalidateCacheEntry(d)
  PROVE  \/ task[d].rec.after = "assert" /\ Moves(d, "assert")
         \/ task[d].rec.after # "assert" /\ Finishes(d, task[d].rec.after = "done")
BY FinishesTask, MovesTask DEF InvalidateCacheEntry

-----------------------------------------------------------------------------
(* The shape of a task, and versions. *)

PushPcs == {"read", "put", "resolve"} \cup Forcing

\* Which phase a task is in at each of its places, and that it works on a record once.
TaskShape(d) ==
  LET t == task[d]
  IN /\ t.pc \in {"idle", "loop", "meta"} => t.rec = NoRecord
     /\ t.pc \in PushPcs => t.phase = "push" /\ t.rec.after = "done"
     /\ t.pc = "assert" => t.phase = "pull"
     /\ t.pc \in {"apply", "refresh"} => (t.phase = "push" <=> t.rec.after = "done")
     /\ t.pc \in {"apply", "refresh", "assert"} /\ t.rec.after = "assert" =>
          IsKind(t.rec.env, "tombstone")
     /\ t.pc = "assert" => t.rec.after = "assert"
     /\ t.phase = "pull" => t.done = {} /\ t.todo = {}
     /\ t.rec.id \notin t.todo \cup t.done /\ t.todo \cap t.done = {}

\* No envelope has version 0, which the cache and the log use for "none".
Versioned(slot) == slot # Nil => slot.v # 0

VersionsHeld(d) ==
  /\ \A i \in Ids : Versioned(local[d][i]) /\ Versioned(task[d].snap[i])
  /\ Versioned(task[d].rec.env) /\ Versioned(app[d].env)

ShapeInv ==
  /\ TypeInv
  /\ \A i \in Ids : Versioned(remote[i])
  /\ \A d \in Devices : TaskShape(d) /\ VersionsHeld(d)


LEMMA ShapeInit == Init => ShapeInv
<1> SUFFICES ASSUME Init PROVE ShapeInv
  OBVIOUS
<1>1. TypeInv
  BY InitType
<1>2. ASSUME NEW d \in Devices PROVE TaskShape(d) /\ VersionsHeld(d)
  <2>1. task[d] = IdleTask /\ app[d] = NoCall /\ \A i \in Ids : local[d][i] = Nil
    BY DEF Init
  <2>2. /\ IdleTask.pc = "idle" /\ IdleTask.phase = "pull" /\ IdleTask.done = {}
        /\ IdleTask.todo = {} /\ IdleTask.rec = NoRecord /\ \A i \in Ids : IdleTask.snap[i] = Nil
    BY DEF IdleTask
  <2> QED
    BY <2>1, <2>2 DEF TaskShape, VersionsHeld, Versioned, NoRecord, NoCall, PushPcs, Forcing
<1> QED
  BY <1>1, <1>2 DEF ShapeInv, Init, Versioned

LEMMA ShapeGives ==
  ASSUME ShapeInv, NEW d \in Devices
  PROVE  /\ TypeInv /\ TaskShape(d) /\ VersionsHeld(d)
         /\ \A i \in Ids : Versioned(remote[i])
BY DEF ShapeInv

\* A task that goes on with the record it has in hand.
LEMMA NilIsNoId == NoRecord.id \notin Ids /\ NoRecord.env = Nil /\ Nil \notin Ids
BY NilAssumption DEF NoRecord

LEMMA ShapeOfTask ==
  ASSUME ShapeInv, NEW d \in Devices, Step(d)
  PROVE  TaskShape(d)'
<1> USE DEF PushPcs, Forcing
<1>t. /\ TypeInv /\ TaskShape(d)
      /\ task[d].todo \subseteq Ids /\ task[d].done \subseteq Ids
      /\ task[d].phase \in {"pull", "push"}
      /\ task[d].pc \in RecordPcs => task[d].rec.id \in Ids
  BY ShapeGives, TaskRecord DEF TypeInv, RecordInHand
<1>0. CASE task' = task
  BY <1>0, <1>t DEF TaskShape
<1>m. ASSUME NEW pc, Moves(d, pc), pc # "idle", pc # "loop", pc # "meta", pc \notin PushPcs,
             pc = "assert" => task[d].rec.after = "assert",
             task[d].pc \in {"apply", "refresh"}
      PROVE  TaskShape(d)'
  <2>1. task[d].rec.after = "assert" => task[d].phase # "push"
    BY <1>t, <1>m DEF TaskShape
  <2> QED
    BY <1>t, <1>m, <2>1 DEF TaskShape, Moves
<1>f. ASSUME NEW completed \in BOOLEAN, Finishes(d, completed), task[d].pc \in RecordPcs,
             completed => task[d].phase = "push"
      PROVE  TaskShape(d)'
  <2>1. task'[d].rec.id \notin Ids
    BY <1>f, NilIsNoId DEF Finishes
  <2> QED
    BY <1>f, <1>t, <2>1 DEF TaskShape, Finishes
<1>e. ASSUME NEW pc, NEW phase, NEW snap, NEW todo, Enters(d, pc, phase, snap, todo),
             pc \in {"idle", "loop"}, todo \subseteq Ids, phase = "pull" => todo = {}
      PROVE  TaskShape(d)'
  BY <1>e, NilIsNoId DEF TaskShape, Enters
<1>1. CASE ApplyRemote(d)
  BY <1>1, <1>m, <1>t, MovesTask DEF ApplyRemote
<1>2. CASE InvalidateCacheEntry(d)
  <2>1. task[d].pc = "refresh" /\ (task[d].rec.after = "done" => task[d].phase = "push")
    BY <1>2, <1>t DEF InvalidateCacheEntry, TaskShape
  <2> QED
    BY <1>2, <2>1, <1>m, <1>f, <1>t, InvalidateGives DEF RecordPcs
<1>3. ASSUME NEW i \in Ids, PullRecord(d, i)
      PROVE  TaskShape(d)'
  <2> DEFINE r == task[d].snap[i]  l == local[d][i]
  <2>1. /\ PullVerdict(d, i) /\ task[d].pc = "loop" /\ task[d].phase = "pull" /\ r # Nil
    BY <1>3, <1>t, PullRecordGives
  <2>2. task[d].done = {} /\ task[d].todo = {} /\ task[d].rec = NoRecord
    BY <1>t, <2>1 DEF TaskShape
  <2>3. ASSUME NEW pc \in {"apply", "assert"}, NEW env, NEW after, Hands(d, i, pc, env, after),
               after # "done", pc = "assert" => after = "assert",
               after = "assert" => IsKind(env, "tombstone")
        PROVE  TaskShape(d)'
    BY <2>1, <2>2, <2>3 DEF TaskShape, Hands
  <2>4. CASE Passes(d, i)
    BY <1>t, <2>1, <2>4 DEF TaskShape, Passes
  <2>5. ASSUME Reasserts(r, l)
        PROVE  IsKind(l, "tombstone") /\ IsKind(AtVersion(l, r.v), "tombstone")
    <3>1. r \in Slots /\ l \in Slots /\ r.v \in Nat
      BY <2>1, <1>t, TaskRecord, DeviceTypes, SlotShape
    <3> QED
      BY <2>5, <3>1, SlotShape, NilAssumption DEF Reasserts, IsKind, AtVersion, Envelopes
  <2> QED
    BY <2>1, <2>3, <2>4, <2>5 DEF PullVerdict
<1>4. ASSUME NEW i \in Ids, PushRecord(d, i)
      PROVE  TaskShape(d)'
  <2>1. Visits(d, i) /\ task[d].phase = "push" /\ i \in task[d].todo
    BY <1>4, <1>t, VisitsTask DEF PushRecord
  <2> QED
    BY <1>t, <2>1 DEF TaskShape, Visits
<1>5. CASE ReassertTombstone(d) \/ RemoteFails(d) \/ AnswerLost(d)
  <2>1. Finishes(d, FALSE) /\ task[d].pc \in RecordPcs
    BY <1>5, <1>t, FinishesTask DEF ReassertTombstone, RemoteFails, AnswerLost, RecordPcs
  <2> QED
    BY <2>1, <1>f
<1>6. CASE PullFinish(d) \/ PushFinish(d)
  <2>1. Moves(d, "meta") /\ task[d].pc = "loop"
    BY <1>6, <1>t, MovesTask DEF PullFinish, PushFinish
  <2> QED
    BY <1>t, <2>1 DEF TaskShape, Moves
<1>7. CASE PushRead(d)
  <2>1. task[d].pc = "read" /\ task[d].phase = "push" /\ task[d].rec.after = "done"
    BY <1>7, <1>t DEF PushRead, TaskShape
  <2>2. CASE Finishes(d, TRUE)
    BY <2>1, <2>2, <1>f DEF RecordPcs
  <2>3. ASSUME NEW env, Reseals(d, "put", env)
        PROVE  TaskShape(d)'
    BY <1>t, <2>1, <2>3 DEF TaskShape, Reseals
  <2> QED
    BY <1>7, <1>t, <2>2, <2>3, PushReadGives
<1>8. CASE PushPut(d)
  <2>1. task[d].pc = "put" /\ task[d].phase = "push" /\ task[d].rec.after = "done"
    BY <1>8, <1>t DEF PushPut, TaskShape
  <2>2. CASE Finishes(d, TRUE)
    BY <2>1, <2>2, <1>f DEF RecordPcs
  <2>3. CASE Moves(d, "resolve")
    BY <1>t, <2>1, <2>3 DEF TaskShape, Moves
  <2> QED
    BY <1>8, <1>t, <2>2, <2>3, PushPutGives
<1>9. CASE PushResolve(d)
  <2>1. task[d].pc = "resolve" /\ task[d].phase = "push" /\ task[d].rec.after = "done"
    BY <1>9, <1>t DEF PushResolve, TaskShape
  <2>2. CASE Finishes(d, FALSE)
    BY <2>1, <2>2, <1>f DEF RecordPcs
  <2>3. ASSUME NEW pc \in {"apply", "force", "forceApply"}, NEW env, Reseals(d, pc, env)
        PROVE  TaskShape(d)'
    BY <1>t, <2>1, <2>3 DEF TaskShape, Reseals
  <2> QED
    BY <1>9, <1>t, <2>2, <2>3, PushResolveGives
<1>10. CASE PushForce(d)
  <2>1. task[d].pc \in Forcing /\ task[d].phase = "push" /\ task[d].rec.after = "done"
    BY <1>10, <1>t DEF PushForce, TaskShape
  <2>2. CASE Finishes(d, TRUE)
    BY <2>1, <2>2, <1>f DEF RecordPcs
  <2>3. CASE Moves(d, "apply")
    BY <1>t, <2>1, <2>3 DEF TaskShape, Moves
  <2> QED
    BY <1>10, <1>t, <2>2, <2>3, PushForceGives
<1>11. CASE SaveMeta(d) \/ Start(d) \/ Crash(d)
  <2>1. \/ Enters(d, "loop", "push", NoSnap, Ids) \/ Enters(d, "loop", "pull", remote, {})
        \/ Enters(d, "idle", "pull", NoSnap, {})
    BY <1>11, <1>t, EntersTask DEF Start
  <2> QED
    BY <2>1, <1>e
<1>12. CASE AppStep(d) \/ PersistMeta(d)
  <2>1. task' = task
    BY <1>12 DEF AppStep, PreparePut, PrepareDelete, PrepareForget, Prepare, CommitCall,
                 FinishCall, PersistMeta
  <2> QED
    BY <2>1, <1>0
<1> QED
  BY <1>1, <1>2, <1>3, <1>4, <1>5, <1>6, <1>7, <1>8, <1>9, <1>10, <1>11, <1>12
  DEF Step, TaskStep

LEMMA MintedVersions ==
  ASSUME NEW v \in Nat
  PROVE  /\ \A body : Live(v, body).v = v
         /\ Marker(v).v = v /\ Tombstone(v).v = v
         /\ \A e \in Envelopes : AtVersion(e, v).v = v
BY DEF Live, Marker, Tombstone, AtVersion, Envelopes

LEMMA OwnEnvelopeVersioned ==
  ASSUME ShapeInv, NEW d \in Devices, NEW id \in Ids,
         PreparePut(d, id) \/ PrepareDelete(d, id) \/ PrepareForget(d, id)
  PROVE  Versioned(app'[d].env)
<1>1. /\ local[d][id] \in Slots /\ Versioned(local[d][id]) /\ cached[d][id] \in Nat
      /\ TypeInv
  BY ShapeGives, DeviceTypes DEF VersionsHeld
<1>2. \A env : Prepare(d, id, env) => app'[d].env = env
  BY <1>1 DEF Prepare, TypeInv, TypeOK
<1>3. local[d][id] # Nil => local[d][id].v \in Nat
  BY <1>1, SlotShape
<1>4. NextVersion(d, id) \in Nat /\ NextVersion(d, id) # 0
  BY <1>1, <1>3 DEF NextVersion, IsKind
<1>5. CASE PreparePut(d, id)
  BY <1>2, <1>4, <1>5, MintedVersions DEF PreparePut, Versioned
<1>6. CASE PrepareDelete(d, id)
  <2>1. local[d][id].v + 1 \in Nat /\ local[d][id].v + 1 # 0
    BY <1>3, <1>6 DEF PrepareDelete, IsKind
  <2> QED
    BY <1>2, <1>6, <2>1, MintedVersions DEF PrepareDelete, Versioned
<1>7. CASE PrepareForget(d, id)
  <2>1. local[d][id].v \in Nat /\ local[d][id].v # 0
    BY <1>1, <1>3, <1>7 DEF PrepareForget, IsKind, Versioned
  <2> QED
    BY <1>2, <1>7, <2>1, MintedVersions DEF PrepareForget, Versioned
<1> QED
  BY <1>5, <1>6, <1>7

\* The record in hand is a record of the collection.
LEMMA InHand ==
  ASSUME ShapeInv, NEW d \in Devices, task[d].pc \in RecordPcs
  PROVE  /\ task[d].rec.id \in Ids
         /\ task[d].pc # "read" => /\ task[d].rec.env \in Envelopes /\ task[d].rec.env # Nil
                                   /\ task[d].rec.env \in Slots /\ task[d].rec.env.v \in Nat
<1>1. /\ task[d].rec.id \in Ids /\ (task[d].pc # "read" => task[d].rec.env \in Envelopes)
  BY ShapeGives DEF TypeInv, RecordInHand
<1>2. \A e \in Envelopes : e # Nil /\ e \in Slots /\ e.v \in Nat
  BY NilAssumption DEF Envelopes, Slots
<1> QED
  BY <1>1, <1>2

LEMMA VersionsOfStep ==
  ASSUME ShapeInv, NEW d \in Devices, Step(d)
  PROVE  VersionsHeld(d)' /\ \A i \in Ids : Versioned(remote'[i])
<1> USE DEF appVars, others, remoteVars
<1> DEFINE id == task[d].rec.id  env == task[d].rec.env
<1>t. /\ TypeInv /\ VersionsHeld(d) /\ \A i \in Ids : Versioned(remote[i])
      /\ task[d].pc \in RecordPcs => id \in Ids
      /\ Versioned(NoRecord.env) /\ Versioned(NoCall.env) /\ Versioned(Nil)
  BY ShapeGives, InHand DEF NoRecord, NoCall, Versioned
<1>r. \A i \in Ids : \A e : Versioned(e) /\ PutRemote(i, e) => \A j \in Ids : Versioned(remote'[j])
  BY <1>t DEF PutRemote, TypeInv, TypeOK
\* Steps that leave the store and the call alone.
<1>m. ASSUME NEW pc, Moves(d, pc), local'[d] = local[d], app'[d] = app[d]
      PROVE  VersionsHeld(d)'
  BY <1>m, <1>t DEF VersionsHeld, Moves
<1>f. ASSUME NEW completed, Finishes(d, completed), local'[d] = local[d], app'[d] = app[d]
      PROVE  VersionsHeld(d)'
  BY <1>f, <1>t DEF VersionsHeld, Finishes
<1>s. ASSUME NEW pc, NEW e, Reseals(d, pc, e), Versioned(e),
             local'[d] = local[d], app'[d] = app[d]
      PROVE  VersionsHeld(d)'
  BY <1>s, <1>t DEF VersionsHeld, Reseals
<1>e. ASSUME NEW pc, NEW phase, NEW snap, NEW todo, Enters(d, pc, phase, snap, todo),
             \A i \in Ids : Versioned(snap[i]),
             local'[d] = local[d], Versioned(app'[d].env)
      PROVE  VersionsHeld(d)'
  BY <1>e, <1>t DEF VersionsHeld, Enters
<1>1. CASE ApplyRemote(d)
  <2>1. id \in Ids /\ Moves(d, "refresh") /\ Versioned(env)
    BY <1>1, <1>t, MovesTask DEF ApplyRemote, RecordPcs, VersionsHeld
  <2>2. \A i \in Ids : Versioned(local'[d][i])
    BY <1>1, <1>t, <2>1 DEF ApplyRemote, VersionsHeld, TypeInv, TypeOK
  <2> QED
    BY <1>1, <1>t, <2>1, <2>2 DEF ApplyRemote, VersionsHeld, Moves
<1>2. CASE InvalidateCacheEntry(d)
  BY <1>2, <1>m, <1>f, <1>t, InvalidateGives DEF InvalidateCacheEntry
<1>3. ASSUME NEW i \in Ids, PullRecord(d, i)
      PROVE  VersionsHeld(d)' /\ \A j \in Ids : Versioned(remote'[j])
  <2> DEFINE r == task[d].snap[i]  l == local[d][i]
  <2>1. /\ PullVerdict(d, i) /\ r # Nil /\ UNCHANGED <<remote, local, app>>
        /\ Versioned(r) /\ Versioned(l) /\ r \in Slots /\ l \in Slots
        /\ task[d].snap \in [Ids -> Slots]
    BY <1>3, <1>t, PullRecordGives, TaskRecord, DeviceTypes DEF VersionsHeld
  <2>2. ASSUME NEW pc, NEW e, NEW after, Hands(d, i, pc, e, after), Versioned(e)
        PROVE  VersionsHeld(d)'
    BY <1>t, <2>1, <2>2 DEF VersionsHeld, Hands
  <2>3. CASE Passes(d, i)
    BY <1>t, <2>1, <2>3 DEF VersionsHeld, Passes
  <2>4. ASSUME Reasserts(r, l) PROVE Versioned(AtVersion(l, r.v))
    <3>1. r.v \in Nat /\ r.v # 0 /\ l \in Envelopes
      BY <2>1, <2>4, SlotShape DEF Reasserts, IsKind, Versioned
    <3> QED
      BY <3>1, MintedVersions DEF Versioned
  <2> QED
    BY <1>t, <2>1, <2>2, <2>3, <2>4 DEF PullVerdict
<1>4. ASSUME NEW i \in Ids, PushRecord(d, i)
      PROVE  VersionsHeld(d)' /\ \A j \in Ids : Versioned(remote'[j])
  <2>1. Visits(d, i) /\ UNCHANGED <<remote, local, app>>
    BY <1>4, <1>t, VisitsTask DEF PushRecord
  <2>2. task'[d].rec.env = Nil /\ task'[d].snap = task[d].snap
    BY <2>1 DEF Visits
  <2> QED
    BY <1>t, <2>1, <2>2 DEF VersionsHeld
<1>5. CASE ReassertTombstone(d)
  BY <1>5, <1>t, <1>r, <1>f, FinishesTask DEF ReassertTombstone, RecordPcs, VersionsHeld
<1>6. CASE RemoteFails(d)
  BY <1>6, <1>t, <1>f, FinishesTask DEF RemoteFails
<1>7. CASE AnswerLost(d)
  BY <1>7, <1>t, <1>r, <1>f, FinishesTask DEF AnswerLost, RecordPcs, Forcing, VersionsHeld
<1>8. CASE PullFinish(d) \/ PushFinish(d)
  BY <1>8, <1>t, <1>m, MovesTask DEF PullFinish, PushFinish
<1>9. CASE PushRead(d)
  <2>1. Versioned(local[d][id])
    BY <1>9, <1>t DEF PushRead, RecordPcs, VersionsHeld
  <2> QED
    BY <1>9, <1>t, <2>1, <1>f, <1>s, PushReadGives DEF PushRead
<1>10. CASE PushPut(d)
  <2>1. id \in Ids /\ Versioned(env)
    BY <1>10, <1>t DEF PushPut, RecordPcs, VersionsHeld
  <2>2. VersionsHeld(d)'
    BY <1>10, <1>t, <1>f, <1>m, PushPutGives DEF PushPut
  <2> QED
    BY <1>10, <1>t, <2>1, <2>2, <1>r, PushPutGives
<1>11. CASE PushResolve(d)
  <2>1. /\ id \in Ids /\ env \in Envelopes /\ Versioned(env) /\ Versioned(remote[id])
        /\ remote[id] \in Slots /\ UNCHANGED <<remote, local, app>>
    BY <1>11, <1>t, InHand, DeviceTypes DEF PushResolve, RecordPcs, VersionsHeld
  <2>2. remote[id] # Nil => Versioned(AdvancePastRemote(env, remote[id]))
    <3> SUFFICES ASSUME remote[id] # Nil PROVE Versioned(AdvancePastRemote(env, remote[id]))
      OBVIOUS
    <3>1. remote[id].v + 1 \in Nat /\ remote[id].v + 1 # 0
      BY <2>1, SlotShape
    <3>2. AtVersion(env, remote[id].v + 1).v = remote[id].v + 1
      BY <2>1, <3>1, MintedVersions
    <3> QED
      BY <2>1, <3>1, <3>2 DEF AdvancePastRemote, Versioned
  <2> QED
    BY <1>11, <1>t, <2>1, <2>2, <1>f, <1>s, PushResolveGives
<1>12. CASE PushForce(d)
  <2>1. id \in Ids /\ Versioned(env) /\ UNCHANGED <<local, app>>
    BY <1>12, <1>t DEF PushForce, RecordPcs, VersionsHeld
  <2> QED
    BY <1>12, <1>t, <2>1, <1>r, <1>f, <1>m, PushForceGives
<1>13. CASE SaveMeta(d) \/ Start(d) \/ Crash(d)
  <2>1. /\ UNCHANGED <<remote, local>> /\ (app'[d] = app[d] \/ app'[d] = NoCall)
        /\ \A i \in Ids : NoSnap[i] = Nil
    BY <1>13, <1>t DEF SaveMeta, Start, PushStart, PullStart, Crash, TypeInv, TypeOK, NoSnap
  <2>2. Versioned(app'[d].env)
    BY <1>t, <2>1 DEF VersionsHeld
  <2>3. \/ Enters(d, "loop", "push", NoSnap, Ids) \/ Enters(d, "loop", "pull", remote, {})
        \/ Enters(d, "idle", "pull", NoSnap, {})
    BY <1>13, <1>t, EntersTask DEF Start
  <2> QED
    BY <1>t, <2>1, <2>2, <2>3, <1>e
<1>14. ASSUME NEW i \in Ids, PreparePut(d, i) \/ PrepareDelete(d, i) \/ PrepareForget(d, i)
       PROVE  VersionsHeld(d)' /\ \A j \in Ids : Versioned(remote'[j])
  <2>1. Versioned(app'[d].env)
    BY <1>14, OwnEnvelopeVersioned
  <2>2. UNCHANGED <<remote, local, task>>
    BY <1>14 DEF PreparePut, PrepareDelete, PrepareForget, Prepare
  <2> QED
    BY <1>t, <2>1, <2>2 DEF VersionsHeld
<1>15. CASE CommitCall(d)
  <2>1. app'[d].env = app[d].env /\ UNCHANGED <<remote, task>>
    BY <1>15, <1>t, DeviceTypes DEF CommitCall, Calls, NoCall, TypeInv, TypeOK
  <2>2. \A i \in Ids : local'[d][i] \in {local[d][i], app[d].env}
    BY <1>15, <1>t DEF CommitCall, TypeInv, TypeOK
  <2> QED
    BY <1>t, <2>1, <2>2 DEF VersionsHeld
<1>16. CASE FinishCall(d) \/ PersistMeta(d)
  <2>1. UNCHANGED <<remote, local, task>> /\ (app'[d] = app[d] \/ app'[d] = NoCall)
    BY <1>16, <1>t DEF FinishCall, PersistMeta, TypeInv, TypeOK
  <2> QED
    BY <1>t, <2>1 DEF VersionsHeld
<1> QED
  BY <1>1, <1>2, <1>3, <1>4, <1>5, <1>6, <1>7, <1>8, <1>9, <1>10, <1>11, <1>12, <1>13,
     <1>14, <1>15, <1>16, <1>t DEF Step, AppStep, TaskStep, ApplyRemote, InvalidateCacheEntry,
     PullFinish, PushFinish, PushRead, RemoteFails

LEMMA ShapeStep == ShapeInv /\ [Next]_vars => ShapeInv'
<1> SUFFICES ASSUME ShapeInv, [Next]_vars PROVE ShapeInv'
  OBVIOUS
<1>1. TypeInv'
  BY TypeStep DEF ShapeInv
<1>2. CASE UNCHANGED vars
  BY <1>1, <1>2 DEF vars, ShapeInv, TaskShape, VersionsHeld, Versioned
<1>3. ASSUME NEW d \in Devices, Step(d), NEW e \in Devices, e # d
      PROVE  TaskShape(e)' /\ VersionsHeld(e)'
  BY <1>3, ShapeGives, OthersUntouched DEF TaskShape, VersionsHeld, Versioned
<1> QED
  BY <1>1, <1>2, <1>3, ShapeOfTask, VersionsOfStep DEF Next, ShapeInv, Versioned

LEMMA ShapeInvariance == Spec => []ShapeInv
<1>1. Init => ShapeInv
  BY ShapeInit
<1> QED
  BY <1>1, ShapeStep, PTL DEF Spec

-----------------------------------------------------------------------------
(* Refinement: a device's log and its push are those of DirtyMap. *)

\* The push that DirtyMap sees on the device.
PushSeen(d) == [p \in {d} |-> PushOf(task[d])]
LogStep(d) == [Log(d)!Next]_(Log(d)!vars)

\* The log, its save and the push of a device, as Log(d) sees them.
LEMMA LogVars ==
  ASSUME NEW d \in Devices, dirty'[d] = dirty[d], meta'[d] = meta[d],
         PushOf(task[d])' = PushOf(task[d])
  PROVE  LogStep(d)
<1>1. PushSeen(d)' = PushSeen(d)
  BY DEF PushSeen
<1> QED
  BY <1>1 DEF LogStep, Log!vars, PushSeen

\* A device's push becomes another.
LEMMA PushBecomes ==
  ASSUME NEW d \in Devices, NEW t, PushOf(task'[d]) = t
  PROVE  /\ [p \in {d} |-> PushOf(task[d])]' = [[p \in {d} |-> PushOf(task[d])] EXCEPT ![d] = t]
         /\ [p \in {d} |-> PushOf(task[d])][d] = PushOf(task[d])
OBVIOUS

LEMMA PushingFields ==
  ASSUME NEW d \in Devices, NEW todo, NEW hand, NEW done
  PROVE  LET push == Log(d)!Pushing(todo, hand, done)
         IN push.active /\ push.todo = todo /\ push.hand = hand /\ push.done = done
BY DEF Log!Pushing

LEMMA SeenPush ==
  ASSUME ShapeInv, NEW d \in Devices
  PROVE  /\ task[d].phase = "push" /\ task[d].pc \in PushPcs \cup {"apply", "refresh"} =>
              /\ PushOf(task[d]) = Log(d)!Pushing(task[d].todo, task[d].rec.id, task[d].done)
              /\ task[d].rec.id # Nil
         /\ task[d].phase = "push" /\ task[d].pc = "loop" =>
              PushOf(task[d]) = Log(d)!Pushing(task[d].todo, Nil, task[d].done)
         /\ task[d].phase = "pull" \/ task[d].pc \in {"idle", "meta"} =>
              PushOf(task[d]) = Log(d)!NotPushing
<1>1. task[d].pc = "loop" => task[d].rec.id = Nil
  BY ShapeGives DEF TaskShape, NoRecord
<1>2. task[d].pc \in PushPcs \cup {"apply", "refresh"} => task[d].rec.id # Nil
  BY InHand, NilIsNoId DEF PushPcs, RecordPcs
<1> QED
  BY <1>1, <1>2 DEF PushOf, Log!Pushing, Log!NotPushing, PushPcs, Forcing

\* The record in hand leaves a push: it is settled, or it failed.
LEMMA FinishesMaps ==
  ASSUME ShapeInv, ShapeInv', NEW d \in Devices, NEW completed \in BOOLEAN,
         Finishes(d, completed), task[d].pc \in RecordPcs,
         completed => task[d].phase = "push",
         dirty'[d] = dirty[d], meta'[d] = meta[d]
  PROVE  LogStep(d)
<1>1. CASE task[d].phase = "pull"
  <2>1. PushOf(task[d]) = Log(d)!NotPushing
    BY <1>1, SeenPush
  <2>2. PushOf(task'[d]) = Log(d)!NotPushing
    BY <1>1 DEF Finishes, PushOf, Log!NotPushing
  <2> QED
    BY <2>1, <2>2, LogVars
<1>2. CASE task[d].phase = "push"
  <2>1. task[d].pc \in PushPcs \cup {"apply", "refresh"}
    BY <1>2, ShapeGives DEF TaskShape, RecordPcs, PushPcs
  <2>2. /\ PushOf(task[d]) = Log(d)!Pushing(task[d].todo, task[d].rec.id, task[d].done)
        /\ task[d].rec.id # Nil
    BY <1>2, <2>1, SeenPush
  <2>3. PushOf(task'[d]) = Log(d)!Pushing(task'[d].todo, Nil, task'[d].done)
    BY <1>2 DEF Finishes, PushOf, Log!Pushing, NoRecord
  <2>4. CASE completed
    <3>1. /\ task'[d].todo = task[d].todo
          /\ task'[d].done = task[d].done \cup {task[d].rec.id}
      BY <2>4 DEF Finishes
    <3>2. PushOf(task'[d]) = Log(d)!Pushing(task[d].todo, Nil, task[d].done \cup {task[d].rec.id})
      BY <2>3, <3>1
    <3> DEFINE P == [p \in {d} |-> PushOf(task[d])]
    <3>3. /\ P[d].todo = task[d].todo /\ P[d].done = task[d].done
          /\ P[d].hand = task[d].rec.id /\ P[d].hand # Nil
      BY <2>2, PushingFields
    <3>4. P' = [P EXCEPT ![d] = Log(d)!Pushing(P[d].todo, Nil, P[d].done \cup {P[d].hand})]
      BY <3>2, <3>3, PushBecomes
    <3>5. Log(d)!Settle(d)
      BY <3>3, <3>4 DEF Log!Settle
    <3> QED
      BY <3>5 DEF LogStep, Log!Next
  <2>5. CASE ~completed
    <3>1. PushOf(task'[d]) = Log(d)!Pushing(task[d].todo, Nil, task[d].done)
      BY <2>3, <2>5 DEF Finishes
    <3>2. Log(d)!Fail(d)
      BY <2>2, <3>1, PushBecomes, PushingFields DEF Log!Fail
    <3> QED
      BY <3>2 DEF LogStep, Log!Next
  <2> QED
    BY <2>4, <2>5
<1> QED
  BY <1>1, <1>2, ShapeGives, TaskRecord

\* The record in hand stays in hand.
LEMMA StaysMaps ==
  ASSUME ShapeInv, NEW d \in Devices, NEW pc, task[d].pc \in RecordPcs, pc \in RecordPcs,
         Moves(d, pc) \/ \E env : Reseals(d, pc, env),
         dirty'[d] = dirty[d], meta'[d] = meta[d]
  PROVE  LogStep(d)
<1>1. PushOf(task'[d]) = PushOf(task[d])
  BY DEF PushOf, Moves, Reseals, RecordPcs, Forcing
<1> QED
  BY <1>1, LogVars

\* A step of a pull.
LEMMA PullMaps ==
  ASSUME NEW d \in Devices, task[d].phase = "pull", task'[d].phase = "pull",
         dirty'[d] = dirty[d], meta'[d] = meta[d]
  PROVE  LogStep(d)
<1>1. PushOf(task'[d]) = PushOf(task[d])
  BY DEF PushOf
<1> QED
  BY <1>1, LogVars

LEMMA DropMaps ==
  ASSUME NEW d \in Devices, NEW id \in Ids, task[d].phase = "pull", task'[d].phase = "pull",
         dirty' = [dirty EXCEPT ![d][id] = 0], dirty \in [Devices -> [Ids -> Nat]],
         meta'[d] = meta[d]
  PROVE  LogStep(d)
<1>1. PushOf(task'[d]) = Log(d)!NotPushing /\ PushOf(task[d]) = Log(d)!NotPushing
  BY DEF PushOf, Log!NotPushing
<1>2. Log(d)!Drop(id)
  BY <1>1 DEF Log!Drop, Log!Resting, Log!NotPushing
<1> QED
  BY <1>2 DEF LogStep, Log!Next

LEMMA FinishCallTracks ==
  ASSUME ShapeInv, NEW d \in Devices, FinishCall(d)
  PROVE  LogStep(d)
<1>1. /\ app[d].id \in Ids /\ app[d].env \in Envelopes /\ Versioned(app[d].env)
      /\ dirty \in [Devices -> [Ids -> Nat]]
  BY ShapeGives, DeviceTypes DEF FinishCall, Calls, NoCall, VersionsHeld, TypeInv, TypeOK
<1>2. app[d].env.v # 0
  BY <1>1, NilAssumption DEF Versioned
<1>3. dirty'[d] = [dirty[d] EXCEPT ![app[d].id] = app[d].env.v]
      /\ UNCHANGED <<meta, task>>
  BY <1>1 DEF FinishCall, TrackChange
<1>4. Log(d)!Track(app[d].id)
  BY <1>1, <1>2, <1>3 DEF Log!Track
<1> QED
  BY <1>1, <1>4 DEF LogStep, Log!Next

LEMMA BeginMaps ==
  ASSUME NEW d \in Devices, PushOf(task[d]) = Log(d)!NotPushing,
         Enters(d, "loop", "push", NoSnap, Ids),
         dirty'[d] = dirty[d], meta'[d] = meta[d] \/ meta'[d] = dirty[d]
  PROVE  LogStep(d)
<1>1. PushOf(task'[d]) = Log(d)!Pushing(Ids, Nil, {})
  BY DEF Enters, PushOf, Log!Pushing, NoRecord
<1>2. Log(d)!Begin(d)
  BY <1>1, PushBecomes, PushingFields DEF Log!Begin, Log!NotPushing
<1> QED
  BY <1>2 DEF LogStep, Log!Next

LEMMA VisitMaps ==
  ASSUME ShapeInv, NEW d \in Devices, NEW i \in Ids, PushRecord(d, i)
  PROVE  LogStep(d)
<1>1. /\ Visits(d, i) /\ UNCHANGED <<dirty, meta>> /\ task[d].pc = "loop"
      /\ task[d].phase = "push" /\ i \in task[d].todo /\ dirty[d][i] # 0
  BY VisitsTask, ShapeGives DEF PushRecord, appVars
<1>2. PushOf(task[d]) = Log(d)!Pushing(task[d].todo, Nil, task[d].done)
  BY <1>1, SeenPush
<1>3. PushOf(task'[d]) = Log(d)!Pushing(task[d].todo \ {i}, i, task[d].done)
  BY <1>1 DEF Visits, PushOf, Log!Pushing
<1>4. Log(d)!Visit(d, i)
  BY <1>1, <1>2, <1>3, PushBecomes, PushingFields DEF Log!Visit
<1> QED
  BY <1>4 DEF LogStep, Log!Next

LEMMA PushFinishMaps ==
  ASSUME ShapeInv, NEW d \in Devices, PushFinish(d)
  PROVE  LogStep(d)
<1>1. /\ Moves(d, "meta") /\ task[d].pc = "loop" /\ task[d].phase = "push"
      /\ \A i \in task[d].todo : dirty[d][i] = 0 /\ meta' = meta
      /\ dirty \in [Devices -> [Ids -> Nat]]
  BY MovesTask, ShapeGives DEF PushFinish, TypeInv, TypeOK
<1>2. dirty'[d] = [i \in Ids |-> IF i \in task[d].done THEN 0 ELSE dirty[d][i]]
  BY <1>1 DEF PushFinish
<1>3. PushOf(task[d]) = Log(d)!Pushing(task[d].todo, Nil, task[d].done)
  BY <1>1, SeenPush
<1>4. PushOf(task'[d]) = Log(d)!NotPushing
  BY <1>1 DEF Moves, PushOf, Log!NotPushing
<1>5. meta'[d] = meta[d] /\ \A i \in task[d].todo : dirty[d][i] = 0
  BY <1>1 DEF PushFinish
<1>6. Log(d)!Finish(d)
  BY <1>2, <1>3, <1>4, <1>5 DEF Log!Finish, Log!Pushing
<1> QED
  BY <1>6 DEF LogStep, Log!Next

LEMMA SaveMaps ==
  ASSUME ShapeInv, NEW d \in Devices, SaveMeta(d) \/ PersistMeta(d)
  PROVE  LogStep(d)
<1>1. /\ meta'[d] = dirty[d] /\ dirty' = dirty /\ TypeInv
  BY ShapeGives DEF SaveMeta, PersistMeta, TypeInv, TypeOK
<1>2. CASE PushOf(task'[d]) = PushOf(task[d])
  <2>1. Log(d)!Save
    BY <1>1, <1>2 DEF Log!Save
  <2> QED
    BY <2>1 DEF LogStep, Log!Next
<1>3. CASE SaveMeta(d)
  <2>1. PushOf(task[d]) = Log(d)!NotPushing
    BY <1>3, SeenPush DEF SaveMeta
  <2>2. CASE Enters(d, "loop", "push", NoSnap, Ids)
    BY <1>1, <2>1, <2>2, BeginMaps
  <2>3. CASE Enters(d, "idle", "pull", NoSnap, {})
    <3>1. PushOf(task'[d]) = Log(d)!NotPushing
      BY <2>3 DEF Enters, PushOf, Log!NotPushing
    <3> QED
      BY <2>1, <3>1, <1>2
  <2> QED
    BY <1>1, <1>3, <2>2, <2>3, EntersTask
<1>4. CASE PersistMeta(d)
  <2>1. task' = task
    BY <1>4 DEF PersistMeta
  <2> QED
    BY <2>1, <1>2
<1> QED
  BY <1>3, <1>4

LEMMA CrashMaps ==
  ASSUME ShapeInv, NEW d \in Devices, Crash(d)
  PROVE  LogStep(d)
<1>1. dirty'[d] = meta[d] /\ meta' = meta /\ Enters(d, "idle", "pull", NoSnap, {})
  BY ShapeGives, EntersTask DEF Crash, TypeInv, TypeOK
<1>2. PushOf(task'[d]) = Log(d)!NotPushing
  BY <1>1 DEF Enters, PushOf, Log!NotPushing
<1>3. Log(d)!Restart
  BY <1>1, <1>2 DEF Log!Restart
<1> QED
  BY <1>3 DEF LogStep, Log!Next

LEMMA OwnLogStep ==
  ASSUME ShapeInv, ShapeInv', NEW d \in Devices, Step(d)
  PROVE  LogStep(d)
<1> USE DEF appVars, others, remoteVars
<1>t. TypeInv /\ TaskShape(d) /\ dirty \in [Devices -> [Ids -> Nat]]
  BY ShapeGives DEF TypeInv, TypeOK
<1>1. CASE ApplyRemote(d)
  BY <1>1, <1>t, MovesTask, StaysMaps DEF ApplyRemote, RecordPcs
<1>2. CASE InvalidateCacheEntry(d)
  <2>1. /\ task[d].pc = "refresh" /\ task[d].rec.id \in Ids /\ meta' = meta
        /\ task[d].phase = "push" <=> task[d].rec.after = "done"
    BY <1>2, <1>t, InHand DEF InvalidateCacheEntry, TaskShape, RecordPcs
  <2>2. CASE task[d].rec.after = "drop"
    <3>1. task[d].phase = "pull" /\ task'[d].phase = "pull"
      BY <1>2, <1>t, <2>1, <2>2, InvalidateGives, TaskRecord DEF Finishes, Moves
    <3>2. dirty' = [dirty EXCEPT ![d][task[d].rec.id] = 0]
      BY <1>2, <2>2 DEF InvalidateCacheEntry
    <3> QED
      BY <1>t, <2>1, <3>1, <3>2, DropMaps
  <2>3. CASE task[d].rec.after # "drop"
    <3>1. dirty' = dirty
      BY <1>2, <2>3 DEF InvalidateCacheEntry
    <3>2. CASE Moves(d, "assert")
      BY <2>1, <3>1, <3>2, StaysMaps DEF RecordPcs
    <3>3. CASE Finishes(d, task[d].rec.after = "done")
      <4> DEFINE completed == task[d].rec.after = "done"
      <4>1. completed \in BOOLEAN /\ Finishes(d, completed) /\ task[d].pc \in RecordPcs
            /\ (completed => task[d].phase = "push")
        BY <2>1, <3>3 DEF RecordPcs
      <4> HIDE DEF completed
      <4> QED
        BY <2>1, <3>1, <4>1, FinishesMaps
    <3> QED
      BY <1>2, <1>t, <3>2, <3>3, InvalidateGives
  <2> QED
    BY <2>2, <2>3
<1>3. ASSUME NEW i \in Ids, PullRecord(d, i)
      PROVE  LogStep(d)
  <2>1. /\ PullVerdict(d, i) /\ task[d].phase = "pull" /\ UNCHANGED <<dirty, meta>>
    BY <1>3, <1>t, PullRecordGives
  <2>2. task'[d].phase = "pull"
    BY <2>1 DEF PullVerdict, Hands, Passes
  <2> QED
    BY <2>1, <2>2, PullMaps
<1>4. CASE ReassertTombstone(d)
  <2>1. /\ task[d].pc = "assert" /\ task[d].phase = "pull" /\ Finishes(d, FALSE)
        /\ task[d].rec.id \in Ids /\ meta' = meta
        /\ dirty' = [dirty EXCEPT ![d][task[d].rec.id] = 0]
    BY <1>4, <1>t, FinishesTask, InHand DEF ReassertTombstone, TaskShape, RecordPcs
  <2>2. task'[d].phase = "pull"
    BY <2>1 DEF Finishes
  <2> QED
    BY <1>t, <2>1, <2>2, DropMaps
<1>5. CASE RemoteFails(d) \/ AnswerLost(d)
  <2>1. /\ task[d].pc \in RecordPcs /\ Finishes(d, FALSE) /\ UNCHANGED <<dirty, meta>>
    BY <1>5, <1>t, FinishesTask DEF RemoteFails, AnswerLost, RecordPcs
  <2> QED
    BY <2>1, FinishesMaps
<1>6. CASE PullFinish(d)
  <2>1. Moves(d, "meta") /\ task[d].phase = "pull" /\ UNCHANGED <<dirty, meta>>
    BY <1>6, <1>t, MovesTask DEF PullFinish
  <2> QED
    BY <2>1, PullMaps DEF Moves
<1>7. CASE PushRead(d)
  <2>1. task[d].pc \in RecordPcs /\ task[d].phase = "push" /\ UNCHANGED <<dirty, meta>>
    BY <1>7, <1>t DEF PushRead, RecordPcs, TaskShape, PushPcs
  <2> QED
    BY <1>7, <1>t, <2>1, PushReadGives, FinishesMaps, StaysMaps DEF RecordPcs
<1>8. CASE PushPut(d)
  <2>1. task[d].pc \in RecordPcs /\ task[d].phase = "push" /\ UNCHANGED <<dirty, meta>>
    BY <1>8, <1>t DEF PushPut, RecordPcs, TaskShape, PushPcs
  <2>2. Finishes(d, TRUE) \/ Moves(d, "resolve")
    BY <1>8, <1>t, PushPutGives
  <2> QED
    BY <2>1, <2>2, FinishesMaps, StaysMaps DEF RecordPcs
<1>9. CASE PushResolve(d)
  <2>1. task[d].pc \in RecordPcs /\ task[d].phase = "push" /\ UNCHANGED <<dirty, meta>>
    BY <1>9, <1>t DEF PushResolve, RecordPcs, TaskShape, PushPcs
  <2>2. Finishes(d, FALSE) \/ \E pc \in {"apply"} \cup Forcing : \E env : Reseals(d, pc, env)
    BY <1>9, <1>t, PushResolveGives DEF Forcing
  <2> QED
    BY <2>1, <2>2, FinishesMaps, StaysMaps DEF RecordPcs
<1>10. CASE PushForce(d)
  <2>1. task[d].pc \in RecordPcs /\ task[d].phase = "push" /\ UNCHANGED <<dirty, meta>>
    BY <1>10, <1>t DEF PushForce, RecordPcs, TaskShape, PushPcs
  <2>2. Finishes(d, TRUE) \/ Moves(d, "apply")
    BY <1>10, <1>t, PushForceGives
  <2> QED
    BY <2>1, <2>2, FinishesMaps, StaysMaps DEF RecordPcs
<1>11. ASSUME NEW p \in BOOLEAN, PullStart(d, p)
       PROVE  LogStep(d)
  <2>1. Enters(d, "loop", "pull", remote, {}) /\ task[d].pc = "idle" /\ UNCHANGED <<dirty, meta>>
    BY <1>11, <1>t, EntersTask DEF PullStart, TaskMayStart
  <2>2. PushOf(task[d]) = PushOf(task'[d])
    BY <2>1 DEF PushOf, Enters
  <2> QED
    BY <2>1, <2>2, LogVars
<1>12. CASE PushStart(d)
  <2>1. Enters(d, "loop", "push", NoSnap, Ids) /\ task[d].pc = "idle" /\ UNCHANGED <<dirty, meta>>
    BY <1>12, <1>t, EntersTask DEF PushStart, TaskMayStart
  <2>2. PushOf(task[d]) = Log(d)!NotPushing
    BY <2>1, SeenPush
  <2> QED
    BY <2>1, <2>2, BeginMaps
<1>13. CASE AppStep(d) /\ ~FinishCall(d)
  <2>1. UNCHANGED <<task, dirty, meta>>
    BY <1>13 DEF AppStep, PreparePut, PrepareDelete, PrepareForget, Prepare, CommitCall
  <2> QED
    BY <2>1, LogVars
<1> QED
  BY <1>1, <1>2, <1>3, <1>4, <1>5, <1>6, <1>7, <1>8, <1>9, <1>10, <1>11, <1>12, <1>13,
     FinishCallTracks, VisitMaps, PushFinishMaps, SaveMaps, CrashMaps
  DEF Step, TaskStep, Start

\* The log of another device is left alone.
LEMMA OtherLogs ==
  ASSUME TypeInv, NEW d \in Devices, Step(d), NEW e \in Devices, e # d
  PROVE  dirty'[e] = dirty[e] /\ meta'[e] = meta[e]
<1> USE DEF TypeInv, TypeOK, appVars, others, remoteVars
<1>1. CASE AppStep(d)
  BY <1>1 DEF AppStep, PreparePut, PrepareDelete, PrepareForget, Prepare,
              CommitCall, FinishCall, TrackChange
<1>2. CASE TaskStep(d)
  <2>1. ASSUME NEW id \in Ids, PullRecord(d, id) \/ PushRecord(d, id)
        PROVE  UNCHANGED <<dirty, meta>>
    BY <2>1 DEF PullRecord, PushRecord
  <2>2. CASE ApplyRemote(d) \/ InvalidateCacheEntry(d)
    BY <2>2 DEF ApplyRemote, InvalidateCacheEntry
  <2>3. CASE ReassertTombstone(d) \/ PullFinish(d) \/ PushFinish(d) \/ SaveMeta(d)
    BY <2>3 DEF ReassertTombstone, PullFinish, PushFinish, SaveMeta
  <2>4. CASE PushRead(d) \/ PushPut(d) \/ PushResolve(d) \/ PushForce(d)
    BY <2>4 DEF PushRead, PushPut, PushResolve, PushForce
  <2> QED
    BY <1>2, <2>1, <2>2, <2>3, <2>4 DEF TaskStep
<1>3. CASE Start(d) \/ PersistMeta(d) \/ RemoteFails(d) \/ AnswerLost(d) \/ Crash(d)
  BY <1>3 DEF Start, PushStart, PullStart, PersistMeta, RemoteFails, AnswerLost, Crash
<1> QED
  BY <1>1, <1>2, <1>3 DEF Step

\* For any devices, records and disturbances, with the application writing during syncs
\* or not, each device's log is used as DirtyMap allows: an entry leaves it only when its
\* record settled, a push's entries all at its end, and a restart brings back the saved log.
THEOREM EngineUsesDirtyMap == Spec => ImplementsDirtyMap
<1> DEFINE A == \A d \in Devices : [Log(d)!Next]_(Log(d)!vars)
<1>1. Init => \A d \in Devices : Log(d)!Init
  <2> SUFFICES ASSUME Init, NEW d \in Devices PROVE Log(d)!Init
    OBVIOUS
  <2>1. PushOf(task[d]) = Log(d)!NotPushing
    BY DEF Init, PushOf, IdleTask, Log!NotPushing
  <2> QED
    BY <2>1 DEF Init, Log!Init
<1>2. ShapeInv /\ ShapeInv' /\ [Next]_vars => [A]_vars
  <2> SUFFICES ASSUME ShapeInv, ShapeInv', NEW d \in Devices, Step(d), NEW e \in Devices
               PROVE  LogStep(e)
    BY DEF Next, LogStep
  <2>1. CASE e = d
    BY <2>1, OwnLogStep
  <2>2. CASE e # d
    <3>1. TypeInv
      BY ShapeGives
    <3> QED
      BY <2>2, <3>1, OtherLogs, OthersUntouched, LogVars
  <2> QED
    BY <2>1, <2>2
<1> QED
  BY <1>1, <1>2, ShapeInvariance, PTL DEF Spec, ImplementsDirtyMap

-----------------------------------------------------------------------------
(* The in-memory views of a record agree with the store. *)

Stored(d, id) == app[d].pc = "stored" /\ app[d].id = id
Refreshing(d, id) == task[d].pc = "refresh" /\ task[d].rec.id = id

Coherent(d, id) ==
  /\ cached[d][id] = CachedVersion(local[d][id])
  /\ id \in markerIds[d] <=> IsKind(local[d][id], "marker")

\* What an application call prepared supersedes the slot it lands on, or re-creates an
\* erased record.
Minted(env, slot) ==
  (IsKind(slot, "tombstone") /\ IsKind(env, "live")) \/ Supersedes(env, slot)

\* An application call mints its envelope from views that agree with the store, and no
\* one else writes the device's store until it returns.
CallHeld(d) ==
  LET id == app[d].id  env == app[d].env  slot == local[d][app[d].id]
  IN /\ app[d].pc = "idle" \/ task[d].pc = "idle"
     /\ app[d].pc = "prepared" => Minted(env, slot)
     /\ app[d].pc = "stored" => slot = env
     /\ app[d].pc # "idle" /\ IsKind(env, "tombstone") => id \notin markerIds[d]
     /\ \A i \in Ids : Stored(d, i) \/ Refreshing(d, i) \/ Coherent(d, i)

CallInv == ShapeInv /\ \A d \in Devices : CallHeld(d)

LEMMA MintedKinds ==
  ASSUME NEW v \in Nat
  PROVE  /\ \A body : \A kind : IsKind(Live(v, body), kind) => kind = "live"
         /\ \A kind : IsKind(Marker(v), kind) => kind = "marker"
         /\ IsKind(Tombstone(v), "tombstone")
         /\ \A body \in Bodies : IsKind(Live(v, body), "live")
<1>1. Tombstone(v) # Nil /\ \A body \in Bodies : Live(v, body) # Nil
  BY NewEnvelopes, NilAssumption
<1> QED
  BY <1>1 DEF Live, Marker, Tombstone, IsKind

\* The step of a device that neither calls the application nor writes its store.
Quiet(d) ==
  /\ UNCHANGED <<local, cached, markerIds, app>>
  /\ task'[d] = task[d] \/ (task[d].pc # "refresh" /\ task'[d].pc # "refresh")
  /\ ~AppDuringSync /\ task[d].pc = "idle" /\ app[d].pc # "idle" => task'[d].pc = "idle"

LEMMA QuietSteps ==
  ASSUME ShapeInv, NEW d \in Devices, Step(d)
  PROVE  \/ \E id \in Ids : PreparePut(d, id) \/ PrepareDelete(d, id) \/ PrepareForget(d, id)
         \/ CommitCall(d) \/ FinishCall(d) \/ ApplyRemote(d) \/ InvalidateCacheEntry(d)
         \/ Crash(d) \/ Quiet(d)
<1> USE DEF appVars, others
<1>t. TypeInv
  BY ShapeGives
<1>1. ASSUME NEW i \in Ids, PullRecord(d, i) PROVE Quiet(d)
  <2>1. PullVerdict(d, i) /\ task[d].pc = "loop" /\ UNCHANGED <<local, cached, markerIds, app>>
    BY <1>1, <1>t, PullRecordGives
  <2> QED
    BY <2>1 DEF PullVerdict, Hands, Passes, Quiet
<1>2. ASSUME NEW i \in Ids, PushRecord(d, i) PROVE Quiet(d)
  BY <1>2, <1>t, VisitsTask DEF PushRecord, Visits, Quiet
<1>3. CASE ReassertTombstone(d) \/ RemoteFails(d) \/ AnswerLost(d)
  <2>1. Finishes(d, FALSE) /\ task[d].pc \in {"assert", "put", "resolve"} \cup Forcing
    BY <1>3, <1>t, FinishesTask DEF ReassertTombstone, RemoteFails, AnswerLost
  <2> QED
    BY <1>3, <2>1 DEF ReassertTombstone, RemoteFails, AnswerLost, Finishes, Quiet, Forcing
<1>4. CASE PullFinish(d) \/ PushFinish(d)
  BY <1>4, <1>t, MovesTask DEF PullFinish, PushFinish, Moves, Quiet
<1>5. CASE PushRead(d)
  BY <1>5, <1>t, PushReadGives DEF PushRead, Finishes, Reseals, Quiet
<1>6. CASE PushPut(d)
  BY <1>6, <1>t, PushPutGives DEF PushPut, Finishes, Moves, Quiet
<1>7. CASE PushResolve(d)
  BY <1>7, <1>t, PushResolveGives DEF PushResolve, Finishes, Reseals, Quiet
<1>8. CASE PushForce(d)
  BY <1>8, <1>t, PushForceGives DEF PushForce, Finishes, Moves, Quiet, Forcing
<1>9. CASE SaveMeta(d)
  BY <1>9, <1>t, EntersTask DEF SaveMeta, Enters, Quiet
<1>10. CASE Start(d)
  <2>1. /\ UNCHANGED <<local, cached, markerIds, app>> /\ task[d].pc = "idle"
        /\ AppDuringSync \/ app[d].pc = "idle"
    BY <1>10 DEF Start, PushStart, PullStart, TaskMayStart
  <2>2. task'[d].pc # "refresh"
    BY <1>10, <1>t, EntersTask DEF Start, Enters
  <2> QED
    BY <2>1, <2>2 DEF Quiet
<1>11. CASE PersistMeta(d)
  BY <1>11 DEF PersistMeta, Quiet
<1> QED
  BY <1>1, <1>2, <1>3, <1>4, <1>5, <1>6, <1>7, <1>8, <1>9, <1>10, <1>11
  DEF Step, AppStep, TaskStep

LEMMA PrepareHolds ==
  ASSUME ~AppDuringSync, CallInv, NEW d \in Devices, NEW id \in Ids,
         PreparePut(d, id) \/ PrepareDelete(d, id) \/ PrepareForget(d, id)
  PROVE  CallHeld(d)'
<1> DEFINE slot == local[d][id]
<1>1. \E env : Prepare(d, id, env)
  BY DEF PreparePut, PrepareDelete, PrepareForget
<1>2. /\ UNCHANGED <<local, cached, markerIds, task>> /\ app[d].pc = "idle" /\ task[d].pc = "idle"
      /\ CallHeld(d) /\ ShapeInv /\ TypeInv
  BY <1>1, ShapeGives DEF Prepare, AppMayCall, CallInv
<1>3. \A env : Prepare(d, id, env) =>
        app'[d].pc = "prepared" /\ app'[d].id = id /\ app'[d].env = env
  BY <1>2 DEF Prepare, TypeInv, TypeOK
<1>4. \A i \in Ids : Coherent(d, i)
  BY <1>2 DEF CallHeld, Stored, Refreshing
<1>5. /\ slot \in Slots /\ Versioned(slot) /\ cached[d][id] = CachedVersion(slot)
      /\ id \in markerIds[d] <=> IsKind(slot, "marker")
      /\ slot # Nil => slot.v \in Nat /\ slot.kind \in {"live", "marker", "tombstone"}
  BY <1>2, <1>4, ShapeGives, DeviceTypes, SlotShape DEF Coherent, VersionsHeld
<1>6. Minted(app'[d].env, slot) /\ (IsKind(app'[d].env, "tombstone") => id \notin markerIds[d])
  <2>1. CASE PreparePut(d, id)
    <3>1. NextVersion(d, id) \in Nat /\ NextVersion(d, id) # 0
      BY <1>5 DEF NextVersion, IsKind, CachedVersion
    <3>2. PICK body \in Bodies : app'[d].env = Live(NextVersion(d, id), body)
      BY <1>3, <2>1 DEF PreparePut
    <3>3. /\ IsKind(app'[d].env, "live") /\ app'[d].env.v = NextVersion(d, id)
          /\ ~IsKind(app'[d].env, "tombstone")
      BY <3>1, <3>2, MintedKinds, MintedVersions
    <3>4. slot # Nil /\ ~IsKind(slot, "tombstone") => NextVersion(d, id) = slot.v + 1
      BY <1>5 DEF NextVersion, IsKind, CachedVersion, Versioned
    <3> QED
      BY <1>5, <3>3, <3>4 DEF Minted, Supersedes
  <2>2. CASE PrepareDelete(d, id)
    <3>1. slot.v \in Nat /\ app'[d].env = Marker(slot.v + 1)
      BY <1>3, <1>5, <2>2 DEF PrepareDelete, IsKind
    <3>2. app'[d].env.v > slot.v /\ ~IsKind(app'[d].env, "tombstone")
      BY <3>1, MintedKinds, MintedVersions
    <3> QED
      BY <3>2 DEF Minted, Supersedes
  <2>3. CASE PrepareForget(d, id)
    <3>1. slot.v \in Nat /\ app'[d].env = Tombstone(slot.v) /\ IsKind(slot, "live")
      BY <1>3, <1>5, <2>3 DEF PrepareForget, IsKind
    <3>2. IsKind(app'[d].env, "tombstone") /\ id \notin markerIds[d]
      BY <1>5, <3>1, MintedKinds DEF IsKind
    <3> QED
      BY <3>2 DEF Minted, Supersedes
  <2> QED
    BY <2>1, <2>2, <2>3
<1> QED
  BY <1>1, <1>2, <1>3, <1>4, <1>6 DEF CallHeld, Coherent, Stored, Refreshing

LEMMA CommitHolds ==
  ASSUME CallInv, NEW d \in Devices, CommitCall(d)
  PROVE  CallHeld(d)'
<1> USE DEF appVars, others
<1> DEFINE id == app[d].id  env == app[d].env
<1>1. /\ TypeInv /\ CallHeld(d) /\ app[d] \in Calls /\ app[d].pc = "prepared" /\ UNCHANGED task
      /\ UNCHANGED cached
  BY ShapeGives, DeviceTypes DEF CallInv, CommitCall
<1>2. /\ id \in Ids /\ env \in Envelopes /\ task[d].pc = "idle"
      /\ app'[d].pc = "stored" /\ app'[d].id = id /\ app'[d].env = env
  BY <1>1 DEF CommitCall, Calls, NoCall, TypeInv, TypeOK, CallHeld
<1>3. /\ local'[d] = [local[d] EXCEPT ![id] = env] /\ local[d] \in [Ids -> Slots]
      /\ markerIds'[d] = OwnMarkers(d, id, env)
  BY <1>1, <1>2 DEF CommitCall, TypeInv, TypeOK
<1>4. \A i \in Ids : i # id => Coherent(d, i)'
  <2> SUFFICES ASSUME NEW i \in Ids, i # id PROVE Coherent(d, i)'
    OBVIOUS
  <2>1. Coherent(d, i)
    BY <1>1, <1>2 DEF CallHeld, Stored, Refreshing
  <2>2. local'[d][i] = local[d][i] /\ (i \in markerIds'[d] <=> i \in markerIds[d])
    BY <1>3 DEF OwnMarkers
  <2> QED
    BY <1>1, <2>1, <2>2 DEF Coherent
<1>5. IsKind(env, "tombstone") => id \notin markerIds'[d]
  BY <1>1, <1>3 DEF OwnMarkers, CallHeld, IsKind
<1> QED
  BY <1>1, <1>2, <1>3, <1>4, <1>5 DEF CallHeld, Stored, Refreshing

LEMMA FinishHolds ==
  ASSUME CallInv, NEW d \in Devices, FinishCall(d)
  PROVE  CallHeld(d)'
<1> USE DEF appVars, others
<1> DEFINE id == app[d].id  env == app[d].env
<1>1. /\ TypeInv /\ CallHeld(d) /\ app[d] \in Calls /\ app[d].pc = "stored" /\ UNCHANGED task
      /\ UNCHANGED local
  BY ShapeGives, DeviceTypes DEF CallInv, FinishCall
<1>2. /\ id \in Ids /\ env \in Envelopes /\ app'[d] = NoCall /\ NoCall.pc = "idle"
      /\ task[d].pc = "idle"
  BY <1>1 DEF FinishCall, Calls, NoCall, TypeInv, TypeOK, CallHeld
<1>3. /\ cached'[d] = [cached[d] EXCEPT ![id] = CachedVersion(env)]
      /\ cached[d] \in [Ids -> Nat]
      /\ markerIds'[d] = OwnMarkers(d, id, env)
  BY <1>1, <1>2 DEF FinishCall, TypeInv, TypeOK
<1>4. \A i \in Ids : i # id => Coherent(d, i)'
  <2> SUFFICES ASSUME NEW i \in Ids, i # id PROVE Coherent(d, i)'
    OBVIOUS
  <2>1. Coherent(d, i)
    BY <1>1, <1>2 DEF CallHeld, Stored, Refreshing
  <2>2. cached'[d][i] = cached[d][i] /\ (i \in markerIds'[d] <=> i \in markerIds[d])
    BY <1>3 DEF OwnMarkers
  <2> QED
    BY <1>1, <2>1, <2>2 DEF Coherent
<1>5. ASSUME NEW i \in Ids, i = id PROVE Coherent(d, i)'
  <2>1. local'[d][id] = env /\ (IsKind(env, "tombstone") => id \notin markerIds[d])
    BY <1>1 DEF CallHeld
  <2>2. env # Nil /\ env.kind \in {"live", "marker", "tombstone"}
    BY <1>2, NilAssumption DEF Envelopes
  <2>3. cached'[d][id] = CachedVersion(local'[d][id])
    BY <1>2, <1>3, <2>1
  <2>4. id \in markerIds'[d] <=> IsKind(local'[d][id], "marker")
    BY <1>3, <2>1, <2>2 DEF OwnMarkers, IsKind
  <2> QED
    BY <1>5, <2>3, <2>4 DEF Coherent
<1>6. \A i \in Ids : Coherent(d, i)'
  BY <1>4, <1>5
<1> QED
  BY <1>2, <1>6 DEF CallHeld

\* The two halves of a pull's or a push's write of the device's own store.
LEMMA ApplyHolds ==
  ASSUME CallInv, NEW d \in Devices, ApplyRemote(d) \/ InvalidateCacheEntry(d)
  PROVE  CallHeld(d)'
<1> USE DEF appVars, others
<1> DEFINE id == task[d].rec.id
<1>1. /\ TypeInv /\ CallHeld(d) /\ UNCHANGED app /\ task[d].pc \in RecordPcs /\ id \in Ids
      /\ task[d].pc \in {"apply", "refresh"}
      /\ app[d].pc = "idle"
  BY ShapeGives, InHand DEF CallInv, CallHeld, ApplyRemote, InvalidateCacheEntry, RecordPcs
<1>2. \A i \in Ids : i # id => Coherent(d, i)
  BY <1>1 DEF CallHeld, Stored, Refreshing
<1>3. CASE ApplyRemote(d)
  <2>1. task'[d].pc = "refresh" /\ task'[d].rec.id = id
    BY <1>1, <1>3, MovesTask DEF ApplyRemote, Moves
  <2>2. \A i \in Ids : i # id => Coherent(d, i)'
    BY <1>1, <1>2, <1>3 DEF ApplyRemote, Coherent, TypeInv, TypeOK
  <2>3. \A i \in Ids : Refreshing(d, i)' \/ Coherent(d, i)'
    BY <2>1, <2>2 DEF Refreshing
  <2> QED
    BY <1>1, <2>3 DEF CallHeld
<1>4. CASE InvalidateCacheEntry(d)
  <2>1. \A i \in Ids : i # id => Coherent(d, i)'
    BY <1>1, <1>2, <1>4 DEF InvalidateCacheEntry, Coherent, TypeInv, TypeOK
  <2>2. cached'[d][id] = CachedVersion(local[d][id]) /\ local' = local
    BY <1>1, <1>4 DEF InvalidateCacheEntry, TypeInv, TypeOK
  <2>3. id \in markerIds'[d] <=> IsKind(local[d][id], "marker")
    BY <1>1, <1>4 DEF InvalidateCacheEntry, TypeInv, TypeOK
  <2>4. \A i \in Ids : Coherent(d, i)'
    BY <2>1, <2>2, <2>3 DEF Coherent
  <2> QED
    BY <1>1, <2>4 DEF CallHeld
<1> QED
  BY <1>3, <1>4

LEMMA CallHeldStep ==
  ASSUME ~AppDuringSync, CallInv, NEW d \in Devices, Step(d)
  PROVE  CallHeld(d)'
<1>t. ShapeInv /\ TypeInv /\ CallHeld(d)
  BY ShapeGives DEF CallInv
<1>1. CASE Crash(d)
  <2>1. /\ app'[d] = NoCall /\ NoCall.pc = "idle" /\ local' = local
        /\ cached'[d] = [i \in Ids |-> CachedVersion(local[d][i])]
        /\ markerIds'[d] = {i \in Ids : IsKind(local[d][i], "marker")}
    BY <1>1, <1>t DEF Crash, NoCall, TypeInv, TypeOK
  <2>2. \A i \in Ids : Coherent(d, i)'
    BY <2>1 DEF Coherent
  <2> QED
    BY <2>1, <2>2 DEF CallHeld
<1>2. CASE Quiet(d)
  <2>1. app'[d].pc = "idle" \/ task'[d].pc = "idle"
    BY <1>2, <1>t DEF Quiet, CallHeld
  <2>2. \A i \in Ids : Refreshing(d, i) => Refreshing(d, i)' \/ Coherent(d, i)'
    BY <1>2 DEF Quiet, Refreshing
  <2> QED
    BY <1>2, <1>t, <2>1, <2>2 DEF Quiet, CallHeld, Stored, Coherent
<1> QED
  BY <1>1, <1>2, <1>t, QuietSteps, PrepareHolds, CommitHolds, FinishHolds, ApplyHolds

LEMMA CallInvStep == ~AppDuringSync /\ CallInv /\ [Next]_vars => CallInv'
<1> SUFFICES ASSUME ~AppDuringSync, CallInv, [Next]_vars PROVE CallInv'
  OBVIOUS
<1>1. ShapeInv'
  BY ShapeStep DEF CallInv
<1>2. CASE UNCHANGED vars
  BY <1>1, <1>2 DEF vars, CallInv, CallHeld, Stored, Refreshing, Coherent
<1>3. ASSUME NEW d \in Devices, Step(d), NEW e \in Devices, e # d
      PROVE  CallHeld(e)'
  BY <1>3, ShapeGives, OthersUntouched DEF CallInv, CallHeld, Stored, Refreshing, Coherent
<1> QED
  BY <1>1, <1>2, <1>3, CallHeldStep DEF Next, CallInv

LEMMA CallInvInit == Init => CallInv
<1> SUFFICES ASSUME Init, NEW d \in Devices PROVE CallHeld(d)
  BY ShapeInit DEF CallInv
<1>1. /\ app[d].pc = "idle" /\ markerIds[d] = {}
      /\ \A i \in Ids : cached[d][i] = 0 /\ local[d][i] = Nil
  BY DEF Init, NoCall
<1> QED
  BY <1>1 DEF CallHeld, Coherent, CachedVersion, IsKind

LEMMA CallInvariance == ~AppDuringSync => (Spec => []CallInv)
<1> SUFFICES ASSUME ~AppDuringSync PROVE Spec => []CallInv
  OBVIOUS
<1>1. CallInv /\ [Next]_vars => CallInv'
  BY CallInvStep
<1> QED
  BY <1>1, CallInvInit, PTL DEF Spec

\* While a device's application does not write during its own sync, the in-memory entry
\* and the marker set agree with the store after every put, delete, forget, pull,
\* resolution and crash: no reader and no version minted next sees a stale copy.
THEOREM ViewsAgree == ~AppDuringSync => (Spec => []ViewsCoherent)
<1> SUFFICES ASSUME ~AppDuringSync PROVE Spec => []ViewsCoherent
  OBVIOUS
<1>1. CallInv => ViewsCoherent
  BY DEF CallInv, CallHeld, ViewsCoherent, Stored, Refreshing, Coherent
<1> QED
  BY <1>1, CallInvariance, PTL

\* ... so that the version it mints supersedes the record or delete marker it lands on:
\* a re-created id continues past its marker, after a crash or a conflict too.
THEOREM MintedVersionsSupersede == ~AppDuringSync => (Spec => OwnWritesSupersede)
<1> SUFFICES ASSUME ~AppDuringSync PROVE Spec => OwnWritesSupersede
  OBVIOUS
<1> DEFINE A == \A d \in Devices, id \in Ids :
             OwnPut(d, id) /\ local[d][id] # Nil /\ ~IsKind(local[d][id], "tombstone") =>
               Supersedes(local'[d][id], local[d][id])
<1>1. CallInv /\ [Next]_vars => [A]_vars
  <2> SUFFICES ASSUME CallInv, NEW d \in Devices, Step(d), NEW e \in Devices, NEW id \in Ids,
                      OwnPut(e, id), local[e][id] # Nil, ~IsKind(local[e][id], "tombstone")
               PROVE  Supersedes(local'[e][id], local[e][id])
    BY DEF Next
  <2>t. ShapeInv /\ TypeInv /\ CallHeld(d)
    BY ShapeGives DEF CallInv
  <2>1. e = d
    BY <2>t, OthersUntouched DEF OwnPut
  <2>2. CommitCall(d)
    <3>1. CASE FinishCall(d) \/ Crash(d)
      BY <2>1, <2>t, <3>1 DEF OwnPut, FinishCall, Crash, NoCall, TypeInv, TypeOK
    <3>2. CASE ApplyRemote(d) \/ InvalidateCacheEntry(d) \/ Quiet(d)
      BY <2>1, <3>2 DEF OwnPut, ApplyRemote, InvalidateCacheEntry, Quiet
    <3>3. ASSUME NEW i \in Ids, PreparePut(d, i) \/ PrepareDelete(d, i) \/ PrepareForget(d, i)
          PROVE  FALSE
      BY <2>1, <3>3 DEF OwnPut, PreparePut, PrepareDelete, PrepareForget, Prepare, AppMayCall
    <3> QED
      BY <2>t, <3>1, <3>2, <3>3, QuietSteps
  <2>3. local'[d][id] = app[d].env
    BY <2>1, <2>2, <2>t DEF OwnPut, CommitCall, TypeInv, TypeOK
  <2>4. Minted(app[d].env, local[d][id])
    BY <2>1, <2>t DEF CallHeld, OwnPut
  <2> QED
    BY <2>1, <2>3, <2>4 DEF Minted
<1> QED
  BY <1>1, CallInvariance, PTL DEF Spec, OwnWritesSupersede

-----------------------------------------------------------------------------
(* The dirty log and the store. *)

\* Every record the log or its saved copy lists is in the store.
ListedStored(d) ==
  \A i \in Ids : dirty[d][i] # 0 \/ meta[d][i] # 0 => local[d][i] # Nil

\* What the task holds of the record it works on, and of those it settled.
TaskLog(d) ==
  LET t == task[d]
  IN /\ t.pc = "idle" => t.done = {}
     /\ t.pc = "meta" => \A i \in t.done : dirty[d][i] = 0
     /\ t.pc \in PushPcs => dirty[d][t.rec.id] # 0 /\ t.rec.ver = dirty[d][t.rec.id]
     /\ t.pc \in {"put", "resolve", "force"} => t.rec.env = local[d][t.rec.id]
     /\ t.pc \in {"apply", "refresh"} /\ t.rec.after = "keep" =>
          dirty[d][t.rec.id] = 0 \/ IsKind(t.rec.env, "tombstone")
     /\ t.pc = "refresh" => local[d][t.rec.id] = t.rec.env
     /\ t.pc = "assert" => IsKind(local[d][t.rec.id], "tombstone")

\* An entry names the version the store holds, unless its mark was lost or something in
\* progress is about to remove or to renew it.
EntryMatches(d, i) ==
  \/ dirty[d][i] = 0 \/ <<d, i>> \in unmarked \/ Stored(d, i) \/ i \in task[d].done
  \/ Refreshing(d, i) /\ task[d].rec.after \in {"drop", "done"}
  \/ IsKind(local[d][i], "tombstone") \/ local[d][i].v = dirty[d][i]

LogHeld(d) == ListedStored(d) /\ TaskLog(d) /\ \A i \in Ids : EntryMatches(d, i)

LogInv == CallInv /\ \A d \in Devices : LogHeld(d)

LEMMA LogGives ==
  ASSUME LogInv, NEW d \in Devices
  PROVE  /\ TypeInv /\ ShapeInv /\ CallInv /\ TaskShape(d) /\ CallHeld(d) /\ LogHeld(d)
         /\ app[d].pc = "idle" \/ task[d].pc = "idle"
         /\ dirty \in [Devices -> [Ids -> Nat]] /\ meta \in [Devices -> [Ids -> Nat]]
         /\ local \in [Devices -> [Ids -> Slots]] /\ app \in [Devices -> Calls]
BY ShapeGives DEF LogInv, CallInv, CallHeld, TypeInv, TypeOK

\* The log, the store and the call stay as they are.
LogStays(d) ==
  /\ local'[d] = local[d] /\ dirty'[d] = dirty[d] /\ app'[d] = app[d]
  /\ meta'[d] = meta[d] \/ meta'[d] = dirty[d]
  /\ unmarked' = unmarked

LEMMA LogFinishes ==
  ASSUME LogInv, NEW d \in Devices, LogStays(d), NEW completed, Finishes(d, completed),
         task[d].pc # "refresh"
  PROVE  LogHeld(d)'
<1>1. LogHeld(d)
  BY LogGives
<1>2. ListedStored(d)'
  BY <1>1 DEF LogHeld, ListedStored, LogStays
<1>3. TaskLog(d)'
  BY DEF TaskLog, Finishes, PushPcs, Forcing
<1>4. \A i \in Ids : EntryMatches(d, i)'
  BY <1>1 DEF LogHeld, EntryMatches, LogStays, Finishes, Stored, Refreshing
<1> QED
  BY <1>2, <1>3, <1>4 DEF LogHeld

LEMMA LogMoves ==
  ASSUME LogInv, NEW d \in Devices, LogStays(d),
         \/ task[d].pc = "put" /\ Moves(d, "resolve")
         \/ task[d].pc = "loop" /\ task[d].phase = "pull" /\ Moves(d, "meta")
         \/ task[d].pc = "forceApply" /\ Moves(d, "apply")
         \/ task[d].pc = "read" /\ Reseals(d, "put", local[d][task[d].rec.id])
         \/ \E env : task[d].pc = "resolve" /\ Reseals(d, "apply", env)
         \/ task[d].pc = "resolve" /\ Reseals(d, "force", task[d].rec.env)
         \/ \E env : task[d].pc = "resolve" /\ Reseals(d, "forceApply", env)
  PROVE  LogHeld(d)'
<1>1. LogHeld(d) /\ TaskShape(d)
  BY LogGives
<1>2. ListedStored(d)'
  BY <1>1 DEF LogHeld, ListedStored, LogStays
<1>3. TaskLog(d)'
  BY <1>1 DEF LogHeld, TaskLog, TaskShape, LogStays, Moves, Reseals, PushPcs, Forcing
<1>4. \A i \in Ids : EntryMatches(d, i)'
  BY <1>1 DEF LogHeld, EntryMatches, LogStays, Moves, Reseals, Stored, Refreshing
<1> QED
  BY <1>2, <1>3, <1>4 DEF LogHeld

LEMMA LogEnters ==
  ASSUME LogInv, NEW d \in Devices, LogStays(d), task[d].pc \in {"idle", "meta"},
         NEW pc \in {"idle", "loop"}, NEW phase, NEW snap, NEW todo,
         Enters(d, pc, phase, snap, todo)
  PROVE  LogHeld(d)'
<1>1. LogHeld(d)
  BY LogGives
<1>2. ListedStored(d)'
  BY <1>1 DEF LogHeld, ListedStored, LogStays
<1>3. TaskLog(d)'
  BY DEF TaskLog, Enters, PushPcs, Forcing
<1>4. \A i \in Ids : i \in task[d].done => dirty[d][i] = 0
  BY <1>1 DEF LogHeld, TaskLog
<1>5. \A i \in Ids : EntryMatches(d, i)'
  BY <1>1, <1>4 DEF LogHeld, EntryMatches, LogStays, Stored, Refreshing
<1> QED
  BY <1>2, <1>3, <1>5 DEF LogHeld

LEMMA LogPull ==
  ASSUME LogInv, NEW d \in Devices, NEW i \in Ids, PullRecord(d, i)
  PROVE  LogHeld(d)'
<1> DEFINE r == task[d].snap[i]  l == local[d][i]
<1>1. /\ PullVerdict(d, i) /\ LogStays(d) /\ LogHeld(d) /\ task[d].pc = "loop"
  BY LogGives, PullRecordGives DEF LogStays, appVars, others
<1>2. ListedStored(d)'
  BY <1>1 DEF LogHeld, ListedStored, LogStays
<1>3. \A j \in Ids : EntryMatches(d, j)'
  BY <1>1 DEF LogHeld, EntryMatches, LogStays, PullVerdict, Hands, Passes, Stored, Refreshing
<1>4. ASSUME NEW pc \in {"apply", "assert"}, NEW env, NEW after, Hands(d, i, pc, env, after),
             pc = "assert" => IsKind(l, "tombstone"),
             after = "keep" => dirty[d][i] = 0 \/ IsKind(env, "tombstone")
      PROVE  TaskLog(d)'
  BY <1>1, <1>4 DEF TaskLog, Hands, LogStays, PushPcs, Forcing
<1>5. TaskLog(d)'
  <2>1. CASE Passes(d, i)
    BY <1>1, <2>1 DEF TaskLog, Passes, PushPcs, Forcing
  <2>2. CASE /\ TakesRemote(strategy[d], r, l, dirty[d][i] # 0)
             /\ Hands(d, i, "apply", r,
                      IF DropsDirty(r, l, dirty[d][i] # 0) THEN "drop" ELSE "keep")
    <3>1. dirty[d][i] # 0 => l # Nil
      BY <1>1 DEF LogHeld, ListedStored
    <3>2. ~DropsDirty(r, l, dirty[d][i] # 0) => dirty[d][i] = 0 \/ IsKind(r, "tombstone")
      BY <2>2, <3>1 DEF TakesRemote, DropsDirty
    <3> QED
      BY <1>4, <2>2, <3>2
  <2>3. CASE Reasserts(r, l) /\ Hands(d, i, "apply", AtVersion(l, r.v), "assert")
    BY <1>4, <2>3
  <2>4. CASE Reasserts(r, l) /\ Hands(d, i, "assert", l, "assert")
    BY <1>4, <2>4 DEF Reasserts
  <2> QED
    BY <1>1, <2>1, <2>2, <2>3, <2>4 DEF PullVerdict
<1> QED
  BY <1>2, <1>3, <1>5 DEF LogHeld

LEMMA LogApply ==
  ASSUME LogInv, NEW d \in Devices, ApplyRemote(d)
  PROVE  LogHeld(d)'
<1> USE DEF appVars, others
<1> DEFINE id == task[d].rec.id  env == task[d].rec.env
<1>1. /\ LogHeld(d) /\ TaskShape(d) /\ id \in Ids /\ env # Nil /\ task[d].pc = "apply"
      /\ Moves(d, "refresh") /\ UNCHANGED <<dirty, meta, app, unmarked>>
      /\ task[d].rec.after \in Afters
      /\ local'[d] = [local[d] EXCEPT ![id] = env] /\ local[d] \in [Ids -> Slots]
  BY LogGives, InHand, MovesTask, TaskRecord DEF ApplyRemote, RecordPcs
<1>2. ListedStored(d)'
  BY <1>1 DEF LogHeld, ListedStored
<1>3. TaskLog(d)'
  BY <1>1 DEF LogHeld, TaskLog, Moves, PushPcs, Forcing
<1>4. ASSUME NEW i \in Ids PROVE EntryMatches(d, i)'
  <2>1. CASE i # id
    BY <1>1, <2>1 DEF LogHeld, EntryMatches, Moves, Stored, Refreshing
  <2>2. CASE i = id
    <3>1. task[d].rec.after \in {"drop", "done"} \/ dirty[d][i] = 0 \/ IsKind(env, "tombstone")
      BY <1>1, <2>2 DEF Afters, LogHeld, TaskLog, TaskShape
    <3>2. local'[d][i] = env /\ dirty' = dirty
      BY <1>1, <2>2
    <3>3. task'[d].pc = "refresh" /\ task'[d].rec.id = i /\ task'[d].rec.after = task[d].rec.after
      BY <1>1, <2>2 DEF Moves
    <3> QED
      BY <3>1, <3>2, <3>3 DEF EntryMatches, Refreshing
  <2> QED
    BY <2>1, <2>2
<1> QED
  BY <1>2, <1>3, <1>4 DEF LogHeld

LEMMA LogInvalidate ==
  ASSUME LogInv, NEW d \in Devices, InvalidateCacheEntry(d)
  PROVE  LogHeld(d)'
<1> USE DEF appVars, others
<1> DEFINE id == task[d].rec.id  env == task[d].rec.env  after == task[d].rec.after
<1>1. /\ LogHeld(d) /\ TaskShape(d) /\ id \in Ids /\ task[d].pc = "refresh"
      /\ UNCHANGED <<local, meta, app, unmarked>> /\ after \in Afters
      /\ dirty' = IF after = "drop" THEN [dirty EXCEPT ![d][id] = 0] ELSE dirty
      /\ \/ after = "assert" /\ Moves(d, "assert")
         \/ after # "assert" /\ Finishes(d, after = "done")
  BY LogGives, InHand, InvalidateGives, TaskRecord DEF InvalidateCacheEntry, RecordPcs
<1>2. /\ \A i \in Ids : dirty'[d][i] = IF after = "drop" /\ i = id THEN 0 ELSE dirty[d][i]
  BY <1>1, LogGives
<1>3. ListedStored(d)'
  BY <1>1, <1>2 DEF LogHeld, ListedStored
<1>4. local[d][id] = env /\ (after = "assert" => IsKind(env, "tombstone"))
  BY <1>1 DEF LogHeld, TaskLog, TaskShape
<1>5. TaskLog(d)'
  BY <1>1, <1>4 DEF TaskLog, Moves, Finishes, PushPcs, Forcing
<1>6. ASSUME NEW i \in Ids PROVE EntryMatches(d, i)'
  <2>1. EntryMatches(d, i)
    BY <1>1 DEF LogHeld
  <2>2. i \in task[d].done => i \in task'[d].done
    BY <1>1 DEF Moves, Finishes
  <2>3. i = id /\ after = "done" => i \in task'[d].done
    BY <1>1 DEF Finishes
  <2> QED
    BY <1>1, <1>2, <2>1, <2>2, <2>3 DEF EntryMatches, Stored, Refreshing
<1> QED
  BY <1>3, <1>5, <1>6 DEF LogHeld

\* A record leaves the log: its tombstone was asserted, or its push has ended.
LEMMA LogLeaves ==
  ASSUME LogInv, NEW d \in Devices, ReassertTombstone(d) \/ PushFinish(d)
  PROVE  LogHeld(d)'
<1> USE DEF appVars, others
<1>1. /\ LogHeld(d) /\ UNCHANGED <<local, meta, app, unmarked>>
      /\ \A i \in Ids : dirty'[d][i] = 0 \/ dirty'[d][i] = dirty[d][i]
  <2>1. CASE ReassertTombstone(d)
    BY <2>1, LogGives DEF ReassertTombstone
  <2>2. CASE PushFinish(d)
    BY <2>2, LogGives DEF PushFinish
  <2> QED
    BY <2>1, <2>2
<1>2. ListedStored(d)'
  BY <1>1 DEF LogHeld, ListedStored
<1>3. CASE ReassertTombstone(d)
  <2>1. Finishes(d, FALSE) /\ task[d].pc = "assert"
    BY <1>3, LogGives, FinishesTask DEF ReassertTombstone
  <2>2. TaskLog(d)'
    BY <2>1 DEF TaskLog, Finishes, PushPcs, Forcing
  <2>3. \A i \in Ids : EntryMatches(d, i)'
    BY <1>1, <2>1 DEF LogHeld, EntryMatches, Finishes, Stored, Refreshing
  <2> QED
    BY <1>2, <2>2, <2>3 DEF LogHeld
<1>4. CASE PushFinish(d)
  <2>1. Moves(d, "meta") /\ task[d].pc = "loop" /\ task[d].done \subseteq Ids
    BY <1>4, LogGives, MovesTask, TaskRecord DEF PushFinish
  <2>2. \A i \in Ids : i \in task[d].done => dirty'[d][i] = 0
    BY <1>4, LogGives DEF PushFinish
  <2>3. TaskLog(d)'
    BY <2>1, <2>2 DEF TaskLog, Moves, PushPcs, Forcing
  <2>4. \A i \in Ids : EntryMatches(d, i)'
    BY <1>1, <2>1 DEF LogHeld, EntryMatches, Moves, Stored, Refreshing
  <2> QED
    BY <1>2, <2>3, <2>4 DEF LogHeld
<1> QED
  BY <1>3, <1>4

LEMMA LogOfCall ==
  ASSUME LogInv, NEW d \in Devices, CommitCall(d) \/ FinishCall(d)
  PROVE  LogHeld(d)'
<1> USE DEF appVars, others
<1> DEFINE id == app[d].id  env == app[d].env
<1>1. /\ LogHeld(d) /\ CallHeld(d) /\ UNCHANGED <<task, meta>> /\ app[d] \in Calls
      /\ app[d].pc # "idle" /\ task[d].pc = "idle"
  BY LogGives, DeviceTypes DEF CommitCall, FinishCall
<1>2. id \in Ids /\ env \in Envelopes /\ env # Nil /\ env.v \in Nat
  BY <1>1, NilAssumption DEF Calls, NoCall, Envelopes
<1>3. TaskLog(d)'
  BY <1>1 DEF LogHeld, TaskLog, PushPcs, Forcing
<1>4. CASE CommitCall(d)
  <2>1. /\ app'[d].pc = "stored" /\ app'[d].id = id /\ UNCHANGED <<dirty, unmarked>>
        /\ local'[d] = [local[d] EXCEPT ![id] = env] /\ local[d] \in [Ids -> Slots]
        /\ app[d].pc = "prepared"
    BY <1>1, <1>2, <1>4, LogGives DEF CommitCall, Calls, NoCall
  <2>2. ListedStored(d)'
    BY <1>1, <1>2, <2>1 DEF LogHeld, ListedStored
  <2>3. \A i \in Ids : EntryMatches(d, i)'
    BY <1>1, <1>2, <2>1 DEF LogHeld, EntryMatches, Stored, Refreshing
  <2> QED
    BY <1>3, <2>2, <2>3 DEF LogHeld
<1>5. CASE FinishCall(d)
  <2>1. /\ local' = local /\ local[d][id] = env /\ unmarked' = unmarked \ {<<d, id>>}
        /\ dirty'[d] = [dirty[d] EXCEPT ![id] = env.v] /\ dirty[d] \in [Ids -> Nat]
        /\ app[d].pc = "stored"
    BY <1>1, <1>2, <1>5, LogGives DEF FinishCall, TrackChange, CallHeld
  <2>2. ListedStored(d)'
    BY <1>1, <1>2, <2>1 DEF LogHeld, ListedStored
  <2>3. \A i \in Ids : EntryMatches(d, i)'
    BY <1>1, <1>2, <2>1 DEF LogHeld, EntryMatches, Stored, Refreshing
  <2> QED
    BY <1>3, <2>2, <2>3 DEF LogHeld
<1> QED
  BY <1>4, <1>5

LEMMA LogCrash ==
  ASSUME LogInv, NEW d \in Devices, Crash(d)
  PROVE  LogHeld(d)'
<1> USE DEF appVars, others
<1>1. /\ LogHeld(d) /\ UNCHANGED <<local, meta>> /\ dirty'[d] = meta[d]
      /\ Enters(d, "idle", "pull", NoSnap, {})
      /\ \A i \in Ids : MarkLost(d, i) => <<d, i>> \in unmarked'
  BY LogGives, EntersTask DEF Crash
<1>2. ListedStored(d)'
  BY <1>1 DEF LogHeld, ListedStored
<1>3. TaskLog(d)'
  BY <1>1 DEF TaskLog, Enters, PushPcs, Forcing
<1>4. \A i \in Ids : EntryMatches(d, i)'
  BY <1>1 DEF LogHeld, ListedStored, EntryMatches, MarkLost
<1> QED
  BY <1>2, <1>3, <1>4 DEF LogHeld

LEMMA LogHeldStep ==
  ASSUME LogInv, NEW d \in Devices, Step(d)
  PROVE  LogHeld(d)'
<1> USE DEF appVars, others, LogStays
<1>t. TypeInv /\ ShapeInv /\ LogHeld(d)
  BY LogGives
<1>1. CASE RemoteFails(d) \/ AnswerLost(d)
  <2>1. Finishes(d, FALSE) /\ task[d].pc # "refresh" /\ LogStays(d)
    BY <1>1, <1>t, FinishesTask DEF RemoteFails, AnswerLost, Forcing
  <2> QED
    BY <2>1, LogFinishes
<1>2. CASE PullFinish(d)
  BY <1>2, <1>t, MovesTask, LogMoves DEF PullFinish
<1>3. CASE PushRead(d)
  BY <1>3, <1>t, PushReadGives, LogFinishes, LogMoves DEF PushRead
<1>4. CASE PushPut(d)
  BY <1>4, <1>t, PushPutGives, LogFinishes, LogMoves DEF PushPut
<1>5. CASE PushResolve(d)
  BY <1>5, <1>t, PushResolveGives, LogFinishes, LogMoves DEF PushResolve
<1>6. CASE PushForce(d)
  BY <1>6, <1>t, PushForceGives, LogFinishes, LogMoves DEF PushForce
<1>7. CASE SaveMeta(d)
  <2>1. LogStays(d) /\ task[d].pc = "meta"
    BY <1>7, LogGives DEF SaveMeta
  <2> QED
    BY <1>7, <1>t, <2>1, EntersTask, LogEnters
<1>8. CASE Start(d)
  <2>1. LogStays(d) /\ task[d].pc = "idle"
    BY <1>8 DEF Start, PushStart, PullStart, TaskMayStart
  <2> QED
    BY <1>8, <1>t, <2>1, EntersTask, LogEnters DEF Start
<1>9. CASE PersistMeta(d)
  <2>1. LogStays(d) /\ task' = task
    BY <1>9, LogGives DEF PersistMeta
  <2> QED
    BY <1>t, <2>1 DEF LogHeld, ListedStored, TaskLog, EntryMatches, Stored, Refreshing
<1>10. ASSUME NEW i \in Ids, PushRecord(d, i)
       PROVE  LogHeld(d)'
  <2>1. Visits(d, i) /\ LogStays(d) /\ dirty[d][i] # 0 /\ task[d].pc = "loop"
    BY <1>10, <1>t, VisitsTask DEF PushRecord
  <2>2. ListedStored(d)' /\ TaskLog(d)'
    BY <1>t, <2>1 DEF LogHeld, ListedStored, TaskLog, Visits
  <2>3. \A j \in Ids : EntryMatches(d, j)'
    BY <1>t, <2>1 DEF LogHeld, EntryMatches, Visits, Stored, Refreshing
  <2> QED
    BY <2>2, <2>3 DEF LogHeld
<1>11. ASSUME NEW i \in Ids, PreparePut(d, i) \/ PrepareDelete(d, i) \/ PrepareForget(d, i)
       PROVE  LogHeld(d)'
  <2>1. \E env : Prepare(d, i, env)
    BY <1>11 DEF PreparePut, PrepareDelete, PrepareForget
  <2>2. UNCHANGED <<local, dirty, meta, task, unmarked>> /\ app[d].pc = "idle"
    BY <2>1 DEF Prepare, AppMayCall
  <2> QED
    BY <1>t, <2>2 DEF LogHeld, ListedStored, TaskLog, EntryMatches, Stored, Refreshing
<1> QED
  BY <1>1, <1>2, <1>3, <1>4, <1>5, <1>6, <1>7, <1>8, <1>9, <1>10, <1>11, LogPull, LogApply,
     LogInvalidate, LogLeaves, LogOfCall, LogCrash DEF Step, AppStep, TaskStep

\* The lost marks of another device are left alone.
LEMMA OtherMarks ==
  ASSUME TypeInv, NEW d \in Devices, Step(d), NEW e \in Devices, e # d
  PROVE  \A i \in Ids : <<e, i>> \in unmarked' <=> <<e, i>> \in unmarked
<1> USE DEF appVars, others, remoteVars
<1>1. CASE AppStep(d)
  BY <1>1 DEF AppStep, PreparePut, PrepareDelete, PrepareForget, Prepare, CommitCall, FinishCall
<1>2. CASE TaskStep(d)
  BY <1>2 DEF TaskStep, PullRecord, PushRecord, ApplyRemote, InvalidateCacheEntry,
    ReassertTombstone, PullFinish, PushFinish, SaveMeta, PushRead, PushPut, PushResolve, PushForce
<1>3. CASE Start(d) \/ PersistMeta(d) \/ RemoteFails(d) \/ AnswerLost(d)
  BY <1>3 DEF Start, PushStart, PullStart, PersistMeta, RemoteFails, AnswerLost
<1>4. CASE Crash(d)
  BY <1>4 DEF Crash
<1> QED
  BY <1>1, <1>2, <1>3, <1>4 DEF Step

LEMMA LogInvStep == ~AppDuringSync /\ LogInv /\ [Next]_vars => LogInv'
<1> SUFFICES ASSUME ~AppDuringSync, LogInv, [Next]_vars PROVE LogInv'
  OBVIOUS
<1>1. CallInv'
  BY CallInvStep DEF LogInv
<1>2. CASE UNCHANGED vars
  BY <1>1, <1>2 DEF vars, LogInv, LogHeld, ListedStored, TaskLog, EntryMatches, Stored, Refreshing
<1>3. ASSUME NEW d \in Devices, Step(d), NEW e \in Devices, e # d
      PROVE  LogHeld(e)'
  <2>1. TypeInv /\ LogHeld(e)
    BY LogGives
  <2>2. /\ task'[e] = task[e] /\ app'[e] = app[e] /\ local'[e] = local[e]
        /\ dirty'[e] = dirty[e] /\ meta'[e] = meta[e]
        /\ \A i \in Ids : <<e, i>> \in unmarked' <=> <<e, i>> \in unmarked
    BY <1>3, <2>1, OthersUntouched, OtherLogs, OtherMarks
  <2> QED
    BY <2>1, <2>2 DEF LogHeld, ListedStored, TaskLog, EntryMatches, Stored, Refreshing
<1> QED
  BY <1>1, <1>2, <1>3, LogHeldStep DEF Next, LogInv

LEMMA LogInvInit == Init => LogInv
<1> SUFFICES ASSUME Init, NEW d \in Devices PROVE LogHeld(d)
  BY CallInvInit DEF LogInv
<1>1. /\ task[d].pc = "idle" /\ task[d].done = {}
      /\ \A i \in Ids : dirty[d][i] = 0 /\ meta[d][i] = 0
  BY DEF Init, IdleTask
<1> QED
  BY <1>1 DEF LogHeld, ListedStored, TaskLog, EntryMatches, PushPcs, Forcing

LEMMA LogInvariance == ~AppDuringSync => (Spec => []LogInv)
<1> SUFFICES ASSUME ~AppDuringSync PROVE Spec => []LogInv
  OBVIOUS
<1>1. LogInv /\ [Next]_vars => LogInv'
  BY LogInvStep
<1> QED
  BY <1>1, LogInvInit, PTL DEF Spec

\* While a device's application does not write during its own sync, a dirty entry at rest
\* names a record the store holds, at the version the store holds it: what its push
\* compares and swaps against is the predecessor of what it sends.  Only a crash that
\* lost the record's own mark can separate the two.
THEOREM EntriesNameStoredVersions == ~AppDuringSync => (Spec => []DirtyVersionMatches)
<1> SUFFICES ASSUME ~AppDuringSync PROVE Spec => []DirtyVersionMatches
  OBVIOUS
<1>1. LogInv => DirtyVersionMatches
  BY DEF LogInv, LogHeld, ListedStored, EntryMatches, DirtyVersionMatches, AtRest,
         Stored, Refreshing
<1> QED
  BY <1>1, LogInvariance, PTL

-----------------------------------------------------------------------------
(* What a sync writes to the remote. *)

\* The device's task puts the envelope it has in hand to the remote.
PutsRecord(d) ==
  LET id == task[d].rec.id  env == task[d].rec.env
  IN /\ task[d].pc \in {"assert", "put"} \cup Forcing
     /\ PutRemote(id, env)
     /\ task[d].pc \in Forcing \/ RemoteOpen(d, id)
     /\ task[d].pc = "put" /\ ~IsKind(env, "tombstone") =>
          CasAccepts(remote[id], task[d].rec.ver - 1)
     /\ \/ Finishes(d, FALSE)
        \/ task[d].pc \in {"put", "force"} /\ Finishes(d, TRUE)
        \/ task[d].pc = "forceApply" /\ Moves(d, "apply")
     /\ local'[d] = local[d] /\ app'[d] = app[d]

LEMMA RemoteWrites ==
  ASSUME ShapeInv, NEW d \in Devices, Step(d)
  PROVE  PutsRecord(d) \/ UNCHANGED remoteVars
<1> USE DEF appVars, others
<1>t. TypeInv
  BY ShapeGives
<1>1. CASE AnswerLost(d) \/ ReassertTombstone(d)
  BY <1>1, <1>t, FinishesTask DEF AnswerLost, ReassertTombstone, PutsRecord, Forcing
<1>2. CASE PushPut(d)
  BY <1>2, <1>t, PushPutGives DEF PushPut, PutsRecord
<1>3. CASE PushForce(d)
  BY <1>3, <1>t, PushForceGives DEF PushForce, PutsRecord, Forcing
<1>4. CASE AppStep(d)
  BY <1>4 DEF AppStep, PreparePut, PrepareDelete, PrepareForget, Prepare, CommitCall, FinishCall
<1>5. CASE TaskStep(d) /\ ~PushPut(d) /\ ~PushForce(d) /\ ~ReassertTombstone(d)
  BY <1>5 DEF TaskStep, PullRecord, PushRecord, ApplyRemote, InvalidateCacheEntry,
              PullFinish, PushFinish, SaveMeta, PushRead, PushResolve
<1>6. CASE Start(d) \/ PersistMeta(d) \/ RemoteFails(d) \/ Crash(d)
  BY <1>6 DEF Start, PushStart, PullStart, PersistMeta, RemoteFails, Crash
<1> QED
  BY <1>1, <1>2, <1>3, <1>4, <1>5, <1>6 DEF Step, TaskStep

\* A conflict's winner supersedes what the remote holds, and no other device writes it.
ForceHeld(d) ==
  task[d].pc \in Forcing =>
    /\ Supersedes(task[d].rec.env, remote[task[d].rec.id])
    /\ \A e \in Devices \ {d} :
         task[e].pc \in Forcing => task[e].rec.id # task[d].rec.id

ForceInv == LogInv /\ \A d \in Devices : ForceHeld(d)

LEMMA WinnerSupersedes ==
  ASSUME NEW r \in Slots, r # Nil, NEW env \in Envelopes
  PROVE  /\ Supersedes(AdvancePastRemote(env, r), r)
         /\ DeleteTie(r, env) /\ ~IsKind(r, "marker") => Supersedes(env, r)
<1>1. r.v \in Nat /\ env.v \in Nat
  BY SlotShape DEF Envelopes
<1>2. AtVersion(env, r.v + 1).v = r.v + 1
  BY <1>1, MintedVersions
<1>3. AdvancePastRemote(env, r).v > r.v
  BY <1>1, <1>2 DEF AdvancePastRemote
<1>4. ASSUME DeleteTie(r, env), ~IsKind(r, "marker")
      PROVE  Supersedes(env, r)
  <2>1. DeleteTie(env, r) /\ IsKind(env, "marker")
    BY <1>4, Zenon DEF DeleteTie, IsKind
  <2> QED
    BY <2>1 DEF Supersedes
<1> QED
  BY <1>3, <1>4 DEF Supersedes

\* Only resolving a refused put leads to a forced one.
LEMMA ForcingBegins ==
  ASSUME ShapeInv, NEW d \in Devices, Step(d), task'[d].pc \in Forcing
  PROVE  \/ task'[d] = task[d]
         \/ /\ PushResolve(d) /\ UNCHANGED remote
            /\ \/ /\ DeleteTie(remote[task[d].rec.id], task[d].rec.env)
                  /\ ~IsKind(remote[task[d].rec.id], "marker")
                  /\ task'[d].rec.env = task[d].rec.env
               \/ task'[d].rec.env = AdvancePastRemote(task[d].rec.env, remote[task[d].rec.id])
            /\ task'[d].rec.id = task[d].rec.id /\ remote[task[d].rec.id] # Nil
<1> USE DEF Forcing
<1>t. TypeInv
  BY ShapeGives
<1>1. CASE AppStep(d) \/ PersistMeta(d)
  BY <1>1 DEF AppStep, PreparePut, PrepareDelete, PrepareForget, Prepare, CommitCall,
              FinishCall, PersistMeta
<1>2. CASE ApplyRemote(d) \/ PullFinish(d) \/ PushFinish(d)
  BY <1>2, <1>t, MovesTask DEF ApplyRemote, PullFinish, PushFinish, Moves
<1>3. CASE InvalidateCacheEntry(d)
  BY <1>3, <1>t, InvalidateGives DEF Moves, Finishes
<1>4. ASSUME NEW i \in Ids, PullRecord(d, i) PROVE FALSE
  BY <1>4, <1>t, PullRecordGives DEF PullVerdict, Hands, Passes
<1>5. ASSUME NEW i \in Ids, PushRecord(d, i) PROVE FALSE
  BY <1>5, <1>t, VisitsTask DEF Visits
<1>6. CASE ReassertTombstone(d) \/ RemoteFails(d) \/ AnswerLost(d)
  BY <1>6, <1>t, FinishesTask DEF ReassertTombstone, RemoteFails, AnswerLost, Finishes
<1>7. CASE PushRead(d) \/ PushPut(d) \/ PushForce(d)
  BY <1>7, <1>t, PushReadGives, PushPutGives, PushForceGives DEF Finishes, Moves, Reseals
<1>8. CASE SaveMeta(d) \/ Start(d) \/ Crash(d)
  BY <1>8, <1>t, EntersTask DEF Start, Enters
<1>9. CASE PushResolve(d)
  <2>1. UNCHANGED remote
    BY <1>9 DEF PushResolve, remoteVars
  <2> QED
    BY <1>9, <1>t, <2>1, PushResolveGives DEF Finishes, Reseals
<1> QED
  BY <1>1, <1>2, <1>3, <1>4, <1>5, <1>6, <1>7, <1>8, <1>9 DEF Step, TaskStep

LEMMA ForceInvStep == ~AppDuringSync /\ ~ResolveWindow /\ ForceInv /\ [Next]_vars => ForceInv'
<1> SUFFICES ASSUME ~AppDuringSync, ~ResolveWindow, ForceInv, [Next]_vars PROVE ForceInv'
  OBVIOUS
<1>1. LogInv'
  BY LogInvStep DEF ForceInv
<1>2. CASE UNCHANGED vars
  BY <1>1, <1>2 DEF vars, ForceInv, ForceHeld
<1>3. ASSUME NEW d \in Devices, Step(d), NEW e \in Devices
      PROVE  ForceHeld(e)'
  <2> SUFFICES ASSUME task'[e].pc \in Forcing
               PROVE  /\ Supersedes(task'[e].rec.env, remote'[task'[e].rec.id])
                      /\ \A f \in Devices \ {e} :
                           task'[f].pc \in Forcing => task'[f].rec.id # task'[e].rec.id
    BY DEF ForceHeld
  <2>t. /\ LogInv /\ ShapeInv /\ TypeInv /\ \A f \in Devices : ForceHeld(f)
        /\ \A f \in Devices : f # d => task'[f] = task[f]
    BY <1>3, LogGives, OthersUntouched DEF ForceInv
  \* A device that was forcing already: no other put reaches its record.
  <2>1. ASSUME NEW f \in Devices, task[f].pc \in Forcing, task'[f] = task[f],
               task'[f].pc \in Forcing
        PROVE  Supersedes(task'[f].rec.env, remote'[task'[f].rec.id])
    <3>1. CASE UNCHANGED remoteVars
      BY <2>t, <2>1, <3>1 DEF ForceHeld, remoteVars
    <3>2. CASE PutsRecord(d)
      <4>1. f # d
        BY <2>1, <3>2 DEF PutsRecord, Finishes, Moves, Forcing
      <4>2. task[d].rec.id # task[f].rec.id
        BY <2>t, <2>1, <3>2, <4>1 DEF PutsRecord, RemoteOpen, ForceHeld
      <4>3. remote'[task[f].rec.id] = remote[task[f].rec.id]
        BY <2>t, <3>2, <4>2 DEF PutsRecord, PutRemote, TypeInv, TypeOK
      <4> QED
        BY <2>t, <2>1, <4>3 DEF ForceHeld
    <3> QED
      BY <1>3, <2>t, <3>1, <3>2, RemoteWrites
  \* A device that begins to force.
  <2>2. ASSUME task'[d].pc \in Forcing, task'[d] # task[d]
        PROVE  /\ Supersedes(task'[d].rec.env, remote'[task'[d].rec.id])
               /\ \A f \in Devices \ {d} :
                    task[f].pc \in Forcing => task[f].rec.id # task'[d].rec.id
    <3> DEFINE id == task[d].rec.id  env == task[d].rec.env
    <3>1. PushResolve(d) /\ UNCHANGED remote /\ task'[d].rec.id = id /\ remote[id] # Nil
      BY <1>3, <2>t, <2>2, ForcingBegins
    <3>2. id \in Ids /\ env \in Envelopes /\ remote[id] \in Slots
      BY <2>t, <3>1, InHand, DeviceTypes DEF PushResolve, RecordPcs
    <3>3. Supersedes(task'[d].rec.env, remote[id])
      BY <1>3, <2>t, <2>2, <3>1, <3>2, ForcingBegins, WinnerSupersedes
    <3> QED
      BY <3>1, <3>3 DEF PushResolve, RemoteOpen
  <2>3. CASE e = d /\ task'[d] # task[d]
    BY <2>t, <2>2, <2>3
  <2>4. CASE e # d \/ task'[d] = task[d]
    <3>1. task'[e] = task[e]
      BY <2>t, <2>4
    <3>2. \A f \in Devices \ {e} :
            task'[f].pc \in Forcing => task'[f].rec.id # task'[e].rec.id
      <4> SUFFICES ASSUME NEW f \in Devices, f # e, task'[f].pc \in Forcing
                   PROVE  task'[f].rec.id # task'[e].rec.id
        OBVIOUS
      <4>1. CASE task'[f] = task[f]
        BY <2>t, <3>1, <4>1 DEF ForceHeld
      <4>2. CASE task'[f] # task[f]
        <5>1. f = d
          BY <2>t, <4>2
        <5> QED
          BY <2>2, <3>1, <4>2, <5>1
      <4> QED
        BY <4>1, <4>2
    <3> QED
      BY <2>1, <3>1, <3>2
  <2> QED
    BY <2>3, <2>4
<1> QED
  BY <1>1, <1>2, <1>3 DEF Next, ForceInv

LEMMA ForceInvariance == ~AppDuringSync /\ ~ResolveWindow => (Spec => []ForceInv)
<1> SUFFICES ASSUME ~AppDuringSync, ~ResolveWindow PROVE Spec => []ForceInv
  OBVIOUS
<1>1. Init => ForceInv
  BY LogInvInit DEF Init, IdleTask, ForceInv, ForceHeld, Forcing
<1>2. ForceInv /\ [Next]_vars => ForceInv'
  BY ForceInvStep
<1> QED
  BY <1>1, <1>2, PTL DEF Spec

LEMMA PutSupersedes ==
  ASSUME ForceInv, NEW d \in Devices, Step(d), NEW i \in Ids,
         remote'[i] # remote[i], MarksIntact(i)
  PROVE  Supersedes(remote'[i], remote[i])
<1> DEFINE id == task[d].rec.id  env == task[d].rec.env
<1>t. LogInv /\ ShapeInv /\ TypeInv /\ LogHeld(d) /\ CallHeld(d) /\ TaskShape(d) /\ ForceHeld(d)
  BY LogGives DEF ForceInv
<1>1. PutsRecord(d)
  <2>1. ~UNCHANGED remoteVars
    BY DEF remoteVars
  <2> QED
    BY <1>t, <2>1, RemoteWrites
<1>2. id \in Ids /\ env \in Envelopes
  BY <1>t, <1>1, InHand DEF PutsRecord, RecordPcs, Forcing
<1>3. i = id /\ remote'[i] = env
  BY <1>t, <1>1, <1>2 DEF PutsRecord, PutRemote, TypeInv, TypeOK
<1>4. CASE task[d].pc \in Forcing
  BY <1>t, <1>3, <1>4 DEF ForceHeld
<1>5. CASE IsKind(env, "tombstone")
  BY <1>3, <1>5 DEF Supersedes
<1>6. CASE task[d].pc = "put" /\ ~IsKind(env, "tombstone")
  <2>1. /\ CasAccepts(remote[id], task[d].rec.ver - 1) /\ env = local[d][id]
        /\ task[d].rec.ver = dirty[d][id] /\ dirty[d][id] # 0 /\ dirty[d][id] \in Nat
    BY <1>t, <1>1, <1>2, <1>6, DeviceTypes DEF PutsRecord, LogHeld, TaskLog, PushPcs
  <2>2. app[d].pc = "idle" /\ id \notin task[d].done /\ <<d, id>> \notin unmarked
    BY <1>t, <1>3, <1>6 DEF CallHeld, TaskShape, MarksIntact
  <2>3. env.v = task[d].rec.ver
    BY <1>t, <1>2, <1>6, <2>1, <2>2 DEF LogHeld, EntryMatches, Stored, Refreshing
  <2> QED
    BY <1>3, <2>1, <2>3 DEF CasAccepts, Supersedes
<1>7. CASE task[d].pc = "assert"
  BY <1>t, <1>5, <1>7 DEF TaskShape
<1> QED
  BY <1>1, <1>4, <1>5, <1>6, <1>7 DEF PutsRecord

\* Any number of devices push at the same time: as long as no device writes the record
\* between the reading of a conflict and the put of its winner, and no crash lost the
\* record's mark, every write of the remote supersedes what it replaces.
THEOREM PushesSupersede ==
  ~AppDuringSync /\ ~ResolveWindow => (Spec => SupersedesRemote)
<1> SUFFICES ASSUME ~AppDuringSync, ~ResolveWindow PROVE Spec => SupersedesRemote
  OBVIOUS
<1> DEFINE A == \A id \in Ids :
                  \/ remote'[id] = remote[id]
                  \/ Supersedes(remote'[id], remote[id])
                  \/ ~MarksIntact(id)
<1>1. ForceInv /\ [Next]_vars => [A]_vars
  BY PutSupersedes DEF Next
<1> QED
  BY <1>1, ForceInvariance, PTL DEF Spec, SupersedesRemote

\* Only a record that is live or deleted again over its tombstone, or one that a crash cut
\* off from its mark, has its remote copy set back.
SetBackOverErasure ==
  [][\A id \in Ids :
       id \in setBack' =>
         id \in setBack \/ IsKind(remote[id], "tombstone") \/ ~MarksIntact(id)]_vars

\* Under the same conditions the remote's copy of a record is never set back, except where
\* a put re-creates a record over its tombstone: the exception NoSilentDivergence makes.
THEOREM SetBackIsReCreation ==
  ~AppDuringSync /\ ~ResolveWindow => (Spec => SetBackOverErasure)
<1> SUFFICES ASSUME ~AppDuringSync, ~ResolveWindow PROVE Spec => SetBackOverErasure
  OBVIOUS
<1> DEFINE A == \A id \in Ids :
             id \in setBack' =>
               id \in setBack \/ IsKind(remote[id], "tombstone") \/ ~MarksIntact(id)
<1>1. ForceInv /\ [Next]_vars => [A]_vars
  <2> SUFFICES ASSUME ForceInv, NEW d \in Devices, Step(d), NEW i \in Ids,
                      i \in setBack', i \notin setBack, MarksIntact(i)
               PROVE  IsKind(remote[i], "tombstone")
    BY DEF Next
  <2> DEFINE id == task[d].rec.id  env == task[d].rec.env
  <2>t. ShapeInv /\ TypeInv
    BY LogGives DEF ForceInv
  <2>1. PutsRecord(d)
    <3>1. ~UNCHANGED remoteVars
      BY DEF remoteVars
    <3> QED
      BY <2>t, <3>1, RemoteWrites
  <2>2. id \in Ids
    BY <2>t, <2>1, InHand DEF PutsRecord, RecordPcs
  <2>3. i = id /\ ~Forward(env, remote[i]) /\ remote'[i] = env
    BY <2>t, <2>1, <2>2 DEF PutsRecord, PutRemote, TypeInv, TypeOK
  <2>4. remote'[i] # remote[i]
    BY <2>3 DEF Forward
  <2>5. Supersedes(env, remote[i])
    BY <2>3, <2>4, PutSupersedes
  <2> QED
    BY <2>3, <2>5 DEF Forward
<1> QED
  BY <1>1, ForceInvariance, PTL DEF Spec, SetBackOverErasure

-----------------------------------------------------------------------------
(* No two copies that no sync would tell apart. *)

\* The remote holds a copy, or something a pull of that copy acts upon.
Settled(slot, copy) ==
  /\ slot # Nil /\ copy # Nil
  /\ slot = copy \/ IsKind(copy, "tombstone") \/ Supersedes(slot, copy)

\* The records whose remote copy no put has set back.
Unset == Ids \ setBack

StoreSettled(d) ==
  \A i \in Unset :
    local[d][i] # Nil /\ dirty[d][i] = 0 =>
      Settled(remote[i], local[d][i]) \/ <<d, i>> \in unmarked \/ Stored(d, i)

DoneSettled(d) == \A i \in Unset : i \in task[d].done => Settled(remote[i], local[d][i])

SnapSettled(d) ==
  \A i \in Unset : task[d].snap[i] # Nil => Settled(remote[i], task[d].snap[i])

HandSettled(d) ==
  task[d].rec.id \in Unset /\ task[d].pc \in {"apply", "refresh"} =>
    Settled(remote[task[d].rec.id], task[d].rec.env)

CopiesHeld(d) == StoreSettled(d) /\ DoneSettled(d) /\ SnapSettled(d) /\ HandSettled(d)

CopiesInv == LogInv /\ \A d \in Devices : CopiesHeld(d)

LEMMA CopiesGive ==
  ASSUME CopiesInv, NEW d \in Devices
  PROVE  /\ LogInv /\ CopiesHeld(d) /\ remote \in [Ids -> Slots]
         /\ TypeInv /\ ShapeInv /\ CallInv /\ TaskShape(d) /\ CallHeld(d) /\ LogHeld(d)
         /\ app[d].pc = "idle" \/ task[d].pc = "idle"
         /\ dirty \in [Devices -> [Ids -> Nat]] /\ meta \in [Devices -> [Ids -> Nat]]
         /\ local \in [Devices -> [Ids -> Slots]] /\ app \in [Devices -> Calls]
BY LogGives DEF CopiesInv, TypeInv, TypeOK

LEMMA TieIsMarker ==
  ASSUME NEW r, NEW l, DeleteTie(r, l)
  PROVE  r.v = l.v /\ (IsKind(r, "marker") => ~IsKind(l, "marker"))
BY Zenon DEF DeleteTie, IsKind

\* A copy the remote settles stays settled when the remote goes forward.
LEMMA SettledForward ==
  ASSUME NEW copy \in Slots, copy # Nil, NEW slot \in Slots, NEW next \in Slots,
         next # Nil, Settled(slot, copy), Forward(next, slot)
  PROVE  Settled(next, copy)
<1>1. slot # Nil /\ slot.v \in Nat /\ copy.v \in Nat /\ next.v \in Nat
  BY SlotShape DEF Settled
<1>2. CASE next = slot \/ IsKind(copy, "tombstone") \/ slot = copy \/ IsKind(next, "tombstone")
  BY <1>1, <1>2 DEF Settled, Forward, Supersedes
<1>3. CASE /\ Supersedes(slot, copy) /\ Supersedes(next, slot) /\ ~IsKind(slot, "tombstone")
           /\ ~IsKind(next, "tombstone")
  <2>1. slot.v > copy.v \/ (DeleteTie(slot, copy) /\ IsKind(slot, "marker"))
    BY <1>3 DEF Supersedes
  <2>2. next.v > slot.v \/ (DeleteTie(next, slot) /\ IsKind(next, "marker"))
    BY <1>1, <1>3 DEF Supersedes
  <2>3. next.v > copy.v
    BY <1>1, <2>1, <2>2, TieIsMarker
  <2> QED
    BY <2>3 DEF Settled, Supersedes
<1> QED
  BY <1>2, <1>3 DEF Settled, Forward

\* What is settled before a step is settled after it, unless it set the remote back.
LEMMA StaysSettled ==
  ASSUME ShapeInv, NEW d \in Devices, Step(d)
  PROVE  /\ Unset' \subseteq Unset
         /\ \A i \in Unset' : \A copy \in Slots :
              copy # Nil /\ Settled(remote[i], copy) => Settled(remote'[i], copy)
<1>t. TypeInv /\ remote \in [Ids -> Slots]
  BY ShapeGives DEF TypeInv, TypeOK
<1>1. CASE UNCHANGED remoteVars
  BY <1>1 DEF remoteVars, Unset, Settled
<1>2. CASE PutsRecord(d)
  <2> DEFINE id == task[d].rec.id  env == task[d].rec.env
  <2>1. id \in Ids /\ env \in Slots /\ env # Nil /\ PutRemote(id, env)
    BY <1>2, InHand DEF PutsRecord, RecordPcs, Forcing
  <2>2. /\ \A i \in Ids : i # id => remote'[i] = remote[i]
        /\ remote'[id] = env
        /\ id \in Unset' => Forward(env, remote[id])
    BY <1>t, <2>1 DEF PutRemote, Unset
  <2>3. Unset' \subseteq Unset /\ Unset' \subseteq Ids
    BY <2>1 DEF PutRemote, Unset
  <2>4. ASSUME NEW i \in Unset', NEW copy \in Slots, copy # Nil, Settled(remote[i], copy)
        PROVE  Settled(remote'[i], copy)
    <3>1. CASE i = id
      BY <1>t, <2>1, <2>2, <2>4, <3>1, SettledForward
    <3>2. CASE i # id
      BY <2>2, <2>3, <2>4, <3>2 DEF Settled
    <3> QED
      BY <3>1, <3>2
  <2> QED
    BY <2>3, <2>4
<1> QED
  BY <1>1, <1>2, RemoteWrites

\* What a record a put wrote is settled by.
LEMMA PutSettles ==
  ASSUME ShapeInv, NEW d \in Devices, PutsRecord(d)
  PROVE  /\ task[d].rec.id \in Ids /\ remote'[task[d].rec.id] = task[d].rec.env
         /\ task[d].rec.env # Nil /\ Settled(remote'[task[d].rec.id], task[d].rec.env)
BY InHand, ShapeGives DEF PutsRecord, PutRemote, RecordPcs, Forcing, TypeInv, TypeOK, Settled

\* The steps that leave the store and the log of their device alone.
StoreStays(d) ==
  /\ local'[d] = local[d] /\ dirty'[d] = dirty[d] /\ unmarked' = unmarked
  /\ app'[d] = app[d] \/ app[d].pc = "idle"

LEMMA StoreStaysSteps ==
  ASSUME NEW d \in Devices, Step(d)
  PROVE  \/ CommitCall(d) \/ FinishCall(d) \/ ApplyRemote(d) \/ InvalidateCacheEntry(d)
         \/ ReassertTombstone(d) \/ PushFinish(d) \/ Crash(d) \/ StoreStays(d)
<1> USE DEF appVars, others, StoreStays
<1>1. ASSUME NEW i \in Ids, PreparePut(d, i) \/ PrepareDelete(d, i) \/ PrepareForget(d, i)
      PROVE  StoreStays(d)
  BY <1>1 DEF PreparePut, PrepareDelete, PrepareForget, Prepare, AppMayCall
<1>2. ASSUME NEW i \in Ids, PullRecord(d, i) \/ PushRecord(d, i)
      PROVE  StoreStays(d)
  BY <1>2 DEF PullRecord, PushRecord
<1>3. CASE PullFinish(d) \/ PushRead(d) \/ PushPut(d) \/ PushResolve(d) \/ PushForce(d)
           \/ SaveMeta(d)
  BY <1>3 DEF PullFinish, PushRead, PushPut, PushResolve, PushForce, SaveMeta
<1>4. CASE Start(d) \/ PersistMeta(d) \/ RemoteFails(d) \/ AnswerLost(d)
  BY <1>4 DEF Start, PushStart, PullStart, PersistMeta, RemoteFails, AnswerLost
<1> QED
  BY <1>1, <1>2, <1>3, <1>4 DEF Step, AppStep, TaskStep

LEMMA StoreSettledStep ==
  ASSUME CopiesInv, NEW d \in Devices, Step(d)
  PROVE  StoreSettled(d)'
<1> USE DEF appVars, others
<1>t. /\ CopiesHeld(d) /\ StoreSettled(d) /\ TypeInv /\ ShapeInv /\ LogInv /\ CallHeld(d)
      /\ \A i \in Ids : local[d][i] \in Slots
      /\ Unset' \subseteq Unset /\ Unset \subseteq Ids
      /\ \A i \in Unset' : \A copy \in Slots :
           copy # Nil /\ Settled(remote[i], copy) => Settled(remote'[i], copy)
  BY CopiesGive, StaysSettled DEF CopiesHeld, Unset
\* A record whose copy and entry the step leaves alone.
<1>u. ASSUME NEW i \in Unset', local'[d][i] = local[d][i], local[d][i] # Nil, dirty[d][i] = 0,
             <<d, i>> \in unmarked => <<d, i>> \in unmarked',
             Stored(d, i) => Stored(d, i)' \/ <<d, i>> \in unmarked'
      PROVE  \/ Settled(remote'[i], local'[d][i])
             \/ <<d, i>> \in unmarked' \/ Stored(d, i)'
  BY <1>t, <1>u DEF StoreSettled
<1> SUFFICES ASSUME NEW i \in Unset', local'[d][i] # Nil, dirty'[d][i] = 0
             PROVE  \/ Settled(remote'[i], local'[d][i])
                    \/ <<d, i>> \in unmarked' \/ Stored(d, i)'
  BY DEF StoreSettled
<1>i. i \in Ids /\ i \in Unset
  BY <1>t
<1>1. CASE StoreStays(d)
  <2>1. Stored(d, i) => Stored(d, i)'
    BY <1>1 DEF StoreStays, Stored
  <2> QED
    BY <1>1, <1>u, <2>1 DEF StoreStays
<1>2. CASE CommitCall(d)
  <2>1. /\ app[d].pc = "prepared" /\ app'[d].pc = "stored" /\ app'[d].id = app[d].id
        /\ UNCHANGED <<dirty, unmarked>>
        /\ i # app[d].id => local'[d][i] = local[d][i]
    BY <1>2, CopiesGive DEF CommitCall, Calls, NoCall
  <2>2. CASE i = app[d].id
    BY <2>1, <2>2 DEF Stored
  <2>3. CASE i # app[d].id
    BY <1>u, <2>1, <2>3 DEF Stored
  <2> QED
    BY <2>2, <2>3
<1>3. CASE FinishCall(d)
  <2>1. /\ app[d].id \in Ids /\ app[d].env.v # 0 /\ app[d].pc = "stored"
        /\ local' = local /\ unmarked' = unmarked \ {<<d, app[d].id>>}
        /\ dirty'[d][app[d].id] = app[d].env.v
        /\ i # app[d].id => dirty'[d][i] = dirty[d][i]
    <3>1. /\ app[d].id \in Ids /\ app[d].env \in Envelopes /\ Versioned(app[d].env)
      BY <1>3, <1>t, ShapeGives, DeviceTypes DEF FinishCall, Calls, NoCall, VersionsHeld
    <3> QED
      BY <1>3, <3>1, CopiesGive, NilAssumption DEF FinishCall, TrackChange, Versioned
  <2> QED
    BY <1>u, <2>1 DEF Stored
<1>4. CASE ApplyRemote(d)
  <2> DEFINE id == task[d].rec.id  env == task[d].rec.env
  <2>1. /\ id \in Ids /\ env \in Slots /\ env # Nil /\ task[d].pc = "apply"
        /\ UNCHANGED <<remote, dirty, app, unmarked, setBack>>
        /\ local'[d] = [local[d] EXCEPT ![id] = env] /\ local[d] \in [Ids -> Slots]
    BY <1>4, CopiesGive, InHand DEF ApplyRemote, RecordPcs, remoteVars
  <2>2. CASE i = id
    <3>1. Settled(remote[i], env)
      BY <1>t, <1>i, <2>1, <2>2 DEF CopiesHeld, HandSettled
    <3> QED
      BY <2>1, <2>2, <3>1
  <2>3. CASE i # id
    BY <1>u, <2>1, <2>3 DEF Stored
  <2> QED
    BY <2>2, <2>3
<1>5. CASE InvalidateCacheEntry(d)
  <2> DEFINE id == task[d].rec.id
  <2>1. /\ id \in Ids /\ task[d].pc = "refresh"
        /\ UNCHANGED <<local, app, unmarked, remote>>
        /\ i # id => dirty'[d][i] = dirty[d][i]
    BY <1>5, CopiesGive, InHand DEF InvalidateCacheEntry, RecordPcs, remoteVars
  <2>2. CASE i = id
    <3>1. Settled(remote[i], local[d][i])
      BY <1>t, <1>i, <2>1, <2>2, CopiesGive DEF CopiesHeld, HandSettled, LogHeld, TaskLog
    <3> QED
      BY <2>1, <3>1
  <2>3. CASE i # id
    BY <1>u, <2>1, <2>3 DEF Stored
  <2> QED
    BY <2>2, <2>3
<1>6. CASE ReassertTombstone(d)
  <2> DEFINE id == task[d].rec.id
  <2>1. PutsRecord(d)
    BY <1>6, <1>t, FinishesTask DEF ReassertTombstone, PutsRecord
  <2>2. /\ id \in Ids /\ task[d].pc = "assert" /\ UNCHANGED <<local, app, unmarked>>
        /\ i # id => dirty'[d][i] = dirty[d][i]
    BY <1>6, CopiesGive, InHand DEF ReassertTombstone, RecordPcs
  <2>3. CASE i = id
    <3>1. IsKind(local[d][i], "tombstone") /\ remote'[i] # Nil
      BY <1>t, <2>1, <2>2, <2>3, CopiesGive, PutSettles DEF LogHeld, TaskLog, Settled
    <3> QED
      BY <2>2, <3>1 DEF Settled
  <2>4. CASE i # id
    BY <1>u, <2>2, <2>4 DEF Stored
  <2> QED
    BY <2>3, <2>4
<1>7. CASE PushFinish(d)
  <2>1. /\ UNCHANGED <<local, app, unmarked, remote>>
        /\ i \notin task[d].done => dirty'[d][i] = dirty[d][i]
    BY <1>7, <1>i, CopiesGive DEF PushFinish, remoteVars
  <2>2. CASE i \in task[d].done
    <3>1. Settled(remote[i], local[d][i])
      BY <1>t, <1>i, <2>2 DEF CopiesHeld, DoneSettled
    <3> QED
      BY <2>1, <3>1
  <2>3. CASE i \notin task[d].done
    BY <1>u, <2>1, <2>3 DEF Stored
  <2> QED
    BY <2>2, <2>3
<1>8. CASE Crash(d)
  <2>1. /\ local' = local /\ dirty'[d] = meta[d]
        /\ unmarked \subseteq unmarked'
        /\ MarkLost(d, i) => <<d, i>> \in unmarked'
    BY <1>8, <1>i, CopiesGive DEF Crash
  <2>2. dirty[d][i] # 0 \/ Stored(d, i) => <<d, i>> \in unmarked'
    BY <2>1 DEF MarkLost, Stored
  <2> QED
    BY <1>u, <2>1, <2>2
<1> QED
  BY <1>1, <1>2, <1>3, <1>4, <1>5, <1>6, <1>7, <1>8, StoreStaysSteps

\* What the steps that neither put to the remote nor write a store do to a task.
TaskStays(d) ==
  /\ local'[d] = local[d] /\ UNCHANGED remoteVars
  /\ task'[d].done \subseteq task[d].done
  /\ \/ task'[d].snap = task[d].snap
     \/ \E i \in Ids : task'[d].snap = [task[d].snap EXCEPT ![i] = Nil]
     \/ task'[d].snap = NoSnap \/ task'[d].snap = remote
  /\ task'[d].pc \in {"apply", "refresh"} =>
       \/ task'[d] = task[d]
       \/ task'[d].rec.env = remote[task'[d].rec.id]
       \/ /\ task'[d].rec.id \in Ids /\ task[d].snap[task'[d].rec.id] # Nil
          /\ \/ task'[d].rec.env = task[d].snap[task'[d].rec.id]
             \/ IsKind(task'[d].rec.env, "tombstone")
     /\ task'[d].rec.env # Nil

LEMMA TaskStaysSteps ==
  ASSUME LogInv, NEW d \in Devices, Step(d)
  PROVE  \/ CommitCall(d) \/ ApplyRemote(d) \/ InvalidateCacheEntry(d)
         \/ PutsRecord(d) \/ TaskStays(d)
<1> USE DEF appVars, others, Forcing
<1>t. TypeInv /\ ShapeInv /\ LogHeld(d) /\ local \in [Devices -> [Ids -> Slots]]
  BY LogGives
<1>r. CASE ~UNCHANGED remoteVars
  BY <1>r, <1>t, RemoteWrites
<1> SUFFICES ASSUME UNCHANGED remoteVars,
                    ~CommitCall(d), ~ApplyRemote(d), ~InvalidateCacheEntry(d), ~PutsRecord(d)
             PROVE  TaskStays(d)
  BY <1>r
<1>e. task'[d] = task[d] => task'[d].rec.env # Nil \/ task[d].pc \notin {"apply", "refresh"}
  BY <1>t, InHand DEF RecordPcs
<1>1. ASSUME NEW i \in Ids, PreparePut(d, i) \/ PrepareDelete(d, i) \/ PrepareForget(d, i)
      PROVE  TaskStays(d)
  BY <1>1, <1>e DEF PreparePut, PrepareDelete, PrepareForget, Prepare, TaskStays
<1>2. CASE FinishCall(d) \/ PersistMeta(d)
  BY <1>2, <1>e DEF FinishCall, PersistMeta, TaskStays
<1>3. ASSUME NEW i \in Ids, PullRecord(d, i) PROVE TaskStays(d)
  <2> DEFINE r == task[d].snap[i]  l == local[d][i]
  <2>1. /\ PullVerdict(d, i) /\ r # Nil /\ task[d].pc = "loop" /\ UNCHANGED local
        /\ r \in Slots /\ l \in Slots /\ r.v \in Nat
    BY <1>3, <1>t, PullRecordGives, TaskRecord, SlotShape
  <2>2. ASSUME NEW pc, NEW env, NEW after, Hands(d, i, pc, env, after), env # Nil,
               env = r \/ IsKind(env, "tombstone")
        PROVE  TaskStays(d)
    <3>1. /\ task'[d].done = task[d].done /\ task'[d].rec.id = i /\ task'[d].rec.env = env
          /\ task'[d].snap = [task[d].snap EXCEPT ![i] = Nil]
      BY <2>2 DEF Hands
    <3> QED
      BY <2>1, <2>2, <3>1 DEF TaskStays
  <2>3. CASE Passes(d, i)
    <3>1. /\ task'[d].done = task[d].done /\ task'[d].pc = "loop"
          /\ task'[d].snap = [task[d].snap EXCEPT ![i] = Nil]
      BY <2>1, <2>3 DEF Passes
    <3> QED
      BY <2>1, <3>1 DEF TaskStays
  <2>4. ASSUME Reasserts(r, l)
        PROVE  /\ l # Nil /\ IsKind(l, "tombstone")
               /\ AtVersion(l, r.v) # Nil /\ IsKind(AtVersion(l, r.v), "tombstone")
    BY <2>1, <2>4, SlotShape, NilAssumption DEF Reasserts, IsKind, AtVersion, Envelopes
  <2> QED
    BY <2>1, <2>2, <2>3, <2>4 DEF PullVerdict
<1>4. ASSUME NEW i \in Ids, PushRecord(d, i) PROVE TaskStays(d)
  BY <1>4, <1>t, VisitsTask DEF PushRecord, Visits, TaskStays
<1>5. CASE ReassertTombstone(d)
  BY <1>5, <1>t, FinishesTask DEF ReassertTombstone, PutsRecord
<1>6. CASE RemoteFails(d) \/ AnswerLost(d)
  BY <1>6, <1>t, FinishesTask DEF RemoteFails, AnswerLost, Finishes, TaskStays
<1>7. CASE PullFinish(d) \/ PushFinish(d)
  <2>1. Moves(d, "meta") /\ UNCHANGED local
    BY <1>7, <1>t, MovesTask DEF PullFinish, PushFinish
  <2> QED
    BY <2>1 DEF Moves, TaskStays
<1>8. CASE PushRead(d)
  <2>1. local[d][task[d].rec.id] # Nil /\ UNCHANGED local
    BY <1>8, <1>t, InHand DEF PushRead, RecordPcs, LogHeld, TaskLog, ListedStored, PushPcs
  <2> QED
    BY <1>8, <1>t, <2>1, PushReadGives DEF Reseals, TaskStays
<1>9. CASE PushPut(d)
  BY <1>9, <1>t, PushPutGives DEF PushPut, PutsRecord, Moves, TaskStays
<1>10. CASE PushResolve(d)
  BY <1>10, <1>t, PushResolveGives DEF PushResolve, Finishes, Reseals, TaskStays
<1>11. CASE PushForce(d)
  BY <1>11, <1>t, PushForceGives DEF PushForce, PutsRecord
<1>12. CASE SaveMeta(d) \/ Start(d) \/ Crash(d)
  <2>1. UNCHANGED local
    BY <1>12 DEF SaveMeta, Start, PushStart, PullStart, Crash
  <2> QED
    BY <1>12, <1>t, <2>1, EntersTask DEF Start, Enters, TaskStays
<1> QED
  BY <1>1, <1>2, <1>3, <1>4, <1>5, <1>6, <1>7, <1>8, <1>9, <1>10, <1>11, <1>12
  DEF Step, AppStep, TaskStep

LEMMA TaskSettledStep ==
  ASSUME CopiesInv, NEW d \in Devices, Step(d)
  PROVE  DoneSettled(d)' /\ SnapSettled(d)' /\ HandSettled(d)'
<1> USE DEF appVars, others
<1> DEFINE id == task[d].rec.id  env == task[d].rec.env
<1>t. /\ CopiesHeld(d) /\ TypeInv /\ ShapeInv /\ LogInv /\ LogHeld(d) /\ TaskShape(d)
      /\ \A i \in Ids : local[d][i] \in Slots /\ remote[i] \in Slots
      /\ task[d].snap \in [Ids -> Slots] /\ task[d].done \subseteq Ids
      /\ Unset' \subseteq Unset /\ Unset \subseteq Ids
      /\ \A i \in Unset' : \A copy \in Slots :
           copy # Nil /\ Settled(remote[i], copy) => Settled(remote'[i], copy)
  BY CopiesGive, StaysSettled, TaskRecord DEF Unset, TypeInv, TypeOK
<1>n. \A i \in task[d].done : i \in Unset => local[d][i] # Nil /\ Settled(remote[i], local[d][i])
  BY <1>t DEF CopiesHeld, DoneSettled, Settled
<1>1. CASE CommitCall(d)
  <2>1. task' = task /\ task[d].done = {} /\ task[d].pc = "idle"
    BY <1>1, CopiesGive DEF CommitCall, LogHeld, TaskLog
  <2>2. SnapSettled(d)'
    BY <1>t, <2>1 DEF CopiesHeld, SnapSettled
  <2> QED
    BY <2>1, <2>2 DEF DoneSettled, HandSettled
<1>2. CASE ApplyRemote(d)
  <2>1. /\ Moves(d, "refresh") /\ UNCHANGED remoteVars /\ id \in Ids /\ id \notin task[d].done
        /\ \A i \in Ids : i # id => local'[d][i] = local[d][i]
        /\ task[d].pc = "apply"
    BY <1>2, <1>t, CopiesGive, MovesTask, InHand DEF ApplyRemote, RecordPcs, TaskShape
  <2> QED
    BY <1>t, <2>1 DEF CopiesHeld, DoneSettled, SnapSettled, HandSettled, Moves, remoteVars, Unset
<1>3. CASE InvalidateCacheEntry(d)
  <2>1. /\ UNCHANGED <<local, remote, setBack>> /\ id \in Ids /\ task[d].pc = "refresh"
        /\ local[d][id] = env
        /\ task'[d].snap = task[d].snap /\ task'[d].pc \notin {"apply", "refresh"}
        /\ task'[d].done \subseteq task[d].done \cup {id}
    BY <1>3, <1>t, InHand, InvalidateGives
    DEF InvalidateCacheEntry, RecordPcs, LogHeld, TaskLog, Moves, Finishes, remoteVars
  <2>2. id \in Unset => Settled(remote[id], local[d][id])
    BY <1>t, <2>1 DEF CopiesHeld, HandSettled
  <2> QED
    BY <1>t, <2>1, <2>2 DEF CopiesHeld, DoneSettled, SnapSettled, HandSettled, Unset
<1>4. CASE PutsRecord(d)
  <2>1. /\ id \in Ids /\ Settled(remote'[id], env) /\ local'[d] = local[d]
        /\ remote'[id] = env
    BY <1>4, <1>t, PutSettles DEF PutsRecord
  <2>2. task'[d].snap = task[d].snap
    BY <1>4 DEF PutsRecord, Finishes, Moves
  <2>3. task'[d].pc \in {"apply", "refresh"} => task'[d].rec = task[d].rec
    BY <1>4 DEF PutsRecord, Finishes, Moves
  <2>4. task'[d].done \subseteq task[d].done \/ (task'[d].done = task[d].done \cup {id}
                                                  /\ local[d][id] = env)
    BY <1>4, <1>t DEF PutsRecord, Finishes, Moves, LogHeld, TaskLog
  <2>5. DoneSettled(d)'
    BY <1>t, <1>n, <2>1, <2>4 DEF DoneSettled
  <2>6. SnapSettled(d)'
    BY <1>t, <2>2 DEF CopiesHeld, SnapSettled
  <2>7. HandSettled(d)'
    BY <2>1, <2>3 DEF HandSettled
  <2> QED
    BY <2>5, <2>6, <2>7
<1>5. CASE TaskStays(d)
  <2>1. DoneSettled(d)'
    BY <1>t, <1>n, <1>5 DEF DoneSettled, TaskStays
  <2>2. SnapSettled(d)'
    BY <1>t, <1>5 DEF CopiesHeld, SnapSettled, TaskStays, NoSnap, remoteVars, Unset, Settled
  <2>3. HandSettled(d)'
    <3> SUFFICES ASSUME task'[d].rec.id \in Unset', task'[d].pc \in {"apply", "refresh"}
                 PROVE  Settled(remote'[task'[d].rec.id], task'[d].rec.env)
      BY DEF HandSettled
    <3>1. /\ remote' = remote /\ task'[d].rec.id \in Unset
          /\ task'[d].rec.env # Nil
      BY <1>5, <1>t DEF TaskStays, remoteVars
    <3>2. CASE task'[d] = task[d]
      BY <1>t, <3>1, <3>2 DEF CopiesHeld, HandSettled
    <3>3. CASE task'[d].rec.env = remote[task'[d].rec.id]
      BY <3>1, <3>3 DEF Settled
    <3>4. CASE /\ task[d].snap[task'[d].rec.id] # Nil
               /\ \/ task'[d].rec.env = task[d].snap[task'[d].rec.id]
                  \/ IsKind(task'[d].rec.env, "tombstone")
      BY <1>t, <3>1, <3>4 DEF CopiesHeld, SnapSettled, Settled
    <3> QED
      BY <1>5, <3>2, <3>3, <3>4 DEF TaskStays
  <2> QED
    BY <2>1, <2>2, <2>3
<1> QED
  BY <1>1, <1>2, <1>3, <1>4, <1>5, <1>t, TaskStaysSteps

LEMMA CopiesInvStep == ~AppDuringSync /\ CopiesInv /\ [Next]_vars => CopiesInv'
<1> SUFFICES ASSUME ~AppDuringSync, CopiesInv, [Next]_vars PROVE CopiesInv'
  OBVIOUS
<1> USE DEF CopiesHeld
<1>1. LogInv'
  BY LogInvStep DEF CopiesInv
<1>2. CASE UNCHANGED vars
  BY <1>1, <1>2 DEF vars, CopiesInv, StoreSettled, DoneSettled, SnapSettled, HandSettled,
                    Stored, Unset, Settled
<1>3. ASSUME NEW d \in Devices, Step(d), NEW e \in Devices, e # d
      PROVE  CopiesHeld(e)'
  <2>1. /\ TypeInv /\ CopiesHeld(e) /\ task[e].snap \in [Ids -> Slots]
        /\ \A i \in Ids : local[e][i] \in Slots
        /\ task[e].pc \in {"apply", "refresh"} => task[e].rec.env \in Slots
    BY CopiesGive, TaskRecord, InHand DEF RecordPcs
  <2>2. /\ task'[e] = task[e] /\ app'[e] = app[e] /\ local'[e] = local[e] /\ dirty'[e] = dirty[e]
        /\ \A i \in Ids : <<e, i>> \in unmarked' <=> <<e, i>> \in unmarked
    BY <1>3, <2>1, OthersUntouched, OtherLogs, OtherMarks
  <2>3. /\ Unset' \subseteq Unset /\ Unset \subseteq Ids
        /\ \A i \in Unset' : \A copy \in Slots :
             copy # Nil /\ Settled(remote[i], copy) => Settled(remote'[i], copy)
    BY <1>3, CopiesGive, StaysSettled DEF Unset
  <2>4. \A i \in Unset' : \A copy \in Slots : Settled(remote[i], copy) => Settled(remote'[i], copy)
    BY <2>3 DEF Settled
  <2>5. StoreSettled(e)'
    BY <2>1, <2>2, <2>3, <2>4 DEF StoreSettled, Stored
  <2>6. DoneSettled(e)'
    BY <2>1, <2>2, <2>3, <2>4 DEF DoneSettled
  <2>7. SnapSettled(e)' /\ HandSettled(e)'
    BY <2>1, <2>2, <2>3, <2>4 DEF SnapSettled, HandSettled
  <2> QED
    BY <2>5, <2>6, <2>7
<1> QED
  BY <1>1, <1>2, <1>3, StoreSettledStep, TaskSettledStep DEF Next, CopiesInv

LEMMA CopiesInvInit == Init => CopiesInv
<1> SUFFICES ASSUME Init, NEW d \in Devices PROVE CopiesHeld(d)
  BY LogInvInit DEF CopiesInv
<1>1. /\ task[d].pc = "idle" /\ task[d].done = {} /\ \A i \in Ids : task[d].snap[i] = Nil
      /\ \A i \in Ids : local[d][i] = Nil
  BY DEF Init, IdleTask
<1> QED
  BY <1>1 DEF CopiesHeld, StoreSettled, DoneSettled, SnapSettled, HandSettled, Unset

LEMMA CopiesInvariance == ~AppDuringSync => (Spec => []CopiesInv)
<1> SUFFICES ASSUME ~AppDuringSync PROVE Spec => []CopiesInv
  OBVIOUS
<1>1. CopiesInv /\ [Next]_vars => CopiesInv'
  BY CopiesInvStep
<1> QED
  BY <1>1, CopiesInvInit, PTL DEF Spec

\* A settled copy is what the remote holds, or the next pull of it acts.
LEMMA SettledShows ==
  ASSUME TypeInv, NEW d \in Devices, NEW id \in Ids, Settled(remote[id], local[d][id])
  PROVE  SameOnRemote(d, id) \/ PullActs(d, id)
<1> DEFINE r == remote[id]  l == local[d][id]
<1>1. /\ r \in Slots /\ l \in Slots /\ r # Nil /\ l # Nil /\ r.v \in Nat /\ l.v \in Nat
  BY DeviceTypes, SlotShape DEF Settled
<1>2. CASE r = l
  BY <1>2 DEF SameOnRemote
<1>3. CASE IsKind(l, "tombstone")
  BY <1>1, <1>3 DEF SameOnRemote, PullActs, Reasserts
<1>4. CASE Supersedes(r, l) /\ ~IsKind(l, "tombstone")
  <2>1. CASE IsKind(r, "tombstone") \/ (DeleteTie(r, l) /\ IsKind(r, "marker"))
    BY <1>1, <1>4, <2>1 DEF PullActs, TakesRemote
  <2>2. CASE r.v > l.v
    <3>1. ~DeleteTie(r, l)
      BY <1>1, <2>2 DEF DeleteTie
    <3> QED
      BY <1>1, <1>4, <2>2, <3>1 DEF PullActs, TakesRemote
  <2> QED
    BY <1>1, <1>4, <2>1, <2>2 DEF Supersedes
<1> QED
  BY <1>2, <1>3, <1>4 DEF Settled

\* Any number of devices sync in any order, at the same time or not, with refused puts,
\* lost answers and crashes: a copy without a pending push is the remote's, or differs in
\* a way the device's next pull acts upon.  Two exceptions are named: a crash that lost
\* the record's mark, and a put that set the remote's copy back.
THEOREM DivergenceIsSeen == ~AppDuringSync => (Spec => []NoSilentDivergence)
<1> SUFFICES ASSUME ~AppDuringSync PROVE Spec => []NoSilentDivergence
  OBVIOUS
<1>1. CopiesInv => NoSilentDivergence
  <2> SUFFICES ASSUME CopiesInv, NEW d \in Devices, NEW id \in Ids,
                      AtRest(d, id), dirty[d][id] = 0, local[d][id] # Nil,
                      <<d, id>> \notin unmarked, id \notin setBack
               PROVE  SameOnRemote(d, id) \/ PullActs(d, id)
    BY DEF NoSilentDivergence
  <2>1. Settled(remote[id], local[d][id])
    BY CopiesGive DEF CopiesHeld, StoreSettled, Unset, Stored, AtRest
  <2> QED
    BY <2>1, CopiesGive, SettledShows
<1> QED
  BY <1>1, CopiesInvariance, PTL
=============================================================================
