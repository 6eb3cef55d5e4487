------------------------ MODULE SyncScheduler_proofs ------------------------
(***************************************************************************)
(* Theorems about SyncScheduler for any policies, sequence and bounds.     *)
(***************************************************************************)
EXTENDS SyncScheduler, TLAPS

Pushes == 1..MaxPushes
Pulls == 1..MaxPulls

\* The slots, and what the shown state and the armed timers say of them.
SlotTypes ==
  /\ pushes \in [Pushes -> {"free", "scheduled", "unload"}]
  /\ DOMAIN pulls = Pulls
  /\ pulls = [k \in Pulls |-> pulls[k]]
TimersAreStarted == debounce \/ pullTimer => started
BusyInv == SlotTypes /\ BusyIsTrue /\ TimersAreStarted

LEMMA InitBusy == Init => BusyInv
BY DEF Init, BusyInv, SlotTypes, BusyIsTrue, TimersAreStarted, Pushes, Pulls

LEMMA ExecutePushBusy ==
  ASSUME BusyInv, NEW armed, ExecutePush(armed), UNCHANGED pulls
  PROVE  SlotTypes' /\ BusyIsTrue'
<1> USE DEF BusyInv, SlotTypes, BusyIsTrue, Pushes, Pulls
<1>1. CASE state = "pushing" \/ (policy.gap /\ recent)
  BY <1>1 DEF ExecutePush
<1>2. CASE state # "pushing" /\ state' = "idle" /\ UNCHANGED pushes
  BY <1>2
<1>3. CASE state' = "pushing" /\ BeginPush("scheduled")
  BY <1>3 DEF BeginPush
<1> QED
  BY <1>1, <1>2, <1>3 DEF ExecutePush

LEMMA ExecutePullBusy ==
  ASSUME BusyInv, NEW w, ExecutePull(w), UNCHANGED pushes
  PROVE  SlotTypes' /\ BusyIsTrue'
<1>1. PICK k \in 1..MaxPulls :
        pulls' = [pulls EXCEPT ![k] = [at |-> "flight", prev |-> state, walk |-> w]]
  BY DEF ExecutePull
<1>2. pulls'[k] = [at |-> "flight", prev |-> state, walk |-> w]
  BY <1>1 DEF BusyInv, SlotTypes, Pulls
<1>3. pulls'[k] # Free
  BY <1>2 DEF Free
<1> QED
  BY <1>1, <1>3 DEF ExecutePull, BusyInv, SlotTypes, BusyIsTrue, Pushes, Pulls

LEMMA PhaseBusy ==
  ASSUME BusyInv, NEW w, NEW i, NEW rd, NEW on, Phase(w, i, rd, on), UNCHANGED pushes
  PROVE  SlotTypes' /\ BusyIsTrue' /\ (pullTimer' => pullTimer \/ on)
<1>1. CASE ExecutePull(w) /\ UNCHANGED pullTimer
  BY <1>1, ExecutePullBusy
<1>2. CASE UNCHANGED <<state, pulls>> /\ (pullTimer' => pullTimer \/ on)
  BY <1>2 DEF BusyInv, SlotTypes, BusyIsTrue, Pushes, Pulls
<1>3. \/ ExecutePull(w) /\ UNCHANGED pullTimer
      \/ UNCHANGED <<state, pulls, pullTimer>>
      \/ UNCHANGED <<state, pulls>> /\ pullTimer' = (pullTimer \/ (on /\ policy.steady))
  BY DEF Phase
<1> QED
  BY <1>1, <1>2, <1>3, Zenon

LEMMA StepBusy == BusyInv /\ [Next]_vars => BusyInv'
<1> SUFFICES ASSUME BusyInv, [Next]_vars PROVE BusyInv'
  OBVIOUS
<1> USE DEF TimersAreStarted
<1>1. CASE Start
  <2>1. UNCHANGED pushes /\ started' /\ (debounce' => started')
    BY <1>1 DEF Start
  <2>2. CASE Phase(starts', 1, [c \in Collections |-> "cold"], TRUE)
    BY <2>1, <2>2, PhaseBusy DEF BusyInv
  <2>3. CASE UNCHANGED <<state, pulls>>
    BY <2>1, <2>3 DEF BusyInv, SlotTypes, BusyIsTrue, Pushes, Pulls
  <2> QED
    BY <1>1, <2>2, <2>3 DEF Start
<1>2. CASE Stop
  BY <1>2 DEF Stop, BusyInv, SlotTypes, BusyIsTrue, Pushes, Pulls
<1>3. CASE TrackChange \/ GapEnds
  <2>1. UNCHANGED <<state, started, pushes, pulls, debounce, pullTimer>>
    BY <1>3 DEF TrackChange, GapEnds, timing
  <2> QED
    BY <2>1 DEF BusyInv, SlotTypes, BusyIsTrue, Pushes, Pulls
<1>4. ASSUME NEW n \in saving, NotifyChange(n) PROVE BusyInv'
  <2>1. UNCHANGED <<pulls, started, pullTimer>> /\ (debounce' => started)
    BY <1>4 DEF NotifyChange, ExecutePush, ResetDebounce, BusyInv, phased
  <2>2. CASE ExecutePush(debounce)
    BY <2>1, <2>2, ExecutePushBusy DEF BusyInv
  <2>3. CASE ResetDebounce
    BY <2>1, <2>3 DEF ResetDebounce, BusyInv, SlotTypes, BusyIsTrue, Pushes, Pulls
  <2>4. CASE UNCHANGED <<state, pushes>>
    BY <2>1, <2>4 DEF BusyInv, SlotTypes, BusyIsTrue, Pushes, Pulls
  <2> QED
    BY <1>4, <2>2, <2>3, <2>4 DEF NotifyChange
<1>5. CASE DebounceFires \/ PushIntervalFires
  <2>1. PICK armed : ExecutePush(armed)
    BY <1>5 DEF DebounceFires, PushIntervalFires
  <2>2. UNCHANGED <<pulls, started, pullTimer>> /\ started
    BY <1>5 DEF DebounceFires, PushIntervalFires, BusyInv
  <2> QED
    BY <2>1, <2>2, ExecutePushBusy DEF BusyInv
<1>6. CASE FireUnloadPush
  BY <1>6 DEF FireUnloadPush, BeginPush, timing, BusyInv, SlotTypes, BusyIsTrue, Pushes, Pulls
<1>7. ASSUME NEW k \in 1..MaxPushes, PushResolves(k) \/ PushThrows(k) PROVE BusyInv'
  <2>1. /\ pushes' = [pushes EXCEPT ![k] = "free"] /\ UNCHANGED <<pulls, started>>
        /\ UNCHANGED <<debounce, pullTimer>>
        /\ pushes[k] # "scheduled" => state' = state
        /\ pushes[k] = "scheduled" => state' \in {"idle", "pending", "error"}
    BY <1>7 DEF PushResolves, PushThrows, AfterPush, timing
  <2>2. SlotTypes'
    BY <2>1 DEF BusyInv, SlotTypes, Pushes, Pulls
  <2>3. BusyIsTrue'
    BY <2>1 DEF BusyInv, SlotTypes, BusyIsTrue, Pushes, Pulls
  <2> QED
    BY <2>1, <2>2, <2>3 DEF BusyInv
<1>8. CASE PullTriggered
  <2>1. ExecutePull(0) /\ UNCHANGED <<pushes, started, debounce, pullTimer>>
    BY <1>8 DEF PullTriggered, timing
  <2> QED
    BY <2>1, ExecutePullBusy DEF BusyInv
<1>9. ASSUME NEW k \in 1..MaxPulls, PullResolves(k) \/ PullThrows(k) PROVE BusyInv'
  <2>1. /\ pulls' = [pulls EXCEPT ![k] = Free] /\ state' \in {"idle", "pending", "error"}
        /\ UNCHANGED <<pushes, started, debounce, pullTimer>>
    BY <1>9 DEF PullResolves, PullThrows, AfterPull, timing
  <2> QED
    BY <2>1 DEF BusyInv, SlotTypes, BusyIsTrue, Pushes, Pulls
<1>10. ASSUME NEW w \in 1..MaxStarts, PhaseEnds(w) PROVE BusyInv'
  <2> DEFINE rd == [readiness EXCEPT ![Sequence[walks[w].at]] = Settled(walks[w].ok)]
  <2>1. Phase(w, walks[w].at + 1, rd, started) /\ UNCHANGED <<pushes, started, debounce>>
    BY <1>10 DEF PhaseEnds
  <2> HIDE DEF rd
  <2>2. SlotTypes' /\ BusyIsTrue' /\ (pullTimer' => pullTimer \/ started)
    BY <2>1, PhaseBusy
  <2> QED
    BY <2>1, <2>2 DEF BusyInv
<1>11. CASE UNCHANGED vars
  BY <1>11 DEF vars, BusyInv, SlotTypes, BusyIsTrue, Pushes, Pulls
<1> QED
  BY <1>1, <1>2, <1>3, <1>4, <1>5, <1>6, <1>7, <1>8, <1>9, <1>10, <1>11
  DEF Next, PushEnds, PullEnds, WalkStep

LEMMA BusyInvariance == Spec => []BusyInv
BY InitBusy, StepBusy, PTL DEF Spec

\* However pushes, pulls, page hooks and the phased walk overwrite each other's state,
\* one shown as busy has its operation in flight: it is never stuck.
THEOREM BusyIsHonest == Spec => []BusyIsTrue
BY BusyInvariance, PTL DEF BusyInv

\* Nothing new takes a slot.
Quiet == /\ \A k \in 1..MaxPushes : pushes[k] = "free" => pushes'[k] = "free"
         /\ \A k \in 1..MaxPulls : pulls[k] = Free => pulls'[k] = Free

LEMMA QuietStep == BusyInv /\ [Next]_vars /\ ~started /\ ~started' => Quiet
<1> SUFFICES ASSUME BusyInv, [Next]_vars, ~started, ~started' PROVE Quiet
  OBVIOUS
<1>0. ~debounce /\ ~pullTimer
  BY DEF BusyInv, TimersAreStarted
<1>1. CASE UNCHANGED <<pushes, pulls>>
  BY <1>1 DEF Quiet
<1>2. CASE Stop \/ TrackChange \/ GapEnds
  BY <1>1, <1>2 DEF Stop, TrackChange, GapEnds
<1>3. ASSUME NEW n \in saving, NotifyChange(n) PROVE Quiet
  BY <1>1, <1>3 DEF NotifyChange
<1>4. ASSUME NEW k \in 1..MaxPushes, PushResolves(k) \/ PushThrows(k) PROVE Quiet
  BY <1>4 DEF PushResolves, PushThrows, BusyInv, SlotTypes, Pushes, Quiet
<1>5. ASSUME NEW k \in 1..MaxPulls, PullResolves(k) \/ PullThrows(k) PROVE Quiet
  BY <1>5 DEF PullResolves, PullThrows, BusyInv, SlotTypes, Pulls, Quiet
<1>6. ASSUME NEW w \in 1..MaxStarts, PhaseEnds(w) PROVE Quiet
  BY <1>1, <1>6 DEF PhaseEnds, Phase
<1>7. CASE UNCHANGED vars
  BY <1>1, <1>7 DEF vars
<1> QED
  BY <1>0, <1>2, <1>3, <1>4, <1>5, <1>6, <1>7
  DEF Next, PushEnds, PullEnds, WalkStep, Start, DebounceFires, PushIntervalFires,
      FireUnloadPush, PullTriggered

\* After stop no push and no pull starts: neither by a timer, nor by a phased walk that
\* was awaiting its pull.
THEOREM StopIsQuiet == Spec => QuietAfterStop
<1>1. BusyInv /\ [Next]_vars =>
        [~started /\ ~started' => /\ \A k \in 1..MaxPushes : pushes[k] = "free" => pushes'[k] = "free"
                                  /\ \A k \in 1..MaxPulls : pulls[k] = Free => pulls'[k] = Free]_vars
  BY QuietStep DEF Quiet
<1> QED
  BY <1>1, BusyInvariance, PTL DEF Spec, QuietAfterStop

-----------------------------------------------------------------------------
(* Type correctness. *)

PullSlots == {Free} \cup [at : {"flight"}, prev : States, walk : 0..MaxStarts]
WalkSlots == [pc : {"none", "await", "resume", "done"}, at : 0..Len(Sequence), ok : BOOLEAN]
Marks == {"none", "cold", "pulling", "live"}

\* TypeOK in the groups of variables that the actions change together.
LogTypes ==
  /\ loaded \in BOOLEAN /\ writes \in 0..MaxWrites
  /\ dirty \subseteq 1..writes /\ owed \subseteq dirty /\ saving \subseteq 1..writes
PhaseTypes ==
  /\ pulls \in [1..MaxPulls -> PullSlots]
  /\ walks \in [1..MaxStarts -> WalkSlots]
  /\ readiness \in [Collections -> Marks]
RestTypes ==
  /\ policy \in Policies /\ state \in States
  /\ started \in BOOLEAN /\ debounce \in BOOLEAN /\ pullTimer \in BOOLEAN /\ recent \in BOOLEAN
  /\ starts \in 0..MaxStarts
  /\ pushes \in [1..MaxPushes -> {"free", "scheduled", "unload"}]
  /\ (debounce \/ pullTimer => started)

LEMMA TypeGroups ==
  /\ TypeOK <=> LogTypes /\ PhaseTypes /\ RestTypes
  /\ TypeOK' <=> LogTypes' /\ PhaseTypes' /\ RestTypes'
BY DEF TypeOK, LogTypes, PhaseTypes, RestTypes, PullSlots, WalkSlots, Marks

LEMMA SequenceTypes ==
  /\ Len(Sequence) \in Nat
  /\ \A i \in Nat : 0 < i /\ i <= Len(Sequence) => Sequence[i] \in Collections
BY SequenceAssumption DEF Collections

LEMMA InitType == Init => TypeOK
<1> SUFFICES ASSUME Init PROVE LogTypes /\ PhaseTypes /\ RestTypes
  BY TypeGroups
<1>1. LogTypes
  BY DEF Init, LogTypes
<1>2. PhaseTypes
  BY SequenceTypes DEF Init, PhaseTypes, PullSlots, WalkSlots, NoWalk, Marks
<1>3. RestTypes
  <2>1. MaxStarts \in Nat
    BY BoundsAssumption
  <2>2. pushes \in [1..MaxPushes -> {"free", "scheduled", "unload"}]
    BY DEF Init
  <2>3. started = FALSE /\ debounce = FALSE /\ pullTimer = FALSE /\ recent = FALSE
    BY DEF Init
  <2>4. policy \in Policies /\ state \in States /\ starts \in 0..MaxStarts
    BY <2>1 DEF Init, States
  <2> QED
    BY <2>2, <2>3, <2>4, Zenon DEF RestTypes
<1> QED
  BY <1>1, <1>2, <1>3

LEMMA ExecutePushType ==
  ASSUME TypeOK, NEW armed \in BOOLEAN, ExecutePush(armed),
         UNCHANGED <<policy, started, starts, pullTimer, recent, loaded, dirty, writes>>,
         armed => started, started, saving' \subseteq saving
  PROVE  LogTypes' /\ RestTypes'
<1>1. /\ state' \in States /\ debounce' \in BOOLEAN
      /\ pushes' \in [1..MaxPushes -> {"free", "scheduled", "unload"}]
      /\ owed' \subseteq owed
  BY TypeGroups, PoliciesAssumption DEF ExecutePush, BeginPush, RestTypes, States
<1>2. LogTypes /\ RestTypes
  BY TypeGroups
<1>3. LogTypes'
  BY <1>1, <1>2 DEF LogTypes
<1>4. RestTypes'
  BY <1>1, <1>2 DEF RestTypes
<1> QED
  BY <1>3, <1>4

LEMMA ExecutePullType ==
  ASSUME TypeOK, NEW w \in 0..MaxStarts, ExecutePull(w)
  PROVE  /\ pulls' \in [1..MaxPulls -> PullSlots]
         /\ state' \in States /\ loaded' \in BOOLEAN
<1>1. [at |-> "flight", prev |-> state, walk |-> w] \in PullSlots
  BY TypeGroups DEF RestTypes, PullSlots
<1> QED
  BY <1>1, TypeGroups DEF ExecutePull, PhaseTypes, States

LEMMA PhaseType ==
  ASSUME TypeOK, NEW w \in 1..MaxStarts, NEW i \in Nat \ {0}, NEW on \in BOOLEAN,
         NEW rd \in [Collections -> Marks], Phase(w, i, rd, on)
  PROVE  /\ PhaseTypes' /\ state' \in States /\ loaded' \in BOOLEAN
         /\ pullTimer' \in BOOLEAN /\ (pullTimer' => pullTimer \/ on)
<1>1. LogTypes /\ PhaseTypes /\ RestTypes
  BY TypeGroups
<1>2. Len(Sequence) \in Nat /\ w \in 0..MaxStarts
  BY SequenceTypes, BoundsAssumption
<1>3. CASE i <= Len(Sequence) /\ on /\ UNCHANGED pullTimer
  <2>1. CASE /\ readiness' = [rd EXCEPT ![Sequence[i]] = "pulling"]
             /\ ExecutePull(w)
             /\ walks' = [walks EXCEPT ![w] = [pc |-> "await", at |-> i, ok |-> FALSE]]
    <3>1. [pc |-> "await", at |-> i, ok |-> FALSE] \in WalkSlots
      BY <1>2, <1>3 DEF WalkSlots
    <3>2. walks' \in [1..MaxStarts -> WalkSlots] /\ readiness' \in [Collections -> Marks]
      BY <1>1, <2>1, <3>1 DEF PhaseTypes, Marks
    <3> QED
      BY <1>1, <1>2, <1>3, <2>1, <3>2, ExecutePullType DEF PhaseTypes, RestTypes
  <2>2. CASE /\ readiness' = [rd EXCEPT ![Sequence[i]] = "pulling"]
             /\ walks' = [walks EXCEPT ![w] = [pc |-> "resume", at |-> i, ok |-> FALSE]]
             /\ UNCHANGED <<state, pulls, loaded>>
    <3>1. [pc |-> "resume", at |-> i, ok |-> FALSE] \in WalkSlots
      BY <1>2, <1>3 DEF WalkSlots
    <3>2. walks' \in [1..MaxStarts -> WalkSlots] /\ readiness' \in [Collections -> Marks]
      BY <1>1, <2>2, <3>1 DEF PhaseTypes, Marks
    <3> QED
      BY <1>1, <1>3, <2>2, <3>2 DEF PhaseTypes, RestTypes, LogTypes
  <2> QED
    BY <1>2, <1>3, <2>1, <2>2 DEF Phase
<1>4. CASE /\ walks' = [walks EXCEPT ![w].pc = "done"] /\ readiness' = rd
           /\ UNCHANGED <<state, pulls, loaded>>
           /\ \/ UNCHANGED pullTimer
              \/ pullTimer' = (pullTimer \/ (on /\ policy.steady))
  <2>1. [walks[w] EXCEPT !.pc = "done"] \in WalkSlots
    BY <1>1 DEF PhaseTypes, WalkSlots
  <2>2. walks' \in [1..MaxStarts -> WalkSlots]
    BY <1>1, <1>4, <2>1 DEF PhaseTypes
  <2>3. PhaseTypes'
    BY <1>1, <1>4, <2>2 DEF PhaseTypes
  <2>4. pullTimer \in BOOLEAN /\ loaded' \in BOOLEAN /\ state' \in States
    BY <1>1, <1>4 DEF RestTypes, LogTypes
  <2>5. CASE UNCHANGED pullTimer
    BY <1>4, <2>3, <2>4, <2>5
  <2>6. CASE pullTimer' = (pullTimer \/ (on /\ policy.steady))
    <3>1. (pullTimer \/ (on /\ policy.steady)) \in BOOLEAN
      OBVIOUS
    <3>2. pullTimer' \in BOOLEAN
      BY <2>6, <3>1, Zenon
    <3>3. pullTimer' => pullTimer \/ on
      BY <2>6, Zenon
    <3> QED
      BY <1>4, <2>3, <2>4, <3>2, <3>3, Zenon
  <2> QED
    BY <1>4, <2>5, <2>6
<1>5. \/ i <= Len(Sequence) /\ on /\ UNCHANGED pullTimer
      \/ /\ walks' = [walks EXCEPT ![w].pc = "done"] /\ readiness' = rd
         /\ UNCHANGED <<state, pulls, loaded>>
         /\ \/ UNCHANGED pullTimer
            \/ pullTimer' = (pullTimer \/ (on /\ policy.steady))
  BY Zenon DEF Phase
<1> QED
  BY <1>3, <1>4, <1>5

LEMMA ToldType ==
  ASSUME TypeOK, NEW w \in 0..MaxStarts, NEW ok \in BOOLEAN
  PROVE  Told(w, ok) \in [1..MaxStarts -> WalkSlots]
<1>1. CASE w = 0
  BY <1>1, TypeGroups DEF Told, PhaseTypes
<1>2. CASE w # 0
  <2>1. w \in 1..MaxStarts /\ walks \in [1..MaxStarts -> WalkSlots]
    BY <1>2, TypeGroups, BoundsAssumption DEF PhaseTypes
  <2>2. \A r \in WalkSlots : [[r EXCEPT !.pc = "resume"] EXCEPT !.ok = ok] \in WalkSlots
    BY DEF WalkSlots
  <2> QED
    BY <1>2, <2>1, <2>2 DEF Told
<1> QED
  BY <1>1, <1>2

LEMMA PushEndType ==
  ASSUME TypeOK, NEW k \in 1..MaxPushes, PushResolves(k) \/ PushThrows(k)
  PROVE  TypeOK'
<1>1. LogTypes /\ PhaseTypes /\ RestTypes
  BY TypeGroups
<1>2. PhaseTypes'
  BY <1>1 DEF PushResolves, PushThrows, PhaseTypes, phased
<1>3. LogTypes'
  BY <1>1 DEF PushResolves, PushThrows, LogTypes, log
<1>4. pushes' \in [1..MaxPushes -> {"free", "scheduled", "unload"}]
  BY <1>1 DEF PushResolves, PushThrows, RestTypes
<1>5. state' \in States
  BY <1>1 DEF PushResolves, PushThrows, AfterPush, RestTypes, States
<1>6. recent' \in BOOLEAN
  BY <1>1, PoliciesAssumption DEF PushResolves, PushThrows, timing, RestTypes
<1>7. RestTypes'
  BY <1>1, <1>4, <1>5, <1>6 DEF PushResolves, PushThrows, timing, RestTypes
<1> QED
  BY <1>2, <1>3, <1>7, TypeGroups

LEMMA PullEndType ==
  ASSUME TypeOK, NEW k \in 1..MaxPulls, PullResolves(k) \/ PullThrows(k)
  PROVE  TypeOK'
<1>1. LogTypes /\ PhaseTypes /\ RestTypes
  BY TypeGroups
<1>2. CASE pulls[k] = Free
  BY <1>2 DEF PullResolves, PullThrows
<1>3. CASE pulls[k] # Free
  <2>1. pulls[k].prev \in States /\ pulls[k].walk \in 0..MaxStarts
    BY <1>1, <1>3 DEF PhaseTypes, PullSlots
  <2>2. state' \in States
    BY <2>1 DEF PullResolves, PullThrows, AfterPull, States
  <2>3. walks' \in [1..MaxStarts -> WalkSlots]
    <3>1. PICK ok \in BOOLEAN : walks' = Told(pulls[k].walk, ok)
      BY Zenon DEF PullResolves, PullThrows
    <3>2. Told(pulls[k].walk, ok) \in [1..MaxStarts -> WalkSlots]
      BY <2>1, ToldType
    <3> QED
      BY <3>1, <3>2
  <2>4. pulls' \in [1..MaxPulls -> PullSlots]
    BY <1>1 DEF PullResolves, PullThrows, PhaseTypes, PullSlots
  <2>5. PhaseTypes'
    BY <1>1, <2>3, <2>4 DEF PullResolves, PullThrows, PhaseTypes
  <2>6. LogTypes'
    BY <1>1 DEF PullResolves, PullThrows, LogTypes, log
  <2>7. RestTypes'
    <3>1. UNCHANGED <<policy, started, starts, timing, pushes>>
      BY DEF PullResolves, PullThrows
    <3> QED
      BY <1>1, <2>2, <3>1 DEF RestTypes, timing
  <2> QED
    BY <2>5, <2>6, <2>7, TypeGroups
<1> QED
  BY <1>2, <1>3

LEMMA PhaseEndsType ==
  ASSUME TypeOK, NEW w \in 1..MaxStarts, PhaseEnds(w)
  PROVE  TypeOK'
<1> DEFINE rd == [readiness EXCEPT ![Sequence[walks[w].at]] = Settled(walks[w].ok)]
<1>1. LogTypes /\ PhaseTypes /\ RestTypes
  BY TypeGroups
<1>2. rd \in [Collections -> Marks]
  BY <1>1 DEF PhaseTypes, Settled, Marks
<1>3. walks[w].at + 1 \in Nat \ {0}
  <2>1. walks[w].at \in 0..Len(Sequence) /\ Len(Sequence) \in Nat
    BY <1>1, SequenceTypes DEF PhaseTypes, WalkSlots
  <2> QED
    BY <2>1
<1>4. started \in BOOLEAN /\ Phase(w, walks[w].at + 1, rd, started)
  BY <1>1 DEF PhaseEnds, RestTypes
<1> HIDE DEF rd
<1>5. /\ PhaseTypes' /\ state' \in States /\ loaded' \in BOOLEAN
      /\ pullTimer' \in BOOLEAN /\ (pullTimer' => pullTimer \/ started)
  BY <1>2, <1>3, <1>4, PhaseType
<1>6. LogTypes'
  BY <1>1, <1>5 DEF PhaseEnds, LogTypes
<1>7. RestTypes'
  BY <1>1, <1>5 DEF PhaseEnds, RestTypes
<1> QED
  BY <1>5, <1>6, <1>7, TypeGroups

LEMMA StartType == TypeOK /\ Start => TypeOK'
<1> SUFFICES ASSUME TypeOK, Start PROVE TypeOK'
  OBVIOUS
<1> DEFINE rd == [c \in Collections |-> "cold"]
<1>1. LogTypes /\ PhaseTypes /\ RestTypes
  BY TypeGroups
<1>2. started' = TRUE /\ starts' \in 1..MaxStarts
  BY <1>1, BoundsAssumption DEF Start, RestTypes
<1>3. rd \in [Collections -> Marks]
  BY DEF Marks
<1> HIDE DEF rd
<1>4. CASE policy.pull = "phased" /\ Phase(starts', 1, rd, TRUE)
  <2>1. /\ PhaseTypes' /\ state' \in States /\ loaded' \in BOOLEAN
        /\ pullTimer' \in BOOLEAN /\ (pullTimer' => pullTimer \/ TRUE)
    <3>1. 1 \in Nat \ {0} /\ TRUE \in BOOLEAN
      OBVIOUS
    <3>2. Phase(starts', 1, rd, TRUE)
      BY <1>4
    <3> QED
      BY <1>2, <1>3, <3>1, <3>2, PhaseType
  <2> QED
    BY <1>1, <1>2, <2>1, TypeGroups DEF Start, LogTypes, RestTypes
<1>5. CASE pullTimer' \in BOOLEAN /\ UNCHANGED <<state, pulls, loaded, walks, readiness>>
  BY <1>1, <1>2, <1>5, TypeGroups DEF Start, LogTypes, RestTypes, PhaseTypes
<1>6. policy.steady \in BOOLEAN
  BY <1>1, PoliciesAssumption DEF RestTypes
<1> QED
  BY <1>1, <1>4, <1>5, <1>6 DEF Start, RestTypes, rd

LEMMA NotifyChangeType ==
  ASSUME TypeOK, NEW n \in saving, NotifyChange(n)
  PROVE  TypeOK'
<1>1. LogTypes /\ PhaseTypes /\ RestTypes
  BY TypeGroups
<1>2. PhaseTypes'
  BY <1>1 DEF NotifyChange, PhaseTypes, phased
<1>3. CASE started /\ ExecutePush(debounce)
  <2>1. debounce \in BOOLEAN
    BY <1>1 DEF RestTypes
  <2> QED
    BY <1>1, <1>2, <1>3, <2>1, ExecutePushType, TypeGroups DEF NotifyChange
<1>4. CASE UNCHANGED <<state, debounce, pushes>> /\ owed' \subseteq owed \cup ({n} \cap dirty)
  <2>1. LogTypes'
    BY <1>1, <1>4 DEF NotifyChange, LogTypes
  <2>2. RestTypes'
    BY <1>1, <1>4 DEF NotifyChange, RestTypes
  <2> QED
    BY <1>2, <2>1, <2>2, TypeGroups
<1>5. CASE started /\ ResetDebounce /\ owed' \subseteq owed \cup ({n} \cap dirty)
  <2>1. LogTypes'
    BY <1>1, <1>5 DEF NotifyChange, LogTypes
  <2>2. RestTypes'
    BY <1>1, <1>5 DEF NotifyChange, RestTypes, ResetDebounce, States
  <2> QED
    BY <1>2, <2>1, <2>2, TypeGroups
<1> QED
  BY <1>3, <1>4, <1>5 DEF NotifyChange

LEMMA StepType == TypeOK /\ [Next]_vars => TypeOK'
<1> SUFFICES ASSUME TypeOK, [Next]_vars PROVE TypeOK'
  OBVIOUS
<1>1. LogTypes /\ PhaseTypes /\ RestTypes
  BY TypeGroups
<1>2. CASE Stop
  <2>1. Unpulled(readiness) \in [Collections -> Marks]
    BY <1>1 DEF Unpulled, PhaseTypes, Marks
  <2>2. PhaseTypes'
    BY <1>1, <1>2, <2>1 DEF Stop, PhaseTypes
  <2>3. LogTypes' /\ RestTypes'
    BY <1>1, <1>2 DEF Stop, LogTypes, RestTypes, log
  <2> QED
    BY <2>2, <2>3, TypeGroups
<1>3. CASE TrackChange
  <2>1. PhaseTypes' /\ RestTypes'
    BY <1>1, <1>3 DEF TrackChange, PhaseTypes, RestTypes, timing, phased
  <2>2. LogTypes'
    <3>1. writes' \in 0..MaxWrites /\ 1..writes \subseteq 1..writes' /\ writes' \in 1..writes'
      BY <1>1, <1>3, BoundsAssumption DEF TrackChange, LogTypes
    <3> QED
      BY <1>1, <1>3, <3>1 DEF TrackChange, LogTypes
  <2> QED
    BY <2>1, <2>2, TypeGroups
<1>4. CASE GapEnds
  <2>1. PhaseTypes' /\ RestTypes' /\ LogTypes'
    BY <1>1, <1>4 DEF GapEnds, PhaseTypes, RestTypes, LogTypes, log, phased
  <2> QED
    BY <2>1, TypeGroups
<1>5. CASE DebounceFires
  <2>1. started
    BY <1>1, <1>5 DEF DebounceFires, RestTypes
  <2>2. PhaseTypes' /\ LogTypes' /\ RestTypes'
    BY <1>1, <1>5, <2>1, ExecutePushType DEF DebounceFires, PhaseTypes, phased, log
  <2> QED
    BY <2>2, TypeGroups
<1>6. CASE PushIntervalFires
  <2>1. debounce \in BOOLEAN /\ started
    BY <1>1, <1>6 DEF RestTypes, PushIntervalFires
  <2>2. PhaseTypes' /\ LogTypes' /\ RestTypes'
    BY <1>1, <1>6, <2>1, ExecutePushType DEF PushIntervalFires, PhaseTypes, phased, log
  <2> QED
    BY <2>2, TypeGroups
<1>7. CASE FireUnloadPush
  <2>1. PhaseTypes' /\ LogTypes' /\ RestTypes'
    BY <1>1, <1>7
    DEF FireUnloadPush, BeginPush, PhaseTypes, RestTypes, LogTypes, phased, log, timing
  <2> QED
    BY <2>1, TypeGroups
<1>8. CASE PullTriggered
  <2>1. 0 \in 0..MaxStarts
    BY BoundsAssumption
  <2>2. pulls' \in [1..MaxPulls -> PullSlots] /\ state' \in States /\ loaded' \in BOOLEAN
    BY <1>8, <2>1, ExecutePullType DEF PullTriggered
  <2>3. PhaseTypes' /\ LogTypes' /\ RestTypes'
    BY <1>1, <1>8, <2>2 DEF PullTriggered, PhaseTypes, RestTypes, LogTypes, phased, timing
  <2> QED
    BY <2>3, TypeGroups
<1>9. CASE UNCHANGED vars
  BY <1>9 DEF vars, TypeOK
<1> QED
  BY <1>2, <1>3, <1>4, <1>5, <1>6, <1>7, <1>8, <1>9, StartType, NotifyChangeType,
     PushEndType, PullEndType, PhaseEndsType
  DEF Next, PushEnds, PullEnds, WalkStep

\* Every slot, timer and mark keeps its type, and no timer is armed while the
\* scheduler is stopped.
THEOREM TypeCorrect == Spec => []TypeOK
<1> QED
  BY InitType, StepType, PTL DEF Spec
=============================================================================
