---------------------------- MODULE SyncScheduler ----------------------------
(***************************************************************************)
(* The SyncScheduler of one vault: timers, page hooks and the phased walk  *)
(* decide when the engine's push and pull are called.  Its only guard is   *)
(* the `_state` it also shows to the application: every operation that     *)
(* starts or ends overwrites it, so pushes and pulls do overlap.  The      *)
(* engine behind the callbacks is SyncEngine's business: here a push sends *)
(* any part of the dirty log, and a call may fail.                         *)
(***************************************************************************)
EXTENDS Naturals, FiniteSets, Sequences

CONSTANTS
  Policies,    \* the syncPolicy an engine may be given
  Sequence,    \* the collections a phased policy names, in order
  MaxWrites,   \* bound: tracked writes in a behaviour
  MaxStarts,   \* bound: calls of start, one phased walk each
  MaxPushes,   \* bound: pushes in flight at once
  MaxPulls     \* bound: pulls in flight at once

ASSUME SequenceAssumption == Sequence \in Seq(STRING)
ASSUME BoundsAssumption == {MaxWrites, MaxStarts, MaxPushes, MaxPulls} \subseteq Nat
\* `gap` says that minIntervalMs is positive, `steady` that pull.intervalMs is.
ASSUME PoliciesAssumption ==
  Policies \subseteq [push : {"manual", "on-change", "debounce", "interval"},
                      gap : BOOLEAN, unload : BOOLEAN,
                      pull : {"manual", "interval", "on-focus", "phased"},
                      steady : BOOLEAN]

VARIABLES
  policy,     \* chosen when the engine is built
  state,      \* `_state`
  started,
  starts,     \* consumed bound
  debounce,   \* is the debounce timer armed?
  pullTimer,  \* is the pull interval armed?
  recent,     \* did a scheduled push succeed less than minIntervalMs ago?
  loaded,     \* has the engine read its saved dirty log?
  dirty,      \* the engine's dirty log: the writes it has not sent
  saving,     \* writes whose trackChange has not come to notifyChange yet
  writes,     \* consumed bound; also the last write's name
  owed,       \* history: writes notified since start and in no push begun since
  pushes,     \* pushes in flight
  pulls,      \* pulls in flight: the state each found, the walk that awaits it
  walks,      \* the phased walks
  readiness   \* `_readiness`

vars == <<policy, state, started, starts, debounce, pullTimer, recent, loaded,
          dirty, saving, writes, owed, pushes, pulls, walks,
          readiness>>
log == <<loaded, dirty, saving, writes>>
timing == <<debounce, pullTimer, recent>>
phased == <<walks, readiness>>

States == {"idle", "pending", "pushing", "pulling", "error"}
Collections == {Sequence[i] : i \in DOMAIN Sequence}
Free == [at |-> "free"]
NoWalk == [pc |-> "none", at |-> 0, ok |-> FALSE]

\* Every slot, timer and readiness mark is one the scheduler can show, and no timer
\* is armed while it is stopped.
TypeOK ==
  /\ policy \in Policies /\ state \in States
  /\ {started, debounce, pullTimer, recent, loaded} \subseteq BOOLEAN
  /\ starts \in 0..MaxStarts /\ writes \in 0..MaxWrites
  /\ dirty \subseteq 1..writes /\ owed \subseteq dirty /\ saving \subseteq 1..writes
  /\ pushes \in [1..MaxPushes -> {"free", "scheduled", "unload"}]
  /\ pulls \in [1..MaxPulls -> {Free} \cup
                  [at : {"flight"}, prev : States, walk : 0..MaxStarts]]
  /\ walks \in [1..MaxStarts -> [pc : {"none", "await", "resume", "done"},
                                 at : 0..Len(Sequence), ok : BOOLEAN]]
  /\ readiness \in [Collections -> {"none", "cold", "pulling", "live"}]
  /\ debounce \/ pullTimer => started

\* The engine is built; its saved log may hold writes of an earlier session.
Init ==
  /\ policy \in Policies /\ state = "idle"
  /\ started = FALSE /\ starts = 0
  /\ debounce = FALSE /\ pullTimer = FALSE /\ recent = FALSE
  /\ loaded = FALSE /\ writes \in {0, 1} \cap 0..MaxWrites /\ dirty = 1..writes
  /\ owed = {} /\ saving = {}
  /\ pushes = [k \in 1..MaxPushes |-> "free"]
  /\ pulls = [k \in 1..MaxPulls |-> Free]
  /\ walks = [w \in 1..MaxStarts |-> NoWalk]
  /\ readiness = [c \in Collections |-> "none"]

\* getDirtyCount: the array in memory, which is empty until some call loads it.
NothingDirty == ~loaded \/ dirty = {}

-----------------------------------------------------------------------------
(* Pushing. *)

BeginPush(kind) ==
  \E k \in 1..MaxPushes :
    /\ pushes[k] = "free"
    /\ pushes' = [pushes EXCEPT ![k] = kind]
    /\ owed' = {}

\* executePush, up to its await, with the timer as `armed` leaves it.
ExecutePush(armed) ==
  LET held == policy.gap /\ recent IN
  \/ /\ state = "pushing"
     /\ debounce' = armed /\ UNCHANGED <<state, pushes, owed>>
  \/ /\ state # "pushing" /\ held
     /\ debounce' = (armed \/ policy.push = "debounce")
     /\ UNCHANGED <<state, pushes, owed>>
  \/ /\ state # "pushing" /\ ~held /\ NothingDirty
     /\ state' = "idle" /\ debounce' = armed /\ UNCHANGED <<pushes, owed>>
  \/ /\ state # "pushing" /\ ~held /\ ~NothingDirty
     /\ state' = "pushing" /\ debounce' = armed /\ BeginPush("scheduled")

DebounceFires ==
  /\ debounce
  /\ ExecutePush(FALSE)
  /\ UNCHANGED <<policy, started, starts, pullTimer, recent, log, pulls, phased>>

PushIntervalFires ==
  /\ started /\ policy.push = "interval"
  /\ ExecutePush(debounce)
  /\ UNCHANGED <<policy, started, starts, pullTimer, recent, log, pulls, phased>>

\* The page is hidden or left: a push beside the scheduler's state.
FireUnloadPush ==
  /\ started /\ policy.unload /\ ~NothingDirty
  /\ BeginPush("unload")
  /\ UNCHANGED <<policy, state, started, starts, timing, log, pulls, phased>>

\* The state a push leaves when it has resolved.
AfterPush(left) == IF left = {} THEN "idle" ELSE "pending"

\* A push resolves: `sent` has left the log, writes made meanwhile included.
PushResolves(k) ==
  /\ pushes[k] # "free"
  /\ \E sent \in SUBSET dirty :
       /\ dirty' = dirty \ sent /\ owed' = owed \ sent
       /\ state' = IF pushes[k] = "scheduled" THEN AfterPush(dirty') ELSE state
  /\ recent' = IF pushes[k] = "scheduled" THEN policy.gap ELSE recent
  /\ pushes' = [pushes EXCEPT ![k] = "free"]
  /\ UNCHANGED <<policy, started, starts, debounce, pullTimer, loaded, saving,
                 writes, pulls, phased>>

PushThrows(k) ==
  /\ pushes[k] # "free"
  /\ state' = IF pushes[k] = "scheduled" THEN "error" ELSE state
  /\ pushes' = [pushes EXCEPT ![k] = "free"]
  /\ UNCHANGED <<policy, started, starts, timing, log, owed, pulls, phased>>

\* minIntervalMs has passed since the last success.
GapEnds ==
  /\ recent /\ recent' = FALSE
  /\ UNCHANGED <<policy, state, started, starts, debounce, pullTimer, log, owed, pushes, pulls, phased>>

-----------------------------------------------------------------------------
(* Pulling, and the walk of a phased policy. *)

\* executePull, up to its await, for walk w (0 for a timer, a focus or a call).
ExecutePull(w) ==
  /\ state # "pulling"
  /\ \E k \in 1..MaxPulls :
       /\ pulls[k] = Free
       /\ pulls' = [pulls EXCEPT ![k] = [at |-> "flight", prev |-> state, walk |-> w]]
  /\ state' = "pulling" /\ loaded' = TRUE

\* Mutant of AfterPull: the pull restores the state it found.
AfterPullRestores(prev) == prev

\* The state a pull leaves behind, given the one it found.
AfterPull(prev) == IF prev = "pending" THEN "pending" ELSE "idle"

PullTriggered ==
  /\ \/ pullTimer
     \/ started /\ policy.pull = "on-focus"
  /\ ExecutePull(0)
  /\ UNCHANGED <<policy, started, starts, timing, dirty, saving, writes, owed, pushes, phased>>

\* A walk is told what its phase achieved; it goes on in a later turn.
Told(w, ok) == IF w = 0 THEN walks ELSE [walks EXCEPT ![w].pc = "resume", ![w].ok = ok]

\* The pull resolves; `ok` unless it reported errors or the role forbids it.
PullResolves(k) ==
  /\ pulls[k] # Free
  /\ \E ok \in BOOLEAN : walks' = Told(pulls[k].walk, ok)
  /\ state' = AfterPull(pulls[k].prev)
  /\ pulls' = [pulls EXCEPT ![k] = Free]
  /\ UNCHANGED <<policy, started, starts, timing, log, owed, pushes, readiness>>

\* Mutant of PullThrows: the rejection escapes, and the walk never resumes.
PullThrowsUntold(k) ==
  /\ pulls[k] # Free
  /\ state' = "error"
  /\ pulls' = [pulls EXCEPT ![k] = Free]
  /\ UNCHANGED <<policy, started, starts, timing, log, owed, pushes, phased>>

PullThrows(k) ==
  /\ pulls[k] # Free
  /\ walks' = Told(pulls[k].walk, FALSE)
  /\ state' = "error"
  /\ pulls' = [pulls EXCEPT ![k] = Free]
  /\ UNCHANGED <<policy, started, starts, timing, log, owed, pushes, readiness>>

\* runSequence from the top of its loop at phase i to its next await, with the
\* readiness marks `rd`; `on` is `started`.
Phase(w, i, rd, on) ==
  \/ /\ i <= Len(Sequence) /\ ~on
     /\ walks' = [walks EXCEPT ![w].pc = "done"]
     /\ readiness' = rd
     /\ UNCHANGED <<state, pulls, loaded, pullTimer>>
  \/ /\ i <= Len(Sequence) /\ on
     /\ readiness' = [rd EXCEPT ![Sequence[i]] = "pulling"]
     /\ \/ /\ ExecutePull(w)
           /\ walks' = [walks EXCEPT ![w] = [pc |-> "await", at |-> i, ok |-> FALSE]]
        \/ /\ state = "pulling"
           /\ walks' = [walks EXCEPT ![w] = [pc |-> "resume", at |-> i, ok |-> FALSE]]
           /\ UNCHANGED <<state, pulls, loaded>>
     /\ UNCHANGED pullTimer
  \/ /\ i > Len(Sequence)
     /\ walks' = [walks EXCEPT ![w].pc = "done"]
     /\ readiness' = rd
     /\ pullTimer' = (pullTimer \/ (on /\ policy.steady))
     /\ UNCHANGED <<state, pulls, loaded>>

\* The mark a phase leaves on its collection.
Settled(ok) == IF ok THEN "live" ELSE "cold"

\* Mutant of PhaseEnds: `started` is not looked at between phases.
PhaseEndsUnchecked(w) ==
  /\ walks[w].pc = "resume"
  /\ Phase(w, walks[w].at + 1,
           [readiness EXCEPT ![Sequence[walks[w].at]] = Settled(walks[w].ok)], TRUE)
  /\ UNCHANGED <<policy, started, starts, debounce, recent, dirty, saving, writes,
                 owed, pushes>>

PhaseEnds(w) ==
  /\ walks[w].pc = "resume"
  /\ Phase(w, walks[w].at + 1,
           [readiness EXCEPT ![Sequence[walks[w].at]] = Settled(walks[w].ok)], started)
  /\ UNCHANGED <<policy, started, starts, debounce, recent, dirty, saving, writes,
                 owed, pushes>>

-----------------------------------------------------------------------------
(* Writes, start and stop. *)

\* trackChange has put the write in the log and awaits the log's save.
TrackChange ==
  /\ writes < MaxWrites
  /\ writes' = writes + 1 /\ loaded' = TRUE
  /\ dirty' = dirty \cup {writes'} /\ saving' = saving \cup {writes'}
  /\ UNCHANGED <<policy, state, started, starts, timing, owed, pushes, pulls, phased>>

\* Mutant of ResetDebounce: the state of a push in flight is respected.
ResetDebounceKeepsState ==
  /\ debounce' = TRUE
  /\ UNCHANGED <<state, pushes>>

\* A write of a debounce policy: resetDebounce.
ResetDebounce ==
  /\ state' = "pending" /\ debounce' = TRUE
  /\ UNCHANGED pushes

\* notifyChange: the scheduler owes the write to the remote from here on.
NotifyChange(n) ==
  /\ n \in saving /\ saving' = saving \ {n}
  /\ \/ ~started /\ UNCHANGED <<state, debounce, pushes, owed>>
     \/ started /\ policy.push = "on-change" /\ ExecutePush(debounce)
     \/ started /\ policy.push = "debounce" /\ ResetDebounce
        /\ owed' = owed \cup ({n} \cap dirty)
     \/ started /\ policy.push = "manual" /\ UNCHANGED <<state, debounce, pushes, owed>>
     \/ started /\ policy.push = "interval" /\ UNCHANGED <<state, debounce, pushes>>
        /\ owed' = owed \cup ({n} \cap dirty)
  /\ UNCHANGED <<policy, started, starts, pullTimer, recent, loaded, dirty, writes, pulls, phased>>

Start ==
  /\ ~started /\ started' = TRUE
  /\ starts < MaxStarts /\ starts' = starts + 1
  /\ \/ /\ policy.pull = "phased"
        /\ Phase(starts', 1, [c \in Collections |-> "cold"], TRUE)
     \/ /\ policy.pull = "interval" /\ pullTimer' = policy.steady
        /\ UNCHANGED <<state, pulls, loaded, walks, readiness>>
     \/ /\ policy.pull \in {"manual", "on-focus"}
        /\ UNCHANGED <<state, pulls, loaded, pullTimer, walks, readiness>>
  /\ UNCHANGED <<policy, debounce, recent, dirty, saving, writes, owed, pushes>>

\* stop: a phase cut short must not stay "pulling", and no timer may survive.
Unpulled(rd) == [c \in Collections |-> IF rd[c] = "pulling" THEN "cold" ELSE rd[c]]

\* Mutant of Stop: the pull interval is left armed.
StopKeepsPulling ==
  /\ started /\ started' = FALSE
  /\ readiness' = Unpulled(readiness)
  /\ debounce' = FALSE
  /\ owed' = {}
  /\ UNCHANGED <<policy, state, starts, pullTimer, recent, log, pushes, pulls, walks>>

Stop ==
  /\ started /\ started' = FALSE
  /\ readiness' = Unpulled(readiness)
  /\ debounce' = FALSE /\ pullTimer' = FALSE
  /\ owed' = {}
  /\ UNCHANGED <<policy, state, starts, recent, log, pushes, pulls, walks>>

PushEnds == \E k \in 1..MaxPushes : PushResolves(k) \/ PushThrows(k)
PullEnds == \E k \in 1..MaxPulls : PullResolves(k) \/ PullThrows(k)
WalkStep == \E w \in 1..MaxStarts : PhaseEnds(w)

Next ==
  \/ Start \/ Stop \/ TrackChange \/ \E n \in saving : NotifyChange(n)
  \/ DebounceFires \/ PushIntervalFires \/ FireUnloadPush
  \/ PushEnds \/ GapEnds \/ PullTriggered \/ PullEnds \/ WalkStep

\* Timers fire while armed and calls of the engine end.  A walk's continuation runs
\* whatever else does: strong only because MaxPulls may hold it back here.
Fairness ==
  /\ WF_vars(DebounceFires) /\ WF_vars(PushIntervalFires) /\ WF_vars(GapEnds)
  /\ \A k \in 1..MaxPushes : WF_vars(PushResolves(k) \/ PushThrows(k))
  /\ \A k \in 1..MaxPulls : WF_vars(PullResolves(k) \/ PullThrows(k))
  /\ \A w \in 1..MaxStarts : SF_vars(PhaseEnds(w))

Spec == Init /\ [][Next]_vars /\ Fairness

-----------------------------------------------------------------------------
(* Properties. *)

\* The state shown as busy is busy: a state left at "pushing" with no push in
\* flight would make executePush return for ever, and no write would be sent.
BusyIsTrue ==
  /\ state = "pushing" => \E k \in 1..MaxPushes : pushes[k] = "scheduled"
  /\ state = "pulling" => \E k \in 1..MaxPulls : pulls[k] # Free

\* After stop nothing starts on its own: no push, and no further phase of a walk
\* that was awaiting its pull.
QuietAfterStop ==
  [][~started /\ ~started' => /\ \A k \in 1..MaxPushes : pushes[k] = "free" => pushes'[k] = "free"
                              /\ \A k \in 1..MaxPulls : pulls[k] = Free => pulls'[k] = Free]_vars

\* A write notified to a debounced or interval scheduler is in the log of a push
\* that begins later, unless the scheduler is stopped: neither a push in flight
\* nor minIntervalMs nor a pull's state may swallow its turn.
EveryWriteOffered == \A n \in 1..MaxWrites : n \in owed ~> n \notin owed

\* A phase always ends: a collection does not stay "pulling".
PullingNeverTerminal ==
  \A c \in Collections : readiness[c] = "pulling" ~> readiness[c] # "pulling"
=============================================================================
