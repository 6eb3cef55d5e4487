----------------------------- MODULE LedgerStore -----------------------------
(***************************************************************************)
(* The hash-chained ledger of a vault. Each LedgerStore caches the chain's *)
(* head; its append builds the next entry on that head, claims the slot in *)
(* the store with a compare-and-swap, then writes the entry's delta row,   *)
(* and starts over with a fresh head when a put conflicts.  Several stores *)
(* and several calls of each run at once.  Answers may be lost (the call   *)
(* throws, or withRetry sends the put again), and a process may crash.     *)
(* purgeRecordDeltas removes the delta rows of a forgotten record.         *)
(***************************************************************************)
EXTENDS Naturals, Sequences, FiniteSets

CONSTANTS
  Stores,      \* LedgerStore instances, one per open vault
  Calls,       \* the calls of append that may be made
  Forgotten,   \* those about the record that is forgotten, all with a delta
  Plain,       \* those that carry no delta
  MaxAttempts, \* MAX_APPEND_ATTEMPTS
  MaxFaults,   \* bound: lost answers, failed calls and crashes
  Unknown      \* the head cache's `undefined`

ASSUME CallsAssumption == IsFiniteSet(Calls) /\ Forgotten \cup Plain \subseteq Calls
ASSUME UnknownAssumption == Unknown \notin Stores
ASSUME BoundsAssumption == MaxAttempts \in Nat \ {0} /\ MaxFaults \in Nat

VARIABLES
  rows,   \* `_ledger`, in the order of the padded index
  deltas, \* `_ledger_deltas`: index to the call whose delta the row holds
  cache,  \* `headCache` of each store: the chain's length and head hash as known
  call,   \* the calls
  purge,  \* the purge of the forgotten record
  faults  \* consumed bound

vars == <<rows, deltas, cache, call, purge, faults>>

\* A hash stands for all of what was hashed: the entry, and through it the chain.
Genesis == <<>>
HashEntry(e) == <<e.call, e.index, e.prev>>
HeadOf(log) == IF log = <<>> THEN [length |-> 0, hash |-> Genesis]
             ELSE [length |-> Len(log), hash |-> HashEntry(log[Len(log)])]

\* `at` is the head a call builds on; `lost` is history: its puts that were applied
\* unanswered.
Idle == [pc |-> "idle", store |-> Unknown, attempt |-> 0, at |-> HeadOf(<<>>), lost |-> 0]
NoPurge == [pc |-> "idle", todo |-> {}, owed |-> {}]

\* A store never believes in a longer chain than there is.
TypeOK ==
  /\ \A i \in DOMAIN rows : rows[i].call \in Calls
  /\ DOMAIN deltas \subseteq 1..Len(rows)
  /\ \A s \in Stores : cache[s] # Unknown => cache[s].length <= Len(rows)
  /\ \A c \in Calls : call[c].attempt \in 0..MaxAttempts
  /\ purge.todo \subseteq DOMAIN rows /\ faults \in 0..MaxFaults

Init ==
  /\ rows = <<>> /\ deltas = <<>>
  /\ cache = [s \in Stores |-> Unknown]
  /\ call = [c \in Calls |-> Idle]
  /\ purge = NoPurge /\ faults = 0

\* Call c returns or throws.
Ended(c, pc) == [call[c] EXCEPT !.pc = pc, !.store = Unknown, !.at = HeadOf(<<>>)]

Entry(c) == [call |-> c, index |-> call[c].at.length + 1, prev |-> call[c].at.hash]

-----------------------------------------------------------------------------
(* append. *)

\* The first attempt builds on the cached head, when there is one.
Begin(c, s) ==
  /\ call[c].pc = "idle"
  /\ call' = [call EXCEPT ![c] =
       IF cache[s] = Unknown
       THEN [Idle EXCEPT !.pc = "load", !.store = s]
       ELSE [Idle EXCEPT !.pc = "put", !.store = s, !.at = cache[s]]]
  /\ UNCHANGED <<rows, deltas, cache, purge, faults>>

\* loadAllEntries has answered: an empty chain is cached at once, of any other the
\* last entry's hash is still being computed.
Load(c) ==
  /\ call[c].pc = "load"
  /\ \/ /\ rows = <<>>
        /\ cache' = [cache EXCEPT ![call[c].store] = HeadOf(<<>>)]
        /\ call' = [call EXCEPT ![c] = [@ EXCEPT !.pc = "put", !.at = HeadOf(<<>>)]]
     \/ /\ rows # <<>>
        /\ call' = [call EXCEPT ![c] = [@ EXCEPT !.pc = "cache", !.at = HeadOf(rows)]]
        /\ UNCHANGED cache
  /\ UNCHANGED <<rows, deltas, purge, faults>>

CacheHead(c) ==
  /\ call[c].pc = "cache"
  /\ cache' = [cache EXCEPT ![call[c].store] = call[c].at]
  /\ call' = [call EXCEPT ![c].pc = "put"]
  /\ UNCHANGED <<rows, deltas, purge, faults>>

\* Mutant of SlotIsFree: the expectation is not passed on.
SlotIsFreeAlways(i) == TRUE

\* The compare-and-swap with expectedVersion 0: the slot must not exist yet.
SlotIsFree(i) == i \notin DOMAIN rows

Claim(c) == rows' = [i \in DOMAIN rows \cup {Entry(c).index} |->
                       IF i = Entry(c).index THEN Entry(c) ELSE rows[i]]

\* Mutant of AfterEntry: the delta is left out on a second attempt.
AfterEntryForgets(c) == IF c \in Plain \/ call[c].attempt > 0 THEN "hash" ELSE "delta"

AfterEntry(c) == IF c \in Plain THEN "hash" ELSE "delta"

PutEntry(c) ==
  /\ call[c].pc = "put" /\ SlotIsFree(Entry(c).index)
  /\ Claim(c)
  /\ call' = [call EXCEPT ![c].pc = AfterEntry(c)]
  /\ UNCHANGED <<deltas, cache, purge, faults>>

DeltaIsFree(c) == Entry(c).index \notin DOMAIN deltas
WriteDelta(c) == deltas' = [i \in DOMAIN deltas \cup {Entry(c).index} |->
                              IF i = Entry(c).index THEN c ELSE deltas[i]]

PutDelta(c) ==
  /\ call[c].pc = "delta" /\ DeltaIsFree(c)
  /\ WriteDelta(c)
  /\ call' = [call EXCEPT ![c].pc = "hash"]
  /\ UNCHANGED <<rows, cache, purge, faults>>

\* Either put conflicts: back off, or LedgerContentionError.
Conflict(c) ==
  /\ \/ call[c].pc = "put" /\ ~SlotIsFree(Entry(c).index)
     \/ call[c].pc = "delta" /\ ~DeltaIsFree(c)
  /\ call' = [call EXCEPT ![c] = [(IF call[c].attempt + 1 = MaxAttempts
                                  THEN Ended(c, "failed")
                                  ELSE [call[c] EXCEPT !.pc = "backoff"])
                                 EXCEPT !.attempt = @ + 1]]
  /\ UNCHANGED <<rows, deltas, cache, purge, faults>>

\* The next attempt drops the cached head.
Retry(c) ==
  /\ call[c].pc = "backoff"
  /\ cache' = [cache EXCEPT ![call[c].store] = Unknown]
  /\ call' = [call EXCEPT ![c].pc = "load"]
  /\ UNCHANGED <<rows, deltas, purge, faults>>

\* Mutant of NewHead: the cache counts the entry twice.
NewHeadTwice(c) == [length |-> Entry(c).index + 1, hash |-> HashEntry(Entry(c))]

NewHead(c) == [length |-> Entry(c).index, hash |-> HashEntry(Entry(c))]

\* The entry's hash is known: the cache moves to it, whatever it holds by now.
Finish(c) ==
  /\ call[c].pc = "hash"
  /\ cache' = [cache EXCEPT ![call[c].store] = NewHead(c)]
  /\ call' = [call EXCEPT ![c] = Ended(c, "done")]
  /\ UNCHANGED <<rows, deltas, purge, faults>>

-----------------------------------------------------------------------------
(* Faults. *)

Unanswered(c) ==
  \/ call' = [call EXCEPT ![c] = [Ended(c, "failed") EXCEPT !.lost = @ + 1]]
  \/ call' = [call EXCEPT ![c].lost = @ + 1]

\* A put is applied and its answer lost: the append throws, or the middleware
\* sends the put again and it conflicts with itself.
AnswerLost(c) ==
  /\ faults < MaxFaults /\ faults' = faults + 1
  /\ \/ call[c].pc = "put" /\ SlotIsFree(Entry(c).index) /\ Claim(c) /\ UNCHANGED deltas
     \/ call[c].pc = "delta" /\ DeltaIsFree(c) /\ WriteDelta(c) /\ UNCHANGED rows
  /\ Unanswered(c)
  /\ UNCHANGED <<cache, purge>>

\* Mutant of StoreFails: any failure of a put is taken for a conflict.
StoreFailsRetries(c) ==
  /\ faults < MaxFaults /\ faults' = faults + 1
  /\ call[c].pc \in {"put", "delta"}
  /\ call' = [call EXCEPT ![c].pc = "backoff"]
  /\ UNCHANGED <<rows, deltas, cache, purge>>

\* A store call fails without effect: the append throws.
StoreFails(c) ==
  /\ faults < MaxFaults /\ faults' = faults + 1
  /\ call[c].pc \in {"load", "put", "delta"}
  /\ call' = [call EXCEPT ![c] = Ended(c, "failed")]
  /\ UNCHANGED <<rows, deltas, cache, purge>>

\* The process of store s dies and the vault is opened again.
Crash(s) ==
  /\ faults < MaxFaults /\ faults' = faults + 1
  /\ cache' = [cache EXCEPT ![s] = Unknown]
  /\ call' = [c \in Calls |->
       IF call[c].store = s THEN Ended(c, "failed") ELSE call[c]]
  /\ UNCHANGED <<rows, deltas, purge>>

-----------------------------------------------------------------------------
(* purgeRecordDeltas. *)

\* Mutant of PurgeStart: the listing leaves out the head.
PurgeStartMissesHead ==
  /\ purge.pc = "idle"
  /\ purge' = [pc |-> "purging", owed |-> {c \in Forgotten : call[c].pc = "done"},
               todo |-> {i \in DOMAIN rows : rows[i].call \in Forgotten /\ i < Len(rows)}]
  /\ UNCHANGED <<rows, deltas, cache, call, faults>>

\* The entries of the record are listed; the ones appended by now are owed.
PurgeStart ==
  /\ purge.pc = "idle"
  /\ purge' = [pc |-> "purging", todo |-> {i \in DOMAIN rows : rows[i].call \in Forgotten},
               owed |-> {c \in Forgotten : call[c].pc = "done"}]
  /\ UNCHANGED <<rows, deltas, cache, call, faults>>

\* The next listed entry's delta row, if it is there, is deleted.
PurgeOne ==
  /\ purge.pc = "purging"
  /\ \E i \in purge.todo :
       /\ \A j \in purge.todo : i <= j
       /\ deltas' = [j \in DOMAIN deltas \ {i} |-> deltas[j]]
       /\ purge' = [purge EXCEPT !.todo = @ \ {i}]
  /\ UNCHANGED <<rows, cache, call, faults>>

PurgeEnd ==
  /\ purge.pc = "purging" /\ purge.todo = {}
  /\ purge' = [purge EXCEPT !.pc = "done"]
  /\ UNCHANGED <<rows, deltas, cache, call, faults>>

CallStep(c) == Load(c) \/ CacheHead(c) \/ PutEntry(c) \/ PutDelta(c) \/ Conflict(c)
               \/ Retry(c) \/ Finish(c) \/ AnswerLost(c) \/ StoreFails(c)
Purge == PurgeStart \/ PurgeOne \/ PurgeEnd

Next ==
  \/ \E c \in Calls : (\E s \in Stores : Begin(c, s)) \/ CallStep(c)
  \/ \E s \in Stores : Crash(s)
  \/ Purge

Spec == Init /\ [][Next]_vars

-----------------------------------------------------------------------------
(* Properties. *)

\* verify() returns ok: every entry names its own place and its predecessor's
\* hash, however stale the head was that its append started from.
ChainVerifies ==
  \A i \in DOMAIN rows : /\ rows[i].index = i
                         /\ rows[i].prev = HeadOf(SubSeq(rows, 1, i - 1)).hash

Places(c) == {i \in DOMAIN rows : rows[i].call = c}

\* An append that returned has its entry in the chain with its delta beside it
\* (unless a purge took it), and no delta row belongs to another call's entry.
ReturnedIsComplete ==
  /\ \A c \in Calls : call[c].pc = "done" =>
       \E i \in Places(c) : c \in Plain \/ i \in DOMAIN deltas
                            \/ (c \in Forgotten /\ purge.pc # "idle")
  /\ \A i \in DOMAIN deltas : rows[i].call = deltas[i]

\* A call is in the chain once, and once more at most for each answer it lost.
OncePerCall == \A c \in Calls : Cardinality(Places(c)) <= 1 + call[c].lost

\* After a purge no delta is left of an append that had returned before it.
PurgeIsComplete ==
  purge.pc = "done" => \A i \in DOMAIN deltas : deltas[i] \notin purge.owed

\* The chain is an append-only log.
Log == INSTANCE AppendOnlyLog WITH log <- [i \in DOMAIN rows |-> rows[i].call], Entries <- Calls
ImplementsLog == Log!Spec
=============================================================================
