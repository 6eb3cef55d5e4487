---------------------------- MODULE SchemaFence ----------------------------
(***************************************************************************)
(* The schema cutover of one vault: an instance whose release changes a    *)
(* collection puts up the fence, waits until the others have flushed their *)
(* write queues, rewrites the records and raises the generation.  Every    *)
(* write reads the fence first; an instance acknowledges through the       *)
(* presence document its watcher keeps.  Instances run side by side over   *)
(* one store, which keeps the fence, the presence documents and the        *)
(* records; all the rest is memory of an instance.                         *)
(***************************************************************************)
EXTENDS Naturals, FiniteSets

CONSTANTS
  New,       \* instances of the release with the cutover
  Old,       \* instances of the release before: no cutover, hence no watcher
  Admins,    \* the new ones that call runSchemaCutover
  Watched,   \* the new ones whose watcher runs: it starts with the cutover's registration
  Writes,    \* the puts the instances may call
  Calls,     \* calls of abortSchemaCutover, and registrations that persist a schema,
             \* in whatever instance
  None,      \* no generation acknowledged
  MaxRuns,   \* bound: cutovers called
  MaxFaults  \* bound: failed writes, silent instances, timeouts, failed rewrites

Instances == New \cup Old

ASSUME InstancesAssumption == New \cap Old = {} /\ Admins \cup Watched \subseteq New
ASSUME BoundsAssumption == {MaxRuns, MaxFaults} \subseteq Nat

VARIABLES
  fence,    \* _meta/schema-fence: generation and state; history: its changes so far
  docs,     \* presence documents: heard of lately?, generation acknowledged
  client,   \* of each instance: the generation it opened at, its watcher, its queue
  write,    \* each put: where it stands and in which instance
  cut,      \* of each admin: its cutover
  back,     \* each of the Calls: the fence document it will put
  record,   \* the generation whose shape the stored record has
  crossed,  \* history: has a writer of the fence gone on over what it had not read, a change
            \* of the fence or, in an abort, records rewritten?
  used      \* bounds consumed: cutovers, faults

vars == <<fence, docs, client, write, cut, back, record, crossed, used>>

States == {"normal", "draining", "migrating", "complete"}
Up == {"draining", "migrating"}
Generations == 0..MaxRuns

\* An acknowledgement names a generation; history: at which change of the fence it was
\* asked for, which the code does not record.
Acks == [gen : Generations, seq : Nat]
NoAck == [gen |-> None, seq |-> 0]

\* A put, a cutover, a put of the fence: not called yet, or over.
NoWrite(pc) == [pc |-> pc, of |-> None, late |-> FALSE]
NoCutover(pc) == [pc |-> pc, gen |-> 0, seq |-> 0, todo |-> {}, counted |-> {}]
NoPut(pc) == [pc |-> pc, gen |-> 0, state |-> "normal", seq |-> 0]

Init ==
  /\ fence = [gen |-> 0, state |-> "normal", seq |-> 1] /\ record = 0 /\ crossed = FALSE
  /\ docs = [c \in Instances |-> [fresh |-> FALSE, acked |-> NoAck]]
  /\ client = [c \in Instances |->
       [snapshot |-> 0, quiesced |-> NoAck, check |-> "idle", at |-> NoAck, error |-> FALSE]]
  /\ write = [w \in Writes |-> NoWrite("idle")]
  /\ cut = [a \in Admins |-> NoCutover("idle")]
  /\ back = [k \in Calls |-> NoPut("idle")]
  /\ used = [runs |-> 0, faults |-> 0]

Fault == used.faults < MaxFaults /\ used' = [used EXCEPT !.faults = @ + 1]

Queued(c) == {w \in Writes : write[w].pc = "queued" /\ write[w].of = c}

\* Puts the fence document, without compare-and-swap: `unread` if over what its writer
\* has not read.  (setFence reads it once more, for a field the model leaves out.)
SetFence(gen, state, unread) ==
  /\ fence' = IF fence.gen = gen /\ fence.state = state THEN fence
              ELSE [gen |-> gen, state |-> state, seq |-> fence.seq + 1]
  /\ crossed' = (crossed \/ unread)

-----------------------------------------------------------------------------
(* The write queue of an instance. *)

\* onFlush finds the queue empty, or waits.
Flushes(c) == IF Queued(c) = {} THEN "flushed" ELSE "flush"

\* Mutant of Woken: settling does not reach the waiters.
WokenNever(c, e, pc) == pc

\* What becomes of a waiter of c's flush when the last write settles.
Woken(c, e, pc) == IF pc # "flush" THEN pc ELSE IF e THEN "idle" ELSE "flushed"

\* settle: the error of any write of the busy period is kept for the waiters of the
\* last one, and forgotten with it.
Settle(w, failed) ==
  LET c == write[w].of
      e == client[c].error \/ failed
      last == Queued(c) = {w}
  IN /\ write' = [write EXCEPT ![w] = NoWrite("done")]
     /\ client' = [client EXCEPT ![c] = [@ EXCEPT !.error = e /\ ~last,
                     !.check = IF last THEN Woken(c, e, client[c].check) ELSE client[c].check]]
     /\ cut' = [a \in Admins |-> IF a = c /\ last
                                 THEN [cut[a] EXCEPT !.pc = Woken(c, e, @)] ELSE cut[a]]

-----------------------------------------------------------------------------
(* A put.  Only old instances write the collection that changes: in a new one *)
(* assertWritable refuses it while its cutover is pending.                     *)

Writable(c) == fence.gen <= client[c].snapshot /\ fence.state \notin Up

\* assertWritable: a fresh read of the fence.
Put(w, c) ==
  /\ write[w].pc = "idle"
  /\ write' = [write EXCEPT ![w] = IF Writable(c) THEN [@ EXCEPT !.pc = "gated", !.of = c]
                                   ELSE NoWrite("done")]
  /\ UNCHANGED <<fence, docs, client, cut, back, record, crossed, used>>

\* The answer of that read, the read of the prior record for whoever listens and the
\* beforeWrite hooks are awaited; only then does the write enter the queue (a
\* hook that throws leaves it here).
Track(w) ==
  /\ write[w].pc = "gated"
  /\ write' = [write EXCEPT ![w] = [@ EXCEPT !.pc = "queued", !.late = fence.state \in Up]]
  /\ UNCHANGED <<fence, docs, client, cut, back, record, crossed, used>>

\* The write lands with the body its release gave it.
Lands(w) ==
  /\ write[w].pc = "queued" /\ Settle(w, FALSE)
  /\ record' = IF write[w].of \in Old THEN 0 ELSE record
  /\ UNCHANGED <<fence, docs, back, crossed, used>>

WriteFails(w) ==
  /\ write[w].pc = "queued" /\ Fault /\ Settle(w, TRUE)
  /\ UNCHANGED <<fence, docs, back, record, crossed>>

-----------------------------------------------------------------------------
(* FenceWatcher, in new instances. *)

\* Mutant of Beat: the heartbeat does not repeat the acknowledgement.
BeatForgetsAck(c) ==
  /\ docs' = [docs EXCEPT ![c] = [fresh |-> TRUE, acked |-> NoAck]]
  /\ UNCHANGED <<fence, client, write, cut, back, record, crossed, used>>

Beat(c) ==
  /\ docs' = [docs EXCEPT ![c] = [fresh |-> TRUE, acked |-> client[c].quiesced]]
  /\ UNCHANGED <<fence, client, write, cut, back, record, crossed, used>>

\* check reads the fence; on a drain of a generation it has not acknowledged it calls
\* onFlush.  (The interval may start a check beside one that waits; one at a time here.)
Asked(c) == fence.state = "draining" /\ client[c].quiesced.gen # fence.gen

Checks(c, check) ==
  /\ client[c].check = "idle"
  /\ client' = [client EXCEPT ![c] = [@ EXCEPT
       !.at = IF Asked(c) THEN [gen |-> fence.gen, seq |-> fence.seq] ELSE NoAck,
       !.check = IF Asked(c) THEN check ELSE "idle",
       !.quiesced = IF fence.state = "normal" THEN NoAck ELSE client[c].quiesced]]
  /\ UNCHANGED <<fence, docs, write, cut, back, record, crossed, used>>

\* Mutant of Check: the watcher does not wait for the flush.
CheckAcksAtOnce(c) == Checks(c, "flushed")

Check(c) == Checks(c, Flushes(c))

\* The flush has resolved: remember the generation and report it.
Acknowledge(c) ==
  /\ client[c].check = "flushed"
  /\ client' = [client EXCEPT ![c] = [@ EXCEPT !.check = "idle", !.quiesced = client[c].at, !.at = NoAck]]
  /\ docs' = [docs EXCEPT ![c] = [fresh |-> TRUE, acked |-> client[c].at]]
  /\ UNCHANGED <<fence, write, cut, back, record, crossed, used>>

\* An instance is not heard of for staleMs: a throttled or suspended tab.
Silent(c) ==
  /\ docs[c].fresh /\ Fault
  /\ docs' = [docs EXCEPT ![c].fresh = FALSE]
  /\ UNCHANGED <<fence, client, write, cut, back, record, crossed>>

-----------------------------------------------------------------------------
(* runCutover, in an admin's instance. *)

Goes(a, pc) == cut' = [cut EXCEPT ![a].pc = pc]
Ends(a) == cut' = [cut EXCEPT ![a] = NoCutover("idle")]

\* Another writer has changed the fence since the cutover's own drain (at first: since it
\* read the fence); the cutover does not notice, and is so for the rest of its run.
Overtaken(a) == cut[a].seq # fence.seq

\* A cutover moves its fence on.
Moves(a, pc, gen, state) ==
  /\ SetFence(gen, state, Overtaken(a))
  /\ cut' = [cut EXCEPT ![a] = [@ EXCEPT !.pc = pc,
               !.seq = IF Overtaken(a) THEN cut[a].seq ELSE fence'.seq]]

RunCutover(a) ==
  /\ cut[a].pc = "idle" /\ used.runs < MaxRuns
  /\ cut' = [cut EXCEPT ![a] = [@ EXCEPT !.pc = "base", !.gen = fence.gen, !.seq = fence.seq]]
  /\ used' = [used EXCEPT !.runs = @ + 1]
  /\ UNCHANGED <<fence, docs, client, write, back, record, crossed>>

SetDraining(a) ==
  /\ cut[a].pc = "base"
  /\ SetFence(cut[a].gen, "draining", Overtaken(a))
  /\ cut' = [cut EXCEPT ![a] = [@ EXCEPT !.pc = "draining", !.seq = fence'.seq]]
  /\ UNCHANGED <<docs, client, write, back, record, used>>

Flush(a) ==
  /\ cut[a].pc = "draining" /\ Goes(a, Flushes(a))
  /\ UNCHANGED <<fence, docs, client, write, back, record, crossed, used>>

\* reachableWriters: the presence documents are listed, then read one by one.
Poll(a) ==
  /\ cut[a].pc = "flushed"
  /\ cut' = [cut EXCEPT ![a] = [@ EXCEPT !.pc = "poll", !.todo = Instances \ {a}, !.counted = {}]]
  /\ UNCHANGED <<fence, docs, client, write, back, record, crossed, used>>

\* One writer heard of that has not acknowledged is no quorum: the cutover polls again.
\* History: `counted` are those whose acknowledgement was asked for by this drain.
ReadDoc(a, c) ==
  /\ cut[a].pc = "poll" /\ c \in cut[a].todo
  /\ cut' = [cut EXCEPT ![a] =
       IF docs[c].fresh /\ docs[c].acked.gen # cut[a].gen
       THEN [cut[a] EXCEPT !.pc = "flushed", !.todo = {}, !.counted = {}]
       ELSE [cut[a] EXCEPT !.todo = @ \ {c},
                      !.counted = @ \cup {b \in {c} : docs[b].fresh /\ docs[b].acked.seq = cut[a].seq}]]
  /\ UNCHANGED <<fence, docs, client, write, back, record, crossed, used>>

\* isQuorum: every writer heard of, without the admin itself, has acknowledged.
Quorum(a) ==
  /\ cut[a].pc = "poll" /\ cut[a].todo = {} /\ Goes(a, "quorum")
  /\ UNCHANGED <<fence, docs, client, write, back, record, crossed, used>>

\* The deadline passes first: the cutover is rejected, the fence stays up.
TimesOut(a) ==
  /\ cut[a].pc = "flushed" /\ Fault /\ Ends(a)
  /\ UNCHANGED <<fence, docs, client, write, back, record, crossed>>

SetMigrating(a) ==
  /\ cut[a].pc = "quorum" /\ Moves(a, "migrating", cut[a].gen, "migrating")
  /\ UNCHANGED <<docs, client, write, back, record, used>>

\* The transform reads the record and puts it back, whatever was put in between.
Rewrite(a) ==
  /\ cut[a].pc = "migrating" /\ Goes(a, "rewritten")
  /\ record' = cut[a].gen + 1 /\ crossed' = (crossed \/ Overtaken(a))
  /\ UNCHANGED <<fence, docs, client, write, back, used>>

\* A transform or a put throws, with no record rewritten or some: the fence stays up.
RewriteFails(a) ==
  /\ cut[a].pc \in {"migrating", "rewritten"} /\ Fault /\ Ends(a)
  /\ UNCHANGED <<fence, docs, client, write, back, record, crossed>>

SetComplete(a) ==
  /\ cut[a].pc = "rewritten" /\ Moves(a, "complete", cut[a].gen + 1, "complete")
  /\ UNCHANGED <<docs, client, write, back, record, used>>

\* Mutant of SetNormal: the last transition writes the generation the run began with.
SetNormalAtBase(a) ==
  /\ cut[a].pc = "complete" /\ Moves(a, "done", cut[a].gen, "normal")
  /\ client' = [client EXCEPT ![a].snapshot = cut[a].gen + 1]
  /\ UNCHANGED <<docs, write, back, record, used>>

\* The pending cutovers are cleared: a later call of runCutover does nothing.
SetNormal(a) ==
  /\ cut[a].pc = "complete" /\ Moves(a, "done", cut[a].gen + 1, "normal")
  /\ client' = [client EXCEPT ![a].snapshot = cut[a].gen + 1]
  /\ UNCHANGED <<docs, write, back, record, used>>

-----------------------------------------------------------------------------
(* The other writers of the fence, in any instance and at any time.  Both read the *)
(* document and, an await later, put it back.                                      *)

Reads(k, pc, state) ==
  /\ back[k].pc = "idle"
  /\ back' = [back EXCEPT ![k] = [pc |-> pc, gen |-> fence.gen, state |-> state, seq |-> fence.seq]]
  /\ UNCHANGED <<fence, docs, client, write, cut, record, crossed, used>>

PutsBack(k, unread) ==
  /\ SetFence(back[k].gen, back[k].state, unread) /\ back' = [back EXCEPT ![k] = NoPut("done")]
  /\ UNCHANGED <<docs, client, write, cut, record, used>>

\* abort puts the generation it read back as normal, over whatever is being rewritten.
Abort(k) == Reads(k, "abort", "normal")
AbortSets(k) ==
  back[k].pc = "abort" /\ PutsBack(k, back[k].seq # fence.seq \/ record > back[k].gen)

\* persistSchemaIfNeeded overlays the hash of the schema it has saved.
Register(k) == Reads(k, "overlay", fence.state)
OverlaySets(k) == back[k].pc = "overlay" /\ PutsBack(k, back[k].seq # fence.seq)

WatcherStep(c) == Check(c) \/ Acknowledge(c)
CutoverStep(a) == \/ SetDraining(a) \/ Flush(a) \/ Poll(a) \/ (\E c \in Instances : ReadDoc(a, c))
                  \/ Quorum(a) \/ SetMigrating(a) \/ Rewrite(a) \/ SetComplete(a) \/ SetNormal(a)

Next ==
  \/ \E w \in Writes : (\E c \in Instances : Put(w, c)) \/ Track(w) \/ Lands(w) \/ WriteFails(w)
  \/ \E c \in Watched : Beat(c) \/ WatcherStep(c) \/ Silent(c)
  \/ \E a \in Admins : RunCutover(a) \/ CutoverStep(a) \/ TimesOut(a) \/ RewriteFails(a)
  \/ \E k \in Calls : Abort(k) \/ AbortSets(k) \/ Register(k) \/ OverlaySets(k)

\* The store answers, the watcher's interval fires; the deadline need not pass.
Fairness ==
  /\ \A w \in Writes : WF_vars(Lands(w))
  /\ \A c \in Watched : WF_vars(Beat(c)) /\ WF_vars(WatcherStep(c))
  /\ \A a \in Admins : WF_vars(CutoverStep(a))
Spec == Init /\ [][Next]_vars /\ Fairness

-----------------------------------------------------------------------------
(* Properties. *)

Waits == {"idle", "flush", "flushed"}
Places == Waits \cup {"base", "draining", "poll", "quorum", "migrating", "rewritten", "complete", "done"}
Clients == [snapshot : Generations, quiesced : Acks \cup {NoAck}, at : Acks \cup {NoAck},
            check : Waits, error : BOOLEAN]
Cutovers == [pc : Places, gen : Generations, seq : Nat,
             todo : SUBSET Instances, counted : SUBSET Instances]

Shapes ==
  /\ fence \in [gen : Generations, state : States, seq : Nat] /\ record \in Generations
  /\ docs \in [Instances -> [fresh : BOOLEAN, acked : Acks \cup {NoAck}]]
  /\ client \in [Instances -> Clients] /\ cut \in [Admins -> Cutovers]
  /\ write \in [Writes -> [pc : {"idle", "gated", "queued", "done"},
                           of : Instances \cup {None}, late : BOOLEAN]]
  /\ back \in [Calls -> [pc : {"idle", "abort", "overlay", "done"}, gen : Generations,
                         state : States, seq : Nat]]
  /\ crossed \in BOOLEAN /\ used \in [runs : 0..MaxRuns, faults : 0..MaxFaults]

\* The fence, the documents and the instances are well formed, and nobody waits for
\* the flush of an empty queue.
TypeOK ==
  /\ Shapes
  /\ \A c \in Instances : Queued(c) = {} =>
       /\ client[c].check # "flush" /\ ~client[c].error
       /\ c \in Admins => cut[c].pc # "flush"

\* Who can still write while records are rewritten.  An instance that acknowledged this
\* drain, and the migrator itself, have nothing in the queue but puts that read the fence
\* before it went up and entered the queue after: unless another writer has changed the
\* fence since, whatever times out, fails, falls silent or is retried.
QuietWhileMigrating ==
  \A a \in Admins : cut[a].pc \in {"migrating", "rewritten"} /\ ~Overtaken(a) =>
    \A c \in cut[a].counted \cup {a} : \A w \in Queued(c) : write[w].late

\* An instance that opened the vault before the record was rewritten is refused by the
\* gate.  Two ways in are left: a writer of the fence, or a rewrite, that went on over a
\* change it had not read; and an abort of a cutover that had begun to rewrite.
BehindIsRefused ==
  \A c \in Instances : Writable(c) => record <= client[c].snapshot \/ crossed

\* A cutover ends without its deadline, every watcher acknowledges in the end, unless
\* another writer takes the fence from it.
CutoverSettles ==
  \A a \in Admins : cut[a].pc = "base" ~> cut[a].pc \in {"idle", "done"} \/ Overtaken(a)

\* A record that has been migrated is not overwritten with an older body.
MigratedStaysMigrated == [][record' >= record]_vars
=============================================================================
