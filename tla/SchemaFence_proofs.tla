------------------------ MODULE SchemaFence_proofs ------------------------
(***************************************************************************)
(* Theorems about SchemaFence: any instances of either release, any admins *)
(* and other writers of the fence, any writes and any bounds.              *)
(***************************************************************************)
EXTENDS SchemaFence, TLAPS

Drains == {"draining", "flush", "flushed", "poll", "quorum"}
Rewrites == {"migrating", "rewritten"}
Polled == {"poll", "quorum"} \cup Rewrites

\* Whatever c has in its queue entered it under a raised fence.
Late(c) == \A w \in Queued(c) : write[w].late

\* No generation but those of the cutovers called.
CountInv ==
  /\ fence.gen <= used.runs /\ record <= used.runs
  /\ \A c \in Instances : client[c].snapshot <= used.runs
  /\ \A k \in Calls : back[k].gen <= used.runs
  /\ \A a \in Admins : cut[a].pc \notin {"idle", "done"} => cut[a].gen < used.runs

\* Nobody remembers a change of the fence that is still to come.
SeqInv ==
  /\ fence.seq >= 1
  /\ \A c \in Instances : /\ client[c].at.seq <= fence.seq /\ client[c].quiesced.seq <= fence.seq
                          /\ docs[c].acked.seq <= fence.seq
  /\ \A a \in Admins : cut[a].seq <= fence.seq
  /\ \A k \in Calls : back[k].seq <= fence.seq

\* Nobody waits for the flush of an empty queue.
WaitOf(c) == Queued(c) = {} => /\ client[c].check # "flush" /\ ~client[c].error
                               /\ c \in Admins => cut[c].pc # "flush"

\* An acknowledgement of this drain, given or about to be, speaks of a drained queue.
MarkOf(c) ==
  /\ client[c].at.seq = fence.seq /\ client[c].check # "idle" => fence.state = "draining"
  /\ client[c].at.seq = fence.seq /\ client[c].check = "flushed" => Late(c)
  /\ client[c].quiesced.seq = fence.seq => fence.state = "draining" /\ Late(c)
  /\ docs[c].acked.seq = fence.seq => fence.state = "draining" /\ Late(c)

\* Until somebody else changes it, the fence stands where the cutover has put it.
PhaseOf(a) ==
  ~Overtaken(a) =>
    /\ cut[a].pc = "base" => fence.gen = cut[a].gen
    /\ cut[a].pc \in Drains => fence.gen = cut[a].gen /\ fence.state = "draining"
    /\ cut[a].pc \in Rewrites => fence.gen = cut[a].gen /\ fence.state = "migrating"
    /\ cut[a].pc = "complete" => fence.gen = cut[a].gen + 1 /\ fence.state = "complete"

\* And until then, what it has flushed or counted as flushed stays flushed.
QuietOf(a) ==
  ~Overtaken(a) =>
    /\ cut[a].pc = "flushed" => Late(a)
    /\ cut[a].pc \in Polled => \A c \in cut[a].counted \cup {a} : Late(c)

\* An overlay that has missed no change puts back what is there.
BackOf(k) == back[k].pc = "overlay" /\ back[k].seq = fence.seq
               => back[k].gen = fence.gen /\ back[k].state = fence.state

\* A record ahead of the generation stands behind a raised fence.
GateInv == ~crossed => record <= fence.gen \/ (fence.state \in Up /\ record <= fence.gen + 1)

FenceInv ==
  /\ Shapes /\ CountInv /\ SeqInv /\ GateInv
  /\ \A c \in Instances : WaitOf(c) /\ MarkOf(c)
  /\ \A a \in Admins : PhaseOf(a) /\ QuietOf(a)
  /\ \A k \in Calls : BackOf(k)

-----------------------------------------------------------------------------
(* Facts. *)

LEMMA Facts ==
  ASSUME FenceInv
  PROVE  /\ MaxRuns \in Nat /\ MaxFaults \in Nat /\ Admins \subseteq Instances /\ Watched \subseteq Instances
         /\ \A g \in Nat : g <= used.runs => g \in Generations
         /\ used.runs \in 0..MaxRuns /\ fence.gen \in Nat /\ fence.seq \in Nat /\ record \in Nat
         /\ fence \in [gen : Generations, state : States, seq : Nat]
         /\ \A a \in Admins : cut[a] \in Cutovers /\ cut[a].gen \in Nat /\ cut[a].seq \in Nat
         /\ \A c \in Instances : client[c] \in Clients
         /\ NoAck.seq = 0 /\ Generations \subseteq Nat
<1>1. MaxRuns \in Nat /\ MaxFaults \in Nat /\ Admins \subseteq Instances /\ Watched \subseteq Instances
  BY BoundsAssumption, InstancesAssumption DEF Instances
<1>2. used.runs \in 0..MaxRuns /\ Generations \subseteq Nat
  BY <1>1 DEF FenceInv, Shapes, Generations
<1>3. \A g \in Nat : g <= used.runs => g \in Generations
  BY <1>1, <1>2 DEF Generations
<1>4. /\ fence.gen \in Nat /\ fence.seq \in Nat /\ record \in Nat
      /\ fence \in [gen : Generations, state : States, seq : Nat]
  BY <1>2 DEF FenceInv, Shapes
<1>5. \A a \in Admins : cut[a] \in Cutovers /\ cut[a].gen \in Nat /\ cut[a].seq \in Nat
  BY <1>2 DEF FenceInv, Shapes, Cutovers
<1>6. \A c \in Instances : client[c] \in Clients
  BY DEF FenceInv, Shapes
<1> QED
  BY <1>1, <1>2, <1>3, <1>4, <1>5, <1>6 DEF NoAck

\* The sequence numbers of acknowledgements are numbers.
LEMMA AckFacts ==
  ASSUME FenceInv, NEW c \in Instances
  PROVE  /\ client[c].at \in Acks \cup {NoAck} /\ client[c].quiesced \in Acks \cup {NoAck}
         /\ docs[c].acked \in Acks \cup {NoAck}
         /\ client[c].at.seq \in Nat /\ client[c].quiesced.seq \in Nat /\ docs[c].acked.seq \in Nat
<1>1. /\ client[c].at \in Acks \cup {NoAck} /\ client[c].quiesced \in Acks \cup {NoAck}
      /\ docs[c].acked \in Acks \cup {NoAck}
  BY DEF FenceInv, Shapes, Clients
<1>2. \A x \in Acks \cup {NoAck} : x.seq \in Nat
  BY DEF Acks, NoAck
<1> QED
  BY <1>1, <1>2

LEMMA InitFence == Init => FenceInv
<1> SUFFICES ASSUME Init PROVE FenceInv
  OBVIOUS
<1>1. MaxRuns \in Nat /\ MaxFaults \in Nat /\ 0 \in Generations /\ Admins \subseteq Instances
  BY BoundsAssumption, InstancesAssumption DEF Generations, Instances
<1>2. Shapes
  <2>1. docs \in [Instances -> [fresh : BOOLEAN, acked : Acks \cup {NoAck}]]
    BY DEF Init
  <2>2. client \in [Instances -> Clients]
    BY <1>1 DEF Init, Clients, Waits
  <2>3. cut \in [Admins -> Cutovers]
    BY <1>1 DEF Init, Cutovers, NoCutover, Waits, Places
  <2>4. /\ fence \in [gen : Generations, state : States, seq : Nat] /\ record \in Generations
        /\ crossed \in BOOLEAN /\ used \in [runs : 0..MaxRuns, faults : 0..MaxFaults]
    <3>1. fence = [gen |-> 0, state |-> "normal", seq |-> 1] /\ record = 0 /\ crossed = FALSE
      BY DEF Init
    <3>2. used = [runs |-> 0, faults |-> 0] /\ 0 \in 0..MaxRuns /\ 0 \in 0..MaxFaults
      BY <1>1 DEF Init
    <3> QED
      BY <1>1, <3>1, <3>2 DEF States
  <2>5. /\ write \in [Writes -> [pc : {"idle", "gated", "queued", "done"},
                                 of : Instances \cup {None}, late : BOOLEAN]]
        /\ back \in [Calls -> [pc : {"idle", "abort", "overlay", "done"}, gen : Generations,
                               state : States, seq : Nat]]
    BY <1>1 DEF Init, NoWrite, NoPut, States
  <2> QED
    BY <2>1, <2>2, <2>3, <2>4, <2>5 DEF Shapes
<1>3. CountInv /\ GateInv
  BY <1>1 DEF Init, CountInv, GateInv, NoCutover, NoPut
<1>4. SeqInv
  BY <1>1 DEF Init, SeqInv, NoCutover, NoPut, NoAck
<1>5. \A c \in Instances : WaitOf(c) /\ MarkOf(c)
  BY <1>1 DEF Init, WaitOf, MarkOf, NoAck, NoCutover
<1>6. \A a \in Admins : PhaseOf(a) /\ QuietOf(a)
  BY DEF Init, PhaseOf, QuietOf, Overtaken, NoCutover
<1>7. \A k \in Calls : BackOf(k)
  BY DEF Init, BackOf, NoPut
<1> QED
  BY <1>2, <1>3, <1>4, <1>5, <1>6, <1>7 DEF FenceInv

\* What a step does to the fence, and to an instance beside its watcher and queue.
FenceMoved == /\ fence' \in [gen : Generations, state : States, seq : Nat]
              /\ fence' = fence \/ fence'.seq = fence.seq + 1
WatcherKept == /\ client' \in [Instances -> Clients]
               /\ \A c \in Instances : /\ client'[c].at = client[c].at /\ client'[c].check = client[c].check
                                       /\ client'[c].quiesced = client[c].quiesced
                                       /\ client'[c].error = client[c].error

LEMMA SetFenceMoves ==
  ASSUME FenceInv, NEW gen \in Generations, NEW state \in States, NEW unread \in BOOLEAN,
         SetFence(gen, state, unread)
  PROVE  /\ FenceMoved /\ fence'.gen = gen /\ fence'.state = state /\ fence'.seq \in Nat
         /\ crossed' \in BOOLEAN /\ (~crossed' => ~crossed /\ ~unread)
         /\ fence' = fence => gen = fence.gen /\ state = fence.state
<1>1. crossed' \in BOOLEAN /\ (~crossed' => ~crossed /\ ~unread)
  BY DEF SetFence, FenceInv, Shapes
<1>2. CASE fence.gen = gen /\ fence.state = state
  <2>1. fence' = fence
    BY <1>2 DEF SetFence
  <2> QED
    BY <1>1, <1>2, <2>1, Facts DEF FenceMoved
<1>3. CASE ~(fence.gen = gen /\ fence.state = state)
  <2>1. fence' = [gen |-> gen, state |-> state, seq |-> fence.seq + 1]
    BY <1>3 DEF SetFence
  <2> QED
    BY <1>1, <2>1, Facts DEF FenceMoved
<1> QED
  BY <1>2, <1>3

LEMMA QueueStays ==
  ASSUME UNCHANGED write PROVE \A c : Queued(c)' = Queued(c) /\ Late(c)' = Late(c)
BY DEF Queued, Late

\* A change of the fence makes whoever remembers the one before out of date, and leaves
\* nothing to show of him.
LEMMA MovedKeeps ==
  ASSUME FenceInv, FenceMoved, WatcherKept, UNCHANGED <<docs, write>>
  PROVE  /\ \A c \in Instances : MarkOf(c)'
         /\ \A a \in Admins : cut'[a] = cut[a] => PhaseOf(a)' /\ QuietOf(a)'
         /\ \A k \in Calls : back'[k] = back[k] => BackOf(k)'
<1>1. \A c : Queued(c)' = Queued(c) /\ Late(c)' = Late(c)
  BY QueueStays
<1>2. fence.seq \in Nat /\ (fence' = fence \/ fence'.seq = fence.seq + 1)
  BY Facts DEF FenceMoved
<1>3. \A c \in Instances : MarkOf(c)'
  <2> SUFFICES ASSUME NEW c \in Instances PROVE MarkOf(c)'
    OBVIOUS
  <2>1. /\ client[c].at.seq \in Nat /\ client[c].quiesced.seq \in Nat /\ docs[c].acked.seq \in Nat
        /\ client[c].at.seq <= fence.seq /\ client[c].quiesced.seq <= fence.seq
        /\ docs[c].acked.seq <= fence.seq
    BY AckFacts DEF FenceInv, SeqInv
  <2>2. CASE fence' = fence
    BY <1>1, <2>2 DEF FenceInv, MarkOf, WatcherKept
  <2>3. CASE fence'.seq = fence.seq + 1
    BY <1>2, <2>1, <2>3 DEF MarkOf, WatcherKept
  <2> QED
    BY <1>2, <2>2, <2>3
<1>4. \A a \in Admins : cut'[a] = cut[a] => PhaseOf(a)' /\ QuietOf(a)'
  <2> SUFFICES ASSUME NEW a \in Admins, cut'[a] = cut[a] PROVE PhaseOf(a)' /\ QuietOf(a)'
    OBVIOUS
  <2>1. cut[a].seq \in Nat /\ cut[a].seq <= fence.seq
    BY Facts DEF FenceInv, SeqInv
  <2>2. CASE fence' = fence
    BY <1>1, <2>2 DEF FenceInv, PhaseOf, QuietOf, Overtaken
  <2>3. CASE fence'.seq = fence.seq + 1
    BY <1>2, <2>1, <2>3 DEF PhaseOf, QuietOf, Overtaken
  <2> QED
    BY <1>2, <2>2, <2>3
<1>5. \A k \in Calls : back'[k] = back[k] => BackOf(k)'
  <2> SUFFICES ASSUME NEW k \in Calls, back'[k] = back[k] PROVE BackOf(k)'
    OBVIOUS
  <2>1. back[k].seq \in Nat /\ back[k].seq <= fence.seq
    BY DEF FenceInv, SeqInv, Shapes
  <2>2. CASE fence' = fence
    BY <2>2 DEF FenceInv, BackOf
  <2>3. CASE fence'.seq = fence.seq + 1
    BY <1>2, <2>1, <2>3 DEF BackOf
  <2> QED
    BY <1>2, <2>2, <2>3
<1> QED
  BY <1>3, <1>4, <1>5

-----------------------------------------------------------------------------
(* The writes. *)

LEMMA PutKeeps ==
  ASSUME FenceInv, NEW w \in Writes, NEW c \in Instances, Put(w, c)
  PROVE  FenceInv'
<1>1. write[w].pc = "idle" /\ UNCHANGED <<fence, docs, client, cut, back, record, crossed, used>>
  BY DEF Put
<1>2. PICK r \in [pc : {"gated", "done"}, of : Instances \cup {None}, late : BOOLEAN] :
        write' = [write EXCEPT ![w] = r]
  <2>1. write[w] \in [pc : {"idle", "gated", "queued", "done"}, of : Instances \cup {None}, late : BOOLEAN]
    BY DEF FenceInv, Shapes
  <2>2. [write[w] EXCEPT !.pc = "gated", !.of = c]
          \in [pc : {"gated", "done"}, of : Instances \cup {None}, late : BOOLEAN]
    BY <2>1
  <2>3. NoWrite("done") \in [pc : {"gated", "done"}, of : Instances \cup {None}, late : BOOLEAN]
    BY DEF NoWrite
  <2> QED
    BY <2>2, <2>3 DEF Put
<1>3. \A d \in Writes : write'[d] = IF d = w THEN r ELSE write[d]
  BY <1>2 DEF FenceInv, Shapes
<1>4. \A d : Queued(d)' = Queued(d)
  BY <1>1, <1>2, <1>3 DEF Queued
<1>5. \A d : Late(d)' = Late(d)
  BY <1>1, <1>3, <1>4 DEF Late, Queued
<1>6. Shapes'
  BY <1>1, <1>2 DEF FenceInv, Shapes
<1>7. CountInv' /\ SeqInv' /\ GateInv'
  BY <1>1 DEF FenceInv, CountInv, SeqInv, GateInv
<1>8. \A d \in Instances : WaitOf(d)' /\ MarkOf(d)'
  BY <1>1, <1>4, <1>5 DEF FenceInv, WaitOf, MarkOf
<1>9. (\A a \in Admins : PhaseOf(a)' /\ QuietOf(a)') /\ (\A k \in Calls : BackOf(k)')
  BY <1>1, <1>5 DEF FenceInv, PhaseOf, QuietOf, BackOf, Overtaken
<1> QED
  BY <1>6, <1>7, <1>8, <1>9 DEF FenceInv

\* A queue that only takes late writes under a raised fence stays late there.
LEMMA LateKeeps ==
  ASSUME FenceInv, UNCHANGED <<fence, docs, client, cut, back, record, crossed, used>>,
         \A c \in Instances : Queued(c) \subseteq Queued(c)' /\ (fence.state \in Up /\ Late(c) => Late(c)')
  PROVE  /\ CountInv' /\ SeqInv' /\ GateInv' /\ (\A k \in Calls : BackOf(k)')
         /\ \A c \in Instances : WaitOf(c)' /\ MarkOf(c)'
         /\ \A a \in Admins : PhaseOf(a)' /\ QuietOf(a)'
<1>1. CountInv' /\ SeqInv' /\ GateInv' /\ (\A k \in Calls : BackOf(k)')
  BY DEF FenceInv, CountInv, SeqInv, GateInv, BackOf
<1>2. \A c \in Instances : WaitOf(c)' /\ MarkOf(c)'
  BY DEF FenceInv, WaitOf, MarkOf, Up
<1>3. \A a \in Admins : PhaseOf(a)' /\ QuietOf(a)'
  <2> SUFFICES ASSUME NEW a \in Admins PROVE PhaseOf(a)' /\ QuietOf(a)'
    OBVIOUS
  <2>1. a \in Instances /\ cut[a].counted \subseteq Instances
    BY Facts DEF Cutovers
  <2>2. ~Overtaken(a) /\ cut[a].pc \in Polled \cup {"flushed"} => fence.state \in Up
    BY DEF FenceInv, PhaseOf, Polled, Drains, Rewrites, Up
  <2> QED
    BY <2>1, <2>2 DEF FenceInv, PhaseOf, QuietOf, Overtaken
<1> QED
  BY <1>1, <1>2, <1>3

LEMMA TrackKeeps ==
  ASSUME FenceInv, NEW w \in Writes, Track(w)
  PROVE  FenceInv'
<1>0. PICK b \in BOOLEAN : b = (fence.state \in Up)
  <2>1. (fence.state \in Up) \in BOOLEAN
    BY DEF Up
  <2> QED
    BY <2>1
<1> DEFINE r == [write[w] EXCEPT !.pc = "queued", !.late = b]
<1>1. /\ write[w].pc = "gated" /\ UNCHANGED <<fence, docs, client, cut, back, record, crossed, used>>
      /\ write' = [write EXCEPT ![w] = r]
  BY <1>0 DEF Track
<1>2. /\ r \in [pc : {"queued"}, of : Instances \cup {None}, late : BOOLEAN]
      /\ r.pc = "queued" /\ r.of = write[w].of /\ r.late = b
  BY DEF FenceInv, Shapes
<1> HIDE DEF r
<1>3. \A d \in Writes : write'[d] = IF d = w THEN r ELSE write[d]
  BY <1>1 DEF FenceInv, Shapes
<1>4. Shapes'
  BY <1>1, <1>2 DEF FenceInv, Shapes
<1>5. \A d : Queued(d) \subseteq Queued(d)' /\ Queued(d)' \subseteq Queued(d) \cup {w}
  BY <1>1, <1>2, <1>3 DEF Queued
<1>6. \A d : fence.state \in Up /\ Late(d) => Late(d)'
  BY <1>0, <1>1, <1>2, <1>3, <1>5 DEF Late, Queued
<1> QED
  BY <1>1, <1>4, <1>5, <1>6, LateKeeps DEF FenceInv

\* A fault uses up a bound and nothing else.
LEMMA FaultUses ==
  ASSUME FenceInv, Fault
  PROVE  used' \in [runs : 0..MaxRuns, faults : 0..MaxFaults] /\ used'.runs = used.runs
<1>1. used \in [runs : 0..MaxRuns, faults : 0..MaxFaults] /\ MaxFaults \in Nat
  BY Facts DEF FenceInv, Shapes
<1>2. used.faults + 1 \in 0..MaxFaults
  BY <1>1 DEF Fault
<1> QED
  BY <1>1, <1>2 DEF Fault

\* A write settles: the last of its instance's wakes the waiters.
LEMMA SettleKeeps ==
  ASSUME FenceInv, NEW w \in Writes, write[w].pc = "queued", NEW failed \in BOOLEAN,
         Settle(w, failed), UNCHANGED <<fence, docs, back, crossed>>, record' \in {0, record},
         used' \in [runs : 0..MaxRuns, faults : 0..MaxFaults], used'.runs = used.runs
  PROVE  FenceInv'
<1>0. PICK c : c = write[w].of
  OBVIOUS
<1> DEFINE last == Queued(c) = {w}
           e == client[c].error \/ failed
           err == e /\ ~last
           check == IF last THEN Woken(c, e, client[c].check) ELSE client[c].check
<1>1. w \in Queued(c)
  BY <1>0 DEF Queued
<1>2. /\ client' = [client EXCEPT ![c] = [client[c] EXCEPT !.error = err, !.check = check]]
      /\ write' = [write EXCEPT ![w] = NoWrite("done")]
      /\ cut' = [b \in Admins |-> IF b = c /\ last
                                  THEN [cut[b] EXCEPT !.pc = Woken(c, e, @)] ELSE cut[b]]
  <2>1. client' = [client EXCEPT ![c] = [client[c] EXCEPT !.error = err, !.check = check]]
    BY <1>0 DEF Settle
  <2>2. write' = [write EXCEPT ![w] = NoWrite("done")]
    BY DEF Settle
  <2>3. cut' = [b \in Admins |-> IF b = c /\ last
                                 THEN [cut[b] EXCEPT !.pc = Woken(c, e, @)] ELSE cut[b]]
    BY <1>0 DEF Settle
  <2> QED
    BY <2>1, <2>2, <2>3
<1>3. c \in Instances => /\ err \in BOOLEAN /\ check \in Waits
                         /\ last => ~err /\ check = Woken(c, e, client[c].check)
                         /\ ~last => check = client[c].check
  <2>1. c \in Instances => client[c].check \in Waits
    BY Facts DEF Clients
  <2> QED
    BY <2>1 DEF Woken, Waits
<1>4. \A pc : /\ Woken(c, e, pc) \in {pc, "idle", "flushed"} /\ (pc # "flush" => Woken(c, e, pc) = pc)
              /\ Woken(c, e, pc) # "flush"
  BY DEF Woken
<1> HIDE DEF err, check, e
<1>5. \A d \in Writes : write'[d] = IF d = w THEN NoWrite("done") ELSE write[d]
  BY <1>2 DEF FenceInv, Shapes
<1>6. \A d : Queued(d)' = Queued(d) \ {w} /\ (d # c => Queued(d)' = Queued(d))
  BY <1>0, <1>5 DEF Queued, NoWrite
<1>7. \A d : (Late(d) => Late(d)') /\ (Queued(d)' = {} => Late(d)')
  BY <1>5, <1>6 DEF Late, Queued
<1>8. (last => Queued(c)' = {}) /\ (~last => Queued(c)' # {})
  BY <1>1, <1>6
<1> HIDE DEF last
<1>9. \A d \in Instances :
        /\ client'[d].snapshot = client[d].snapshot /\ client'[d].at = client[d].at
        /\ client'[d].quiesced = client[d].quiesced
        /\ client'[d].error = IF d = c THEN err ELSE client[d].error
        /\ client'[d].check = IF d = c THEN check ELSE client[d].check
  BY <1>2, Facts DEF FenceInv, Shapes, Clients
<1>10. \A a \in Admins :
         /\ cut'[a].gen = cut[a].gen /\ cut'[a].counted = cut[a].counted /\ cut'[a].seq = cut[a].seq
         /\ cut'[a].pc = IF a = c /\ last THEN Woken(c, e, cut[a].pc) ELSE cut[a].pc
  BY <1>2, Facts DEF Cutovers
<1>11. Shapes'
  <2>1. client' \in [Instances -> Clients]
    <3>1. CASE c \in Instances
      <4>1. [client[c] EXCEPT !.error = err, !.check = check] \in Clients
        BY <1>3, <3>1, Facts DEF Clients
      <4> QED
        BY <1>2, <4>1 DEF FenceInv, Shapes
    <3>2. CASE c \notin Instances
      BY <1>2, <3>2 DEF FenceInv, Shapes
    <3> QED
      BY <3>1, <3>2
  <2>2. cut' \in [Admins -> Cutovers]
    <3> SUFFICES ASSUME NEW a \in Admins
                 PROVE  (IF a = c /\ last THEN [cut[a] EXCEPT !.pc = Woken(c, e, @)] ELSE cut[a]) \in Cutovers
      BY <1>2
    <3>1. cut[a] \in Cutovers
      BY Facts
    <3>2. Woken(c, e, cut[a].pc) \in Places
      BY <1>4, <3>1 DEF Cutovers, Places, Waits
    <3> QED
      BY <3>1, <3>2 DEF Cutovers
  <2>3. NoWrite("done") \in [pc : {"idle", "gated", "queued", "done"},
                             of : Instances \cup {None}, late : BOOLEAN]
    BY DEF NoWrite
  <2>4. 0 \in Generations
    BY Facts DEF Generations
  <2> QED
    BY <1>2, <2>1, <2>2, <2>3, <2>4 DEF FenceInv, Shapes
<1>12. \A a \in Admins : \/ cut'[a].pc = cut[a].pc
                         \/ /\ cut[a].pc = "flush" /\ a = c /\ last
                            /\ cut'[a].pc \in {"idle", "flushed"}
  BY <1>4, <1>10
<1>13. CountInv'
  <2>1. record' <= used'.runs
    BY Facts DEF FenceInv, CountInv
  <2> QED
    BY <1>9, <1>10, <1>12, <2>1 DEF FenceInv, CountInv
<1>14. SeqInv'
  BY <1>9, <1>10 DEF FenceInv, SeqInv
<1>15. GateInv'
  BY Facts DEF FenceInv, GateInv
<1>16. \A d \in Instances : WaitOf(d)' /\ MarkOf(d)'
  <2> SUFFICES ASSUME NEW d \in Instances PROVE WaitOf(d)' /\ MarkOf(d)'
    OBVIOUS
  <2>1. CASE d # c
    BY <1>6, <1>7, <1>9, <1>10, <2>1 DEF FenceInv, WaitOf, MarkOf
  <2>2. CASE d = c
    <3>1. WaitOf(d)'
      BY <1>3, <1>4, <1>8, <1>9, <1>10, <2>2 DEF WaitOf
    <3>2. check = client[c].check \/ (client[c].check = "flush" /\ Late(c)')
      BY <1>3, <1>4, <1>7, <1>8, <2>2
    <3>3. MarkOf(d)'
      BY <1>7, <1>9, <2>2, <3>2 DEF FenceInv, MarkOf
    <3> QED
      BY <3>1, <3>3
  <2> QED
    BY <2>1, <2>2
<1>17. \A a \in Admins : PhaseOf(a)' /\ QuietOf(a)'
  <2> SUFFICES ASSUME NEW a \in Admins PROVE PhaseOf(a)' /\ QuietOf(a)'
    OBVIOUS
  <2>1. CASE cut'[a].pc = cut[a].pc
    BY <1>7, <1>10, <2>1 DEF FenceInv, PhaseOf, QuietOf, Overtaken
  <2>2. CASE cut[a].pc = "flush" /\ a = c /\ last /\ cut'[a].pc \in {"idle", "flushed"}
    BY <1>7, <1>8, <1>10, <2>2 DEF FenceInv, PhaseOf, QuietOf, Overtaken, Drains, Polled, Rewrites
  <2> QED
    BY <1>12, <2>1, <2>2
<1>18. \A k \in Calls : BackOf(k)'
  BY DEF FenceInv, BackOf
<1> QED
  BY <1>11, <1>13, <1>14, <1>15, <1>16, <1>17, <1>18 DEF FenceInv

-----------------------------------------------------------------------------
(* The watchers. *)

\* The steps of a watcher change its own memory and document, and have to show for them.
LEMMA WatcherKeeps ==
  ASSUME FenceInv, NEW c \in Instances, NEW m \in Clients,
         NEW d \in [fresh : BOOLEAN, acked : Acks \cup {NoAck}],
         client' = [client EXCEPT ![c] = m], docs' = [docs EXCEPT ![c] = d],
         UNCHANGED <<fence, write, cut, back, record, crossed>>,
         used' \in [runs : 0..MaxRuns, faults : 0..MaxFaults], used'.runs = used.runs,
         m.snapshot = client[c].snapshot, m.error = client[c].error,
         m.check = "flush" => client[c].check = "flush" \/ Queued(c) # {},
         m.at.seq <= fence.seq, m.quiesced.seq <= fence.seq, d.acked.seq <= fence.seq,
         MarkOf(c)'
  PROVE  FenceInv'
<1>1. /\ client'[c] = m /\ docs'[c] = d
      /\ \A b \in Instances : b # c => client'[b] = client[b] /\ docs'[b] = docs[b]
  BY DEF FenceInv, Shapes
<1>2. Shapes'
  BY DEF FenceInv, Shapes
<1>3. \A b : Queued(b)' = Queued(b) /\ Late(b)' = Late(b)
  BY QueueStays
<1>4. CountInv' /\ SeqInv' /\ GateInv'
  BY <1>1 DEF FenceInv, CountInv, SeqInv, GateInv
<1>5. \A b \in Instances : WaitOf(b)' /\ MarkOf(b)'
  BY <1>1, <1>3 DEF FenceInv, WaitOf, MarkOf
<1>6. (\A a \in Admins : PhaseOf(a)' /\ QuietOf(a)') /\ (\A k \in Calls : BackOf(k)')
  BY <1>3 DEF FenceInv, PhaseOf, QuietOf, BackOf, Overtaken
<1> QED
  BY <1>2, <1>4, <1>5, <1>6 DEF FenceInv

\* What it had to show before.
LEMMA WatcherFacts ==
  ASSUME FenceInv, NEW c \in Instances
  PROVE  /\ client[c] \in Clients /\ docs[c] \in [fresh : BOOLEAN, acked : Acks \cup {NoAck}]
         /\ client[c].at.seq <= fence.seq /\ client[c].quiesced.seq <= fence.seq
         /\ docs[c].acked.seq <= fence.seq /\ MarkOf(c)
         /\ used \in [runs : 0..MaxRuns, faults : 0..MaxFaults]
         /\ client = [client EXCEPT ![c] = client[c]] /\ docs = [docs EXCEPT ![c] = docs[c]]
<1>1. client \in [Instances -> Clients]
  BY DEF FenceInv, Shapes
<1> QED
  BY <1>1 DEF FenceInv, Shapes, SeqInv

LEMMA BeatKeeps ==
  ASSUME FenceInv, NEW c \in Watched, Beat(c) PROVE FenceInv'
<1> DEFINE d == [fresh |-> TRUE, acked |-> client[c].quiesced]
<1>1. /\ UNCHANGED <<fence, client, write, cut, back, record, crossed, used>>
      /\ docs' = [docs EXCEPT ![c] = d]
  BY DEF Beat
<1>2. c \in Instances
  BY Facts
<1>3. d \in [fresh : BOOLEAN, acked : Acks \cup {NoAck}] /\ d.acked = client[c].quiesced
  BY <1>2, AckFacts
<1> HIDE DEF d
<1>4. docs'[c] = d /\ Late(c)' = Late(c)
  BY <1>1, <1>2, QueueStays DEF FenceInv, Shapes
<1>5. MarkOf(c)'
  BY <1>1, <1>2, <1>3, <1>4, WatcherFacts DEF MarkOf
<1> QED
  BY <1>1, <1>2, <1>3, <1>5, WatcherFacts, WatcherKeeps

\* A watcher that reads the fence while it drains waits for its queue, or finds it empty.
LEMMA CheckKeeps ==
  ASSUME FenceInv, NEW c \in Watched, Check(c) PROVE FenceInv'
<1> DEFINE at == IF Asked(c) THEN [gen |-> fence.gen, seq |-> fence.seq] ELSE NoAck
           check == IF Asked(c) THEN Flushes(c) ELSE "idle"
           quiesced == IF fence.state = "normal" THEN NoAck ELSE client[c].quiesced
           m == [client[c] EXCEPT !.at = at, !.check = check, !.quiesced = quiesced]
<1>1. /\ UNCHANGED <<fence, docs, write, cut, back, record, crossed, used>>
      /\ client' = [client EXCEPT ![c] = m]
  <2>1. UNCHANGED <<fence, docs, write, cut, back, record, crossed, used>>
    BY DEF Check, Checks
  <2>2. client' = [client EXCEPT ![c] = m]
    BY DEF Check, Checks
  <2> QED
    BY <2>1, <2>2
<1>2. c \in Instances /\ fence.seq \in Nat /\ fence.seq >= 1
  BY Facts DEF FenceInv, SeqInv
<1>3. at \in Acks \cup {NoAck} /\ at.seq <= fence.seq
  <2>1. [gen |-> fence.gen, seq |-> fence.seq] \in Acks
    BY Facts DEF Acks
  <2> QED
    BY <1>2, <2>1 DEF NoAck
<1>4. quiesced \in Acks \cup {NoAck} /\ quiesced.seq <= fence.seq
  BY <1>2, AckFacts, WatcherFacts DEF NoAck
<1>5. /\ check \in Waits /\ (check = "flush" => Queued(c) # {})
      /\ check = "flushed" => Queued(c) = {}
      /\ check # "idle" => fence.state = "draining"
  BY DEF Flushes, Waits, Asked
<1>6. quiesced.seq = fence.seq => quiesced = client[c].quiesced
  BY <1>2 DEF NoAck
<1> HIDE DEF at, check, quiesced
<1>7. /\ m \in Clients /\ m.at = at /\ m.check = check /\ m.quiesced = quiesced
      /\ m.snapshot = client[c].snapshot /\ m.error = client[c].error
  BY <1>2, <1>3, <1>4, <1>5, WatcherFacts DEF Clients
<1> HIDE DEF m
<1>8. client'[c] = m /\ Queued(c)' = Queued(c) /\ Late(c)' = Late(c) /\ (Queued(c) = {} => Late(c))
  BY <1>1, <1>2, QueueStays DEF FenceInv, Shapes, Late
<1>9. MarkOf(c)'
  BY <1>1, <1>2, <1>5, <1>6, <1>7, <1>8, WatcherFacts DEF MarkOf
<1> QED
  BY <1>1, <1>2, <1>3, <1>4, <1>5, <1>7, <1>9, WatcherFacts, WatcherKeeps

LEMMA AcknowledgeKeeps ==
  ASSUME FenceInv, NEW c \in Watched, Acknowledge(c) PROVE FenceInv'
<1> DEFINE m == [client[c] EXCEPT !.check = "idle", !.quiesced = client[c].at, !.at = NoAck]
           d == [fresh |-> TRUE, acked |-> client[c].at]
<1>1. /\ client[c].check = "flushed" /\ UNCHANGED <<fence, write, cut, back, record, crossed, used>>
      /\ client' = [client EXCEPT ![c] = m] /\ docs' = [docs EXCEPT ![c] = d]
  BY DEF Acknowledge
<1>2. c \in Instances /\ fence.seq \in Nat /\ fence.seq >= 1 /\ NoAck.seq = 0
  BY Facts DEF FenceInv, SeqInv
<1>3. /\ m \in Clients /\ m.at = NoAck /\ m.check = "idle" /\ m.quiesced = client[c].at
      /\ m.snapshot = client[c].snapshot /\ m.error = client[c].error
      /\ d \in [fresh : BOOLEAN, acked : Acks \cup {NoAck}] /\ d.acked = client[c].at
  BY <1>2, WatcherFacts, AckFacts DEF Clients, Waits
<1> HIDE DEF m, d
<1>4. client'[c] = m /\ docs'[c] = d /\ Late(c)' = Late(c)
  BY <1>1, <1>2, QueueStays DEF FenceInv, Shapes
<1>5. MarkOf(c)'
  BY <1>1, <1>2, <1>3, <1>4, WatcherFacts DEF MarkOf
<1>6. /\ m.at.seq <= fence.seq /\ m.quiesced.seq <= fence.seq /\ d.acked.seq <= fence.seq
      /\ used' \in [runs : 0..MaxRuns, faults : 0..MaxFaults] /\ used'.runs = used.runs
  BY <1>1, <1>2, <1>3, WatcherFacts
<1> QED
  BY <1>1, <1>2, <1>3, <1>5, <1>6, WatcherKeeps

LEMMA SilentKeeps ==
  ASSUME FenceInv, NEW c \in Watched, Silent(c) PROVE FenceInv'
<1> DEFINE d == [docs[c] EXCEPT !.fresh = FALSE]
<1>1. /\ UNCHANGED <<fence, client, write, cut, back, record, crossed>> /\ Fault
      /\ docs' = [docs EXCEPT ![c] = d]
  BY DEF Silent
<1>2. c \in Instances
  BY Facts
<1>3. d \in [fresh : BOOLEAN, acked : Acks \cup {NoAck}] /\ d.acked = docs[c].acked
  BY <1>2, WatcherFacts
<1> HIDE DEF d
<1>4. docs'[c] = d /\ Late(c)' = Late(c)
  BY <1>1, <1>2, QueueStays DEF FenceInv, Shapes
<1>5. MarkOf(c)'
  BY <1>1, <1>2, <1>3, <1>4, WatcherFacts DEF MarkOf
<1> QED
  BY <1>1, <1>2, <1>3, <1>5, FaultUses, WatcherFacts, WatcherKeeps

-----------------------------------------------------------------------------
(* The cutovers. *)

\* The steps of a cutover change its place, the fence, the record and the instance's
\* generation.
LEMMA CutKeeps ==
  ASSUME FenceInv, NEW a \in Admins, NEW r \in Cutovers, cut' = [cut EXCEPT ![a] = r],
         UNCHANGED <<docs, write, back>>, FenceMoved, WatcherKept,
         record' \in Generations, crossed' \in BOOLEAN,
         used' \in [runs : 0..MaxRuns, faults : 0..MaxFaults], used.runs <= used'.runs,
         fence'.gen <= used'.runs, record' <= used'.runs,
         \A c \in Instances : client'[c].snapshot <= used'.runs,
         r.pc \notin {"idle", "done"} => r.gen < used'.runs,
         r.seq <= fence'.seq, r.pc = "flush" => Queued(a) # {},
         PhaseOf(a)', QuietOf(a)', GateInv'
  PROVE  FenceInv'
<1>1. cut'[a] = r /\ \A b \in Admins : b # a => cut'[b] = cut[b]
  BY DEF FenceInv, Shapes
<1>2. Shapes'
  BY DEF FenceInv, Shapes, FenceMoved, WatcherKept
<1>3. used.runs \in Nat /\ used'.runs \in Nat /\ fence.seq \in Nat /\ fence'.seq \in Nat
  BY Facts DEF FenceMoved
<1>4. CountInv'
  <2>1. \A k \in Calls : back'[k].gen <= used'.runs
    BY <1>3, Facts DEF FenceInv, CountInv, Shapes
  <2>2. \A b \in Admins : cut'[b].pc \notin {"idle", "done"} => cut'[b].gen < used'.runs
    BY <1>1, <1>3, Facts DEF FenceInv, CountInv
  <2> QED
    BY <2>1, <2>2 DEF CountInv
<1>5. SeqInv'
  <2>1. fence.seq >= 1 /\ fence'.seq >= fence.seq
    BY <1>3 DEF FenceInv, SeqInv, FenceMoved
  <2>2. \A c \in Instances : /\ client'[c].at.seq <= fence'.seq /\ client'[c].quiesced.seq <= fence'.seq
                             /\ docs'[c].acked.seq <= fence'.seq
    BY <1>3, <2>1, AckFacts DEF FenceInv, SeqInv, WatcherKept
  <2>3. \A b \in Admins : cut'[b].seq <= fence'.seq
    BY <1>1, <1>3, <2>1, Facts DEF FenceInv, SeqInv
  <2>4. \A k \in Calls : back'[k].seq <= fence'.seq
    BY <1>3, <2>1 DEF FenceInv, SeqInv, Shapes
  <2> QED
    BY <1>3, <2>1, <2>2, <2>3, <2>4 DEF SeqInv
<1>6. \A c \in Instances : WaitOf(c)'
  BY <1>1, QueueStays DEF FenceInv, WaitOf, WatcherKept
<1> QED
  BY <1>1, <1>2, <1>4, <1>5, <1>6, MovedKeeps DEF FenceInv

\* As they are before a step.
LEMMA CutFacts ==
  ASSUME FenceInv, NEW a \in Admins
  PROVE  /\ cut[a] \in Cutovers /\ cut[a].gen \in Generations /\ cut[a].gen \in Nat /\ cut[a].seq \in Nat
         /\ cut[a].seq <= fence.seq /\ PhaseOf(a) /\ QuietOf(a)
         /\ cut[a].pc \notin {"idle", "done"} => cut[a].gen < used.runs
         /\ fence.gen <= used.runs /\ record <= used.runs /\ used.runs \in Nat
         /\ \A c \in Instances : client[c].snapshot <= used.runs
         /\ record \in Generations /\ crossed \in BOOLEAN
         /\ used \in [runs : 0..MaxRuns, faults : 0..MaxFaults]
         /\ \A c : Queued(c) = {} => Late(c)
<1>1. cut[a] \in Cutovers /\ cut[a].gen \in Generations
  BY Facts DEF Cutovers
<1> QED
  BY <1>1, Facts DEF FenceInv, Shapes, CountInv, SeqInv, Late

\* A step that leaves the fence and the instances alone.
LEMMA NothingMoved ==
  ASSUME FenceInv, UNCHANGED <<fence, client>> PROVE FenceMoved /\ WatcherKept
BY DEF FenceInv, Shapes, FenceMoved, WatcherKept

\* A cutover that changes neither the fence nor the record.
LEMMA StaysKeeps ==
  ASSUME FenceInv, NEW a \in Admins, NEW r \in Cutovers, cut' = [cut EXCEPT ![a] = r],
         UNCHANGED <<fence, docs, client, write, back, record, crossed>>,
         used' \in [runs : 0..MaxRuns, faults : 0..MaxFaults], used.runs <= used'.runs,
         r.pc \notin {"idle", "done"} => r.gen < used'.runs,
         r.seq <= fence.seq, r.pc = "flush" => Queued(a) # {}, PhaseOf(a)', QuietOf(a)'
  PROVE  FenceInv'
<1>1. used.runs \in Nat /\ used'.runs \in Nat /\ fence.gen \in Nat /\ record \in Nat
  BY Facts
<1>2. GateInv'
  BY DEF FenceInv, GateInv
<1>3. /\ fence'.gen <= used'.runs /\ record' <= used'.runs
      /\ \A c \in Instances : client'[c].snapshot <= used'.runs
  <2>1. \A c \in Instances : client[c].snapshot \in Nat
    BY Facts DEF Clients
  <2> QED
    BY <1>1, <2>1, CutFacts
<1> QED
  BY <1>2, <1>3, NothingMoved, CutFacts, CutKeeps

\* A cutover under way that only goes on.
LEMMA GoesKeeps ==
  ASSUME FenceInv, NEW a \in Admins, NEW r \in Cutovers, cut' = [cut EXCEPT ![a] = r],
         UNCHANGED <<fence, docs, client, write, back, record, crossed, used>>,
         cut[a].pc \notin {"idle", "done"}, r.gen = cut[a].gen, r.seq = cut[a].seq,
         r.pc = "flush" => Queued(a) # {}, PhaseOf(a)', QuietOf(a)'
  PROVE  FenceInv'
<1>1. /\ used' \in [runs : 0..MaxRuns, faults : 0..MaxFaults] /\ used.runs <= used'.runs
      /\ r.gen < used'.runs /\ r.seq <= fence.seq
  BY CutFacts
<1> QED
  BY <1>1, StaysKeeps

LEMMA RunCutoverKeeps ==
  ASSUME FenceInv, NEW a \in Admins, RunCutover(a) PROVE FenceInv'
<1> DEFINE r == [cut[a] EXCEPT !.pc = "base", !.gen = fence.gen, !.seq = fence.seq]
<1>1. /\ UNCHANGED <<fence, docs, client, write, back, record, crossed>>
      /\ cut' = [cut EXCEPT ![a] = r]
      /\ used.runs < MaxRuns /\ used' = [used EXCEPT !.runs = @ + 1]
  BY DEF RunCutover
<1>2. /\ used' \in [runs : 0..MaxRuns, faults : 0..MaxFaults] /\ used'.runs = used.runs + 1
      /\ used.runs \in Nat /\ fence.gen <= used.runs
  BY <1>1, Facts, CutFacts
<1>3. r \in Cutovers /\ r.pc = "base" /\ r.gen = fence.gen /\ r.seq = fence.seq
  BY Facts, CutFacts DEF Cutovers, Places
<1> HIDE DEF r
<1>4. cut'[a] = r
  BY <1>1 DEF FenceInv, Shapes
<1>5. PhaseOf(a)' /\ QuietOf(a)'
  BY <1>1, <1>3, <1>4 DEF PhaseOf, QuietOf, Drains, Rewrites, Polled
<1>6. /\ used.runs <= used'.runs /\ r.gen < used'.runs /\ r.seq <= fence.seq
  BY <1>2, <1>3, Facts
<1> QED
  BY <1>1, <1>2, <1>3, <1>5, <1>6, StaysKeeps

\* The cutover flushes its own queue, or has to wait for it.
LEMMA FlushKeeps ==
  ASSUME FenceInv, NEW a \in Admins, Flush(a) PROVE FenceInv'
<1> DEFINE r == [cut[a] EXCEPT !.pc = Flushes(a)]
<1>1. /\ cut[a].pc = "draining" /\ cut' = [cut EXCEPT ![a] = r]
      /\ UNCHANGED <<fence, docs, client, write, back, record, crossed, used>>
  BY DEF Flush, Goes
<1>2. /\ Flushes(a) \in {"flush", "flushed"} /\ (Flushes(a) = "flush" => Queued(a) # {})
      /\ Flushes(a) = "flushed" => Queued(a) = {}
  BY DEF Flushes
<1>3. r \in Cutovers /\ r.pc = Flushes(a) /\ r.gen = cut[a].gen /\ r.seq = cut[a].seq
  BY <1>2, CutFacts DEF Cutovers, Places, Waits
<1> HIDE DEF r
<1>4. cut'[a] = r
  BY <1>1 DEF FenceInv, Shapes
<1>5. PhaseOf(a)' /\ QuietOf(a)'
  BY <1>1, <1>2, <1>3, <1>4, CutFacts, QueueStays
     DEF PhaseOf, QuietOf, Overtaken, Drains, Rewrites, Polled
<1> QED
  BY <1>1, <1>2, <1>3, <1>5, GoesKeeps

LEMMA PollKeeps ==
  ASSUME FenceInv, NEW a \in Admins, Poll(a) PROVE FenceInv'
<1> DEFINE r == [cut[a] EXCEPT !.pc = "poll", !.todo = Instances \ {a}, !.counted = {}]
<1>1. /\ cut[a].pc = "flushed" /\ cut' = [cut EXCEPT ![a] = r]
      /\ UNCHANGED <<fence, docs, client, write, back, record, crossed, used>>
  BY DEF Poll
<1>2. /\ r \in Cutovers /\ r.pc = "poll" /\ r.gen = cut[a].gen /\ r.seq = cut[a].seq
      /\ r.counted = {}
  BY CutFacts DEF Cutovers, Places
<1> HIDE DEF r
<1>3. cut'[a] = r
  BY <1>1 DEF FenceInv, Shapes
<1>4. PhaseOf(a)' /\ QuietOf(a)'
  BY <1>1, <1>2, <1>3, CutFacts, QueueStays
     DEF PhaseOf, QuietOf, Overtaken, Drains, Rewrites, Polled
<1> QED
  BY <1>1, <1>2, <1>4, GoesKeeps

\* Who is counted has acknowledged this very drain, so that his queue has drained.
LEMMA ReadDocKeeps ==
  ASSUME FenceInv, NEW a \in Admins, NEW c \in Instances, ReadDoc(a, c) PROVE FenceInv'
<1> DEFINE stop == docs[c].fresh /\ docs[c].acked.gen # cut[a].gen
           now == {b \in {c} : docs[b].fresh /\ docs[b].acked.seq = cut[a].seq}
           r == IF stop THEN [cut[a] EXCEPT !.pc = "flushed", !.todo = {}, !.counted = {}]
                ELSE [cut[a] EXCEPT !.todo = @ \ {c}, !.counted = @ \cup now]
<1>1. /\ cut[a].pc = "poll"
      /\ UNCHANGED <<fence, docs, client, write, back, record, crossed, used>>
  BY DEF ReadDoc
<1>2. cut' = [cut EXCEPT ![a] = r]
  <2>1. CASE stop
    BY <2>1 DEF ReadDoc
  <2>2. CASE ~stop
    BY <2>2 DEF ReadDoc
  <2> QED
    BY <2>1, <2>2
<1>3. /\ r \in Cutovers /\ r.pc \in {"poll", "flushed"} /\ r.gen = cut[a].gen /\ r.seq = cut[a].seq
      /\ r.counted \subseteq cut[a].counted \cup now
  <2>1. CASE stop
    BY <1>1, <2>1, CutFacts DEF Cutovers, Places, Waits
  <2>2. CASE ~stop
    BY <1>1, <2>2, CutFacts DEF Cutovers
  <2> QED
    BY <2>1, <2>2
<1> HIDE DEF r
<1>4. cut'[a] = r
  BY <1>2 DEF FenceInv, Shapes
<1>5. ~Overtaken(a) => \A b \in now : Late(b)
  BY DEF FenceInv, MarkOf, Overtaken
<1>6. PhaseOf(a)' /\ QuietOf(a)'
  BY <1>1, <1>3, <1>4, <1>5, CutFacts, QueueStays
     DEF PhaseOf, QuietOf, Overtaken, Drains, Rewrites, Polled
<1> QED
  BY <1>1, <1>2, <1>3, <1>6, GoesKeeps

LEMMA QuorumKeeps ==
  ASSUME FenceInv, NEW a \in Admins, Quorum(a) PROVE FenceInv'
<1> DEFINE r == [cut[a] EXCEPT !.pc = "quorum"]
<1>1. /\ cut[a].pc = "poll" /\ cut' = [cut EXCEPT ![a] = r]
      /\ UNCHANGED <<fence, docs, client, write, back, record, crossed, used>>
  BY DEF Quorum, Goes
<1>2. /\ r \in Cutovers /\ r.pc = "quorum" /\ r.gen = cut[a].gen /\ r.seq = cut[a].seq
      /\ r.counted = cut[a].counted
  BY CutFacts DEF Cutovers, Places
<1> HIDE DEF r
<1>3. cut'[a] = r
  BY <1>1 DEF FenceInv, Shapes
<1>4. PhaseOf(a)' /\ QuietOf(a)'
  BY <1>1, <1>2, <1>3, CutFacts, QueueStays
     DEF PhaseOf, QuietOf, Overtaken, Drains, Rewrites, Polled
<1> QED
  BY <1>1, <1>2, <1>4, GoesKeeps

\* A cutover that is rejected leaves the fence where it is.
LEMMA RejectedKeeps ==
  ASSUME FenceInv, NEW a \in Admins, TimesOut(a) \/ RewriteFails(a) PROVE FenceInv'
<1> DEFINE r == NoCutover("idle")
<1>1. /\ cut' = [cut EXCEPT ![a] = r] /\ Fault
      /\ UNCHANGED <<fence, docs, client, write, back, record, crossed>>
  BY DEF TimesOut, RewriteFails, Ends
<1>2. r \in Cutovers /\ r.pc = "idle" /\ r.seq = 0
  <2>1. 0 \in Generations
    BY Facts DEF Generations
  <2> QED
    BY <2>1 DEF Cutovers, Places, Waits, NoCutover
<1> HIDE DEF r
<1>3. cut'[a] = r
  BY <1>1 DEF FenceInv, Shapes
<1>4. PhaseOf(a)' /\ QuietOf(a)'
  BY <1>2, <1>3 DEF PhaseOf, QuietOf, Drains, Rewrites, Polled
<1>5. /\ used' \in [runs : 0..MaxRuns, faults : 0..MaxFaults] /\ used.runs <= used'.runs
      /\ r.seq <= fence.seq
  BY <1>1, <1>2, Facts, FaultUses
<1> QED
  BY <1>1, <1>2, <1>4, <1>5, StaysKeeps

\* A cutover moves the fence on, and knows of it unless it was out of date before.
LEMMA MovesShows ==
  ASSUME FenceInv, NEW a \in Admins, NEW pc \in Places, NEW gen \in Generations,
         NEW state \in States, Moves(a, pc, gen, state)
  PROVE  /\ FenceMoved /\ fence'.gen = gen /\ fence'.state = state
         /\ crossed' \in BOOLEAN /\ (~crossed' => ~crossed /\ ~Overtaken(a))
         /\ \E r \in Cutovers : /\ cut' = [cut EXCEPT ![a] = r] /\ cut'[a] = r
                                /\ r.pc = pc /\ r.gen = cut[a].gen /\ r.counted = cut[a].counted
                                /\ r.seq <= fence'.seq /\ (r.seq = fence'.seq => ~Overtaken(a))
<1>1. SetFence(gen, state, Overtaken(a)) /\ Overtaken(a) \in BOOLEAN
  BY DEF Moves, Overtaken
<1>2. /\ FenceMoved /\ fence'.gen = gen /\ fence'.state = state /\ fence'.seq \in Nat
      /\ crossed' \in BOOLEAN /\ (~crossed' => ~crossed /\ ~Overtaken(a))
  BY <1>1, SetFenceMoves
<1> DEFINE n == IF Overtaken(a) THEN cut[a].seq ELSE fence'.seq
           r == [cut[a] EXCEPT !.pc = pc, !.seq = n]
<1>3. cut' = [cut EXCEPT ![a] = r]
  BY DEF Moves
<1>4. n \in Nat /\ n <= fence'.seq /\ (n = fence'.seq => ~Overtaken(a))
  BY <1>2, Facts, CutFacts DEF Overtaken, FenceMoved
<1> HIDE DEF n
<1>5. /\ r \in Cutovers /\ r.pc = pc /\ r.gen = cut[a].gen /\ r.counted = cut[a].counted
      /\ r.seq = n
  BY <1>4, CutFacts DEF Cutovers
<1> HIDE DEF r
<1>6. cut'[a] = r
  BY <1>3 DEF FenceInv, Shapes
<1> QED
  BY <1>2, <1>3, <1>4, <1>5, <1>6

LEMMA SetDrainingKeeps ==
  ASSUME FenceInv, NEW a \in Admins, SetDraining(a) PROVE FenceInv'
<1>1. /\ cut[a].pc = "base" /\ UNCHANGED <<docs, client, write, back, record, used>>
      /\ SetFence(cut[a].gen, "draining", Overtaken(a)) /\ Overtaken(a) \in BOOLEAN
  BY DEF SetDraining, Overtaken
<1>2. "draining" \in States /\ cut[a].gen \in Generations /\ cut[a].gen < used.runs
  BY <1>1, CutFacts DEF States
<1>3. /\ FenceMoved /\ fence'.gen = cut[a].gen /\ fence'.state = "draining" /\ fence'.seq \in Nat
      /\ crossed' \in BOOLEAN /\ (~crossed' => ~crossed /\ ~Overtaken(a))
  BY <1>1, <1>2, SetFenceMoves
<1> DEFINE r == [cut[a] EXCEPT !.pc = "draining", !.seq = fence'.seq]
<1>4. cut' = [cut EXCEPT ![a] = r]
  BY DEF SetDraining
<1>5. r \in Cutovers /\ r.pc = "draining" /\ r.gen = cut[a].gen /\ r.seq = fence'.seq
  BY <1>3, CutFacts DEF Cutovers, Places
<1> HIDE DEF r
<1>6. cut'[a] = r /\ WatcherKept
  BY <1>1, <1>4 DEF FenceInv, Shapes, WatcherKept
<1>7. PhaseOf(a)' /\ QuietOf(a)'
  BY <1>3, <1>5, <1>6 DEF PhaseOf, QuietOf, Drains, Rewrites, Polled
<1>8. GateInv'
  <2>1. ~crossed' => fence.gen = cut[a].gen
    BY <1>1, <1>3, CutFacts DEF PhaseOf
  <2> QED
    BY <1>1, <1>3, <2>1, Facts DEF FenceInv, GateInv, Up
<1>9. /\ fence'.gen <= used'.runs /\ record' <= used'.runs /\ r.gen < used'.runs
      /\ \A c \in Instances : client'[c].snapshot <= used'.runs
      /\ r.seq <= fence'.seq /\ used.runs <= used'.runs
      /\ used' \in [runs : 0..MaxRuns, faults : 0..MaxFaults] /\ record' \in Generations
  BY <1>1, <1>2, <1>3, <1>5, CutFacts
<1> QED
  BY <1>1, <1>3, <1>4, <1>5, <1>6, <1>7, <1>8, <1>9, CutKeeps

\* What the fence and the gate need of a cutover that moves on.
LEMMA MovesKeeps ==
  ASSUME FenceInv, NEW a \in Admins, NEW pc \in {"migrating", "complete", "done"},
         NEW gen \in Generations, NEW state \in States, Moves(a, pc, gen, state),
         UNCHANGED <<docs, write, back, record, used>>, WatcherKept,
         \A c \in Instances : client'[c].snapshot <= used.runs,
         gen <= used.runs, cut[a].pc \notin {"idle", "done"},
         pc = "migrating" => cut[a].pc = "quorum" /\ gen = cut[a].gen /\ state = "migrating",
         pc = "complete" => gen = cut[a].gen + 1 /\ state = "complete",
         ~crossed /\ ~Overtaken(a) => record <= gen \/ (state \in Up /\ record <= gen + 1)
  PROVE  FenceInv'
<1>0. pc \in Places
  BY DEF Places
<1>1. /\ FenceMoved /\ fence'.gen = gen /\ fence'.state = state
      /\ crossed' \in BOOLEAN /\ (~crossed' => ~crossed /\ ~Overtaken(a))
  BY <1>0, MovesShows
<1>2. PICK r \in Cutovers : /\ cut' = [cut EXCEPT ![a] = r] /\ cut'[a] = r
                            /\ r.pc = pc /\ r.gen = cut[a].gen /\ r.counted = cut[a].counted
                            /\ r.seq <= fence'.seq /\ (r.seq = fence'.seq => ~Overtaken(a))
  BY <1>0, MovesShows
<1>3. PhaseOf(a)'
  BY <1>1, <1>2 DEF PhaseOf, Overtaken, Drains, Rewrites
<1>4. QuietOf(a)'
  BY <1>2, CutFacts, QueueStays DEF QuietOf, Overtaken, Drains, Rewrites, Polled
<1>5. GateInv'
  BY <1>1 DEF GateInv
<1>6. /\ fence'.gen <= used'.runs /\ record' <= used'.runs /\ r.gen < used'.runs
      /\ used.runs <= used'.runs /\ record' \in Generations
      /\ used' \in [runs : 0..MaxRuns, faults : 0..MaxFaults] /\ r.pc # "flush"
  BY <1>1, <1>2, CutFacts
<1> QED
  BY <1>1, <1>2, <1>3, <1>4, <1>5, <1>6, CutKeeps

LEMMA SetMigratingKeeps ==
  ASSUME FenceInv, NEW a \in Admins, SetMigrating(a) PROVE FenceInv'
<1>1. /\ cut[a].pc = "quorum" /\ Moves(a, "migrating", cut[a].gen, "migrating")
      /\ UNCHANGED <<docs, client, write, back, record, used>>
  BY DEF SetMigrating
<1>2. /\ cut[a].gen \in Generations /\ cut[a].gen <= used.runs /\ "migrating" \in States
      /\ \A c \in Instances : client'[c].snapshot <= used.runs
      /\ WatcherKept
  BY <1>1, CutFacts, Facts DEF States, WatcherKept, FenceInv, Shapes
<1>3. ~crossed /\ ~Overtaken(a) =>
        record <= cut[a].gen \/ ("migrating" \in Up /\ record <= cut[a].gen + 1)
  BY <1>1, CutFacts DEF PhaseOf, Drains, FenceInv, GateInv, Up
<1> QED
  BY <1>1, <1>2, <1>3, MovesKeeps

LEMMA SetCompleteKeeps ==
  ASSUME FenceInv, NEW a \in Admins, SetComplete(a) PROVE FenceInv'
<1>1. /\ cut[a].pc = "rewritten" /\ Moves(a, "complete", cut[a].gen + 1, "complete")
      /\ UNCHANGED <<docs, client, write, back, record, used>>
  BY DEF SetComplete
<1>2. cut[a].gen + 1 \in Nat /\ cut[a].gen + 1 <= used.runs
  BY <1>1, CutFacts
<1>3. /\ cut[a].gen + 1 \in Generations /\ "complete" \in States
      /\ \A c \in Instances : client'[c].snapshot <= used.runs
      /\ WatcherKept
  BY <1>1, <1>2, CutFacts, Facts DEF States, WatcherKept, FenceInv, Shapes
<1>4. ~crossed /\ ~Overtaken(a) => record <= cut[a].gen + 1
  <2>1. ~Overtaken(a) => fence.gen = cut[a].gen
    BY <1>1, CutFacts DEF PhaseOf, Rewrites
  <2> QED
    BY <2>1, Facts DEF FenceInv, GateInv
<1> QED
  BY <1>1, <1>2, <1>3, <1>4, MovesKeeps

\* The end: the new generation, known to the admin's instance.
LEMMA SetNormalKeeps ==
  ASSUME FenceInv, NEW a \in Admins, SetNormal(a) PROVE FenceInv'
<1>1. /\ cut[a].pc = "complete" /\ Moves(a, "done", cut[a].gen + 1, "normal")
      /\ client' = [client EXCEPT ![a].snapshot = cut[a].gen + 1]
      /\ UNCHANGED <<docs, write, back, record, used>>
  BY DEF SetNormal
<1>2. cut[a].gen + 1 \in Nat /\ cut[a].gen + 1 <= used.runs /\ a \in Instances
  BY <1>1, CutFacts, Facts
<1>3. cut[a].gen + 1 \in Generations /\ "normal" \in States
  BY <1>2, Facts DEF States
<1>4. WatcherKept /\ \A c \in Instances : client'[c].snapshot <= used.runs
  <2> DEFINE m == [client[a] EXCEPT !.snapshot = cut[a].gen + 1]
  <2>1. /\ m \in Clients /\ m.snapshot = cut[a].gen + 1 /\ m.at = client[a].at
        /\ m.check = client[a].check /\ m.quiesced = client[a].quiesced /\ m.error = client[a].error
    BY <1>2, <1>3, Facts DEF Clients
  <2>2. client' = [client EXCEPT ![a] = m]
    BY DEF SetNormal
  <2> HIDE DEF m
  <2>3. /\ client' \in [Instances -> Clients] /\ client'[a] = m
        /\ \A c \in Instances : c # a => client'[c] = client[c]
    <3>1. client \in [Instances -> Clients]
      BY DEF FenceInv, Shapes
    <3> QED
      BY <1>2, <2>1, <2>2, <3>1
  <2> QED
    BY <1>2, <2>1, <2>3, CutFacts DEF WatcherKept
<1>5. ~crossed /\ ~Overtaken(a) => record <= cut[a].gen + 1
  <2>1. ~Overtaken(a) => fence.gen = cut[a].gen + 1 /\ fence.state = "complete"
    BY <1>1, CutFacts DEF PhaseOf
  <2> QED
    BY <2>1 DEF FenceInv, GateInv, Up
<1> QED
  BY <1>1, <1>2, <1>3, <1>4, <1>5, MovesKeeps

\* A rewrite by who still holds the fence happens behind it.
LEMMA RewriteKeeps ==
  ASSUME FenceInv, NEW a \in Admins, Rewrite(a) PROVE FenceInv'
<1> DEFINE r == [cut[a] EXCEPT !.pc = "rewritten"]
<1>1. /\ cut[a].pc = "migrating" /\ cut' = [cut EXCEPT ![a] = r]
      /\ UNCHANGED <<fence, docs, client, write, back, used>>
  BY DEF Rewrite, Goes
<1>2. /\ record' = cut[a].gen + 1 /\ crossed' \in BOOLEAN
      /\ ~crossed' => ~Overtaken(a)
  BY CutFacts DEF Rewrite, Overtaken
<1>3. /\ r \in Cutovers /\ r.pc = "rewritten" /\ r.gen = cut[a].gen /\ r.seq = cut[a].seq
      /\ r.counted = cut[a].counted
  BY CutFacts DEF Cutovers, Places
<1> HIDE DEF r
<1>4. cut'[a] = r /\ FenceMoved /\ WatcherKept
  BY <1>1, NothingMoved DEF FenceInv, Shapes
<1>5. PhaseOf(a)'
  BY <1>1, <1>3, <1>4, CutFacts DEF PhaseOf, Overtaken, Drains, Rewrites
<1>6. QuietOf(a)'
  BY <1>1, <1>3, <1>4, CutFacts, QueueStays DEF QuietOf, Overtaken, Rewrites, Polled
<1>7. GateInv'
  <2>1. ~Overtaken(a) => fence.gen = cut[a].gen /\ fence.state = "migrating"
    BY <1>1, CutFacts DEF PhaseOf, Rewrites
  <2> QED
    BY <1>1, <1>2, <2>1, Facts DEF GateInv, Up
<1>8. /\ record' \in Nat /\ record' <= used'.runs /\ fence'.gen <= used'.runs /\ r.gen < used'.runs
      /\ \A c \in Instances : client'[c].snapshot <= used'.runs
      /\ used.runs <= used'.runs /\ r.seq <= fence'.seq
      /\ used' \in [runs : 0..MaxRuns, faults : 0..MaxFaults]
  BY <1>1, <1>2, <1>3, CutFacts
<1>9. record' \in Generations
  BY <1>1, <1>8, Facts
<1> QED
  BY <1>1, <1>2, <1>3, <1>4, <1>5, <1>6, <1>7, <1>8, <1>9, CutKeeps

-----------------------------------------------------------------------------
(* The other writers of the fence. *)

Puts == [pc : {"idle", "abort", "overlay", "done"}, gen : Generations, state : States, seq : Nat]

\* Their steps change what they will put, and the fence.
LEMMA BackKeeps ==
  ASSUME FenceInv, NEW k \in Calls, NEW r \in Puts, back' = [back EXCEPT ![k] = r],
         UNCHANGED <<docs, client, write, cut, record, used>>, FenceMoved, crossed' \in BOOLEAN,
         fence'.gen <= used.runs, r.gen <= used.runs, r.seq <= fence'.seq, BackOf(k)', GateInv'
  PROVE  FenceInv'
<1>1. back'[k] = r /\ \A j \in Calls : j # k => back'[j] = back[j]
  BY DEF FenceInv, Shapes
<1>2. WatcherKept
  BY DEF FenceInv, Shapes, WatcherKept
<1>3. Shapes'
  BY DEF FenceInv, Shapes, FenceMoved, Puts
<1>4. CountInv'
  BY <1>1 DEF FenceInv, CountInv
<1>5. SeqInv'
  <2>1. fence.seq \in Nat /\ fence'.seq >= fence.seq /\ fence'.seq \in Nat
    BY Facts DEF FenceMoved
  <2>2. \A c \in Instances : /\ client'[c].at.seq <= fence'.seq /\ client'[c].quiesced.seq <= fence'.seq
                             /\ docs'[c].acked.seq <= fence'.seq
    BY <2>1, AckFacts DEF FenceInv, SeqInv
  <2>3. \A a \in Admins : cut'[a].seq <= fence'.seq
    BY <2>1, Facts DEF FenceInv, SeqInv
  <2>4. \A j \in Calls : back'[j].seq <= fence'.seq
    BY <1>1, <2>1 DEF FenceInv, SeqInv, Shapes
  <2> QED
    BY <2>1, <2>2, <2>3, <2>4 DEF FenceInv, SeqInv
<1>6. \A c \in Instances : WaitOf(c)'
  BY QueueStays DEF FenceInv, WaitOf
<1> QED
  BY <1>1, <1>2, <1>3, <1>4, <1>5, <1>6, MovedKeeps DEF FenceInv

LEMMA ReadsKeeps ==
  ASSUME FenceInv, NEW k \in Calls, Abort(k) \/ Register(k) PROVE FenceInv'
<1>1. PICK pc \in {"abort", "overlay"}, state \in States :
        Reads(k, pc, state) /\ (pc = "overlay" => state = fence.state)
  BY Facts DEF Abort, Register, States
<1> DEFINE r == [pc |-> pc, gen |-> fence.gen, state |-> state, seq |-> fence.seq]
<1>2. /\ UNCHANGED <<fence, docs, client, write, cut, record, crossed, used>>
      /\ back' = [back EXCEPT ![k] = r]
  BY <1>1 DEF Reads
<1>3. r \in Puts /\ r.pc = pc /\ r.gen = fence.gen /\ r.state = state /\ r.seq = fence.seq
  BY Facts DEF Puts
<1> HIDE DEF r
<1>4. back'[k] = r /\ FenceMoved
  BY <1>2, NothingMoved DEF FenceInv, Shapes
<1>5. BackOf(k)' /\ GateInv'
  BY <1>1, <1>2, <1>3, <1>4 DEF FenceInv, BackOf, GateInv
<1>6. /\ crossed' \in BOOLEAN /\ fence'.gen <= used.runs /\ r.gen <= used.runs
      /\ r.seq <= fence'.seq
  BY <1>2, <1>3, Facts DEF FenceInv, Shapes, CountInv
<1> QED
  BY <1>2, <1>3, <1>4, <1>5, <1>6, BackKeeps

LEMMA PutsBackKeeps ==
  ASSUME FenceInv, NEW k \in Calls, AbortSets(k) \/ OverlaySets(k) PROVE FenceInv'
<1> DEFINE stale == back[k].seq # fence.seq
           over == back[k].pc = "abort" /\ record > back[k].gen
<1>1. /\ PutsBack(k, stale \/ over) /\ back[k].pc \in {"abort", "overlay"}
      /\ (stale \/ over) \in BOOLEAN
  <2>1. CASE AbortSets(k)
    <3>1. (stale \/ over) = (back[k].seq # fence.seq \/ record > back[k].gen)
      BY <2>1 DEF AbortSets
    <3> QED
      BY <2>1, <3>1 DEF AbortSets
  <2>2. CASE OverlaySets(k)
    <3>1. (stale \/ over) = (back[k].seq # fence.seq)
      BY <2>2 DEF OverlaySets
    <3> QED
      BY <2>2, <3>1 DEF OverlaySets
  <2> QED
    BY <2>1, <2>2
<1>2. /\ back[k] \in Puts /\ back[k].gen \in Generations /\ back[k].state \in States
      /\ back[k].gen \in Nat /\ back[k].gen <= used.runs
  BY Facts DEF FenceInv, Shapes, Puts, CountInv
<1> DEFINE r == NoPut("done")
<1>3. /\ UNCHANGED <<docs, client, write, cut, record, used>> /\ back' = [back EXCEPT ![k] = r]
      /\ SetFence(back[k].gen, back[k].state, stale \/ over)
  BY <1>1 DEF PutsBack
<1>4. /\ FenceMoved /\ fence'.gen = back[k].gen /\ fence'.state = back[k].state
      /\ fence'.seq \in Nat /\ crossed' \in BOOLEAN
      /\ ~crossed' => ~crossed /\ ~(stale \/ over)
  BY <1>1, <1>2, <1>3, SetFenceMoves
<1>5. r \in Puts /\ r.pc = "done" /\ r.gen = 0 /\ r.seq = 0
  BY Facts DEF Puts, NoPut, Generations, States
<1> HIDE DEF r
<1>6. back'[k] = r
  BY <1>3 DEF FenceInv, Shapes
<1>7. BackOf(k)'
  BY <1>5, <1>6 DEF BackOf
<1>8. GateInv'
  <2>1. back[k].pc = "overlay" /\ ~stale => back[k].gen = fence.gen /\ back[k].state = fence.state
    BY DEF FenceInv, BackOf
  <2>2. back[k].pc = "abort" /\ ~over => record <= back[k].gen
    BY <1>2, Facts
  <2> QED
    BY <1>1, <1>3, <1>4, <2>1, <2>2 DEF FenceInv, GateInv
<1>9. fence'.gen <= used.runs /\ r.gen <= used.runs /\ r.seq <= fence'.seq
  BY <1>2, <1>4, <1>5, Facts
<1> QED
  BY <1>3, <1>4, <1>5, <1>7, <1>8, <1>9, BackKeeps

-----------------------------------------------------------------------------
(* The theorems. *)

LEMMA StutterKeeps ==
  ASSUME FenceInv, UNCHANGED vars PROVE FenceInv'
BY DEF vars, FenceInv, Shapes, CountInv, SeqInv, GateInv, WaitOf, MarkOf, PhaseOf, QuietOf, BackOf,
       Queued, Late, Overtaken

LEMMA StepKeeps ==
  ASSUME FenceInv, [Next]_vars PROVE FenceInv'
<1>1. CASE UNCHANGED vars
  BY <1>1, StutterKeeps
<1>2. CASE \E w \in Writes : (\E c \in Instances : Put(w, c)) \/ Track(w)
  BY <1>2, PutKeeps, TrackKeeps
<1>3. CASE \E w \in Writes : Lands(w) \/ WriteFails(w)
  <2> PICK w \in Writes : Lands(w) \/ WriteFails(w)
    BY <1>3
  <2>1. /\ write[w].pc = "queued" /\ UNCHANGED <<fence, docs, back, crossed>>
        /\ record' \in {0, record}
    BY DEF Lands, WriteFails
  <2>2. PICK failed \in BOOLEAN : Settle(w, failed)
    BY DEF Lands, WriteFails
  <2>3. used' \in [runs : 0..MaxRuns, faults : 0..MaxFaults] /\ used'.runs = used.runs
    BY FaultUses DEF Lands, WriteFails, FenceInv, Shapes
  <2> QED
    BY <2>1, <2>2, <2>3, SettleKeeps
<1>4. CASE \E c \in Watched : Beat(c) \/ Silent(c) \/ Check(c) \/ Acknowledge(c)
  BY <1>4, BeatKeeps, SilentKeeps, CheckKeeps, AcknowledgeKeeps
<1>5. CASE \E a \in Admins : RunCutover(a) \/ CutoverStep(a) \/ TimesOut(a) \/ RewriteFails(a)
  <2> PICK a \in Admins : RunCutover(a) \/ CutoverStep(a) \/ TimesOut(a) \/ RewriteFails(a)
    BY <1>5
  <2>1. CASE RunCutover(a) \/ SetDraining(a) \/ Flush(a) \/ Poll(a)
    BY <2>1, RunCutoverKeeps, SetDrainingKeeps, FlushKeeps, PollKeeps
  <2>2. CASE (\E c \in Instances : ReadDoc(a, c)) \/ Quorum(a) \/ TimesOut(a) \/ RewriteFails(a)
    BY <2>2, ReadDocKeeps, QuorumKeeps, RejectedKeeps
  <2>3. CASE SetMigrating(a) \/ Rewrite(a) \/ SetComplete(a) \/ SetNormal(a)
    BY <2>3, SetMigratingKeeps, RewriteKeeps, SetCompleteKeeps, SetNormalKeeps
  <2> QED
    BY <2>1, <2>2, <2>3 DEF CutoverStep
<1>6. CASE \E k \in Calls : Abort(k) \/ AbortSets(k) \/ Register(k) \/ OverlaySets(k)
  BY <1>6, ReadsKeeps, PutsBackKeeps
<1> QED
  BY <1>1, <1>2, <1>3, <1>4, <1>5, <1>6 DEF Next, WatcherStep

\* The invariant holds throughout, whoever else writes the fence.
THEOREM FenceInvariant == Spec => []FenceInv
<1>1. Init => FenceInv
  BY InitFence
<1>2. FenceInv /\ [Next]_vars => FenceInv'
  BY StepKeeps
<1> QED
  BY <1>1, <1>2, PTL DEF Spec

\* Fence, documents and instances keep their shape; a waiter has a write to wait for.
THEOREM TypeCorrect == Spec => []TypeOK
<1>1. FenceInv => TypeOK
  BY DEF FenceInv, TypeOK, WaitOf
<1> QED
  BY <1>1, FenceInvariant, PTL

\* While a cutover that nobody has overtaken rewrites, whoever acknowledged its drain has
\* nothing queued but writes that slipped between gate and queue: an acknowledgement
\* outlives neither the queue it speaks of nor the fence it answers.
THEOREM BarrierHolds == Spec => []QuietWhileMigrating
<1>1. FenceInv => QuietWhileMigrating
  BY DEF FenceInv, QuietOf, QuietWhileMigrating, Polled, Rewrites, Late
<1> QED
  BY <1>1, FenceInvariant, PTL

\* Behind a record of a later generation an instance can write only after a writer of the
\* fence went on over what it had not read: no timeout, retry, failed rewrite, silent
\* instance or fresh overlay lets it in.
THEOREM GateHolds == Spec => []BehindIsRefused
<1>1. FenceInv => BehindIsRefused
  <2> SUFFICES ASSUME FenceInv, NEW c \in Instances, Writable(c), ~crossed
               PROVE  record <= client[c].snapshot
    BY DEF BehindIsRefused
  <2>1. record <= fence.gen /\ fence.gen <= client[c].snapshot
    BY DEF FenceInv, GateInv, Writable
  <2>2. client[c].snapshot \in Nat
    BY Facts DEF Clients
  <2> QED
    BY <2>1, <2>2, Facts
<1> QED
  BY <1>1, FenceInvariant, PTL
=============================================================================
