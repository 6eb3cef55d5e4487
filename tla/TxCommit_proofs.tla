-------------------------- MODULE TxCommit_proofs --------------------------
(***************************************************************************)
(* Proofs about db.transaction.  Most of what the properties need is local *)
(* to one job: where it stands, and what its ops, its revert plan and its  *)
(* envelopes then are (Fits, Owns).  Local is preserved by every job's own *)
(* step, whatever the others do; the invariants that relate a job to the   *)
(* store, to the cache and to the other jobs are built on it.              *)
(***************************************************************************)
EXTENDS TxCommit, TLAPS

OpRecords == [rec : Records, checked : BOOLEAN]

Jobs == [pc : Places, ops : Seq(OpRecords), at : Nat \ {0}, atomic : BOOLEAN,
         waits : SUBSET (Actors \X Nat), seen : [Records -> Envelopes],
         prior : [Records -> Envelopes], plan : Seq(Records),
         env : [Records -> Envelopes], early : SUBSET Puts, alone : BOOLEAN]

\* Where job j of actor a may stand.  The plan is empty before the first write of
\* a commit and after its end, and not empty while it can be reverted.
Fits(a, j) ==
  /\ a \in Puts => j.pc \in {"idle", "put", "cache", "done", "aborted"} /\ j.at = 1
                   /\ (j.pc = "idle" \/ \E r \in Records : j.ops = <<[rec |-> r, checked |-> FALSE]>>)
                   /\ j.plan = <<>>
  /\ a \in Txs /\ j.pc # "idle" => j.ops \in OpLists
  /\ j.pc = "idle" => j.ops = <<>> /\ j.alone
  /\ j.at <= Len(j.ops) + 1
  /\ j.pc \in {"idle", "body", "drain"} => j.at = 1
  /\ j.pc \in {"body", "drain", "preflight", "put", "cache"} => j.at <= Len(j.ops)
  /\ j.pc \in {"idle", "body", "drain", "preflight", "done", "aborted"} => j.plan = <<>>
  /\ j.pc \in {"batch", "finalize", "revert", "uncache"} => j.plan # <<>>
  /\ a \in Txs /\ j.pc \in {"put", "cache"} => j.plan # <<>>
  /\ j.pc = "exec" => (j.at = 1 <=> j.plan = <<>>)

\* What job j of actor a has minted is a's own, and so is every record it would revert.
Owns(a, j) ==
  /\ j.pc \in {"put", "cache"} => j.env[j.ops[j.at].rec].by = a
  /\ a \in Txs /\ j.pc \in {"put", "cache"} => \E k \in DOMAIN j.plan : j.plan[k] = j.ops[j.at].rec
  /\ \A k \in DOMAIN j.plan : j.env[j.plan[k]].by = a
  /\ j.pc \in {"batch", "finalize"} =>
       \A i \in DOMAIN j.ops : \E k \in DOMAIN j.plan : j.plan[k] = j.ops[i].rec

Local(a, j) == Fits(a, j) /\ Owns(a, j)

LocalInv ==
  /\ store \in [Records -> Envelopes] /\ cache \in [Records -> Envelopes]
  /\ txAtomic \in BOOLEAN /\ faults \in 0..MaxFaults
  /\ job \in [Actors -> Jobs]
  /\ \A a \in Actors : Local(a, job[a])

-----------------------------------------------------------------------------
(* One job moves. *)

LEMMA IdleFits ==
  ASSUME NEW a \in Actors
  PROVE  Idle \in Jobs /\ Local(a, Idle)
<1>1. Initially \in [Records -> Envelopes]
  BY DEF Initially, Envelopes
<1>2. Idle \in Jobs
  BY <1>1 DEF Idle, Jobs, Places
<1>3. Fits(a, Idle)
  BY DEF Idle, Fits
<1>4. Owns(a, Idle)
  BY DEF Idle, Owns
<1> QED BY <1>2, <1>3, <1>4 DEF Local

LEMMA InitLocal == Init => LocalInv
<1> SUFFICES ASSUME Init PROVE LocalInv
  OBVIOUS
<1>1. Initially \in [Records -> Envelopes]
  BY DEF Initially, Envelopes
<1>2. faults \in 0..MaxFaults
  BY MaxFaultsAssumption DEF Init
<1> QED BY <1>1, <1>2, IdleFits DEF Init, LocalInv

\* Only the job that moves changes.
LEMMA Moved ==
  ASSUME job \in [Actors -> Jobs], NEW a \in Actors, NEW n \in Jobs, Becomes(a, n)
  PROVE  /\ job' \in [Actors -> Jobs] /\ job'[a] = n
         /\ \A b \in Actors : b # a => job'[b] = job[b]
BY DEF Becomes

LEMMA MovesLocally ==
  ASSUME LocalInv, NEW a \in Actors, NEW n \in Jobs, Local(a, n), Becomes(a, n)
  PROVE  job' \in [Actors -> Jobs] /\ \A b \in Actors : Local(b, job'[b])
<1>1. job \in [Actors -> Jobs] /\ \A b \in Actors : Local(b, job[b])
  BY DEF LocalInv
<1>2. /\ job' \in [Actors -> Jobs] /\ job'[a] = n
      /\ \A b \in Actors : b # a => job'[b] = job[b]
  BY <1>1, Moved
<1>3. ASSUME NEW b \in Actors PROVE Local(b, job'[b])
  <2>1. CASE b = a
    BY <1>2, <2>1
  <2>2. CASE b # a
    BY <1>1, <1>2, <2>2
  <2> QED BY <2>1, <2>2
<1> QED BY <1>2, <1>3

LEMMA LocalJob ==
  ASSUME LocalInv, NEW a \in Actors
  PROVE  /\ job[a] \in Jobs /\ Fits(a, job[a]) /\ Owns(a, job[a])
         /\ job[a].pc \in Places /\ job[a].ops \in Seq(OpRecords) /\ job[a].at \in Nat \ {0}
         /\ job[a].plan \in Seq(Records) /\ job[a].env \in [Records -> Envelopes]
         /\ job[a].prior \in [Records -> Envelopes] /\ job[a].seen \in [Records -> Envelopes]
         /\ job[a].waits \in SUBSET (Actors \X Nat)
<1>1. job[a] \in Jobs /\ Fits(a, job[a]) /\ Owns(a, job[a])
  BY DEF LocalInv, Local
<1> QED BY <1>1 DEF Jobs

LEMMA StagedOps ==
  ASSUME LocalInv, NEW t \in Txs, job[t].pc # "idle"
  PROVE  job[t].ops \in OpLists /\ Len(job[t].ops) >= 1
<1>1. t \in Actors
  BY DEF Actors
<1>2. job[t].ops \in OpLists
  BY <1>1, LocalJob DEF Fits
<1>3. job[t].ops \in Seq(OpRecords) /\ job[t].ops # <<>>
  BY <1>2, OpListsAssumption DEF OpRecords
<1> QED BY <1>2, <1>3

\* The op at hand and its record.
LEMMA CurrentOp ==
  ASSUME LocalInv, NEW a \in Actors, job[a].at <= Len(job[a].ops)
  PROVE  /\ Op(a) \in OpRecords /\ Op(a).rec \in Records /\ Op(a).checked \in BOOLEAN
         /\ job[a].at \in DOMAIN job[a].ops /\ Op(a).rec \in Keys(a)
<1>1. job[a].ops \in Seq(OpRecords) /\ job[a].at \in Nat \ {0}
  BY LocalJob
<1>2. job[a].at \in 1..Len(job[a].ops) /\ Op(a) \in OpRecords
  BY <1>1 DEF Op
<1> QED BY <1>1, <1>2 DEF Op, OpRecords, Keys

LEMMA MintedType ==
  ASSUME LocalInv, NEW a \in Actors, NEW r \in Records
  PROVE  Minted(a, r) \in Envelopes /\ Minted(a, r).by = a
<1>1. cache[r] \in Envelopes
  BY DEF LocalInv
<1>2. cache[r].v + 1 \in Nat \ {0}
  BY <1>1 DEF Envelopes
<1>3. Minted(a, r) = [v |-> cache[r].v + 1, by |-> a]
  BY DEF Minted
<1> QED BY <1>2, <1>3 DEF Envelopes

-----------------------------------------------------------------------------
(* Each action moves one job to a place that fits. *)

LEMMA PutLocal ==
  ASSUME LocalInv, NEW p \in Puts, Put(p)
  PROVE  LocalInv'
<1> USE DEF LocalInv
<1>1. p \in Actors /\ p \notin Txs
  BY ActorsAssumption DEF Actors
<1>2. PICK r \in Records :
        Becomes(p, [job[p] EXCEPT !.pc = "put", !.ops = <<[rec |-> r, checked |-> FALSE]>>,
                                  !.env[r] = Minted(p, r)])
  BY DEF Put
<1> DEFINE n == [job[p] EXCEPT !.pc = "put", !.ops = <<[rec |-> r, checked |-> FALSE]>>,
                               !.env[r] = Minted(p, r)]
<1>3. /\ job[p] \in Jobs /\ Fits(p, job[p]) /\ Owns(p, job[p]) /\ job[p].pc = "idle"
      /\ job[p].env \in [Records -> Envelopes]
  BY <1>1, LocalJob DEF Put
<1>4. Minted(p, r) \in Envelopes /\ Minted(p, r).by = p
  BY <1>1, MintedType
<1>5. n \in Jobs
  <2>1. <<[rec |-> r, checked |-> FALSE]>> \in Seq(OpRecords)
    BY DEF OpRecords
  <2>2. [job[p].env EXCEPT ![r] = Minted(p, r)] \in [Records -> Envelopes]
    BY <1>3, <1>4
  <2> QED BY <1>3, <2>1, <2>2 DEF Jobs, Places
<1>6. /\ n.pc = "put" /\ n.ops = <<[rec |-> r, checked |-> FALSE]>> /\ n.at = 1
      /\ n.plan = <<>> /\ n.env[r] = Minted(p, r)
  BY <1>1, <1>3 DEF Jobs, Fits
<1>7. n.ops[n.at].rec = r /\ Len(n.ops) = 1
  BY <1>6
<1> HIDE DEF n
<1>8. Fits(p, n)
  <2>1. \E q \in Records : n.ops = <<[rec |-> q, checked |-> FALSE]>>
    BY <1>6
  <2>2. n.pc = "put" /\ n.at = 1 /\ Len(n.ops) = 1 /\ n.plan = <<>>
    BY <1>6, <1>7
  <2> DEFINE Plain == \E q \in Records : n.ops = <<[rec |-> q, checked |-> FALSE]>>
  <2>3. Plain
    BY <2>1
  <2> HIDE DEF Plain
  <2>4. /\ n.pc \in {"idle", "put", "cache", "done", "aborted"} /\ n.at = 1
        /\ (n.pc = "idle" \/ Plain) /\ n.plan = <<>>
    BY <2>2, <2>3
  <2>5. /\ n.at <= Len(n.ops) + 1
        /\ n.pc \in {"body", "drain", "preflight", "put", "cache"} => n.at <= Len(n.ops)
    BY <2>2
  <2> USE DEF Plain
  <2> QED BY <1>1, <2>2, <2>4, <2>5, Zenon DEF Fits
<1>9. Owns(p, n)
  BY <1>1, <1>4, <1>6, <1>7 DEF Owns
<1>10. Becomes(p, n)
  BY <1>2 DEF n
<1>11. job' \in [Actors -> Jobs] /\ \A b \in Actors : Local(b, job'[b])
  BY <1>1, <1>5, <1>8, <1>9, <1>10, MovesLocally DEF Local
<1> QED BY <1>11 DEF Put

LEMMA PutStoreLocal ==
  ASSUME LocalInv, NEW a \in Actors, PutStore(a)
  PROVE  LocalInv'
<1> DEFINE n == Goes(a, "cache")
<1>1. /\ job[a] \in Jobs /\ Fits(a, job[a]) /\ Owns(a, job[a]) /\ job[a].pc = "put"
      /\ job[a].env \in [Records -> Envelopes] /\ Op(a).rec \in Records
  BY LocalJob, CurrentOp DEF PutStore, Fits
<1>2. n \in Jobs
  BY <1>1 DEF Goes, Jobs, Places
<1>3. Fits(a, n)
  BY <1>1 DEF Goes, Jobs, Fits
<1>4. Owns(a, n)
  BY <1>1 DEF Goes, Jobs, Owns
<1>5. Becomes(a, n)
  BY DEF PutStore
<1>6. job' \in [Actors -> Jobs] /\ \A b \in Actors : Local(b, job'[b])
  BY <1>2, <1>3, <1>4, <1>5, MovesLocally DEF Local
<1>7. store' \in [Records -> Envelopes]
  BY <1>1 DEF LocalInv, PutStore
<1> QED BY <1>6, <1>7 DEF LocalInv, PutStore

LEMMA PutReturnsLocal ==
  ASSUME LocalInv, NEW a \in Actors, PutReturns(a)
  PROVE  LocalInv'
<1> DEFINE n == IF a \in Puts THEN Goes(a, "done")
                ELSE [job[a] EXCEPT !.pc = "exec", !.at = @ + 1]
<1>1. /\ job[a] \in Jobs /\ Fits(a, job[a]) /\ Owns(a, job[a]) /\ job[a].pc = "cache"
      /\ job[a].env \in [Records -> Envelopes] /\ Op(a).rec \in Records
      /\ job[a].at \in Nat \ {0} /\ job[a].ops \in Seq(OpRecords)
  BY LocalJob, CurrentOp DEF PutReturns, Fits
<1>2. n \in Jobs
  <2>1. CASE a \in Puts
    BY <1>1, <2>1 DEF Goes, Jobs, Places
  <2>2. CASE a \notin Puts
    <3>1. job[a].at + 1 \in Nat \ {0}
      BY <1>1
    <3> QED BY <1>1, <2>2, <3>1 DEF Jobs, Places
  <2> QED BY <2>1, <2>2
<1>3. Fits(a, n)
  <2>1. CASE a \in Puts
    <3>1. n.pc = "done" /\ n.ops = job[a].ops /\ n.at = job[a].at /\ n.plan = job[a].plan
      BY <1>1, <2>1 DEF Goes, Jobs
    <3> HIDE DEF n
    <3> QED BY <1>1, <2>1, <3>1, ActorsAssumption DEF Fits
  <2>2. CASE a \notin Puts
    <3>1. n.pc = "exec" /\ n.ops = job[a].ops /\ n.at = job[a].at + 1 /\ n.plan = job[a].plan
      BY <1>1, <2>2 DEF Jobs
    <3>2. a \in Txs
      BY <2>2 DEF Actors
    <3>3. Len(n.ops) \in Nat
      BY <1>1, <3>1
    <3> HIDE DEF n
    <3> QED BY <1>1, <2>2, <3>1, <3>2, <3>3 DEF Fits
  <2> QED BY <2>1, <2>2
<1>4. Owns(a, n)
  <2>1. n.pc \in {"done", "exec"} /\ n.plan = job[a].plan /\ n.env = job[a].env
    BY <1>1 DEF Goes, Jobs
  <2> HIDE DEF n
  <2> QED BY <1>1, <2>1 DEF Owns
<1>5. Becomes(a, n)
  BY DEF PutReturns
<1>6. job' \in [Actors -> Jobs] /\ \A b \in Actors : Local(b, job'[b])
  BY <1>2, <1>3, <1>4, <1>5, MovesLocally DEF Local
<1>7. cache' \in [Records -> Envelopes]
  BY <1>1 DEF LocalInv, PutReturns
<1> QED BY <1>6, <1>7 DEF LocalInv, PutReturns

LEMMA PutThrowsLocal ==
  ASSUME LocalInv, NEW a \in Actors, PutThrows(a)
  PROVE  LocalInv'
<1> DEFINE n == Goes(a, IF a \in Puts THEN "aborted" ELSE "revert")
<1>1. /\ job[a] \in Jobs /\ Fits(a, job[a]) /\ Owns(a, job[a]) /\ job[a].pc \in {"put", "cache"}
      /\ job[a].env \in [Records -> Envelopes] /\ Op(a).rec \in Records
      /\ job[a].at \in Nat \ {0} /\ job[a].ops \in Seq(OpRecords)
  BY LocalJob, CurrentOp DEF PutThrows, Fits
<1>2. n \in Jobs
  BY <1>1 DEF Goes, Jobs, Places
<1>a. /\ n.pc = (IF a \in Puts THEN "aborted" ELSE "revert") /\ n.ops = job[a].ops
      /\ n.at = job[a].at /\ n.plan = job[a].plan /\ n.env = job[a].env
  BY <1>1 DEF Goes, Jobs
<1>b. Becomes(a, n)
  BY DEF PutThrows
<1> HIDE DEF n
<1>3. Fits(a, n)
  BY <1>1, <1>a, ActorsAssumption DEF Fits, Actors
<1>4. Owns(a, n)
  BY <1>1, <1>a DEF Owns
<1>6. job' \in [Actors -> Jobs] /\ \A b \in Actors : Local(b, job'[b])
  BY <1>2, <1>3, <1>4, <1>b, MovesLocally DEF Local
<1>7. cache' \in [Records -> Envelopes]
  BY <1>1 DEF LocalInv, PutThrows
<1>8. faults' \in 0..MaxFaults
  BY MaxFaultsAssumption DEF LocalInv, PutThrows
<1> QED BY <1>6, <1>7, <1>8 DEF LocalInv, PutThrows

LEMMA BodyLocal ==
  ASSUME LocalInv, NEW t \in Txs, Body(t)
  PROVE  LocalInv'
<1>1. t \in Actors /\ t \notin Puts /\ cache \in [Records -> Envelopes] /\ job[t].pc = "idle"
  BY ActorsAssumption DEF Actors, LocalInv, Body
<1>2. PICK ops \in OpLists :
       job' = [a \in Actors |->
         IF a = t THEN [Idle EXCEPT !.pc = "body", !.ops = ops, !.seen = cache,
                                    !.alone = ~\E u \in Txs \ {t} : Active(u)]
         ELSE IF a \in Txs /\ Active(a) THEN [job[a] EXCEPT !.alone = FALSE]
         ELSE job[a]]
  BY DEF Body
<1>3. ops \in Seq(OpRecords) /\ Len(ops) >= 1
  <2>1. ops \in Seq(OpRecords) /\ ops # <<>>
    BY OpListsAssumption DEF OpRecords
  <2> QED BY <2>1
<1> DEFINE lone == ~\E u \in Txs \ {t} : Active(u)
           n == [Idle EXCEPT !.pc = "body", !.ops = ops, !.seen = cache, !.alone = lone]
<1>4. lone \in BOOLEAN
  OBVIOUS
<1> HIDE DEF lone
<1>5. Idle \in Jobs
  BY <1>1, IdleFits
<1>6. n \in Jobs /\ n.pc = "body" /\ n.ops = ops /\ n.at = 1 /\ n.plan = <<>>
  BY <1>1, <1>3, <1>4, <1>5 DEF Jobs, Idle, Places
<1>7. job'[t] = n
  BY <1>1, <1>2 DEF lone
<1> HIDE DEF n
<1>8. Local(t, n)
  BY <1>1, <1>3, <1>6 DEF Local, Fits, Owns
<1>9. ASSUME NEW b \in Actors, b # t PROVE job'[b] \in Jobs /\ Local(b, job'[b])
  <2>1. job[b] \in Jobs /\ Fits(b, job[b]) /\ Owns(b, job[b])
    BY LocalJob
  <2>2. \/ job'[b] = [job[b] EXCEPT !.alone = FALSE] /\ job[b].pc # "idle"
        \/ job'[b] = job[b]
    BY <1>2, <1>9 DEF Active
  <2>3. CASE job'[b] = [job[b] EXCEPT !.alone = FALSE] /\ job[b].pc # "idle"
    <3> DEFINE m == [job[b] EXCEPT !.alone = FALSE]
    <3>1. m \in Jobs /\ m.pc = job[b].pc /\ m.ops = job[b].ops /\ m.at = job[b].at
          /\ m.plan = job[b].plan /\ m.env = job[b].env
      BY <2>1 DEF Jobs
    <3>2. job'[b] = m
      BY <2>3
    <3> HIDE DEF m
    <3>3. Fits(b, m)
      BY <2>1, <2>3, <3>1 DEF Fits
    <3>4. Owns(b, m)
      BY <2>1, <3>1 DEF Owns
    <3> QED BY <3>1, <3>2, <3>3, <3>4 DEF Local
  <2>4. CASE job'[b] = job[b]
    BY <2>1, <2>4 DEF Local
  <2> QED BY <2>2, <2>3, <2>4
<1>10. job' \in [Actors -> Jobs]
  <2>1. \A b \in Actors : job'[b] \in Jobs
    BY <1>6, <1>7, <1>9
  <2>2. job' = [b \in Actors |-> job'[b]]
    BY <1>2
  <2> QED BY <2>1, <2>2
<1>11. \A b \in Actors : Local(b, job'[b])
  BY <1>7, <1>8, <1>9
<1> QED BY <1>10, <1>11 DEF LocalInv, Body

\* A step of commit t that only moves its job.
LEMMA OnlyMoves ==
  ASSUME LocalInv, NEW t \in Actors, NEW n \in Jobs, Fits(t, n), Owns(t, n), Becomes(t, n),
         UNCHANGED <<store, cache, txAtomic>>, faults' \in 0..MaxFaults
  PROVE  LocalInv'
<1>1. job' \in [Actors -> Jobs] /\ \A b \in Actors : Local(b, job'[b])
  BY MovesLocally DEF Local
<1> QED BY <1>1 DEF LocalInv

LEMMA DrainLocal ==
  ASSUME LocalInv, NEW t \in Txs, Drain(t)
  PROVE  LocalInv'
<1> DEFINE W == {<<a, job[a].at>> : a \in InFlight(Keys(t))}
           E == {p \in Puts : job[p].pc # "idle"}
           n == [job[t] EXCEPT !.pc = "drain", !.early = E, !.waits = W]
<1>1. /\ t \in Actors /\ job[t] \in Jobs /\ Fits(t, job[t]) /\ Owns(t, job[t])
      /\ job[t].pc = "body"
  BY LocalJob DEF Drain, Actors
<1>2. W \in SUBSET (Actors \X Nat)
  <2>1. \A a \in InFlight(Keys(t)) : a \in Actors /\ job[a].at \in Nat
    BY LocalJob DEF InFlight
  <2> QED BY <2>1
<1>3. Becomes(t, n)
  BY DEF Drain
<1>4. E \in SUBSET Puts
  OBVIOUS
<1> HIDE DEF W, E
<1>5. /\ n \in Jobs /\ n.pc = "drain" /\ n.ops = job[t].ops /\ n.at = job[t].at
      /\ n.plan = job[t].plan /\ n.env = job[t].env
  BY <1>1, <1>2, <1>4 DEF Jobs, Places
<1> HIDE DEF n
<1>6. Fits(t, n)
  BY <1>1, <1>5, ActorsAssumption DEF Fits
<1>7. Owns(t, n)
  BY <1>1, <1>5 DEF Owns
<1> QED BY <1>1, <1>3, <1>5, <1>6, <1>7, OnlyMoves DEF Drain, LocalInv

LEMMA DrainedLocal ==
  ASSUME LocalInv, NEW t \in Txs, Drained(t)
  PROVE  LocalInv'
<1> DEFINE n == [job[t] EXCEPT !.pc = "preflight", !.waits = {}]
<1>1. /\ t \in Actors /\ job[t] \in Jobs /\ Fits(t, job[t]) /\ Owns(t, job[t])
      /\ job[t].pc = "drain"
  BY LocalJob DEF Drained, Actors
<1>2. job[t].at <= Len(job[t].ops)
  BY <1>1, StagedOps DEF Fits
<1>3. Becomes(t, n)
  BY DEF Drained
<1>5. /\ n \in Jobs /\ n.pc = "preflight" /\ n.ops = job[t].ops /\ n.at = job[t].at
      /\ n.plan = job[t].plan /\ n.env = job[t].env
  BY <1>1 DEF Jobs, Places
<1> HIDE DEF n
<1>6. Fits(t, n)
  BY <1>1, <1>2, <1>5, ActorsAssumption DEF Fits
<1>7. Owns(t, n)
  BY <1>1, <1>5 DEF Owns
<1> QED BY <1>1, <1>3, <1>5, <1>6, <1>7, OnlyMoves DEF Drained, LocalInv

LEMMA PreflightLocal ==
  ASSUME LocalInv, NEW t \in Txs, Preflight(t)
  PROVE  LocalInv'
<1> DEFINE r == Op(t).rec
           e == IF r \in Touched(t) THEN job[t].prior[r] ELSE store[r]
           last == job[t].at = Len(job[t].ops)
           m == [job[t] EXCEPT !.prior[r] = e, !.at = IF last THEN 1 ELSE @ + 1,
                               !.pc = IF last THEN "exec" ELSE "preflight"]
           x == Goes(t, "aborted")
<1>1. /\ t \in Actors /\ t \notin Puts /\ job[t] \in Jobs /\ Fits(t, job[t]) /\ Owns(t, job[t])
      /\ job[t].pc = "preflight" /\ job[t].plan = <<>> /\ job[t].at \in Nat \ {0}
      /\ job[t].at <= Len(job[t].ops) /\ job[t].ops \in Seq(OpRecords)
      /\ job[t].prior \in [Records -> Envelopes] /\ store \in [Records -> Envelopes]
  BY LocalJob, ActorsAssumption DEF Preflight, Actors, Fits, LocalInv
<1>2. r \in Records /\ e \in Envelopes
  BY <1>1, CurrentOp
<1>3. job[t].ops \in OpLists
  BY <1>1, StagedOps
<1>4. Becomes(t, IF Conflicts(t, e) THEN x ELSE m)
  BY DEF Preflight
<1>5. CASE Conflicts(t, e)
  <2>1. /\ x \in Jobs /\ x.pc = "aborted" /\ x.ops = job[t].ops /\ x.at = job[t].at
        /\ x.plan = job[t].plan /\ x.env = job[t].env
    BY <1>1 DEF Goes, Jobs, Places
  <2>2. Becomes(t, x)
    BY <1>4, <1>5
  <2> HIDE DEF x
  <2>3. Fits(t, x)
    BY <1>1, <1>3, <2>1 DEF Fits
  <2>4. Owns(t, x)
    BY <1>1, <2>1 DEF Owns
  <2> QED BY <1>1, <2>1, <2>2, <2>3, <2>4, OnlyMoves DEF Preflight, LocalInv
<1>6. CASE ~Conflicts(t, e)
  <2> DEFINE w == [job[t].prior EXCEPT ![r] = e]
  <2>1. w \in [Records -> Envelopes]
    BY <1>1, <1>2
  <2>2. (IF last THEN 1 ELSE job[t].at + 1) \in Nat \ {0}
    BY <1>1
  <2>3. /\ m \in Jobs /\ m.pc = (IF last THEN "exec" ELSE "preflight") /\ m.ops = job[t].ops
        /\ m.at = (IF last THEN 1 ELSE job[t].at + 1) /\ m.plan = job[t].plan /\ m.env = job[t].env
    BY <1>1, <2>1, <2>2 DEF Jobs, Places
  <2>4. Becomes(t, m)
    BY <1>4, <1>6
  <2>5. Len(job[t].ops) \in Nat
    BY <1>1
  <2> HIDE DEF m
  <2>6. Fits(t, m)
    BY <1>1, <1>3, <2>3, <2>5 DEF Fits
  <2>7. Owns(t, m)
    BY <1>1, <2>3 DEF Owns
  <2> QED BY <1>1, <2>3, <2>4, <2>6, <2>7, OnlyMoves DEF Preflight, LocalInv
<1> QED BY <1>5, <1>6

LEMMA ExecuteLocal ==
  ASSUME LocalInv, NEW t \in Txs, Execute(t)
  PROVE  LocalInv'
<1> DEFINE r == Op(t).rec
           m == [job[t] EXCEPT !.pc = "put", !.plan = <<r>> \o @, !.env[r] = Minted(t, r)]
           x == Goes(t, Reverting(t, job[t].plan))
<1>1. /\ t \in Actors /\ t \notin Puts /\ job[t] \in Jobs /\ Fits(t, job[t]) /\ Owns(t, job[t])
      /\ job[t].pc = "exec" /\ job[t].plan \in Seq(Records) /\ job[t].at \in Nat \ {0}
      /\ job[t].at <= Len(job[t].ops) /\ job[t].ops \in Seq(OpRecords)
      /\ job[t].env \in [Records -> Envelopes]
  BY LocalJob, ActorsAssumption DEF Execute, Actors
<1>2. r \in Records /\ Minted(t, r) \in Envelopes /\ Minted(t, r).by = t
  BY <1>1, CurrentOp, MintedType
<1>3. job[t].ops \in OpLists
  BY <1>1, StagedOps
<1>4. Becomes(t, IF r \notin Touched(t) /\ Conflicts(t, store[r]) THEN x ELSE m)
  BY DEF Execute
<1>5. CASE r \notin Touched(t) /\ Conflicts(t, store[r])
  <2>1. /\ x \in Jobs /\ x.pc = (IF job[t].plan = <<>> THEN "aborted" ELSE "revert")
        /\ x.ops = job[t].ops /\ x.at = job[t].at /\ x.plan = job[t].plan /\ x.env = job[t].env
    BY <1>1 DEF Goes, Jobs, Places, Reverting
  <2>2. Becomes(t, x)
    BY <1>4, <1>5
  <2> HIDE DEF x
  <2>3. Fits(t, x)
    BY <1>1, <1>3, <2>1 DEF Fits
  <2>4. Owns(t, x)
    BY <1>1, <2>1 DEF Owns
  <2> QED BY <1>1, <2>1, <2>2, <2>3, <2>4, OnlyMoves DEF Execute, LocalInv
<1>6. CASE ~(r \notin Touched(t) /\ Conflicts(t, store[r]))
  <2> DEFINE q == <<r>> \o job[t].plan
             w == [job[t].env EXCEPT ![r] = Minted(t, r)]
  <2>1. w \in [Records -> Envelopes]
    BY <1>1, <1>2
  <2>2. q \in Seq(Records) /\ Len(q) = Len(job[t].plan) + 1 /\ q[1] = r
        /\ \A k \in 2..Len(q) : q[k] = job[t].plan[k - 1]
    BY <1>1, <1>2
  <2>3. /\ m \in Jobs /\ m.pc = "put" /\ m.ops = job[t].ops
        /\ m.at = job[t].at /\ m.plan = q /\ m.env = w
    <3> HIDE DEF q, w
    <3>1. m = [job[t] EXCEPT !.pc = "put", !.plan = q, !.env = w]
      BY <1>1 DEF Jobs, q, w
    <3> QED BY <1>1, <2>1, <2>2, <3>1 DEF Jobs, Places
  <2>4. Becomes(t, m)
    BY <1>4, <1>6
  <2>5. q # <<>> /\ DOMAIN q = 1..(Len(job[t].plan) + 1) /\ 1 \in DOMAIN q
        /\ DOMAIN job[t].plan = 1..Len(job[t].plan) /\ Len(job[t].plan) \in Nat
    BY <1>1, <2>2
  <2>6. w[r].by = t /\ \A s \in Records : s # r => w[s] = job[t].env[s]
    BY <1>1, <1>2
  <2>7. \A k \in DOMAIN q : w[q[k]].by = t
    <3> SUFFICES ASSUME NEW k \in DOMAIN q PROVE w[q[k]].by = t
      OBVIOUS
    <3>1. CASE k = 1
      BY <2>2, <2>6, <3>1
    <3>2. CASE k # 1
      <4>1. k \in 2..Len(q) /\ k - 1 \in DOMAIN job[t].plan
        BY <2>2, <2>5, <3>2
      <4>2. q[k] = job[t].plan[k - 1] /\ job[t].plan[k - 1] \in Records
        BY <1>1, <2>2, <4>1
      <4>3. job[t].env[job[t].plan[k - 1]].by = t
        BY <1>1, <4>1 DEF Owns
      <4> HIDE DEF w, q
      <4> QED BY <2>6, <4>2, <4>3
    <3> QED BY <3>1, <3>2
  <2> HIDE DEF m, q, w
  <2>8. Fits(t, m)
    BY <1>1, <1>3, <2>3, <2>5 DEF Fits
  <2>9. Owns(t, m)
    <3>1. m.ops[m.at].rec = r
      BY <2>3 DEF Op
    <3>2. \E k \in DOMAIN m.plan : m.plan[k] = r
      BY <2>2, <2>3, <2>5
    <3> HIDE DEF r
    <3> QED BY <2>3, <2>6, <2>7, <3>1, <3>2 DEF Owns
  <2> QED BY <1>1, <2>3, <2>4, <2>8, <2>9, OnlyMoves DEF Execute, LocalInv
<1> QED BY <1>5, <1>6

LEMMA PrepareLocal ==
  ASSUME LocalInv, NEW t \in Txs, Prepare(t)
  PROVE  LocalInv'
<1> DEFINE w == [r \in Records |-> IF r \in Keys(t) THEN Minted(t, r) ELSE job[t].env[r]]
           q == [i \in DOMAIN job[t].ops |-> job[t].ops[Len(job[t].ops) + 1 - i].rec]
           n == [job[t] EXCEPT !.pc = "batch", !.atomic = TRUE, !.env = w, !.plan = q]
<1>1. /\ t \in Actors /\ t \notin Puts /\ job[t] \in Jobs /\ Fits(t, job[t]) /\ Owns(t, job[t])
      /\ job[t].pc = "exec" /\ job[t].at = 1 /\ job[t].ops \in Seq(OpRecords)
      /\ job[t].env \in [Records -> Envelopes]
  BY LocalJob, ActorsAssumption DEF Prepare, Actors
<1>2. job[t].ops \in OpLists /\ Len(job[t].ops) >= 1
  BY <1>1, StagedOps
<1>3. w \in [Records -> Envelopes]
  BY <1>1, MintedType
<1>4. DOMAIN job[t].ops = 1..Len(job[t].ops) /\ Len(job[t].ops) \in Nat
  BY <1>1
<1>5. \A i \in DOMAIN job[t].ops : /\ Len(job[t].ops) + 1 - i \in DOMAIN job[t].ops
                                   /\ job[t].ops[Len(job[t].ops) + 1 - i].rec \in Records
  <2> SUFFICES ASSUME NEW i \in DOMAIN job[t].ops
               PROVE  /\ Len(job[t].ops) + 1 - i \in DOMAIN job[t].ops
                      /\ job[t].ops[Len(job[t].ops) + 1 - i].rec \in Records
    OBVIOUS
  <2>1. Len(job[t].ops) + 1 - i \in DOMAIN job[t].ops
    BY <1>4
  <2>2. job[t].ops[Len(job[t].ops) + 1 - i] \in OpRecords
    BY <1>1, <2>1
  <2> QED BY <2>1, <2>2 DEF OpRecords
<1>6. q \in Seq(Records) /\ DOMAIN q = DOMAIN job[t].ops /\ q # <<>>
  <2>1. q \in [1..Len(job[t].ops) -> Records]
    BY <1>4, <1>5
  <2>2. q \in Seq(Records) /\ Len(q) = Len(job[t].ops)
    BY <1>4, <2>1
  <2> QED BY <1>2, <1>4, <2>2
<1>7. \A i \in DOMAIN job[t].ops :
         /\ q[i] = job[t].ops[Len(job[t].ops) + 1 - i].rec
         /\ q[i] \in Keys(t) /\ q[Len(job[t].ops) + 1 - i] = job[t].ops[i].rec
  <2> SUFFICES ASSUME NEW i \in DOMAIN job[t].ops
               PROVE  /\ q[i] = job[t].ops[Len(job[t].ops) + 1 - i].rec
                      /\ q[i] \in Keys(t) /\ q[Len(job[t].ops) + 1 - i] = job[t].ops[i].rec
    OBVIOUS
  <2>1. Len(job[t].ops) + 1 - (Len(job[t].ops) + 1 - i) = i
    BY <1>4
  <2> QED BY <1>5, <2>1 DEF Keys
<1>8. \A r \in Keys(t) : r \in Records /\ w[r].by = t
  <2>0. \A i \in DOMAIN job[t].ops : job[t].ops[i].rec \in Records
    <3>1. \A i \in DOMAIN job[t].ops : job[t].ops[i] \in OpRecords
      BY <1>1
    <3> QED BY <3>1 DEF OpRecords
  <2>1. \A r \in Keys(t) : r \in Records
    BY <2>0 DEF Keys
  <2> QED BY <1>1, <2>1, MintedType
<1>9. Becomes(t, n)
  BY DEF Prepare
<1> HIDE DEF w, q
<1>10. /\ n \in Jobs /\ n.pc = "batch" /\ n.ops = job[t].ops /\ n.at = job[t].at
       /\ n.plan = q /\ n.env = w
  BY <1>1, <1>3, <1>6 DEF Jobs, Places
<1> HIDE DEF n
<1>11. Fits(t, n)
  BY <1>1, <1>2, <1>4, <1>6, <1>10 DEF Fits
<1>12. Owns(t, n)
  <2>1. \A k \in DOMAIN n.plan : n.env[n.plan[k]].by = t
    BY <1>6, <1>7, <1>8, <1>10
  <2>2. \A i \in DOMAIN n.ops : \E k \in DOMAIN n.plan : n.plan[k] = n.ops[i].rec
    BY <1>5, <1>6, <1>7, <1>10
  <2> QED BY <1>10, <2>1, <2>2 DEF Owns
<1> QED BY <1>1, <1>9, <1>10, <1>11, <1>12, OnlyMoves DEF Prepare, LocalInv

LEMMA BatchLocal ==
  ASSUME LocalInv, NEW t \in Txs, Batch(t)
  PROVE  LocalInv'
<1> DEFINE n == Goes(t, "finalize")
           x == [job[t] EXCEPT !.pc = "aborted", !.plan = <<>>]
<1>1. /\ t \in Actors /\ t \notin Puts /\ job[t] \in Jobs /\ Fits(t, job[t]) /\ Owns(t, job[t])
      /\ job[t].pc = "batch" /\ job[t].env \in [Records -> Envelopes]
      /\ store \in [Records -> Envelopes]
  BY LocalJob, ActorsAssumption DEF Batch, Actors, LocalInv
<1>2. job[t].ops \in OpLists
  BY <1>1, StagedOps
<1>3. CASE Becomes(t, n)
  <2>1. /\ n \in Jobs /\ n.pc = "finalize" /\ n.ops = job[t].ops /\ n.at = job[t].at
        /\ n.plan = job[t].plan /\ n.env = job[t].env
    BY <1>1 DEF Goes, Jobs, Places
  <2> HIDE DEF n
  <2>2. Fits(t, n)
    BY <1>1, <1>2, <2>1 DEF Fits
  <2>3. Owns(t, n)
    BY <1>1, <2>1 DEF Owns
  <2>4. job' \in [Actors -> Jobs] /\ \A b \in Actors : Local(b, job'[b])
    BY <1>1, <1>3, <2>1, <2>2, <2>3, MovesLocally DEF Local
  <2>5. store' \in [Records -> Envelopes]
    BY <1>1 DEF Batch
  <2> QED BY <2>4, <2>5 DEF LocalInv, Batch
<1>4. CASE Becomes(t, x) /\ UNCHANGED store
  <2>1. /\ x \in Jobs /\ x.pc = "aborted" /\ x.ops = job[t].ops /\ x.at = job[t].at
        /\ x.plan = <<>> /\ x.env = job[t].env
    <3>1. <<>> \in Seq(Records)
      OBVIOUS
    <3> QED BY <1>1, <3>1 DEF Jobs, Places
  <2> HIDE DEF x
  <2>2. Fits(t, x)
    BY <1>1, <1>2, <2>1 DEF Fits
  <2>3. Owns(t, x)
    BY <1>1, <2>1 DEF Owns
  <2> QED BY <1>1, <1>4, <2>1, <2>2, <2>3, OnlyMoves DEF Batch, LocalInv
<1> QED BY <1>3, <1>4 DEF Batch

LEMMA FinalizeLocal ==
  ASSUME LocalInv, NEW t \in Txs, Finalize(t)
  PROVE  LocalInv'
<1> DEFINE n == [job[t] EXCEPT !.at = @ + 1]
<1>1. /\ t \in Actors /\ t \notin Puts /\ job[t] \in Jobs /\ Fits(t, job[t]) /\ Owns(t, job[t])
      /\ job[t].pc = "finalize" /\ job[t].at <= Len(job[t].ops) /\ job[t].at \in Nat \ {0}
      /\ job[t].ops \in Seq(OpRecords) /\ job[t].env \in [Records -> Envelopes]
      /\ cache \in [Records -> Envelopes]
  BY LocalJob, ActorsAssumption DEF Finalize, Actors, LocalInv
<1>2. job[t].ops \in OpLists /\ Op(t).rec \in Records /\ Len(job[t].ops) \in Nat
  BY <1>1, StagedOps, CurrentOp
<1>3. Becomes(t, n)
  BY DEF Finalize
<1>4. /\ n \in Jobs /\ n.pc = "finalize" /\ n.ops = job[t].ops /\ n.at = job[t].at + 1
      /\ n.plan = job[t].plan /\ n.env = job[t].env
  <2>1. job[t].at + 1 \in Nat \ {0}
    BY <1>1
  <2> QED BY <1>1, <2>1 DEF Jobs
<1> HIDE DEF n
<1>5. Fits(t, n)
  BY <1>1, <1>2, <1>4 DEF Fits
<1>6. Owns(t, n)
  BY <1>1, <1>4 DEF Owns
<1>7. job' \in [Actors -> Jobs] /\ \A b \in Actors : Local(b, job'[b])
  BY <1>1, <1>3, <1>4, <1>5, <1>6, MovesLocally DEF Local
<1>8. cache' \in [Records -> Envelopes]
  BY <1>1, <1>2 DEF Finalize
<1> QED BY <1>7, <1>8 DEF LocalInv, Finalize

LEMMA CommitLocal ==
  ASSUME LocalInv, NEW t \in Txs, Commit(t)
  PROVE  LocalInv'
<1> DEFINE n == [job[t] EXCEPT !.pc = "done", !.plan = <<>>]
<1>1. /\ t \in Actors /\ t \notin Puts /\ job[t] \in Jobs /\ Fits(t, job[t]) /\ Owns(t, job[t])
      /\ job[t].pc \in {"exec", "finalize"}
  BY LocalJob, ActorsAssumption DEF Commit, Actors
<1>2. job[t].ops \in OpLists
  BY <1>1, StagedOps
<1>3. Becomes(t, n)
  BY DEF Commit
<1>4. /\ n \in Jobs /\ n.pc = "done" /\ n.ops = job[t].ops /\ n.at = job[t].at
      /\ n.plan = <<>> /\ n.env = job[t].env
  <2>1. <<>> \in Seq(Records)
    OBVIOUS
  <2> QED BY <1>1, <2>1 DEF Jobs, Places
<1> HIDE DEF n
<1>5. Fits(t, n)
  BY <1>1, <1>2, <1>4 DEF Fits
<1>6. Owns(t, n)
  BY <1>1, <1>4 DEF Owns
<1> QED BY <1>1, <1>3, <1>4, <1>5, <1>6, OnlyMoves DEF Commit, LocalInv

LEMMA RefusedLocal ==
  ASSUME LocalInv, NEW t \in Txs, Refused(t)
  PROVE  LocalInv'
<1> DEFINE n == Goes(t, "revert")
<1>1. /\ t \in Actors /\ t \notin Puts /\ job[t] \in Jobs /\ Fits(t, job[t]) /\ Owns(t, job[t])
      /\ job[t].pc \in {"finalize", "exec"} /\ job[t].at \in Nat \ {0}
      /\ job[t].pc = "finalize" \/ job[t].at > Len(job[t].ops)
  BY LocalJob, ActorsAssumption DEF Refused, Actors
<1>2. job[t].ops \in OpLists /\ Len(job[t].ops) >= 1 /\ Len(job[t].ops) \in Nat
  BY <1>1, StagedOps, LocalJob
<1>3. Becomes(t, n)
  BY DEF Refused
<1>4. /\ n \in Jobs /\ n.pc = "revert" /\ n.ops = job[t].ops /\ n.at = job[t].at
      /\ n.plan = job[t].plan /\ n.env = job[t].env
  BY <1>1 DEF Goes, Jobs, Places
<1> HIDE DEF n
<1>5. job[t].plan # <<>>
  BY <1>1, <1>2 DEF Fits
<1>6. Fits(t, n)
  BY <1>1, <1>2, <1>4, <1>5 DEF Fits
<1>7. Owns(t, n)
  BY <1>1, <1>4 DEF Owns
<1>8. faults' \in 0..MaxFaults
  BY MaxFaultsAssumption DEF LocalInv, Refused
<1> QED BY <1>1, <1>3, <1>4, <1>6, <1>7, <1>8, OnlyMoves DEF Refused

LEMMA RevertLocal ==
  ASSUME LocalInv, NEW t \in Txs, Revert(t)
  PROVE  LocalInv'
<1> DEFINE n == Goes(t, "uncache")
<1>1. /\ t \in Actors /\ t \notin Puts /\ job[t] \in Jobs /\ Fits(t, job[t]) /\ Owns(t, job[t])
      /\ job[t].pc = "revert" /\ job[t].prior \in [Records -> Envelopes]
      /\ store \in [Records -> Envelopes]
  BY LocalJob, ActorsAssumption DEF Revert, Actors, LocalInv
<1>2. job[t].ops \in OpLists
  BY <1>1, StagedOps
<1>3. Becomes(t, n)
  BY DEF Revert
<1>4. /\ n \in Jobs /\ n.pc = "uncache" /\ n.ops = job[t].ops /\ n.at = job[t].at
      /\ n.plan = job[t].plan /\ n.env = job[t].env
  BY <1>1 DEF Goes, Jobs, Places
<1> HIDE DEF n
<1>5. Fits(t, n)
  BY <1>1, <1>2, <1>4 DEF Fits
<1>6. Owns(t, n)
  BY <1>1, <1>4 DEF Owns
<1>7. job' \in [Actors -> Jobs] /\ \A b \in Actors : Local(b, job'[b])
  BY <1>1, <1>3, <1>4, <1>5, <1>6, MovesLocally DEF Local
<1>8. store' \in [Records -> Envelopes]
  BY <1>1 DEF Revert
<1> QED BY <1>7, <1>8 DEF LocalInv, Revert

\* The rest of a revert plan.
LEMMA Rest ==
  ASSUME NEW plan \in Seq(Records), plan # <<>>
  PROVE  /\ Tail(plan) \in Seq(Records) /\ plan[1] \in Records /\ 1 \in DOMAIN plan
         /\ Len(plan) = 1 <=> Tail(plan) = <<>>
         /\ \A k \in DOMAIN Tail(plan) : k + 1 \in DOMAIN plan /\ Tail(plan)[k] = plan[k + 1]
         /\ \A k \in DOMAIN plan : k # 1 => k - 1 \in DOMAIN Tail(plan) /\ Tail(plan)[k - 1] = plan[k]
<1>1. Len(plan) \in Nat \ {0} /\ DOMAIN plan = 1..Len(plan) /\ plan[1] \in Records
  OBVIOUS
<1>2. /\ Tail(plan) \in Seq(Records) /\ Len(Tail(plan)) = Len(plan) - 1
      /\ DOMAIN Tail(plan) = 1..(Len(plan) - 1)
      /\ \A k \in 1..(Len(plan) - 1) : Tail(plan)[k] = plan[k + 1]
  BY <1>1
<1>3. Len(plan) = 1 <=> Tail(plan) = <<>>
  <2>1. \A s \in Seq(Records) : Len(s) = 0 => s = <<>>
    OBVIOUS
  <2>2. Len(plan) = 1 <=> Len(Tail(plan)) = 0
    BY <1>1, <1>2
  <2>3. Len(<<>>) = 0
    OBVIOUS
  <2> QED BY <1>2, <2>1, <2>2, <2>3
<1>4. \A k \in DOMAIN Tail(plan) : k + 1 \in DOMAIN plan /\ Tail(plan)[k] = plan[k + 1]
  BY <1>1, <1>2
<1>5. \A k \in DOMAIN plan : k # 1 => k - 1 \in DOMAIN Tail(plan) /\ Tail(plan)[k - 1] = plan[k]
  <2> SUFFICES ASSUME NEW k \in DOMAIN plan, k # 1
               PROVE  k - 1 \in DOMAIN Tail(plan) /\ Tail(plan)[k - 1] = plan[k]
    OBVIOUS
  <2>1. k - 1 \in 1..(Len(plan) - 1) /\ (k - 1) + 1 = k
    BY <1>1
  <2> QED BY <1>2, <2>1
<1> QED BY <1>1, <1>2, <1>3, <1>4, <1>5

LEMMA UncacheLocal ==
  ASSUME LocalInv, NEW t \in Txs, Uncache(t)
  PROVE  LocalInv'
<1> DEFINE pc == IF Len(job[t].plan) = 1 THEN "aborted" ELSE IF txAtomic THEN "uncache" ELSE "revert"
           n == [job[t] EXCEPT !.plan = Tail(@), !.pc = pc]
<1>1. /\ t \in Actors /\ t \notin Puts /\ job[t] \in Jobs /\ Fits(t, job[t]) /\ Owns(t, job[t])
      /\ job[t].pc = "uncache" /\ job[t].plan \in Seq(Records) /\ job[t].plan # <<>>
      /\ store \in [Records -> Envelopes] /\ cache \in [Records -> Envelopes]
  BY LocalJob, ActorsAssumption DEF Uncache, Actors, LocalInv, Fits
<1>2. job[t].ops \in OpLists
  BY <1>1, StagedOps
<1>3. Becomes(t, n)
  BY DEF Uncache
<1>4. /\ n \in Jobs /\ n.pc = pc /\ n.ops = job[t].ops /\ n.at = job[t].at
      /\ n.plan = Tail(job[t].plan) /\ n.env = job[t].env
  BY <1>1, Rest DEF Jobs, Places
<1> HIDE DEF n
<1>5. Fits(t, n)
  BY <1>1, <1>2, <1>4, Rest DEF Fits
<1>6. Owns(t, n)
  <2>1. \A k \in DOMAIN n.plan : n.env[n.plan[k]].by = t
    <3> SUFFICES ASSUME NEW k \in DOMAIN n.plan PROVE n.env[n.plan[k]].by = t
      OBVIOUS
    <3>1. k + 1 \in DOMAIN job[t].plan /\ n.plan[k] = job[t].plan[k + 1]
      BY <1>1, <1>4, Rest
    <3> QED BY <1>1, <1>4, <3>1 DEF Owns
  <2> QED BY <1>4, <2>1 DEF Owns
<1>7. job' \in [Actors -> Jobs] /\ \A b \in Actors : Local(b, job'[b])
  BY <1>1, <1>3, <1>4, <1>5, <1>6, MovesLocally DEF Local
<1>8. cache' \in [Records -> Envelopes]
  BY <1>1, Rest DEF Uncache
<1> QED BY <1>7, <1>8 DEF LocalInv, Uncache

LEMMA NextLocal == LocalInv /\ [Next]_vars => LocalInv'
<1> SUFFICES ASSUME LocalInv, [Next]_vars PROVE LocalInv'
  OBVIOUS
<1>1. ASSUME NEW a \in Actors, PutStep(a) PROVE LocalInv'
  BY <1>1, PutStoreLocal, PutReturnsLocal, PutThrowsLocal DEF PutStep
<1>2. ASSUME NEW t \in Txs, TxStep(t) PROVE LocalInv'
  BY <1>2, DrainLocal, DrainedLocal, PreflightLocal, ExecuteLocal, PrepareLocal, BatchLocal,
     FinalizeLocal, CommitLocal, RefusedLocal, RevertLocal, UncacheLocal DEF TxStep
<1>3. CASE UNCHANGED vars
  BY <1>3 DEF vars, LocalInv
<1>4. Puts \subseteq Actors /\ Txs \subseteq Actors
  BY DEF Actors
<1> QED BY <1>1, <1>2, <1>3, <1>4, PutLocal, BodyLocal DEF Next

LEMMA AlwaysLocal == Spec => []LocalInv
BY InitLocal, NextLocal, PTL DEF Spec

-----------------------------------------------------------------------------
(* Types. *)

LEMMA LocalTypes == LocalInv => TypeOK
<1> SUFFICES ASSUME LocalInv PROVE TypeOK
  OBVIOUS
<1>1. ASSUME NEW a \in Actors
      PROVE  /\ job[a].pc \in Places
             /\ job[a].ops \in OpLists \cup {<<>>} \cup
                                 {<<[rec |-> r, checked |-> FALSE]>> : r \in Records}
             /\ job[a].at \in 1..(Len(job[a].ops) + 1)
             /\ {job[a].seen, job[a].prior, job[a].env} \subseteq [Records -> Envelopes]
             /\ job[a].plan \in Seq(Records)
             /\ job[a].pc \in {"uncache", "revert"} => job[a].plan # <<>>
             /\ Active(a) \/ job[a].plan = <<>>
  <2>1. Fits(a, job[a]) /\ job[a].pc \in Places /\ job[a].ops \in Seq(OpRecords)
        /\ job[a].at \in Nat \ {0} /\ job[a].plan \in Seq(Records)
        /\ {job[a].seen, job[a].prior, job[a].env} \subseteq [Records -> Envelopes]
    BY LocalJob
  <2>2. job[a].ops \in OpLists \cup {<<>>} \cup
                         {<<[rec |-> r, checked |-> FALSE]>> : r \in Records}
    <3>1. CASE job[a].pc = "idle"
      BY <2>1, <3>1 DEF Fits
    <3>2. CASE a \in Txs /\ job[a].pc # "idle"
      BY <2>1, <3>2 DEF Fits
    <3>3. CASE a \in Puts /\ job[a].pc # "idle"
      BY <2>1, <3>3, Zenon DEF Fits
    <3> QED BY <3>1, <3>2, <3>3 DEF Actors
  <2>3. job[a].at \in 1..(Len(job[a].ops) + 1)
    <3>1. Len(job[a].ops) \in Nat /\ job[a].at <= Len(job[a].ops) + 1
      BY <2>1 DEF Fits
    <3> QED BY <2>1, <3>1
  <2>4. /\ job[a].pc \in {"uncache", "revert"} => job[a].plan # <<>>
        /\ Active(a) \/ job[a].plan = <<>>
    BY <2>1 DEF Fits, Active
  <2> QED BY <2>1, <2>2, <2>3, <2>4
<1>2. /\ {store, cache} \subseteq [Records -> Envelopes] /\ txAtomic \in BOOLEAN
      /\ faults \in 0..MaxFaults
  BY DEF LocalInv
<1> QED BY <1>1, <1>2 DEF TypeOK

\* Every commit and every put stands at a place of the code, and the revert plan is
\* empty exactly where runTransaction has nothing to undo.
THEOREM CommitTypes == Spec => []TypeOK
BY AlwaysLocal, LocalTypes, PTL

-----------------------------------------------------------------------------
(* A revert stays inside what the commit wrote. *)

\* The place of a job changes only by a step of that job.
LEMMA OtherPlace ==
  ASSUME LocalInv, NEW a \in Actors, NEW t \in Actors, a # t, PutStep(a) \/ (a \in Txs /\ TxStep(a))
  PROVE  job'[t] = job[t]
<1>1. job \in [Actors -> Jobs]
  BY DEF LocalInv
<1>2. \A next : Becomes(a, next) => job'[t] = job[t]
  BY <1>1 DEF Becomes
<1>3. CASE PutStep(a)
  BY <1>2, <1>3 DEF PutStep, PutStore, PutReturns, PutThrows
<1>4. CASE a \in Txs /\ TxStep(a)
  <2>1. CASE Batch(a)
    BY <1>2, <2>1 DEF Batch
  <2>2. CASE Preflight(a)
    BY <1>2, <2>2 DEF Preflight
  <2>3. CASE Execute(a)
    BY <1>2, <2>3 DEF Execute
  <2>4. CASE Drain(a) \/ Drained(a) \/ Prepare(a) \/ Finalize(a) \/ Commit(a) \/ Refused(a)
             \/ Revert(a) \/ Uncache(a)
    BY <1>2, <2>4 DEF Drain, Drained, Prepare, Finalize, Commit, Refused, Revert, Uncache
  <2> QED BY <1>4, <2>1, <2>2, <2>3, <2>4 DEF TxStep
<1> QED BY <1>3, <1>4

\* The fields of its job that a commit's step leaves alone.
LEMMA StepKeeps ==
  ASSUME LocalInv, NEW t \in Txs, PutStep(t) \/ TxStep(t)
  PROVE  /\ job[t].pc # "done" /\ job'[t].alone = job[t].alone /\ job'[t].ops = job[t].ops
         /\ job'[t].seen = job[t].seen
         /\ Drain(t) \/ job'[t].early = job[t].early
         /\ Drain(t) \/ Drained(t) \/ job'[t].waits = job[t].waits
         /\ Execute(t) \/ job'[t].pc # "put"
<1>1. t \in Actors /\ t \notin Puts /\ job \in [Actors -> Jobs] /\ job[t] \in Jobs
  BY LocalJob, ActorsAssumption DEF Actors, LocalInv
<1>2. \A n : Becomes(t, n) => job'[t] = n
  BY <1>1 DEF Becomes
<1>3. CASE PutStep(t)
  <2>1. job[t].pc \in {"put", "cache"}
    BY <1>3 DEF PutStep, PutStore, PutReturns, PutThrows
  <2>2. \/ \E pc \in {"cache", "revert"} : job'[t] = Goes(t, pc)
        \/ job'[t] = [job[t] EXCEPT !.pc = "exec", !.at = @ + 1]
    BY <1>1, <1>2, <1>3 DEF PutStep, PutStore, PutReturns, PutThrows
  <2> QED BY <1>1, <2>1, <2>2 DEF Goes, Jobs
<1>4. CASE Drain(t)
  <2> DEFINE W == {<<a, job[a].at>> : a \in InFlight(Keys(t))}
             E == {p \in Puts : job[p].pc # "idle"}
  <2>1. job'[t] = [job[t] EXCEPT !.pc = "drain", !.early = E, !.waits = W] /\ job[t].pc = "body"
    BY <1>2, <1>4 DEF Drain
  <2> HIDE DEF W, E
  <2> QED BY <1>1, <1>4, <2>1 DEF Jobs
<1>5. CASE Drained(t)
  <2>1. job'[t] = [job[t] EXCEPT !.pc = "preflight", !.waits = {}] /\ job[t].pc = "drain"
    BY <1>2, <1>5 DEF Drained
  <2> QED BY <1>1, <1>5, <2>1 DEF Jobs
<1>6. CASE Preflight(t)
  <2> DEFINE q == Op(t).rec
             e == IF q \in Touched(t) THEN job[t].prior[q] ELSE store[q]
             last == job[t].at = Len(job[t].ops)
             at == IF last THEN 1 ELSE job[t].at + 1
             pc == IF last THEN "exec" ELSE "preflight"
  <2>1. /\ job[t].pc = "preflight"
        /\ \/ job'[t] = Goes(t, "aborted")
           \/ job'[t] = [job[t] EXCEPT !.prior[q] = e, !.at = at, !.pc = pc]
    BY <1>2, <1>6 DEF Preflight
  <2>2. pc # "put"
    OBVIOUS
  <2> HIDE DEF q, e, at, pc
  <2> QED BY <1>1, <2>1, <2>2 DEF Goes, Jobs
<1>7. CASE Execute(t)
  <2> DEFINE r == Op(t).rec
  <2>1. /\ job[t].pc = "exec"
        /\ \/ job'[t] = Goes(t, Reverting(t, job[t].plan))
           \/ job'[t] = [job[t] EXCEPT !.pc = "put", !.plan = <<r>> \o @, !.env[r] = Minted(t, r)]
    BY <1>2, <1>7 DEF Execute
  <2> HIDE DEF r
  <2> QED BY <1>1, <1>7, <2>1 DEF Goes, Jobs
<1>8. CASE Prepare(t)
  <2> DEFINE w == [r \in Records |-> IF r \in Keys(t) THEN Minted(t, r) ELSE job[t].env[r]]
             q == [i \in DOMAIN job[t].ops |-> job[t].ops[Len(job[t].ops) + 1 - i].rec]
  <2>1. /\ job[t].pc = "exec"
        /\ job'[t] = [job[t] EXCEPT !.pc = "batch", !.atomic = TRUE, !.env = w, !.plan = q]
    BY <1>2, <1>8 DEF Prepare
  <2> HIDE DEF w, q
  <2> QED BY <1>1, <2>1 DEF Jobs
<1>9. CASE Batch(t)
  <2>1. /\ job[t].pc = "batch"
        /\ \/ job'[t] = Goes(t, "finalize")
           \/ job'[t] = [job[t] EXCEPT !.pc = "aborted", !.plan = <<>>]
    BY <1>2, <1>9 DEF Batch
  <2> QED BY <1>1, <2>1 DEF Goes, Jobs
<1>10. CASE Finalize(t)
  <2>1. job'[t] = [job[t] EXCEPT !.at = @ + 1] /\ job[t].pc = "finalize"
    BY <1>2, <1>10 DEF Finalize
  <2> QED BY <1>1, <2>1 DEF Jobs
<1>11. CASE Commit(t) \/ Refused(t) \/ Revert(t) \/ Uncache(t)
  <2> DEFINE pc == IF Len(job[t].plan) = 1 THEN "aborted"
                   ELSE IF txAtomic THEN "uncache" ELSE "revert"
  <2>1. \/ job'[t] = [job[t] EXCEPT !.pc = "done", !.plan = <<>>]
        \/ \E x \in {"revert", "uncache"} : job'[t] = Goes(t, x)
        \/ job'[t] = [job[t] EXCEPT !.plan = Tail(@), !.pc = pc]
    BY <1>2, <1>11 DEF Commit, Refused, Revert, Uncache
  <2>2. pc # "put" /\ job[t].pc # "done"
    BY <1>11 DEF Commit, Refused, Revert, Uncache
  <2> HIDE DEF pc
  <2> QED BY <1>1, <2>1, <2>2 DEF Goes, Jobs
<1> QED BY <1>3, <1>4, <1>5, <1>6, <1>7, <1>8, <1>9, <1>10, <1>11 DEF TxStep

LEMMA RevertStep ==
  ASSUME LocalInv, NEW t \in Txs, Revert(t), NEW r \in Records, store'[r] # store[r]
  PROVE  job[t].env[r].by = t
<1>1. t \in Actors /\ store \in [Records -> Envelopes]
  BY DEF Actors, LocalInv
<1>2. Owns(t, job[t]) /\ job[t].plan \in Seq(Records) /\ job[t].plan # <<>>
  BY <1>1, LocalJob DEF Revert, Fits
<1>3. \E k \in DOMAIN job[t].plan : r = job[t].plan[k]
  BY <1>1, <1>2, Rest DEF Revert
<1> QED BY <1>2, <1>3 DEF Owns

\* Only t's own step takes it from one place to another.
LEMMA LeavesItself ==
  ASSUME LocalInv, [Next]_vars, NEW t \in Txs, job[t].pc # "idle", job'[t].pc # job[t].pc
  PROVE  PutStep(t) \/ TxStep(t)
<1>1. t \in Actors /\ t \notin Puts /\ job \in [Actors -> Jobs]
  BY ActorsAssumption DEF Actors, LocalInv
<1>2. CASE UNCHANGED vars
  BY <1>2 DEF vars
<1>3. ASSUME NEW p \in Puts, Put(p) PROVE FALSE
  BY <1>1, <1>3 DEF Put, Becomes
<1>4. ASSUME NEW u \in Txs, Body(u) PROVE FALSE
  <2>1. PICK ops \in OpLists :
          job' = [a \in Actors |->
            IF a = u THEN [Idle EXCEPT !.pc = "body", !.ops = ops, !.seen = cache,
                                       !.alone = ~\E v \in Txs \ {u} : Active(v)]
            ELSE IF a \in Txs /\ Active(a) THEN [job[a] EXCEPT !.alone = FALSE]
            ELSE job[a]]
    BY <1>4 DEF Body
  <2>2. u # t
    BY <1>4 DEF Body
  <2>3. job'[t] = [job[t] EXCEPT !.alone = FALSE] \/ job'[t] = job[t]
    BY <1>1, <2>1, <2>2
  <2> QED BY <1>1, <2>3 DEF Jobs
<1>5. ASSUME NEW a \in Actors, a # t, PutStep(a) \/ (a \in Txs /\ TxStep(a)) PROVE FALSE
  BY <1>1, <1>5, OtherPlace
<1>6. Puts \subseteq Actors /\ Txs \subseteq Actors
  BY DEF Actors
<1> QED BY <1>2, <1>3, <1>4, <1>5, <1>6 DEF Next

LEMMA LeavesRevert ==
  ASSUME LocalInv, [Next]_vars, NEW t \in Txs, job[t].pc = "revert", job'[t].pc = "uncache"
  PROVE  Revert(t)
<1>1. PutStep(t) \/ TxStep(t)
  BY LeavesItself
<1> QED BY <1>1 DEF PutStep, PutStore, PutReturns, PutThrows, TxStep, Drain, Drained, Preflight,
                    Execute, Prepare, Batch, Finalize, Commit, Refused, Uncache

\* The revert writes only records for which the commit had minted an envelope: the
\* record whose check refused the commit is left to its writer.
THEOREM RevertsOwnRecords == Spec => RevertStaysInside
<1> DEFINE A == \A t \in Txs, r \in Records :
       job[t].pc = "revert" /\ job'[t].pc = "uncache" /\ store'[r] # store[r]
         => job[t].env[r].by = t
<1>1. LocalInv /\ [Next]_vars => A
  <2> SUFFICES ASSUME LocalInv, [Next]_vars, NEW t \in Txs, NEW r \in Records,
                      job[t].pc = "revert", job'[t].pc = "uncache", store'[r] # store[r]
               PROVE  job[t].env[r].by = t
    OBVIOUS
  <2> QED BY LeavesRevert, RevertStep
<1>2. Spec => [][A]_vars
  BY <1>1, AlwaysLocal, PTL DEF Spec
<1> QED BY <1>2 DEF RevertStaysInside

-----------------------------------------------------------------------------
(* An aborted commit leaves nothing. *)

PlanSet(t) == {job[t].plan[k] : k \in DOMAIN job[t].plan}
Untouched(t, r) == store[r].by # t /\ cache[r].by # t

\* Where the envelopes of commit t can be while no other commit runs: on the records
\* of its revert plan, and not there either before the batch is written or once a
\* revert has put the snapshot back.  Nobody else can bring them back: no snapshot
\* holds one.
Clean(t) ==
  /\ \A r \in Records : r \in PlanSet(t) \/ Untouched(t, r)
  /\ job[t].pc = "batch" => \A r \in Records : Untouched(t, r)
  /\ job[t].pc = "uncache" => /\ store[job[t].plan[1]].by # t
                              /\ txAtomic => \A r \in Records : store[r].by # t
  /\ \A u \in Txs, r \in Records : job[u].prior[r].by # t
  /\ Active(t) => \A u \in Txs \ {t} : ~Active(u)

Undisturbed(t) == job[t].alone /\ job[t].pc # "done"
CleanInv == \A t \in Txs : Undisturbed(t) => Clean(t)

LEMMA InitClean == Init => CleanInv
<1> SUFFICES ASSUME Init, NEW t \in Txs PROVE Clean(t)
  BY DEF CleanInv
<1>1. \A a \in Actors : job[a] = Idle
  BY DEF Init
<1>2. t \in Actors /\ Txs \subseteq Actors /\ t # Before
  BY ActorsAssumption DEF Actors
<1>3. \A r \in Records : Initially[r].by # t
  BY <1>2 DEF Initially
<1>4. \A r \in Records : Untouched(t, r)
  BY <1>3 DEF Init, Untouched
<1>5. \A u \in Txs : job[u].prior = Initially /\ job[u].pc = "idle"
  BY <1>1, <1>2 DEF Idle
<1> QED BY <1>3, <1>4, <1>5 DEF Clean, Active

\* What a step of another job does to the envelopes of commit t.
LEMMA OthersWrite ==
  ASSUME LocalInv, NEW t \in Txs, Clean(t), NEW a \in Actors, a # t,
         PutStep(a) \/ (a \in Txs /\ TxStep(a)), NEW r \in Records
  PROVE  /\ store'[r] = store[r] \/ store'[r].by # t
         /\ cache'[r] = cache[r] \/ cache'[r].by # t
<1>1. /\ store \in [Records -> Envelopes] /\ cache \in [Records -> Envelopes]
      /\ Fits(a, job[a]) /\ Owns(a, job[a]) /\ t \in Actors
  BY LocalJob DEF LocalInv, Actors
<1>2. CASE PutStep(a)
  <2>1. job[a].pc \in {"put", "cache"} /\ job[a].env[Op(a).rec].by = a
    BY <1>1, <1>2 DEF PutStep, PutStore, PutReturns, PutThrows, Owns, Op
  <2> QED BY <1>1, <1>2, <2>1 DEF PutStep, PutStore, PutReturns, PutThrows
<1>3. CASE a \in Txs /\ TxStep(a)
  <2>1. CASE Batch(a)
    <3>1. ASSUME r \in Keys(a) PROVE job[a].env[r].by = a
      <4>1. PICK i \in DOMAIN job[a].ops : r = job[a].ops[i].rec
        BY <3>1 DEF Keys
      <4>2. PICK k \in DOMAIN job[a].plan : job[a].plan[k] = r
        BY <1>1, <2>1, <4>1 DEF Owns, Batch
      <4> QED BY <1>1, <4>2 DEF Owns
    <3> QED BY <1>1, <2>1, <3>1 DEF Batch
  <2>2. CASE Finalize(a)
    <3>1. job[a].at \in DOMAIN job[a].ops
      BY <2>2, CurrentOp DEF Finalize
    <3>2. PICK k \in DOMAIN job[a].plan : job[a].plan[k] = Op(a).rec
      BY <1>1, <2>2, <3>1 DEF Owns, Finalize, Op
    <3>3. job[a].env[Op(a).rec].by = a
      BY <1>1, <3>2 DEF Owns
    <3> QED BY <1>1, <2>2, <3>3 DEF Finalize
  <2>3. CASE Revert(a)
    <3>1. job[a].prior[r].by # t
      BY <1>3 DEF Clean
    <3> QED BY <1>1, <2>3, <3>1 DEF Revert
  <2>4. CASE Uncache(a)
    <3>1. ~Active(t)
      BY <1>3, <2>4 DEF Clean, Active, Uncache
    <3>2. job[t].plan = <<>>
      BY <1>1, <3>1, LocalJob DEF Active, Fits
    <3>3. store[r].by # t
      BY <3>2 DEF Clean, PlanSet, Untouched
    <3> QED BY <1>1, <2>4, <3>3 DEF Uncache
  <2>5. CASE Drain(a) \/ Drained(a) \/ Preflight(a) \/ Execute(a) \/ Prepare(a) \/ Commit(a)
             \/ Refused(a)
    BY <2>5 DEF Drain, Drained, Preflight, Execute, Prepare, Commit, Refused
  <2> QED BY <1>3, <2>1, <2>2, <2>3, <2>4, <2>5 DEF TxStep
<1> QED BY <1>2, <1>3

\* A commit at work is the only one while t is alone, and what it snapshots is not t's.
LEMMA OthersSnapshot ==
  ASSUME LocalInv, NEW t \in Txs, Clean(t), NEW a \in Txs, a # t,
         PutStep(a) \/ TxStep(a)
  PROVE  ~Active(t) /\ \A r \in Records : job'[a].prior[r].by # t
<1>1. /\ job \in [Actors -> Jobs] /\ job[a] \in Jobs /\ a \in Actors /\ t \in Actors
      /\ job[a].prior \in [Records -> Envelopes] /\ store \in [Records -> Envelopes]
  BY LocalJob DEF LocalInv, Actors
<1>2. Active(a)
  BY DEF PutStep, PutStore, PutReturns, PutThrows, TxStep, Drain, Drained, Preflight, Execute,
         Prepare, Batch, Finalize, Commit, Refused, Revert, Uncache, Active
<1>3. ~Active(t)
  BY <1>2 DEF Clean
<1>4. job[t].plan = <<>>
  BY <1>1, <1>3, LocalJob DEF Active, Fits
<1>5. \A r \in Records : store[r].by # t /\ job[a].prior[r].by # t
  BY <1>4 DEF Clean, PlanSet, Untouched
<1>6. ASSUME NEW r \in Records
      PROVE  job'[a].prior[r] = job[a].prior[r] \/ job'[a].prior[r] = store[r]
  <2>1. \A n : Becomes(a, n) => job'[a] = n
    BY <1>1 DEF Becomes
  <2>2. CASE Preflight(a)
    <3> DEFINE q == Op(a).rec
               e == IF q \in Touched(a) THEN job[a].prior[q] ELSE store[q]
               last == job[a].at = Len(job[a].ops)
               m == [job[a] EXCEPT !.prior[q] = e, !.at = IF last THEN 1 ELSE @ + 1,
                                   !.pc = IF last THEN "exec" ELSE "preflight"]
    <3>1. job'[a] = Goes(a, "aborted") \/ job'[a] = m
      BY <2>1, <2>2 DEF Preflight
    <3>2. CASE job'[a] = Goes(a, "aborted")
      BY <1>1, <3>2 DEF Goes, Jobs
    <3>3. CASE job'[a] = m
      <4>1. job'[a].prior = [job[a].prior EXCEPT ![q] = e]
        BY <1>1, <3>3 DEF Jobs
      <4> QED BY <1>1, <4>1
    <3> QED BY <3>1, <3>2, <3>3
  <2>3. CASE Execute(a)
    <3> DEFINE q == Op(a).rec
    <3>1. \/ job'[a] = Goes(a, Reverting(a, job[a].plan))
          \/ job'[a] = [job[a] EXCEPT !.pc = "put", !.plan = <<q>> \o @, !.env[q] = Minted(a, q)]
      BY <2>1, <2>3 DEF Execute
    <3> QED BY <1>1, <3>1 DEF Goes, Jobs
  <2>4. CASE PutStep(a)
    BY <1>1, <2>1, <2>4 DEF PutStep, PutStore, PutReturns, PutThrows, Goes, Jobs
  <2>5. CASE Batch(a)
    BY <1>1, <2>1, <2>5 DEF Batch, Goes, Jobs
  <2>6. CASE Drain(a)
    BY <1>1, <2>1, <2>6 DEF Drain, Jobs
  <2>7. CASE Prepare(a)
    BY <1>1, <2>1, <2>7 DEF Prepare, Jobs
  <2>8. CASE Drained(a) \/ Finalize(a) \/ Commit(a) \/ Refused(a) \/ Revert(a) \/ Uncache(a)
    BY <1>1, <2>1, <2>8 DEF Drained, Finalize, Commit, Refused, Revert, Uncache, Goes, Jobs
  <2> QED BY <2>2, <2>3, <2>4, <2>5, <2>6, <2>7, <2>8 DEF TxStep
<1> QED BY <1>3, <1>5, <1>6

LEMMA OthersKeepClean ==
  ASSUME LocalInv, NEW t \in Txs, Clean(t), NEW a \in Actors, a # t,
         PutStep(a) \/ (a \in Txs /\ TxStep(a))
  PROVE  Clean(t)'
<1>1. /\ job'[t] = job[t] /\ t \in Actors /\ a \in Txs \cup Puts
      /\ \A u \in Actors : u # a => job'[u] = job[u]
  BY OtherPlace DEF Actors
<1>2. txAtomic' = txAtomic
  BY DEF PutStep, PutStore, PutReturns, PutThrows, TxStep, Drain, Drained, Preflight, Execute,
         Prepare, Batch, Finalize, Commit, Refused, Revert, Uncache
<1>3. \A r \in Records : /\ store'[r] = store[r] \/ store'[r].by # t
                         /\ cache'[r] = cache[r] \/ cache'[r].by # t
  BY OthersWrite
<1>4. PlanSet(t)' = PlanSet(t)
  BY <1>1 DEF PlanSet
<1>5. \A r \in Records : r \in PlanSet(t)' \/ Untouched(t, r)'
  BY <1>3, <1>4 DEF Clean, Untouched
<1>6. job'[t].pc = "batch" => \A r \in Records : Untouched(t, r)'
  BY <1>1, <1>3 DEF Clean, Untouched
<1>7. job'[t].pc = "uncache" => /\ store'[job'[t].plan[1]].by # t
                                /\ txAtomic' => \A r \in Records : store'[r].by # t
  <2> SUFFICES ASSUME job[t].pc = "uncache"
               PROVE  /\ store'[job[t].plan[1]].by # t
                      /\ txAtomic => \A r \in Records : store'[r].by # t
    BY <1>1, <1>2
  <2>1. job[t].plan[1] \in Records
    BY <1>1, LocalJob, Rest DEF Fits
  <2> QED BY <1>3, <2>1 DEF Clean
<1>8. \A u \in Txs, r \in Records : job'[u].prior[r].by # t
  <2> SUFFICES ASSUME NEW u \in Txs, NEW r \in Records PROVE job'[u].prior[r].by # t
    OBVIOUS
  <2>1. CASE u = a
    BY <2>1, OthersSnapshot
  <2>2. CASE u # a
    BY <1>1, <2>2 DEF Clean, Actors
  <2> QED BY <2>1, <2>2
<1>9. Active(t)' => \A u \in Txs \ {t} : ~Active(u)'
  <2> SUFFICES ASSUME Active(t)', NEW u \in Txs, u # t PROVE ~Active(u)'
    OBVIOUS
  <2>1. Active(t)
    BY <1>1 DEF Active
  <2>2. u # a
    BY <2>1, OthersSnapshot
  <2> QED BY <1>1, <2>1, <2>2 DEF Clean, Active, Actors
<1> QED BY <1>5, <1>6, <1>7, <1>8, <1>9 DEF Clean

\* A step of t keeps the others, and so what Clean says of them.
LEMMA OwnStep ==
  ASSUME LocalInv, NEW t \in Txs, Clean(t), Active(t),
         \A u \in Actors : u # t => job'[u] = job[u],
         \A r \in Records : job'[t].prior[r].by # t,
         \A r \in Records : r \in PlanSet(t)' \/ Untouched(t, r)',
         job'[t].pc = "batch" => \A r \in Records : Untouched(t, r)',
         job'[t].pc = "uncache" => /\ store'[job'[t].plan[1]].by # t
                                   /\ txAtomic' => \A r \in Records : store'[r].by # t
  PROVE  Clean(t)'
<1>1. Txs \subseteq Actors
  BY DEF Actors
<1>2. \A u \in Txs, r \in Records : job'[u].prior[r].by # t
  BY <1>1 DEF Clean
<1>3. \A u \in Txs \ {t} : ~Active(u)'
  BY <1>1 DEF Clean, Active
<1> QED BY <1>2, <1>3 DEF Clean

LEMMA PutClean ==
  ASSUME LocalInv, NEW t \in Txs, Clean(t), PutStep(t)
  PROVE  Clean(t)'
<1>1. /\ t \in Actors /\ t \notin Puts /\ job \in [Actors -> Jobs] /\ job[t] \in Jobs
      /\ Owns(t, job[t]) /\ Fits(t, job[t]) /\ job[t].pc \in {"put", "cache"}
      /\ store \in [Records -> Envelopes] /\ cache \in [Records -> Envelopes]
      /\ job[t].at \in Nat \ {0}
  BY LocalJob, ActorsAssumption DEF Actors, LocalInv, PutStep, PutStore, PutReturns, PutThrows
<1>2. Op(t).rec \in PlanSet(t)
  BY <1>1 DEF Owns, PlanSet, Op
<1>3. Active(t)
  BY <1>1 DEF Active
<1>4. \A n : Becomes(t, n) => job'[t] = n /\ \A u \in Actors : u # t => job'[u] = job[u]
  BY <1>1 DEF Becomes
<1>5. /\ job'[t].plan = job[t].plan /\ job'[t].prior = job[t].prior
      /\ job'[t].pc \in {"cache", "exec", "revert"}
      /\ \A u \in Actors : u # t => job'[u] = job[u]
  <2>1. CASE PutStore(t)
    BY <1>1, <1>4, <2>1 DEF PutStore, Goes, Jobs
  <2>2. CASE PutReturns(t)
    <3>1. Becomes(t, [job[t] EXCEPT !.pc = "exec", !.at = @ + 1])
      BY <1>1, <2>2 DEF PutReturns
    <3>2. job'[t] = [job[t] EXCEPT !.pc = "exec", !.at = @ + 1]
      BY <1>4, <3>1
    <3>3. \A u \in Actors : u # t => job'[u] = job[u]
      BY <1>4, <3>1
    <3> QED BY <1>1, <3>2, <3>3 DEF Jobs
  <2>3. CASE PutThrows(t)
    BY <1>1, <1>4, <2>3 DEF PutThrows, Goes, Jobs
  <2> QED BY <2>1, <2>2, <2>3 DEF PutStep
<1>6. \A r \in Records : r # Op(t).rec => store'[r] = store[r] /\ cache'[r] = cache[r]
  BY <1>1 DEF PutStep, PutStore, PutReturns, PutThrows
<1>7. PlanSet(t)' = PlanSet(t)
  BY <1>5 DEF PlanSet
<1>8. \A r \in Records : r \in PlanSet(t)' \/ Untouched(t, r)'
  BY <1>2, <1>6, <1>7 DEF Clean, Untouched
<1>9. \A r \in Records : job'[t].prior[r].by # t
  BY <1>5 DEF Clean
<1> QED BY <1>3, <1>5, <1>8, <1>9, OwnStep

LEMMA EarlyClean ==
  ASSUME LocalInv, NEW t \in Txs, Clean(t), Drain(t) \/ Drained(t) \/ Preflight(t)
  PROVE  Clean(t)'
<1>1. /\ t \in Actors /\ job \in [Actors -> Jobs] /\ job[t] \in Jobs /\ job[t].plan = <<>>
      /\ job[t].pc \in {"body", "drain", "preflight"}
      /\ job[t].prior \in [Records -> Envelopes] /\ store \in [Records -> Envelopes]
  BY LocalJob DEF Actors, LocalInv, Drain, Drained, Preflight, Fits
<1>2. Active(t)
  BY <1>1 DEF Active
<1>3. \A n : Becomes(t, n) => job'[t] = n /\ \A u \in Actors : u # t => job'[u] = job[u]
  BY <1>1 DEF Becomes
<1>4. \A r \in Records : Untouched(t, r) /\ job[t].prior[r].by # t
  BY <1>1 DEF Clean, PlanSet
<1>5. UNCHANGED <<store, cache>>
  BY DEF Drain, Drained, Preflight
<1>6. /\ job'[t].pc \in {"drain", "preflight", "exec", "aborted"}
      /\ \A r \in Records : job'[t].prior[r].by # t
      /\ \A u \in Actors : u # t => job'[u] = job[u]
  <2>1. CASE Drain(t)
    <3> DEFINE W == {<<a, job[a].at>> : a \in InFlight(Keys(t))}
               E == {p \in Puts : job[p].pc # "idle"}
    <3>1. Becomes(t, [job[t] EXCEPT !.pc = "drain", !.early = E, !.waits = W])
      BY <2>1 DEF Drain
    <3> HIDE DEF W, E
    <3>2. job'[t] = [job[t] EXCEPT !.pc = "drain", !.early = E, !.waits = W]
      BY <1>3, <3>1
    <3>3. job'[t].pc = "drain" /\ job'[t].prior = job[t].prior
      BY <1>1, <3>2 DEF Jobs
    <3>4. \A u \in Actors : u # t => job'[u] = job[u]
      BY <1>3, <3>1
    <3> QED BY <1>4, <3>3, <3>4
  <2>2. CASE Drained(t)
    <3>1. Becomes(t, [job[t] EXCEPT !.pc = "preflight", !.waits = {}])
      BY <2>2 DEF Drained
    <3>2. job'[t] = [job[t] EXCEPT !.pc = "preflight", !.waits = {}]
      BY <1>3, <3>1
    <3>3. job'[t].pc = "preflight" /\ job'[t].prior = job[t].prior
      BY <1>1, <3>2 DEF Jobs
    <3>4. \A u \in Actors : u # t => job'[u] = job[u]
      BY <1>3, <3>1
    <3> QED BY <1>4, <3>3, <3>4
  <2>3. CASE Preflight(t)
    <3> DEFINE q == Op(t).rec
               e == IF q \in Touched(t) THEN job[t].prior[q] ELSE store[q]
               last == job[t].at = Len(job[t].ops)
               m == [job[t] EXCEPT !.prior[q] = e, !.at = IF last THEN 1 ELSE @ + 1,
                                   !.pc = IF last THEN "exec" ELSE "preflight"]
    <3>1. Becomes(t, IF Conflicts(t, e) THEN Goes(t, "aborted") ELSE m)
      BY <2>3 DEF Preflight
    <3>2. q \in Records
      BY <1>1, <2>3, LocalJob, CurrentOp DEF Preflight, Fits
    <3>3. CASE Conflicts(t, e)
      <4>1. Becomes(t, Goes(t, "aborted"))
        BY <3>1, <3>3
      <4>2. job'[t] = Goes(t, "aborted") /\ \A u \in Actors : u # t => job'[u] = job[u]
        BY <1>3, <4>1
      <4>3. job'[t].pc = "aborted" /\ job'[t].prior = job[t].prior
        BY <1>1, <4>2 DEF Goes, Jobs
      <4> QED BY <1>4, <4>2, <4>3
    <3>4. CASE ~Conflicts(t, e)
      <4>1. Becomes(t, m)
        BY <3>1, <3>4
      <4>2. job'[t] = m
        BY <1>3, <4>1
      <4>3. e.by # t
        BY <1>4, <3>2 DEF Untouched
      <4>4. job'[t].prior = [job[t].prior EXCEPT ![q] = e] /\ job'[t].pc \in {"preflight", "exec"}
        BY <1>1, <4>2 DEF Jobs
      <4> HIDE DEF e, q, m
      <4>5. \A r \in Records : job'[t].prior[r].by # t
        BY <1>1, <1>4, <4>3, <4>4
      <4> QED BY <1>3, <4>1, <4>4, <4>5
    <3> QED BY <3>3, <3>4
  <2> QED BY <2>1, <2>2, <2>3
<1>7. \A r \in Records : Untouched(t, r)'
  BY <1>4, <1>5 DEF Untouched
<1> QED BY <1>2, <1>6, <1>7, OwnStep

LEMMA ExecuteClean ==
  ASSUME LocalInv, NEW t \in Txs, Clean(t), Execute(t)
  PROVE  Clean(t)'
<1> DEFINE r == Op(t).rec
           m == [job[t] EXCEPT !.pc = "put", !.plan = <<r>> \o @, !.env[r] = Minted(t, r)]
           x == Goes(t, Reverting(t, job[t].plan))
<1>1. /\ t \in Actors /\ job \in [Actors -> Jobs] /\ job[t] \in Jobs
      /\ job[t].plan \in Seq(Records) /\ job[t].pc = "exec"
  BY LocalJob DEF Actors, LocalInv, Execute
<1>2. r \in Records
  BY <1>1, CurrentOp DEF Execute
<1>3. \A n : Becomes(t, n) => job'[t] = n /\ \A u \in Actors : u # t => job'[u] = job[u]
  BY <1>1 DEF Becomes
<1>4. Becomes(t, x) \/ Becomes(t, m)
  BY DEF Execute
<1>5. /\ PlanSet(t) \subseteq PlanSet(t)' /\ job'[t].prior = job[t].prior
      /\ job'[t].pc \in {"put", "revert", "aborted"}
  <2>1. CASE Becomes(t, x)
    <3>1. job'[t] = x
      BY <1>3, <2>1
    <3>2. x.plan = job[t].plan /\ x.prior = job[t].prior /\ x.pc \in {"revert", "aborted"}
      BY <1>1 DEF Goes, Jobs, Reverting
    <3> HIDE DEF x
    <3> QED BY <3>1, <3>2 DEF PlanSet
  <2>2. CASE Becomes(t, m)
    <3> DEFINE q == <<r>> \o job[t].plan
    <3>1. job'[t] = m
      BY <1>3, <2>2
    <3>2. job'[t].plan = q /\ job'[t].prior = job[t].prior /\ job'[t].pc = "put"
      BY <1>1, <3>1 DEF Jobs
    <3>3. \A k \in DOMAIN job[t].plan : k + 1 \in DOMAIN q /\ q[k + 1] = job[t].plan[k]
      BY <1>1, <1>2
    <3> HIDE DEF q
    <3>4. PlanSet(t) \subseteq PlanSet(t)'
      BY <3>2, <3>3 DEF PlanSet
    <3> QED BY <3>2, <3>4
  <2> QED BY <1>4, <2>1, <2>2
<1>6. UNCHANGED <<store, cache>> /\ \A u \in Actors : u # t => job'[u] = job[u]
  BY <1>3, <1>4 DEF Execute
<1>7. \A s \in Records : s \in PlanSet(t)' \/ Untouched(t, s)'
  BY <1>5, <1>6 DEF Clean, Untouched
<1>8. \A s \in Records : job'[t].prior[s].by # t
  BY <1>5 DEF Clean
<1>9. Active(t)
  BY <1>1 DEF Active
<1> QED BY <1>5, <1>6, <1>7, <1>8, <1>9, OwnStep

LEMMA PrepareClean ==
  ASSUME LocalInv, NEW t \in Txs, Clean(t), Prepare(t)
  PROVE  Clean(t)'
<1> DEFINE w == [r \in Records |-> IF r \in Keys(t) THEN Minted(t, r) ELSE job[t].env[r]]
           q == [i \in DOMAIN job[t].ops |-> job[t].ops[Len(job[t].ops) + 1 - i].rec]
           n == [job[t] EXCEPT !.pc = "batch", !.atomic = TRUE, !.env = w, !.plan = q]
<1>1. /\ t \in Actors /\ job \in [Actors -> Jobs] /\ job[t] \in Jobs /\ job[t].plan = <<>>
      /\ job[t].pc = "exec"
  BY LocalJob DEF Actors, LocalInv, Prepare, Fits
<1>2. Becomes(t, n)
  BY DEF Prepare
<1> HIDE DEF w, q
<1>3. job'[t] = n /\ \A u \in Actors : u # t => job'[u] = job[u]
  BY <1>1, <1>2 DEF Becomes
<1>4. job'[t].pc = "batch" /\ job'[t].prior = job[t].prior
  BY <1>1, <1>3 DEF Jobs
<1>5. \A r \in Records : Untouched(t, r) /\ job[t].prior[r].by # t
  BY <1>1 DEF Clean, PlanSet
<1>6. \A r \in Records : Untouched(t, r)'
  BY <1>5 DEF Untouched, Prepare
<1>7. Active(t)
  BY <1>1 DEF Active
<1> QED BY <1>3, <1>4, <1>5, <1>6, <1>7, OwnStep

LEMMA BatchClean ==
  ASSUME LocalInv, NEW t \in Txs, Clean(t), Batch(t)
  PROVE  Clean(t)'
<1> DEFINE n == Goes(t, "finalize")
           x == [job[t] EXCEPT !.pc = "aborted", !.plan = <<>>]
<1>1. /\ t \in Actors /\ job \in [Actors -> Jobs] /\ job[t] \in Jobs /\ Owns(t, job[t])
      /\ job[t].pc = "batch" /\ store \in [Records -> Envelopes]
  BY LocalJob DEF Actors, LocalInv, Batch
<1>2. \A r \in Records : Untouched(t, r) /\ job[t].prior[r].by # t
  BY <1>1 DEF Clean
<1>3. Active(t)
  BY <1>1 DEF Active
<1>4. \A m : Becomes(t, m) => job'[t] = m /\ \A u \in Actors : u # t => job'[u] = job[u]
  BY <1>1 DEF Becomes
<1>5. CASE Becomes(t, n) /\ store' = [r \in Records |-> IF r \in Keys(t) THEN job[t].env[r] ELSE store[r]]
  <2>1. job'[t] = n /\ \A u \in Actors : u # t => job'[u] = job[u]
    BY <1>4, <1>5
  <2>2. job'[t].pc = "finalize" /\ job'[t].plan = job[t].plan /\ job'[t].prior = job[t].prior
    BY <1>1, <2>1 DEF Goes, Jobs
  <2>3. Keys(t) \subseteq PlanSet(t)'
    BY <1>1, <2>2 DEF Owns, Keys, PlanSet
  <2>4. \A r \in Records : r \in PlanSet(t)' \/ Untouched(t, r)'
    BY <1>2, <1>5, <2>3 DEF Untouched, Batch
  <2> QED BY <1>2, <1>3, <2>1, <2>2, <2>4, OwnStep
<1>6. CASE Becomes(t, x) /\ UNCHANGED store
  <2>1. job'[t] = x /\ \A u \in Actors : u # t => job'[u] = job[u]
    BY <1>4, <1>6
  <2>2. job'[t].pc = "aborted" /\ job'[t].prior = job[t].prior
    BY <1>1, <2>1 DEF Jobs
  <2>3. \A r \in Records : Untouched(t, r)'
    BY <1>2, <1>6 DEF Untouched, Batch
  <2> QED BY <1>2, <1>3, <2>1, <2>2, <2>3, OwnStep
<1> QED BY <1>5, <1>6 DEF Batch

LEMMA FinalizeClean ==
  ASSUME LocalInv, NEW t \in Txs, Clean(t), Finalize(t)
  PROVE  Clean(t)'
<1> DEFINE n == [job[t] EXCEPT !.at = @ + 1]
<1>1. /\ t \in Actors /\ job \in [Actors -> Jobs] /\ job[t] \in Jobs /\ Owns(t, job[t])
      /\ job[t].pc = "finalize" /\ cache \in [Records -> Envelopes]
  BY LocalJob DEF Actors, LocalInv, Finalize
<1>2. Becomes(t, n)
  BY DEF Finalize
<1>3. job'[t] = n /\ \A u \in Actors : u # t => job'[u] = job[u]
  BY <1>1, <1>2 DEF Becomes
<1>4. job'[t].pc = "finalize" /\ job'[t].plan = job[t].plan /\ job'[t].prior = job[t].prior
  BY <1>1, <1>3 DEF Jobs
<1>5. job[t].at \in DOMAIN job[t].ops
  BY <1>1, CurrentOp DEF Finalize
<1>6. Op(t).rec \in PlanSet(t)'
  BY <1>1, <1>4, <1>5 DEF Owns, PlanSet, Op
<1>7. \A r \in Records : r # Op(t).rec => cache'[r] = cache[r]
  BY <1>1 DEF Finalize
<1>8. \A r \in Records : r \in PlanSet(t)' \/ Untouched(t, r)'
  BY <1>4, <1>6, <1>7 DEF Clean, Untouched, PlanSet, Finalize
<1>9. Active(t) /\ \A r \in Records : job'[t].prior[r].by # t
  BY <1>1, <1>4 DEF Clean, Active
<1> QED BY <1>3, <1>4, <1>8, <1>9, OwnStep

LEMMA RefusedClean ==
  ASSUME LocalInv, NEW t \in Txs, Clean(t), Refused(t)
  PROVE  Clean(t)'
<1>1. /\ t \in Actors /\ job \in [Actors -> Jobs] /\ job[t] \in Jobs
      /\ job[t].pc \in {"exec", "finalize"}
  BY LocalJob DEF Actors, LocalInv, Refused
<1>2. Becomes(t, Goes(t, "revert"))
  BY DEF Refused
<1>3. job'[t] = Goes(t, "revert") /\ \A u \in Actors : u # t => job'[u] = job[u]
  BY <1>1, <1>2 DEF Becomes
<1>4. job'[t].pc = "revert" /\ job'[t].plan = job[t].plan /\ job'[t].prior = job[t].prior
  BY <1>1, <1>3 DEF Goes, Jobs
<1>5. \A r \in Records : r \in PlanSet(t)' \/ Untouched(t, r)'
  BY <1>4 DEF Clean, Untouched, PlanSet, Refused
<1>6. Active(t) /\ \A r \in Records : job'[t].prior[r].by # t
  BY <1>1, <1>4 DEF Clean, Active
<1> QED BY <1>3, <1>4, <1>5, <1>6, OwnStep

LEMMA RevertClean ==
  ASSUME LocalInv, NEW t \in Txs, Clean(t), Revert(t)
  PROVE  Clean(t)'
<1>1. /\ t \in Actors /\ job \in [Actors -> Jobs] /\ job[t] \in Jobs /\ job[t].pc = "revert"
      /\ job[t].plan \in Seq(Records) /\ job[t].plan # <<>>
      /\ store \in [Records -> Envelopes]
  BY LocalJob DEF Actors, LocalInv, Revert, Fits
<1>2. Becomes(t, Goes(t, "uncache"))
  BY DEF Revert
<1>3. job'[t] = Goes(t, "uncache") /\ \A u \in Actors : u # t => job'[u] = job[u]
  BY <1>1, <1>2 DEF Becomes
<1>4. job'[t].pc = "uncache" /\ job'[t].plan = job[t].plan /\ job'[t].prior = job[t].prior
  BY <1>1, <1>3 DEF Goes, Jobs
<1> DEFINE back == IF txAtomic THEN PlanSet(t) ELSE {job[t].plan[1]}
<1>5. store' = [r \in Records |-> IF r \in back THEN job[t].prior[r] ELSE store[r]]
  BY DEF Revert, PlanSet
<1>6. job[t].plan[1] \in back /\ job[t].plan[1] \in Records /\ txAtomic' = txAtomic
  BY <1>1, Rest DEF PlanSet, Revert
<1>7. \A r \in Records : job[t].prior[r].by # t /\ (r \in PlanSet(t) \/ Untouched(t, r))
  BY DEF Clean
<1>8. store'[job[t].plan[1]].by # t
  BY <1>5, <1>6, <1>7
<1>9. txAtomic => \A r \in Records : store'[r].by # t
  BY <1>5, <1>7 DEF Untouched
<1>10. PlanSet(t)' = PlanSet(t)
  BY <1>4 DEF PlanSet
<1>11. \A r \in Records : store'[r] = store[r] \/ store'[r].by # t
  BY <1>5, <1>7
<1>12. \A r \in Records : r \in PlanSet(t)' \/ Untouched(t, r)'
  BY <1>7, <1>10, <1>11 DEF Untouched, Revert
<1>13. Active(t)
  BY <1>1 DEF Active
<1> QED BY <1>3, <1>4, <1>6, <1>7, <1>8, <1>9, <1>12, <1>13, OwnStep

LEMMA UncacheClean ==
  ASSUME LocalInv, NEW t \in Txs, Clean(t), Uncache(t)
  PROVE  Clean(t)'
<1> DEFINE pc == IF Len(job[t].plan) = 1 THEN "aborted" ELSE IF txAtomic THEN "uncache" ELSE "revert"
           n == [job[t] EXCEPT !.plan = Tail(@), !.pc = pc]
           top == job[t].plan[1]
<1>1. /\ t \in Actors /\ job \in [Actors -> Jobs] /\ job[t] \in Jobs /\ job[t].pc = "uncache"
      /\ job[t].plan \in Seq(Records) /\ job[t].plan # <<>>
      /\ store \in [Records -> Envelopes] /\ cache \in [Records -> Envelopes]
  BY LocalJob DEF Actors, LocalInv, Uncache, Fits
<1>2. Becomes(t, n)
  BY DEF Uncache
<1>3. job'[t] = n /\ \A u \in Actors : u # t => job'[u] = job[u]
  BY <1>1, <1>2 DEF Becomes
<1>4. /\ job'[t].pc = pc /\ job'[t].plan = Tail(job[t].plan) /\ job'[t].prior = job[t].prior
  BY <1>1, <1>3 DEF Jobs
<1>5. top \in Records /\ store[top].by # t /\ UNCHANGED <<store, txAtomic>>
      /\ cache' = [cache EXCEPT ![top] = store[top]]
  BY <1>1, Rest DEF Clean, Uncache
<1>6. \A r \in PlanSet(t) : r = top \/ r \in PlanSet(t)'
  <2> SUFFICES ASSUME NEW k \in DOMAIN job[t].plan, k # 1
               PROVE  job[t].plan[k] \in PlanSet(t)'
    BY DEF PlanSet
  <2>1. k - 1 \in DOMAIN Tail(job[t].plan) /\ Tail(job[t].plan)[k - 1] = job[t].plan[k]
    BY <1>1, Rest
  <2> QED BY <1>4, <2>1 DEF PlanSet
<1>7. \A r \in Records : r = top \/ cache'[r] = cache[r]
  BY <1>1, <1>5
<1>8. cache'[top] = store[top]
  BY <1>1, <1>5
<1> HIDE DEF top, pc, n
<1>9. store'[top].by # t /\ cache'[top].by # t
  BY <1>5, <1>8
<1>10. \A r \in Records : r \in PlanSet(t)' \/ Untouched(t, r)'
  <2> SUFFICES ASSUME NEW r \in Records, r \notin PlanSet(t)' PROVE Untouched(t, r)'
    OBVIOUS
  <2>1. CASE r = top
    BY <1>9, <2>1 DEF Untouched
  <2>2. CASE r # top
    <3>1. Untouched(t, r)
      BY <1>6, <2>2 DEF Clean
    <3> QED BY <1>5, <1>7, <2>2, <3>1 DEF Untouched
  <2> QED BY <2>1, <2>2
<1>11. job'[t].pc = "uncache" => /\ store'[job'[t].plan[1]].by # t
                                 /\ txAtomic' => \A r \in Records : store'[r].by # t
  <2> SUFFICES ASSUME job'[t].pc = "uncache"
               PROVE  /\ store'[job'[t].plan[1]].by # t
                      /\ \A r \in Records : store'[r].by # t
    OBVIOUS
  <2>1. txAtomic /\ Tail(job[t].plan) # <<>>
    BY <1>1, <1>4, Rest DEF pc
  <2>2. \A r \in Records : store'[r].by # t
    BY <1>1, <1>5, <2>1 DEF Clean
  <2>3. job'[t].plan[1] \in Records
    <3>1. Tail(job[t].plan) \in Seq(Records)
      BY <1>1, Rest
    <3> QED BY <1>4, <2>1, <3>1, Rest
  <2> QED BY <2>2, <2>3
<1>12. /\ Active(t) /\ job'[t].pc # "batch" /\ \A r \in Records : job'[t].prior[r].by # t
  BY <1>1, <1>4 DEF Clean, Active, pc
<1> QED BY <1>3, <1>10, <1>11, <1>12, OwnStep

LEMMA PutCallClean ==
  ASSUME LocalInv, NEW t \in Txs, Clean(t), NEW p \in Puts, Put(p)
  PROVE  Clean(t)' /\ job'[t] = job[t]
<1>1. /\ p \in Actors /\ p \notin Txs /\ job \in [Actors -> Jobs] /\ Txs \subseteq Actors
  BY ActorsAssumption DEF Actors, LocalInv
<1>2. \A u \in Txs : job'[u] = job[u]
  BY <1>1 DEF Put, Becomes
<1>3. UNCHANGED <<store, cache, txAtomic>>
  BY DEF Put
<1>4. PlanSet(t)' = PlanSet(t)
  BY <1>2 DEF PlanSet
<1> QED BY <1>2, <1>3, <1>4 DEF Clean, Untouched, Active

LEMMA BodyClean ==
  ASSUME LocalInv, CleanInv, NEW u \in Txs, Body(u)
  PROVE  CleanInv'
<1> SUFFICES ASSUME NEW t \in Txs, Undisturbed(t)' PROVE Clean(t)'
  BY DEF CleanInv
<1>1. job \in [Actors -> Jobs] /\ Txs \subseteq Actors /\ u \notin Puts /\ t # Before
  BY ActorsAssumption DEF LocalInv, Actors
<1>2. PICK ops \in OpLists :
       job' = [a \in Actors |->
         IF a = u THEN [Idle EXCEPT !.pc = "body", !.ops = ops, !.seen = cache,
                                    !.alone = ~\E v \in Txs \ {u} : Active(v)]
         ELSE IF a \in Txs /\ Active(a) THEN [job[a] EXCEPT !.alone = FALSE]
         ELSE job[a]]
  BY DEF Body
<1> DEFINE lone == ~\E v \in Txs \ {u} : Active(v)
<1>3. /\ job'[u].pc = "body" /\ job'[u].prior = Initially /\ job'[u].plan = <<>>
      /\ job'[u].alone = lone
  BY <1>1, <1>2 DEF Idle
<1>4. \A v \in Txs : v # u => /\ job'[v].pc = job[v].pc /\ job'[v].plan = job[v].plan
                               /\ job'[v].prior = job[v].prior
                               /\ (Active(v) => ~job'[v].alone)
                               /\ (~Active(v) => job'[v].alone = job[v].alone)
  <2> SUFFICES ASSUME NEW v \in Txs, v # u
               PROVE  /\ job'[v].pc = job[v].pc /\ job'[v].plan = job[v].plan
                      /\ job'[v].prior = job[v].prior
                      /\ (Active(v) => ~job'[v].alone)
                      /\ (~Active(v) => job'[v].alone = job[v].alone)
    OBVIOUS
  <2>1. job[v] \in Jobs
    BY <1>1
  <2>2. CASE Active(v)
    <3>1. job'[v] = [job[v] EXCEPT !.alone = FALSE]
      BY <1>1, <1>2, <2>2
    <3> QED BY <2>1, <2>2, <3>1 DEF Jobs
  <2>3. CASE ~Active(v)
    <3>1. job'[v] = job[v]
      BY <1>1, <1>2, <2>3
    <3> QED BY <2>3, <3>1
  <2> QED BY <2>2, <2>3
<1>5. UNCHANGED <<store, cache, txAtomic>>
  BY DEF Body
<1>6. ~Active(t)
  <2>1. CASE t = u
    BY <2>1 DEF Active, Body
  <2>2. CASE t # u
    BY <1>4, <2>2 DEF Undisturbed
  <2> QED BY <2>1, <2>2
<1>7. Clean(t)
  <2>1. CASE t = u
    <3>1. job[t].pc = "idle" /\ job[t].alone
      BY <1>1, <2>1, LocalJob DEF Body, Fits
    <3> QED BY <3>1 DEF CleanInv, Undisturbed
  <2>2. CASE t # u
    BY <1>4, <1>6, <2>2 DEF CleanInv, Undisturbed
  <2> QED BY <2>1, <2>2
<1>8. job[t].plan = <<>>
  BY <1>1, <1>6, LocalJob DEF Active, Fits
<1>9. \A r \in Records : Untouched(t, r)'
  BY <1>5, <1>7, <1>8 DEF Clean, PlanSet, Untouched
<1>10. \A v \in Txs, r \in Records : job'[v].prior[r].by # t
  <2>1. \A r \in Records : Initially[r].by # t
    BY <1>1 DEF Initially
  <2> QED BY <1>3, <1>4, <1>7, <2>1 DEF Clean
<1>11. job'[t].pc \notin {"batch", "uncache"}
  BY <1>3, <1>4, <1>6 DEF Active
<1>12. Active(t)' => \A v \in Txs \ {t} : ~Active(v)'
  <2> SUFFICES ASSUME Active(t)', NEW v \in Txs, v # t PROVE ~Active(v)'
    OBVIOUS
  <2>1. t = u
    BY <1>4, <1>6 DEF Active
  <2>2. lone
    BY <1>3, <2>1 DEF Undisturbed
  <2> QED BY <1>4, <2>1, <2>2 DEF Active
<1> QED BY <1>9, <1>10, <1>11, <1>12 DEF Clean

LEMMA NextClean == LocalInv /\ CleanInv /\ [Next]_vars => CleanInv'
<1> SUFFICES ASSUME LocalInv, CleanInv, [Next]_vars PROVE CleanInv'
  OBVIOUS
<1>1. CASE UNCHANGED vars
  BY <1>1 DEF vars, CleanInv, Undisturbed, Clean, PlanSet, Untouched, Active
<1>2. ASSUME NEW p \in Puts, Put(p) PROVE CleanInv'
  <2> SUFFICES ASSUME NEW t \in Txs, Undisturbed(t)' PROVE Clean(t)'
    BY DEF CleanInv
  <2>1. job'[t] = job[t]
    <3>1. p # t /\ p \in Actors /\ t \in Actors /\ job \in [Actors -> Jobs]
      BY ActorsAssumption DEF Actors, LocalInv
    <3> QED BY <1>2, <3>1 DEF Put, Becomes
  <2>2. Clean(t)
    BY <2>1 DEF CleanInv, Undisturbed
  <2> QED BY <1>2, <2>2, PutCallClean
<1>3. ASSUME NEW a \in Actors, PutStep(a) \/ (a \in Txs /\ TxStep(a)) PROVE CleanInv'
  <2> SUFFICES ASSUME NEW t \in Txs, Undisturbed(t)' PROVE Clean(t)'
    BY DEF CleanInv
  <2>0. t \in Actors
    BY DEF Actors
  <2>1. CASE a # t
    <3>1. job'[t] = job[t]
      BY <1>3, <2>0, <2>1, OtherPlace
    <3>2. Clean(t)
      BY <3>1 DEF CleanInv, Undisturbed
    <3> QED BY <1>3, <2>1, <3>2, OthersKeepClean
  <2>2. CASE a = t
    <3>1. PutStep(t) \/ TxStep(t)
      BY <1>3, <2>2
    <3>2. Clean(t)
      BY <3>1, StepKeeps DEF CleanInv, Undisturbed
    <3>3. CASE Commit(t)
      <4>1. job'[t].pc = "done"
        <5>1. job \in [Actors -> Jobs] /\ job[t] \in Jobs
          BY <2>0, LocalJob DEF LocalInv
        <5> QED BY <2>0, <3>3, <5>1 DEF Commit, Becomes, Jobs
      <4> QED BY <4>1 DEF Undisturbed
    <3> QED BY <3>1, <3>2, <3>3, PutClean, EarlyClean, ExecuteClean, PrepareClean, BatchClean,
               FinalizeClean, RefusedClean, RevertClean, UncacheClean DEF TxStep
  <2> QED BY <2>1, <2>2
<1>4. Puts \subseteq Actors /\ Txs \subseteq Actors
  BY DEF Actors
<1> QED BY <1>1, <1>2, <1>3, <1>4, BodyClean DEF Next

\* However many puts and commits there are and wherever a fault strikes, an aborted
\* commit that no other commit overlapped has left nothing in the store or the cache.
THEOREM AbortsLeaveNothing == Spec => []AbortedLeavesNothing
<1>1. Spec => []CleanInv
  <2>1. Init => CleanInv
    BY InitClean
  <2>2. LocalInv /\ CleanInv /\ [Next]_vars => CleanInv'
    BY NextClean
  <2> QED BY <2>1, <2>2, AlwaysLocal, PTL DEF Spec
<1>2. LocalInv /\ CleanInv => AbortedLeavesNothing
  <2> SUFFICES ASSUME LocalInv, CleanInv, NEW t \in Txs, NEW r \in Records,
                      job[t].pc = "aborted", job[t].alone
               PROVE  store[r].by # t /\ cache[r].by # t
    BY DEF AbortedLeavesNothing
  <2>1. job[t].plan = <<>>
    BY LocalJob DEF Actors, Fits
  <2>2. Clean(t)
    BY DEF CleanInv, Undisturbed
  <2> QED BY <2>1, <2>2 DEF Clean, PlanSet, Untouched
<1> QED BY <1>1, <1>2, AlwaysLocal, PTL

-----------------------------------------------------------------------------
(* What a commit has read and planned, op by op. *)

\* The pre-flight holds the version the body read, where the first op on a record
\* gives an expectedVersion.
Agrees(j, i) ==
  j.ops[i].checked /\ (\A k \in 1..(i - 1) : j.ops[k].rec # j.ops[i].rec)
    => j.prior[j.ops[i].rec].v = j.seen[j.ops[i].rec].v

Course(j) ==
  /\ j.pc = "preflight" => \A i \in 1..(j.at - 1) : Agrees(j, i)
  /\ j.pc \in {"exec", "put", "cache", "batch"} => \A i \in DOMAIN j.ops : Agrees(j, i)
  /\ j.pc = "exec" => \A k \in DOMAIN j.plan : \E i \in 1..(j.at - 1) : j.ops[i].rec = j.plan[k]
  /\ j.pc \in {"put", "cache"} => \A k \in DOMAIN j.plan : \E i \in 1..j.at : j.ops[i].rec = j.plan[k]

CourseInv == \A t \in Txs : Course(job[t])

\* In every other place Course says nothing.
LEMMA OffCourse ==
  ASSUME NEW j, j.pc \notin {"preflight", "exec", "put", "cache", "batch"}
  PROVE  Course(j)
BY DEF Course

LEMMA PreflightCourse ==
  ASSUME LocalInv, NEW t \in Txs, Course(job[t]), Preflight(t)
  PROVE  Course(job'[t])
<1> DEFINE j == job[t]
           q == Op(t).rec
           e == IF q \in Touched(t) THEN job[t].prior[q] ELSE store[q]
           last == job[t].at = Len(job[t].ops)
           w == [job[t].prior EXCEPT ![q] = e]
           at == IF last THEN 1 ELSE job[t].at + 1
           pc == IF last THEN "exec" ELSE "preflight"
           n == [job[t] EXCEPT !.prior = w, !.at = at, !.pc = pc]
<1>1. /\ t \in Actors /\ job \in [Actors -> Jobs] /\ job[t] \in Jobs /\ job[t].plan = <<>>
      /\ job[t].pc = "preflight" /\ job[t].at \in Nat \ {0} /\ job[t].at <= Len(job[t].ops)
      /\ job[t].ops \in Seq(OpRecords) /\ job[t].prior \in [Records -> Envelopes]
  BY LocalJob DEF Actors, LocalInv, Preflight, Fits
<1>2. /\ q \in Records /\ Op(t) = job[t].ops[job[t].at] /\ job[t].at \in DOMAIN job[t].ops
      /\ DOMAIN job[t].ops = 1..Len(job[t].ops) /\ Len(job[t].ops) \in Nat
  BY <1>1, CurrentOp DEF Op
<1>3. \A m : Becomes(t, m) => job'[t] = m
  BY <1>1 DEF Becomes
<1>4. CASE Conflicts(t, e)
  <2>1. job'[t] = Goes(t, "aborted")
    BY <1>3, <1>4 DEF Preflight
  <2>2. job'[t].pc = "aborted"
    BY <1>1, <2>1 DEF Goes, Jobs
  <2> QED BY <2>2, OffCourse
<1>5. CASE ~Conflicts(t, e)
  <2>1. job'[t] = n
    <3>1. Becomes(t, [job[t] EXCEPT !.prior[q] = e, !.at = at, !.pc = pc])
      BY <1>5 DEF Preflight
    <3>2. job'[t] = [job[t] EXCEPT !.prior[q] = e, !.at = at, !.pc = pc]
      BY <1>3, <3>1
    <3> HIDE DEF q, e, at, pc
    <3> QED BY <1>1, <3>2 DEF Jobs
  <2>2. /\ n.ops = job[t].ops /\ n.seen = job[t].seen /\ n.prior = w /\ n.at = at /\ n.pc = pc
        /\ n.plan = <<>>
    BY <1>1 DEF Jobs
  <2> HIDE DEF n
  <2>3. ASSUME NEW i \in 1..job[t].at PROVE Agrees(n, i)
    <3>1. CASE i = job[t].at
      <4>1. job[t].ops[i] = Op(t) /\ n.ops[i] = Op(t)
        BY <1>2, <2>2, <3>1
      <4>2. ASSUME Op(t).checked, \A k \in 1..(i - 1) : job[t].ops[k].rec # q
            PROVE  w[q].v = job[t].seen[q].v
        <5>1. q \notin Touched(t)
          BY <3>1, <4>2 DEF Touched
        <5>2. e.v = job[t].seen[q].v
          BY <1>5, <4>2 DEF Conflicts
        <5> QED BY <1>1, <1>2, <5>2
      <4>3. Op(t).rec = q
        OBVIOUS
      <4> HIDE DEF q, w
      <4> QED BY <2>2, <4>1, <4>2, <4>3 DEF Agrees
    <3>2. CASE i # job[t].at
      <4>1. i \in 1..(job[t].at - 1)
        BY <1>1, <3>2
      <4>2. Agrees(job[t], i) /\ job[t].ops[i].rec \in Touched(t)
        BY <1>1, <4>1 DEF Course, Touched
      <4>3. w[job[t].ops[i].rec] = job[t].prior[job[t].ops[i].rec]
        <5>1. job[t].ops[i].rec \in Records
          <6>1. job[t].ops[i] \in OpRecords
            BY <1>1, <4>1
          <6> QED BY <6>1 DEF OpRecords
        <5> HIDE DEF q
        <5> QED BY <1>1, <4>2, <5>1
      <4> HIDE DEF w
      <4> QED BY <2>2, <4>2, <4>3 DEF Agrees
    <3> QED BY <3>1, <3>2
  <2>4. CASE last
    <3>1. \A i \in DOMAIN n.ops : Agrees(n, i)
      BY <1>1, <1>2, <2>2, <2>3, <2>4
    <3> QED BY <2>1, <2>2, <2>4, <3>1 DEF Course
  <2>5. CASE ~last
    <3>1. \A i \in 1..(n.at - 1) : Agrees(n, i)
      BY <1>1, <2>2, <2>3, <2>5
    <3> QED BY <2>1, <2>2, <2>5, <3>1 DEF Course
  <2> QED BY <2>4, <2>5
<1> QED BY <1>4, <1>5

LEMMA ExecuteCourse ==
  ASSUME LocalInv, NEW t \in Txs, Course(job[t]), Execute(t)
  PROVE  Course(job'[t])
<1> DEFINE r == Op(t).rec
           w == [job[t].env EXCEPT ![r] = Minted(t, r)]
           q == <<r>> \o job[t].plan
           m == [job[t] EXCEPT !.pc = "put", !.plan = q, !.env = w]
           x == Goes(t, Reverting(t, job[t].plan))
<1>1. /\ t \in Actors /\ job \in [Actors -> Jobs] /\ job[t] \in Jobs
      /\ job[t].plan \in Seq(Records) /\ job[t].pc = "exec" /\ job[t].at \in Nat \ {0}
  BY LocalJob DEF Actors, LocalInv, Execute
<1>2. r \in Records
  BY <1>1, CurrentOp DEF Execute
<1>3. \A n : Becomes(t, n) => job'[t] = n
  BY <1>1 DEF Becomes
<1>4. job'[t] = x \/ job'[t] = m
  <2>1. job'[t] = x \/ job'[t] = [job[t] EXCEPT !.pc = "put", !.plan = <<r>> \o @, !.env[r] = Minted(t, r)]
    BY <1>3 DEF Execute
  <2> QED BY <1>1, <2>1 DEF Jobs
<1>5. CASE job'[t] = x
  <2>1. job'[t].pc \in {"aborted", "revert"}
    BY <1>1, <1>5 DEF Goes, Jobs, Reverting
  <2> QED BY <2>1, OffCourse
<1>6. CASE job'[t] = m
  <2>1. /\ m.ops = job[t].ops /\ m.seen = job[t].seen /\ m.prior = job[t].prior
        /\ m.at = job[t].at /\ m.pc = "put" /\ m.plan = q
    BY <1>1 DEF Jobs
  <2>2. \A k \in DOMAIN q : q[k] = r \/ \E l \in DOMAIN job[t].plan : q[k] = job[t].plan[l]
    <3> SUFFICES ASSUME NEW k \in DOMAIN q, k # 1
                 PROVE  \E l \in DOMAIN job[t].plan : q[k] = job[t].plan[l]
      BY <1>1, <1>2
    <3>1. k - 1 \in DOMAIN job[t].plan /\ q[k] = job[t].plan[k - 1]
      BY <1>1, <1>2
    <3> QED BY <3>1
  <2> HIDE DEF m, q
  <2>3. \A i \in DOMAIN m.ops : Agrees(m, i)
    BY <1>1, <2>1 DEF Course, Agrees
  <2>4. ASSUME NEW k \in DOMAIN m.plan PROVE \E i \in 1..m.at : m.ops[i].rec = m.plan[k]
    <3>1. CASE m.plan[k] = r
      BY <1>1, <2>1, <3>1 DEF Op
    <3>2. CASE \E l \in DOMAIN job[t].plan : m.plan[k] = job[t].plan[l]
      <4>1. PICK i \in 1..(job[t].at - 1) : job[t].ops[i].rec = m.plan[k]
        BY <1>1, <3>2 DEF Course
      <4>2. i \in 1..job[t].at
        BY <1>1
      <4> QED BY <2>1, <4>1, <4>2
    <3> QED BY <2>1, <2>2, <3>1, <3>2
  <2> QED BY <1>6, <2>1, <2>3, <2>4 DEF Course
<1> QED BY <1>4, <1>5, <1>6

LEMMA PutCourse ==
  ASSUME LocalInv, NEW t \in Txs, Course(job[t]), PutStep(t)
  PROVE  Course(job'[t])
<1>1. /\ t \in Actors /\ t \notin Puts /\ job \in [Actors -> Jobs] /\ job[t] \in Jobs
      /\ job[t].at \in Nat \ {0}
  BY LocalJob, ActorsAssumption DEF Actors, LocalInv
<1>2. \A n : Becomes(t, n) => job'[t] = n
  BY <1>1 DEF Becomes
<1>3. CASE PutStore(t)
  <2>1. job[t].pc = "put" /\ job'[t] = Goes(t, "cache")
    BY <1>2, <1>3 DEF PutStore
  <2>2. /\ job'[t].ops = job[t].ops /\ job'[t].seen = job[t].seen /\ job'[t].prior = job[t].prior
        /\ job'[t].at = job[t].at /\ job'[t].pc = "cache" /\ job'[t].plan = job[t].plan
    BY <1>1, <2>1 DEF Goes, Jobs
  <2> QED BY <2>1, <2>2 DEF Course, Agrees
<1>4. CASE PutReturns(t)
  <2>1. job[t].pc = "cache" /\ job'[t] = [job[t] EXCEPT !.pc = "exec", !.at = @ + 1]
    BY <1>1, <1>2, <1>4 DEF PutReturns
  <2>2. /\ job'[t].ops = job[t].ops /\ job'[t].seen = job[t].seen /\ job'[t].prior = job[t].prior
        /\ job'[t].at = job[t].at + 1 /\ job'[t].pc = "exec" /\ job'[t].plan = job[t].plan
    BY <1>1, <2>1 DEF Jobs
  <2>3. (job[t].at + 1) - 1 = job[t].at
    BY <1>1
  <2> QED BY <2>1, <2>2, <2>3 DEF Course, Agrees
<1>5. CASE PutThrows(t)
  <2>1. job'[t] = Goes(t, "revert")
    BY <1>1, <1>2, <1>5 DEF PutThrows
  <2>2. job'[t].pc = "revert"
    BY <1>1, <2>1 DEF Goes, Jobs
  <2> QED BY <2>2, OffCourse
<1> QED BY <1>3, <1>4, <1>5 DEF PutStep

LEMMA OwnCourse ==
  ASSUME LocalInv, NEW t \in Txs, Course(job[t]), TxStep(t)
  PROVE  Course(job'[t])
<1>1. /\ t \in Actors /\ job \in [Actors -> Jobs] /\ job[t] \in Jobs
  BY LocalJob DEF Actors, LocalInv
<1>2. \A n : Becomes(t, n) => job'[t] = n
  BY <1>1 DEF Becomes
<1>3. CASE Drain(t)
  <2> DEFINE W == {<<a, job[a].at>> : a \in InFlight(Keys(t))}
             E == {p \in Puts : job[p].pc # "idle"}
  <2>1. job'[t] = [job[t] EXCEPT !.pc = "drain", !.early = E, !.waits = W]
    BY <1>2, <1>3 DEF Drain
  <2> HIDE DEF W, E
  <2>2. job'[t].pc = "drain"
    BY <1>1, <2>1 DEF Jobs
  <2> QED BY <2>2, OffCourse
<1>4. CASE Drained(t)
  <2>1. job'[t] = [job[t] EXCEPT !.pc = "preflight", !.waits = {}] /\ job[t].at = 1
    BY <1>1, <1>2, <1>4, LocalJob DEF Drained, Fits
  <2>2. job'[t].pc = "preflight" /\ job'[t].at = 1
    BY <1>1, <2>1 DEF Jobs
  <2> QED BY <2>2 DEF Course
<1>5. CASE Prepare(t)
  <2> DEFINE w == [r \in Records |-> IF r \in Keys(t) THEN Minted(t, r) ELSE job[t].env[r]]
             q == [i \in DOMAIN job[t].ops |-> job[t].ops[Len(job[t].ops) + 1 - i].rec]
  <2>1. job'[t] = [job[t] EXCEPT !.pc = "batch", !.atomic = TRUE, !.env = w, !.plan = q]
        /\ job[t].pc = "exec"
    BY <1>2, <1>5 DEF Prepare
  <2> HIDE DEF w, q
  <2>2. /\ job'[t].ops = job[t].ops /\ job'[t].seen = job[t].seen /\ job'[t].prior = job[t].prior
        /\ job'[t].pc = "batch"
    BY <1>1, <2>1 DEF Jobs
  <2> QED BY <2>1, <2>2 DEF Course, Agrees
<1>6. CASE Batch(t)
  <2>1. job'[t] = Goes(t, "finalize") \/ job'[t] = [job[t] EXCEPT !.pc = "aborted", !.plan = <<>>]
    BY <1>2, <1>6 DEF Batch
  <2>2. job'[t].pc \in {"finalize", "aborted"}
    BY <1>1, <2>1 DEF Goes, Jobs
  <2> QED BY <2>2, OffCourse
<1>7. CASE Finalize(t)
  <2>1. job'[t] = [job[t] EXCEPT !.at = @ + 1] /\ job[t].pc = "finalize"
    BY <1>2, <1>7 DEF Finalize
  <2>2. job'[t].pc = "finalize"
    BY <1>1, <2>1 DEF Jobs
  <2> QED BY <2>2, OffCourse
<1>8. CASE Commit(t) \/ Refused(t) \/ Revert(t) \/ Uncache(t)
  <2> DEFINE pc == IF Len(job[t].plan) = 1 THEN "aborted"
                   ELSE IF txAtomic THEN "uncache" ELSE "revert"
  <2>1. \/ job'[t] = [job[t] EXCEPT !.pc = "done", !.plan = <<>>]
        \/ \E x \in {"revert", "uncache"} : job'[t] = Goes(t, x)
        \/ job'[t] = [job[t] EXCEPT !.plan = Tail(@), !.pc = pc]
    BY <1>2, <1>8 DEF Commit, Refused, Revert, Uncache
  <2>2. job'[t].pc \in {"done", "revert", "uncache", pc}
    BY <1>1, <2>1 DEF Goes, Jobs
  <2>3. pc \in {"aborted", "uncache", "revert"}
    OBVIOUS
  <2> HIDE DEF pc
  <2> QED BY <2>2, <2>3, OffCourse
<1> QED BY <1>3, <1>4, <1>5, <1>6, <1>7, <1>8, PreflightCourse, ExecuteCourse DEF TxStep

LEMMA BodyCourse ==
  ASSUME LocalInv, CourseInv, NEW u \in Txs, Body(u), NEW t \in Txs
  PROVE  Course(job'[t])
<1>1. job \in [Actors -> Jobs] /\ t \in Actors /\ u \in Actors
  BY DEF LocalInv, Actors
<1>2. PICK ops \in OpLists :
       job' = [a \in Actors |->
         IF a = u THEN [Idle EXCEPT !.pc = "body", !.ops = ops, !.seen = cache,
                                    !.alone = ~\E v \in Txs \ {u} : Active(v)]
         ELSE IF a \in Txs /\ Active(a) THEN [job[a] EXCEPT !.alone = FALSE]
         ELSE job[a]]
  BY DEF Body
<1>3. CASE t = u
  <2>1. job'[t].pc = "body"
    BY <1>1, <1>2, <1>3 DEF Idle
  <2> QED BY <2>1, OffCourse
<1>4. CASE t # u
  <2>1. job'[t] = [job[t] EXCEPT !.alone = FALSE] \/ job'[t] = job[t]
    BY <1>1, <1>2, <1>4
  <2>2. /\ job'[t].ops = job[t].ops /\ job'[t].seen = job[t].seen /\ job'[t].prior = job[t].prior
        /\ job'[t].at = job[t].at /\ job'[t].pc = job[t].pc /\ job'[t].plan = job[t].plan
    BY <1>1, <2>1 DEF Jobs
  <2> QED BY <2>2 DEF CourseInv, Course, Agrees
<1> QED BY <1>3, <1>4

LEMMA AlwaysCourse == Spec => []CourseInv
<1>1. Init => CourseInv
  BY OffCourse DEF Init, Idle, CourseInv, Actors
<1>2. LocalInv /\ CourseInv /\ [Next]_vars => CourseInv'
  <2> SUFFICES ASSUME LocalInv, CourseInv, [Next]_vars, NEW t \in Txs
               PROVE  Course(job'[t])
    BY DEF CourseInv
  <2>1. Course(job[t]) /\ t \in Actors /\ t \notin Puts /\ job \in [Actors -> Jobs]
    BY ActorsAssumption DEF CourseInv, Actors, LocalInv
  <2>2. CASE job'[t] = job[t]
    BY <2>1, <2>2
  <2>3. ASSUME NEW a \in Actors, PutStep(a) \/ (a \in Txs /\ TxStep(a))
        PROVE  Course(job'[t])
    <3>1. CASE a = t
      BY <2>1, <2>3, <3>1, PutCourse, OwnCourse
    <3>2. CASE a # t
      BY <2>1, <2>2, <2>3, <3>2, OtherPlace
    <3> QED BY <3>1, <3>2
  <2>4. ASSUME NEW p \in Puts, Put(p) PROVE job'[t] = job[t]
    BY <2>1, <2>4 DEF Put, Becomes
  <2>5. Puts \subseteq Actors /\ Txs \subseteq Actors
    BY DEF Actors
  <2> QED BY <2>2, <2>3, <2>4, <2>5, BodyCourse DEF Next, vars
<1> QED BY <1>1, <1>2, AlwaysLocal, PTL DEF Spec

-----------------------------------------------------------------------------
(* What the drain waits for. *)

\* A put once called keeps its op, and once ended does not come back.
LEMMA PutsEnd ==
  ASSUME LocalInv, [Next]_vars, NEW p \in Puts
  PROVE  /\ \/ job'[p] = job[p]
            \/ Put(p) \/ PutStep(p)
         /\ job[p].pc # "idle" => /\ job'[p].pc # "idle" /\ Op(p)' = Op(p)
                                  /\ job'[p].at = job[p].at /\ job'[p].env = job[p].env
                                  /\ Registered(p)' => Registered(p)
<1>1. /\ p \in Actors /\ p \notin Txs /\ job \in [Actors -> Jobs] /\ job[p] \in Jobs
  BY LocalJob, ActorsAssumption DEF Actors, LocalInv
<1>2. CASE job'[p] = job[p]
  BY <1>2 DEF Op, Registered
<1>3. CASE Put(p)
  BY <1>3 DEF Put
<1>4. CASE PutStep(p)
  <2>1. \E pc \in {"cache", "done", "aborted"} : job'[p] = Goes(p, pc)
    BY <1>1, <1>4 DEF PutStep, PutStore, PutReturns, PutThrows, Becomes
  <2>2. job[p].pc \in {"put", "cache"}
    BY <1>4 DEF PutStep, PutStore, PutReturns, PutThrows
  <2>3. /\ job'[p].pc # "idle" /\ job'[p].ops = job[p].ops /\ job'[p].at = job[p].at
        /\ job'[p].env = job[p].env
    BY <1>1, <2>1 DEF Goes, Jobs
  <2> QED BY <1>4, <2>2, <2>3 DEF Op, Registered
<1>5. ASSUME NEW a \in Actors, a # p, PutStep(a) \/ (a \in Txs /\ TxStep(a))
      PROVE  job'[p] = job[p]
  BY <1>1, <1>5, OtherPlace
<1>6. ASSUME NEW a \in Puts, a # p, Put(a) PROVE job'[p] = job[p]
  BY <1>1, <1>6 DEF Put, Becomes
<1>7. ASSUME NEW u \in Txs, Body(u) PROVE job'[p] = job[p]
  BY <1>1, <1>7 DEF Body
<1>8. Puts \subseteq Actors /\ Txs \subseteq Actors
  BY DEF Actors
<1> QED BY <1>1, <1>2, <1>3, <1>4, <1>5, <1>6, <1>7, <1>8 DEF Next, vars

PastDrain == {"preflight", "exec", "put", "cache", "batch", "finalize"}

\* Of the puts called before the drain, those still at work on the batch's records
\* are waited for, and past the drain there are none.
Waiting(t) ==
  /\ job[t].pc \in PastDrain \cup {"drain"} => \A p \in job[t].early : job[p].pc # "idle"
  /\ job[t].pc = "drain" => \A p \in job[t].early :
       Registered(p) /\ Op(p).rec \in Keys(t) => <<p, job[p].at>> \in job[t].waits
  /\ job[t].pc \in PastDrain => \A p \in job[t].early : Registered(p) => Op(p).rec \notin Keys(t)

WaitInv == \A t \in Txs : Waiting(t)

\* The moves of a commit as the drain sees them.
LEMMA DrainMoves ==
  ASSUME LocalInv, [Next]_vars, NEW t \in Txs
  PROVE  \/ job'[t].pc \notin PastDrain \cup {"drain"}
         \/ Drain(t) \/ Drained(t)
         \/ /\ job'[t].early = job[t].early /\ job'[t].waits = job[t].waits
            /\ job'[t].ops = job[t].ops
            /\ (job[t].pc = "drain" /\ job'[t].pc = "drain") \/ job[t].pc \in PastDrain
<1> DEFINE Same == /\ job'[t].early = job[t].early /\ job'[t].waits = job[t].waits
                   /\ job'[t].ops = job[t].ops
           Out == job'[t].pc \notin PastDrain \cup {"drain"}
<1>1. /\ t \in Actors /\ t \notin Puts /\ job \in [Actors -> Jobs] /\ job[t] \in Jobs
  BY LocalJob, ActorsAssumption DEF Actors, LocalInv
<1>3. CASE Same /\ job'[t].pc = job[t].pc
  BY <1>3 DEF PastDrain
<1>4. CASE PutStep(t) \/ TxStep(t)
  <2>1. /\ Drain(t) \/ job'[t].early = job[t].early
        /\ Drain(t) \/ Drained(t) \/ job'[t].waits = job[t].waits
        /\ job'[t].ops = job[t].ops
    BY <1>4, StepKeeps
  <2>2. CASE job[t].pc \in PastDrain
    BY <2>1, <2>2
  <2>3. CASE Revert(t) \/ Uncache(t)
    <3>1. \/ job'[t] = Goes(t, "uncache")
          \/ \E pc \in {"aborted", "uncache", "revert"} :
               job'[t] = [job[t] EXCEPT !.plan = Tail(@), !.pc = pc]
      BY <1>1, <2>3 DEF Revert, Uncache, Becomes
    <3>2. job'[t].pc \in {"aborted", "uncache", "revert"}
      BY <1>1, <3>1 DEF Goes, Jobs
    <3> QED BY <3>2 DEF PastDrain
  <2>4. CASE job[t].pc \notin PastDrain /\ ~Revert(t) /\ ~Uncache(t)
    BY <1>4, <2>4 DEF PutStep, PutStore, PutReturns, PutThrows, TxStep, Preflight, Execute, Prepare,
                      Batch, Finalize, Commit, Refused, PastDrain
  <2> QED BY <2>2, <2>3, <2>4
<1>11. ASSUME NEW u \in Txs, Body(u) PROVE Out \/ (Same /\ job'[t].pc = job[t].pc)
  <2>1. PICK ops \in OpLists :
         job' = [a \in Actors |->
           IF a = u THEN [Idle EXCEPT !.pc = "body", !.ops = ops, !.seen = cache,
                                      !.alone = ~\E v \in Txs \ {u} : Active(v)]
           ELSE IF a \in Txs /\ Active(a) THEN [job[a] EXCEPT !.alone = FALSE]
           ELSE job[a]]
    BY <1>11 DEF Body
  <2>2. CASE t = u
    <3>1. job'[t].pc = "body"
      BY <1>1, <2>1, <2>2 DEF Idle
    <3> QED BY <3>1 DEF PastDrain
  <2>3. CASE t # u
    <3>1. job'[t] = [job[t] EXCEPT !.alone = FALSE] \/ job'[t] = job[t]
      BY <1>1, <2>1, <2>3
    <3> QED BY <1>1, <3>1 DEF Jobs
  <2> QED BY <2>2, <2>3
<1>12. ASSUME NEW a \in Actors, a # t, PutStep(a) \/ (a \in Txs /\ TxStep(a))
       PROVE  Same /\ job'[t].pc = job[t].pc
  BY <1>1, <1>12, OtherPlace
<1>13. ASSUME NEW p \in Puts, Put(p) PROVE Same /\ job'[t].pc = job[t].pc
  BY <1>1, <1>13 DEF Put, Becomes
<1>14. CASE UNCHANGED vars
  BY <1>3, <1>14 DEF vars
<1>15. Puts \subseteq Actors /\ Txs \subseteq Actors
  BY DEF Actors
<1> HIDE DEF Same
<1>17. CASE \E a \in Actors : a # t /\ (PutStep(a) \/ (a \in Txs /\ TxStep(a)))
  BY <1>3, <1>12, <1>17
<1>18. CASE \E p \in Puts : Put(p)
  BY <1>3, <1>13, <1>18
<1>19. CASE \E u \in Txs : Body(u)
  BY <1>3, <1>11, <1>19
<1> QED BY <1>1, <1>4, <1>14, <1>15, <1>17, <1>18, <1>19 DEF Next

LEMMA DrainWaits ==
  ASSUME LocalInv, [Next]_vars, NEW t \in Txs, Drain(t)
  PROVE  Waiting(t)'
<1> DEFINE W == {<<a, job[a].at>> : a \in InFlight(Keys(t))}
           E == {p \in Puts : job[p].pc # "idle"}
<1>1. /\ t \in Actors /\ job \in [Actors -> Jobs] /\ job[t] \in Jobs /\ Puts \subseteq Actors
      /\ \A p \in Puts : p # t
  BY LocalJob, ActorsAssumption DEF Actors, LocalInv
<1>2. job' = [job EXCEPT ![t] = [job[t] EXCEPT !.pc = "drain", !.early = E, !.waits = W]]
  BY DEF Drain, Becomes
<1>3. \A p \in Puts : job'[p] = job[p]
  BY <1>1, <1>2
<1>4. \A p \in E : Registered(p) /\ Op(p).rec \in Keys(t) => <<p, job[p].at>> \in W
  BY <1>1 DEF InFlight
<1>5. \A p \in E : p \in Puts /\ job[p].pc # "idle"
  OBVIOUS
<1> HIDE DEF W, E
<1>6. job'[t].pc = "drain" /\ job'[t].early = E /\ job'[t].waits = W /\ job'[t].ops = job[t].ops
  BY <1>1, <1>2 DEF Jobs
<1>7. Keys(t)' = Keys(t)
  BY <1>6 DEF Keys
<1>8. \A p \in E : job'[p].pc # "idle"
  BY <1>3, <1>5
<1>9. \A p \in E : Registered(p)' /\ Op(p)'.rec \in Keys(t) => <<p, job'[p].at>> \in W
  BY <1>3, <1>4, <1>5 DEF Registered, Op
<1> QED BY <1>6, <1>7, <1>8, <1>9 DEF Waiting, PastDrain

LEMMA DrainedWaits ==
  ASSUME LocalInv, [Next]_vars, NEW t \in Txs, Waiting(t), Drained(t)
  PROVE  Waiting(t)'
<1>1. /\ t \in Actors /\ job \in [Actors -> Jobs] /\ job[t] \in Jobs /\ Puts \subseteq Actors
      /\ \A p \in Puts : p # t
  BY LocalJob, ActorsAssumption DEF Actors, LocalInv
<1>2. job' = [job EXCEPT ![t] = [job[t] EXCEPT !.pc = "preflight", !.waits = {}]]
      /\ job[t].pc = "drain"
  BY DEF Drained, Becomes
<1>3. \A p \in Puts : job'[p] = job[p]
  BY <1>1, <1>2
<1>4. job'[t].pc = "preflight" /\ job'[t].early = job[t].early /\ job'[t].ops = job[t].ops
  BY <1>1, <1>2 DEF Jobs
<1>5. Keys(t)' = Keys(t) /\ job[t].early \subseteq Puts
  BY <1>1, <1>4 DEF Keys, Jobs
<1>6. ASSUME NEW p \in job[t].early, Registered(p) PROVE Op(p).rec \notin Keys(t)
  <2>1. SUFFICES ASSUME Op(p).rec \in Keys(t) PROVE FALSE
    OBVIOUS
  <2>2. <<p, job[p].at>> \in job[t].waits
    BY <1>2, <1>6, <2>1 DEF Waiting
  <2>3. Settled(<<p, job[p].at>>)
    BY <2>2 DEF Drained
  <2> QED BY <1>6, <2>3 DEF Settled
<1>7. \A p \in job[t].early : job'[p].pc # "idle"
  BY <1>2, <1>3, <1>5 DEF Waiting
<1>8. \A p \in job[t].early : Registered(p)' => Op(p)'.rec \notin Keys(t)
  BY <1>3, <1>5, <1>6 DEF Registered, Op
<1> QED BY <1>4, <1>5, <1>7, <1>8 DEF Waiting

LEMMA AlwaysWaits == Spec => []WaitInv
<1>1. Init => WaitInv
  BY DEF Init, Idle, WaitInv, Waiting, PastDrain, Actors
<1>2. LocalInv /\ WaitInv /\ [Next]_vars => WaitInv'
  <2> SUFFICES ASSUME LocalInv, WaitInv, [Next]_vars, NEW t \in Txs
               PROVE  Waiting(t)'
    BY DEF WaitInv
  <2>1. Waiting(t) /\ t \in Actors
    BY DEF WaitInv, Actors
  <2>2. CASE job'[t].pc \notin PastDrain \cup {"drain"}
    BY <2>2 DEF Waiting
  <2>3. CASE /\ job'[t].early = job[t].early /\ job'[t].waits = job[t].waits
             /\ job'[t].ops = job[t].ops
             /\ (job[t].pc = "drain" /\ job'[t].pc = "drain") \/ job[t].pc \in PastDrain
    <3>1. job[t].early \subseteq Puts
      <4>1. job[t] \in Jobs
        BY <2>1, LocalJob
      <4> QED BY <4>1 DEF Jobs
    <3>2. \A p \in job[t].early : job[p].pc # "idle"
      BY <2>1, <2>3 DEF Waiting
    <3>3. \A p \in job[t].early : /\ job'[p].pc # "idle" /\ Op(p)' = Op(p)
                                  /\ job'[p].at = job[p].at
                                  /\ Registered(p)' => Registered(p)
      BY <3>1, <3>2, PutsEnd
    <3>4. Keys(t)' = Keys(t)
      BY <2>3 DEF Keys
    <3>5. CASE job[t].pc = "drain" /\ job'[t].pc = "drain"
      <4>1. \A p \in job[t].early :
              Registered(p)' /\ Op(p)'.rec \in Keys(t) => <<p, job'[p].at>> \in job[t].waits
        BY <2>1, <3>3, <3>5 DEF Waiting
      <4> QED BY <2>3, <3>3, <3>4, <3>5, <4>1 DEF Waiting, PastDrain
    <3>6. CASE job[t].pc \in PastDrain
      <4>1. \A p \in job[t].early : Registered(p)' => Op(p)'.rec \notin Keys(t)
        BY <2>1, <3>3, <3>6 DEF Waiting
      <4>2. \A p \in job[t].early :
              Registered(p)' /\ Op(p)'.rec \in Keys(t) => <<p, job'[p].at>> \in job[t].waits
        BY <4>1
      <4> QED BY <2>3, <3>3, <3>4, <4>1, <4>2 DEF Waiting
    <3> QED BY <2>3, <3>5, <3>6
  <2> QED BY <2>1, <2>2, <2>3, DrainMoves, DrainWaits, DrainedWaits
<1> QED BY <1>1, <1>2, AlwaysLocal, PTL DEF Spec

-----------------------------------------------------------------------------
(* With one commit and puts that do not overlap, a version names one write.  *)

OneCommit == ~Overlap /\ \A t, u \in Txs : t = u

At(a, r, pc) == job[a].pc = pc /\ Op(a).rec = r

Unwritten(t, r) ==
  /\ job[t].pc \in {"idle", "body", "drain", "preflight", "exec", "put", "cache", "batch"}
  /\ r \notin PlanSet(t) \/ job[t].pc = "batch"

\* While the commit has not written r: the cache is the store, or one put has landed
\* and not returned; and what the body read is in the store, or older by version.
Versions(r) ==
  /\ (\A p \in Puts : ~At(p, r, "cache")) => cache[r] = store[r]
  /\ \A p \in Puts : At(p, r, "cache") => store[r] = job[p].env[r] /\ cache[r].v < store[r].v
  /\ \A p \in Puts : At(p, r, "put") => job[p].env[r].v = cache[r].v + 1
  /\ \A t \in Txs : job[t].pc # "idle" => job[t].seen[r] = store[r] \/ job[t].seen[r].v < store[r].v

\* The first op on r that gives a version has passed its check and is being written:
\* no put called before the drain has come in between.
Passed(t) ==
  job[t].pc = "put" /\ Op(t).rec \notin Touched(t) /\ Op(t).checked =>
    (store[Op(t).rec].by \in job[t].early => store[Op(t).rec] = job[t].seen[Op(t).rec])

VersionInv ==
  /\ \A p, q \in Puts : Registered(p) /\ Registered(q) /\ Op(p).rec = Op(q).rec => p = q
  /\ \A r \in Records : (\A t \in Txs : Unwritten(t, r)) => Versions(r)
  /\ \A t \in Txs : Passed(t)

LEMMA InitVersions == Init => VersionInv
<1> SUFFICES ASSUME Init PROVE VersionInv
  OBVIOUS
<1>1. \A a \in Actors : job[a].pc = "idle"
  BY DEF Init, Idle
<1>2. Puts \subseteq Actors /\ Txs \subseteq Actors
  BY DEF Actors
<1>3. store = cache
  BY DEF Init
<1> QED BY <1>1, <1>2, <1>3 DEF VersionInv, Registered, Versions, At, Passed

\* A plain put's own step, for the other jobs.
LEMMA PutAlone ==
  ASSUME LocalInv, NEW p \in Puts, Put(p) \/ PutStep(p)
  PROVE  /\ p \in Actors /\ \A a \in Actors : a # p => job'[a] = job[a]
         /\ \A t \in Txs : job'[t] = job[t] /\ t \in Actors
         /\ \A q \in Puts : q \in Actors /\ (q # p => job'[q] = job[q])
<1>1. /\ p \in Actors /\ p \notin Txs /\ job \in [Actors -> Jobs]
      /\ Puts \subseteq Actors /\ Txs \subseteq Actors
  BY ActorsAssumption DEF Actors, LocalInv
<1>2. \A a \in Actors : a # p => job'[a] = job[a]
  BY <1>1, OtherPlace DEF Put, Becomes
<1> QED BY <1>1, <1>2

LEMMA PutVersions ==
  ASSUME OneCommit, LocalInv, VersionInv, NEW p \in Puts, Put(p)
  PROVE  VersionInv'
<1>1. /\ p \in Actors /\ job \in [Actors -> Jobs] /\ job[p] \in Jobs /\ job[p].pc = "idle"
      /\ job[p].at = 1 /\ job[p].env \in [Records -> Envelopes]
      /\ \A t \in Txs : job'[t] = job[t]
      /\ \A q \in Puts : q # p => job'[q] = job[q]
  BY LocalJob, PutAlone DEF Put, LocalInv, Fits
<1>2. PICK s \in Records :
        /\ Overlap \/ InFlight({s}) \cap Puts = {}
        /\ Becomes(p, [job[p] EXCEPT !.pc = "put", !.ops = <<[rec |-> s, checked |-> FALSE]>>,
                                     !.env[s] = Minted(p, s)])
  BY DEF Put
<1>3. UNCHANGED <<store, cache>>
  BY DEF Put
<1>4. /\ job'[p].pc = "put" /\ job'[p].ops = <<[rec |-> s, checked |-> FALSE]>>
      /\ job'[p].at = 1 /\ job'[p].env[s] = Minted(p, s)
  <2> DEFINE n == [job[p] EXCEPT !.pc = "put", !.ops = <<[rec |-> s, checked |-> FALSE]>>,
                                 !.env[s] = Minted(p, s)]
  <2> DEFINE o == <<[rec |-> s, checked |-> FALSE]>>
             w == [job[p].env EXCEPT ![s] = Minted(p, s)]
  <2>1. job'[p] = n
    BY <1>1, <1>2 DEF Becomes
  <2>2. n = [job[p] EXCEPT !.pc = "put", !.ops = o, !.env = w]
    BY <1>1 DEF Jobs
  <2>3. w[s] = Minted(p, s)
    BY <1>1
  <2> HIDE DEF n, o, w
  <2>4. job'[p].pc = "put" /\ job'[p].ops = o /\ job'[p].at = 1 /\ job'[p].env = w
    BY <1>1, <2>1, <2>2 DEF Jobs
  <2> QED BY <2>3, <2>4 DEF o
<1>5. Op(p)'.rec = s
  BY <1>4 DEF Op
<1>6. \A q \in Puts : Registered(q) => Op(q).rec # s
  BY <1>2 DEF OneCommit, InFlight, Actors
<1>7. \A q \in Puts : q # p => Op(q)' = Op(q) /\ (Registered(q)' <=> Registered(q))
  BY <1>1 DEF Op, Registered
<1>8. ASSUME NEW q \in Puts, NEW u \in Puts, Registered(q)', Registered(u)', Op(q)'.rec = Op(u)'.rec
      PROVE  q = u
  BY <1>5, <1>6, <1>7, <1>8 DEF VersionInv
<1>9. ASSUME NEW r \in Records, \A t \in Txs : Unwritten(t, r)' PROVE Versions(r)'
  <2>1. Versions(r)
    BY <1>1, <1>9 DEF VersionInv, Unwritten, PlanSet
  <2>2. \A q \in Puts : At(q, r, "cache")' <=> At(q, r, "cache")
    BY <1>1, <1>4, <1>7 DEF At
  <2>3. \A q \in Puts : q # p => At(q, r, "put")' = At(q, r, "put") /\ job'[q].env = job[q].env
    BY <1>1, <1>7 DEF At
  <2>4. At(p, r, "put")' => job'[p].env[r].v = cache[r].v + 1
    BY <1>4, <1>5 DEF At, Minted
  <2>5. \A q \in Puts : At(q, r, "cache") => q # p
    BY <1>1 DEF At
  <2>6. (\A q \in Puts : ~At(q, r, "cache")') => cache'[r] = store'[r]
    BY <1>3, <2>1, <2>2 DEF Versions
  <2>7. \A q \in Puts : At(q, r, "cache")' => store'[r] = job'[q].env[r] /\ cache'[r].v < store'[r].v
    BY <1>1, <1>3, <2>1, <2>2, <2>5 DEF Versions
  <2>8. \A q \in Puts : At(q, r, "put")' => job'[q].env[r].v = cache'[r].v + 1
    BY <1>3, <2>1, <2>3, <2>4 DEF Versions
  <2>9. \A t \in Txs : job'[t].pc # "idle" =>
          job'[t].seen[r] = store'[r] \/ job'[t].seen[r].v < store'[r].v
    BY <1>1, <1>3, <2>1 DEF Versions
  <2> QED BY <2>6, <2>7, <2>8, <2>9 DEF Versions
<1>10. ASSUME NEW t \in Txs PROVE Passed(t)'
  <2>1. Op(t)' = Op(t) /\ Touched(t)' = Touched(t) /\ job'[t] = job[t] /\ Passed(t)
    BY <1>1 DEF Op, Touched, VersionInv
  <2> QED BY <1>3, <2>1 DEF Passed
<1> QED BY <1>8, <1>9, <1>10 DEF VersionInv

LEMMA PutStepVersions ==
  ASSUME OneCommit, LocalInv, WaitInv, VersionInv, NEW p \in Puts, PutStep(p)
  PROVE  VersionInv'
<1> DEFINE s == Op(p).rec
<1>1. /\ p \in Actors /\ job \in [Actors -> Jobs] /\ job[p] \in Jobs /\ Registered(p)
      /\ job[p].env \in [Records -> Envelopes] /\ Owns(p, job[p]) /\ s \in Records
      /\ store \in [Records -> Envelopes] /\ cache \in [Records -> Envelopes]
      /\ \A t \in Txs : job'[t] = job[t] /\ t \in Actors
      /\ \A q \in Puts : q # p => job'[q] = job[q]
  BY LocalJob, CurrentOp, PutAlone
     DEF PutStep, PutStore, PutReturns, PutThrows, LocalInv, Fits, Registered
<1>2. PICK pc \in {"cache", "done", "aborted"} : job'[p] = Goes(p, pc)
  BY <1>1 DEF PutStep, PutStore, PutReturns, PutThrows, Becomes
<1>3. /\ job'[p].pc = pc /\ job'[p].ops = job[p].ops /\ job'[p].at = job[p].at
      /\ job'[p].env = job[p].env
  BY <1>1, <1>2 DEF Goes, Jobs
<1>4. \A q \in Puts : Op(q)' = Op(q) /\ (Registered(q)' => Registered(q))
  BY <1>1, <1>3 DEF Op, Registered
<1>5. \A q, u \in Puts : Registered(q)' /\ Registered(u)' /\ Op(q)'.rec = Op(u)'.rec => q = u
  BY <1>4 DEF VersionInv
<1>6. \A q \in Puts : Registered(q) /\ Op(q).rec = s => q = p
  BY <1>1 DEF VersionInv
<1>7. job[p].env[s].by = p
  BY <1>1 DEF Owns, Registered, Op
<1>8. \A t \in Txs : Passed(t)'
  <2> SUFFICES ASSUME NEW t \in Txs PROVE Passed(t)'
    OBVIOUS
  <2>1. Op(t)' = Op(t) /\ Touched(t)' = Touched(t) /\ job'[t] = job[t] /\ Passed(t)
    BY <1>1 DEF Op, Touched, VersionInv
  <2>2. CASE UNCHANGED store
    BY <2>1, <2>2 DEF Passed
  <2>3. CASE store' = [store EXCEPT ![s] = job[p].env[s]]
    <3>1. CASE Op(t).rec = s /\ job[t].pc = "put"
      <4>1. s \in Keys(t)
        BY <1>1, <3>1, LocalJob, CurrentOp DEF Fits
      <4>2. p \notin job[t].early
        BY <1>1, <3>1, <4>1 DEF WaitInv, Waiting, PastDrain
      <4>3. store'[s].by = p
        BY <1>1, <1>7, <2>3
      <4> QED BY <2>1, <3>1, <4>2, <4>3 DEF Passed
    <3>2. CASE Op(t).rec # s /\ job[t].pc = "put"
      <4>1. Op(t).rec \in Records
        BY <1>1, <3>2, LocalJob, CurrentOp DEF Fits
      <4>2. store'[Op(t).rec] = store[Op(t).rec]
        BY <1>1, <2>3, <3>2, <4>1
      <4> QED BY <2>1, <4>2 DEF Passed
    <3>3. CASE job[t].pc # "put"
      BY <2>1, <3>3 DEF Passed
    <3> QED BY <3>1, <3>2, <3>3
  <2> QED BY <2>2, <2>3 DEF PutStep, PutStore, PutReturns, PutThrows
<1>9. ASSUME NEW r \in Records, \A t \in Txs : Unwritten(t, r)' PROVE Versions(r)'
  <2>1. Versions(r)
    BY <1>1, <1>9 DEF VersionInv, Unwritten, PlanSet
  <2>2. \A q \in Puts : q # p => /\ At(q, r, "cache")' = At(q, r, "cache")
                                /\ At(q, r, "put")' = At(q, r, "put")
                                /\ job'[q].env = job[q].env
    BY <1>1, <1>4 DEF At
  <2>3. CASE r # s
    <3>1. store'[r] = store[r] /\ cache'[r] = cache[r]
      BY <1>1, <2>3 DEF PutStep, PutStore, PutReturns, PutThrows
    <3>2. ~At(p, r, "cache") /\ ~At(p, r, "put") /\ ~At(p, r, "cache")' /\ ~At(p, r, "put")'
      BY <1>4, <2>3 DEF At
    <3>3. \A t \in Txs : job'[t].pc # "idle" =>
            job'[t].seen[r] = store'[r] \/ job'[t].seen[r].v < store'[r].v
      BY <1>1, <2>1, <3>1 DEF Versions
    <3>4. (\A q \in Puts : ~At(q, r, "cache")') => cache'[r] = store'[r]
      BY <2>1, <2>2, <3>1, <3>2 DEF Versions
    <3>5. \A q \in Puts : At(q, r, "cache")' => store'[r] = job'[q].env[r] /\ cache'[r].v < store'[r].v
      BY <2>1, <2>2, <3>1, <3>2 DEF Versions
    <3>6. \A q \in Puts : At(q, r, "put")' => job'[q].env[r].v = cache'[r].v + 1
      BY <2>1, <2>2, <3>1, <3>2 DEF Versions
    <3> QED BY <3>3, <3>4, <3>5, <3>6 DEF Versions
  <2>4. CASE r = s
    <3>1. \A q \in Puts : q # p => ~At(q, r, "cache") /\ ~At(q, r, "put")
      BY <1>6, <2>4 DEF At, Registered
    <3>2. \A q \in Puts : q # p => ~At(q, r, "cache")' /\ ~At(q, r, "put")'
      BY <2>2, <3>1
    <3>3. ~At(p, r, "put")'
      BY <1>3 DEF At
    <3>4. CASE PutStore(p)
      <4>1. At(p, r, "put") /\ At(p, r, "cache")' /\ ~At(p, r, "cache")
        BY <1>1, <1>3, <1>4, <2>4, <3>4 DEF At, PutStore, Becomes, Goes, Jobs
      <4>2. cache[r] = store[r] /\ job[p].env[r].v = cache[r].v + 1
        BY <2>1, <3>1, <4>1 DEF Versions
      <4>3. store'[r] = job[p].env[r] /\ cache' = cache
        BY <1>1, <2>4, <3>4 DEF PutStore
      <4>4. cache[r].v \in Nat
        BY <1>1 DEF Envelopes
      <4>5. cache'[r].v < store'[r].v /\ store[r].v < store'[r].v
        BY <4>2, <4>3, <4>4
      <4>6. ASSUME NEW t \in Txs, job'[t].pc # "idle"
            PROVE  job'[t].seen[r] = store'[r] \/ job'[t].seen[r].v < store'[r].v
        <5>1. job[t].seen[r] = store[r] \/ job[t].seen[r].v < store[r].v
          BY <1>1, <2>1, <4>6 DEF Versions
        <5>2. job[t].seen[r].v \in Nat /\ store[r].v \in Nat /\ store'[r].v \in Nat
          <6>1. job[t].seen[r] \in Envelopes /\ store[r] \in Envelopes /\ store'[r] \in Envelopes
            BY <1>1, <4>3, LocalJob
          <6> QED BY <6>1 DEF Envelopes
        <5>3. job[t].seen[r].v < store'[r].v
          BY <4>5, <5>1, <5>2
        <5> QED BY <1>1, <5>3
      <4> QED BY <1>3, <3>2, <3>3, <4>1, <4>3, <4>5, <4>6 DEF Versions
    <3>5. CASE ~PutStore(p)
      <4>1. /\ ~At(p, r, "cache")' /\ UNCHANGED store
            /\ job[p].pc = "put" => UNCHANGED cache
            /\ job[p].pc = "cache" => cache' = [cache EXCEPT ![s] = job[p].env[s]]
        BY <1>1, <1>3, <3>5 DEF At, PutStep, PutReturns, PutThrows, Becomes, Goes, Jobs
      <4>2. cache'[r] = store'[r]
        <5>1. CASE job[p].pc = "put"
          BY <2>1, <3>1, <4>1, <5>1 DEF Versions, At
        <5>2. CASE job[p].pc = "cache"
          <6>1. At(p, r, "cache")
            BY <2>4, <5>2 DEF At
          <6>2. store[r] = job[p].env[r]
            BY <2>1, <6>1 DEF Versions
          <6> QED BY <1>1, <2>4, <4>1, <5>2, <6>2
        <5> QED BY <1>1, <5>1, <5>2 DEF Registered
      <4>3. \A t \in Txs : job'[t].pc # "idle" =>
              job'[t].seen[r] = store'[r] \/ job'[t].seen[r].v < store'[r].v
        BY <1>1, <2>1, <4>1 DEF Versions
      <4> QED BY <3>2, <3>3, <4>1, <4>2, <4>3 DEF Versions
    <3> QED BY <3>4, <3>5
  <2> QED BY <2>3, <2>4
<1> QED BY <1>5, <1>8, <1>9 DEF VersionInv

\* Up to its first write of r a commit changes nothing of r but what it has read.
LEMMA KeepsUnwritten ==
  ASSUME LocalInv, NEW t \in Txs, PutStep(t) \/ TxStep(t), NEW r \in Records, Unwritten(t, r)'
  PROVE  /\ Unwritten(t, r) /\ job[t].pc # "idle" /\ job'[t].seen = job[t].seen
         /\ store'[r] = store[r] /\ cache'[r] = cache[r]
<1>1. /\ t \in Actors /\ t \notin Puts /\ job \in [Actors -> Jobs] /\ job[t] \in Jobs
      /\ Fits(t, job[t]) /\ Owns(t, job[t]) /\ job[t].plan \in Seq(Records)
      /\ store \in [Records -> Envelopes] /\ cache \in [Records -> Envelopes]
      /\ job[t].at \in Nat \ {0}
  BY LocalJob, ActorsAssumption DEF Actors, LocalInv
<1>2. \A n : Becomes(t, n) => job'[t] = n
  BY <1>1 DEF Becomes
<1>3. CASE PutStore(t) \/ PutReturns(t)
  <2>1. job[t].pc \in {"put", "cache"}
    BY <1>3 DEF PutStore, PutReturns
  <2>2. job'[t] = Goes(t, "cache") \/ job'[t] = [job[t] EXCEPT !.pc = "exec", !.at = @ + 1]
    BY <1>1, <1>2, <1>3 DEF PutStore, PutReturns
  <2>3. /\ job'[t].pc \in {"cache", "exec"} /\ job'[t].plan = job[t].plan
        /\ job'[t].seen = job[t].seen
    BY <1>1, <2>2 DEF Goes, Jobs
  <2>4. r \notin PlanSet(t)
    BY <2>3 DEF Unwritten, PlanSet
  <2>5. Op(t).rec \in PlanSet(t)
    BY <1>1, <2>1 DEF Owns, PlanSet, Op
  <2>6. store'[r] = store[r] /\ cache'[r] = cache[r]
    BY <1>1, <1>3, <2>4, <2>5 DEF PutStore, PutReturns
  <2> QED BY <2>1, <2>3, <2>4, <2>6 DEF Unwritten
<1>4. CASE PutThrows(t)
  <2>1. job'[t] = Goes(t, "revert")
    BY <1>1, <1>2, <1>4 DEF PutThrows
  <2>2. job'[t].pc = "revert"
    BY <1>1, <2>1 DEF Goes, Jobs
  <2> QED BY <2>2 DEF Unwritten
<1>5. CASE Drain(t) \/ Drained(t) \/ Preflight(t)
  <2>1. job[t].pc \in {"body", "drain", "preflight"} /\ job[t].plan = <<>>
    BY <1>1, <1>5 DEF Drain, Drained, Preflight, Fits
  <2>2. UNCHANGED <<store, cache>>
    BY <1>5 DEF Drain, Drained, Preflight
  <2>3. Unwritten(t, r)
    BY <2>1 DEF Unwritten, PlanSet
  <2>4. job'[t].seen = job[t].seen
    BY StepKeeps
  <2> QED BY <2>1, <2>2, <2>3, <2>4
<1>6. CASE Execute(t)
  <2> DEFINE s == Op(t).rec
             q == <<s>> \o job[t].plan
             w == [job[t].env EXCEPT ![s] = Minted(t, s)]
  <2>1. \/ job'[t] = Goes(t, Reverting(t, job[t].plan))
        \/ job'[t] = [job[t] EXCEPT !.pc = "put", !.plan = q, !.env = w]
    <3>1. \/ job'[t] = Goes(t, Reverting(t, job[t].plan))
          \/ job'[t] = [job[t] EXCEPT !.pc = "put", !.plan = <<s>> \o @, !.env[s] = Minted(t, s)]
      BY <1>2, <1>6 DEF Execute
    <3> QED BY <1>1, <3>1 DEF Jobs
  <2>2. s \in Records
    BY <1>1, <1>6, CurrentOp DEF Execute
  <2>3. CASE job'[t] = Goes(t, Reverting(t, job[t].plan))
    <3>1. job'[t].pc \in {"aborted", "revert"}
      BY <1>1, <2>3 DEF Goes, Jobs, Reverting
    <3> QED BY <3>1 DEF Unwritten
  <2>4. CASE job'[t] = [job[t] EXCEPT !.pc = "put", !.plan = q, !.env = w]
    <3>1. \A k \in DOMAIN job[t].plan : k + 1 \in DOMAIN q /\ q[k + 1] = job[t].plan[k]
      BY <1>1, <2>2
    <3> HIDE DEF q, w
    <3>2. job'[t].pc = "put" /\ job'[t].plan = q /\ job'[t].seen = job[t].seen
      BY <1>1, <2>4 DEF Jobs
    <3>3. r \notin PlanSet(t)
      BY <3>1, <3>2 DEF Unwritten, PlanSet
    <3> QED BY <1>6, <3>2, <3>3 DEF Unwritten, Execute
  <2> QED BY <2>1, <2>3, <2>4
<1>7. CASE Prepare(t)
  <2> DEFINE w == [s \in Records |-> IF s \in Keys(t) THEN Minted(t, s) ELSE job[t].env[s]]
             q == [i \in DOMAIN job[t].ops |-> job[t].ops[Len(job[t].ops) + 1 - i].rec]
  <2>1. job'[t] = [job[t] EXCEPT !.pc = "batch", !.atomic = TRUE, !.env = w, !.plan = q]
        /\ job[t].pc = "exec" /\ job[t].plan = <<>> /\ UNCHANGED <<store, cache>>
    BY <1>1, <1>2, <1>7 DEF Prepare, Fits
  <2> HIDE DEF w, q
  <2>2. job'[t].seen = job[t].seen
    BY <1>1, <2>1 DEF Jobs
  <2> QED BY <2>1, <2>2 DEF Unwritten, PlanSet
<1>8. CASE Batch(t)
  <2>1. job'[t] = Goes(t, "finalize") \/ job'[t] = [job[t] EXCEPT !.pc = "aborted", !.plan = <<>>]
    BY <1>2, <1>8 DEF Batch
  <2>2. job'[t].pc \in {"finalize", "aborted"}
    BY <1>1, <2>1 DEF Goes, Jobs
  <2> QED BY <2>2 DEF Unwritten
<1>9. CASE Finalize(t)
  <2>1. job'[t] = [job[t] EXCEPT !.at = @ + 1] /\ job[t].pc = "finalize"
    BY <1>2, <1>9 DEF Finalize
  <2>2. job'[t].pc = "finalize"
    BY <1>1, <2>1 DEF Jobs
  <2> QED BY <2>2 DEF Unwritten
<1>10. CASE Commit(t) \/ Refused(t) \/ Revert(t) \/ Uncache(t)
  <2> DEFINE pc == IF Len(job[t].plan) = 1 THEN "aborted"
                   ELSE IF txAtomic THEN "uncache" ELSE "revert"
  <2>1. \/ job'[t] = [job[t] EXCEPT !.pc = "done", !.plan = <<>>]
        \/ \E x \in {"revert", "uncache"} : job'[t] = Goes(t, x)
        \/ job'[t] = [job[t] EXCEPT !.plan = Tail(@), !.pc = pc]
    BY <1>2, <1>10 DEF Commit, Refused, Revert, Uncache
  <2>2. job'[t].pc \in {"done", "revert", "uncache", pc}
    BY <1>1, <2>1 DEF Goes, Jobs
  <2>3. pc \in {"aborted", "uncache", "revert"}
    OBVIOUS
  <2> HIDE DEF pc
  <2> QED BY <2>2, <2>3 DEF Unwritten
<1> QED BY <1>3, <1>4, <1>5, <1>6, <1>7, <1>8, <1>9, <1>10 DEF PutStep, TxStep

\* An op with an expectedVersion is written only over what the body read.
LEMMA ExecutePasses ==
  ASSUME OneCommit, LocalInv, CourseInv, VersionInv, NEW t \in Txs, Execute(t)
  PROVE  Passed(t)'
<1> DEFINE s == Op(t).rec
           m == [job[t] EXCEPT !.pc = "put", !.plan = <<s>> \o @, !.env[s] = Minted(t, s)]
           x == Goes(t, Reverting(t, job[t].plan))
<1>1. /\ t \in Actors /\ job \in [Actors -> Jobs] /\ job[t] \in Jobs
      /\ store \in [Records -> Envelopes] /\ s \in Records /\ Course(job[t])
      /\ job[t].pc = "exec" /\ job[t].seen \in [Records -> Envelopes]
  BY LocalJob, CurrentOp DEF Actors, LocalInv, Execute, CourseInv
<1>2. \A n : Becomes(t, n) => job'[t] = n
  BY <1>1 DEF Becomes
<1>3. CASE s \notin Touched(t) /\ Conflicts(t, store[s])
  <2>1. job'[t] = x
    BY <1>2, <1>3 DEF Execute
  <2>2. job'[t].pc \in {"aborted", "revert"}
    BY <1>1, <2>1 DEF Goes, Jobs, Reverting
  <2> QED BY <2>2 DEF Passed
<1>4. CASE ~(s \notin Touched(t) /\ Conflicts(t, store[s]))
  <2>1. job'[t] = m
    BY <1>2, <1>4 DEF Execute
  <2>2. job'[t].ops = job[t].ops /\ job'[t].at = job[t].at /\ job'[t].seen = job[t].seen
        /\ store' = store
    BY <1>1, <2>1 DEF Jobs, Execute
  <2>3. Op(t)' = Op(t) /\ Touched(t)' = Touched(t)
    BY <2>2 DEF Op, Touched
  <2>4. ASSUME s \notin Touched(t), Op(t).checked PROVE store[s] = job[t].seen[s]
    <3>1. store[s].v = job[t].seen[s].v
      BY <1>4, <2>4 DEF Conflicts
    <3>2. s \notin PlanSet(t)
      BY <1>1, <2>4 DEF Course, PlanSet, Touched
    <3>3. \A u \in Txs : Unwritten(u, s)
      BY <1>1, <3>2 DEF OneCommit, Unwritten
    <3>4. job[t].seen[s] = store[s] \/ job[t].seen[s].v < store[s].v
      BY <1>1, <3>3 DEF VersionInv, Versions
    <3>5. store[s].v \in Nat
      BY <1>1 DEF Envelopes
    <3> QED BY <3>1, <3>4, <3>5
  <2> QED BY <2>2, <2>3, <2>4 DEF Passed
<1> QED BY <1>3, <1>4

LEMMA TxVersions ==
  ASSUME OneCommit, LocalInv, CourseInv, VersionInv, NEW t \in Txs, PutStep(t) \/ TxStep(t)
  PROVE  VersionInv'
<1>1. /\ t \in Actors /\ \A p \in Puts : p \in Actors /\ p # t
      /\ \A u \in Txs : u = t
  BY ActorsAssumption DEF Actors, OneCommit
<1>2. \A p \in Puts : job'[p] = job[p]
  BY <1>1, OtherPlace
<1>3. \A p, q \in Puts : Registered(p)' /\ Registered(q)' /\ Op(p)'.rec = Op(q)'.rec => p = q
  BY <1>2 DEF VersionInv, Registered, Op
<1>4. ASSUME NEW r \in Records, \A u \in Txs : Unwritten(u, r)' PROVE Versions(r)'
  <2>1. /\ Unwritten(t, r) /\ job[t].pc # "idle" /\ job'[t].seen = job[t].seen
        /\ store'[r] = store[r] /\ cache'[r] = cache[r]
    BY <1>4, KeepsUnwritten
  <2>2. Versions(r)
    BY <1>1, <2>1 DEF VersionInv
  <2>3. \A p \in Puts : At(p, r, "cache")' = At(p, r, "cache") /\ At(p, r, "put")' = At(p, r, "put")
    BY <1>2 DEF At, Op
  <2>4. \A u \in Txs : job'[u].pc # "idle" =>
          job'[u].seen[r] = store'[r] \/ job'[u].seen[r].v < store'[r].v
    BY <1>1, <2>1, <2>2 DEF Versions
  <2> QED BY <1>2, <2>1, <2>2, <2>3, <2>4 DEF Versions
<1>5. Passed(t)'
  <2>1. CASE Execute(t)
    BY <2>1, ExecutePasses
  <2>2. CASE ~Execute(t)
    <3>1. job'[t].pc # "put"
      BY <2>2, StepKeeps
    <3> QED BY <3>1 DEF Passed
  <2> QED BY <2>1, <2>2
<1> QED BY <1>1, <1>3, <1>4, <1>5 DEF VersionInv

LEMMA BodyVersions ==
  ASSUME OneCommit, LocalInv, VersionInv, NEW t \in Txs, Body(t)
  PROVE  VersionInv'
<1>1. /\ t \in Actors /\ t \notin Puts /\ job \in [Actors -> Jobs] /\ Puts \subseteq Actors
      /\ Puts \cap Txs = {} /\ \A u \in Txs : u = t
      /\ store \in [Records -> Envelopes] /\ cache \in [Records -> Envelopes]
  BY ActorsAssumption DEF Actors, OneCommit, LocalInv
<1>2. PICK ops \in OpLists :
       job' = [a \in Actors |->
         IF a = t THEN [Idle EXCEPT !.pc = "body", !.ops = ops, !.seen = cache,
                                    !.alone = ~\E u \in Txs \ {t} : Active(u)]
         ELSE IF a \in Txs /\ Active(a) THEN [job[a] EXCEPT !.alone = FALSE]
         ELSE job[a]]
  BY DEF Body
<1>3. \A p \in Puts : job'[p] = job[p]
  BY <1>1, <1>2
<1>4. job'[t].pc = "body" /\ job'[t].seen = cache
  BY <1>1, <1>2 DEF Idle
<1>5. UNCHANGED <<store, cache>>
  BY DEF Body
<1>6. \A p, q \in Puts : Registered(p)' /\ Registered(q)' /\ Op(p)'.rec = Op(q)'.rec => p = q
  BY <1>3 DEF VersionInv, Registered, Op
<1>7. ASSUME NEW r \in Records PROVE Versions(r)'
  <2>1. job[t].pc = "idle" /\ job[t].plan = <<>>
    BY <1>1, LocalJob DEF Body, Fits
  <2>2. Versions(r)
    BY <1>1, <2>1 DEF VersionInv, Unwritten, PlanSet
  <2>3. \A p \in Puts : At(p, r, "cache")' = At(p, r, "cache") /\ At(p, r, "put")' = At(p, r, "put")
    BY <1>3 DEF At, Op
  <2>4. cache[r] = store[r] \/ cache[r].v < store[r].v
    BY <2>2 DEF Versions
  <2>5. \A u \in Txs : job'[u].pc # "idle" =>
          job'[u].seen[r] = store'[r] \/ job'[u].seen[r].v < store'[r].v
    BY <1>1, <1>4, <1>5, <2>4
  <2> QED BY <1>3, <1>5, <2>2, <2>3, <2>5 DEF Versions
<1>8. \A u \in Txs : Passed(u)'
  BY <1>1, <1>4 DEF Passed
<1> QED BY <1>6, <1>7, <1>8 DEF VersionInv

LEMMA NextVersions ==
  ASSUME OneCommit, LocalInv, CourseInv, WaitInv, VersionInv, [Next]_vars
  PROVE  VersionInv'
<1>1. CASE UNCHANGED vars
  BY <1>1 DEF vars, VersionInv, Registered, Op, Unwritten, PlanSet, Versions, At, Passed, Touched
<1>2. ASSUME NEW p \in Puts, Put(p) \/ PutStep(p) PROVE VersionInv'
  BY <1>2, PutVersions, PutStepVersions
<1>3. ASSUME NEW t \in Txs, Body(t) \/ TxStep(t) \/ PutStep(t) PROVE VersionInv'
  BY <1>3, BodyVersions, TxVersions
<1> QED BY <1>1, <1>2, <1>3 DEF Next

\* The first op on a record decides whether its write is checked.
LEMMA CheckedFirst ==
  ASSUME LocalInv, NEW t \in Txs, NEW r \in Records, Checked(t, r)
  PROVE  /\ r \in Keys(t)
         /\ \E i \in DOMAIN job[t].ops :
              /\ job[t].ops[i].rec = r /\ job[t].ops[i].checked
              /\ \A k \in 1..(i - 1) : job[t].ops[k].rec # r
         /\ job[t].pc = "put" /\ Op(t).rec = r /\ r \notin Touched(t) => Op(t).checked
<1>1. t \in Actors
  BY DEF Actors
<1>2. /\ job[t].ops \in Seq(OpRecords) /\ job[t].at \in Nat \ {0} /\ Fits(t, job[t])
      /\ DOMAIN job[t].ops = 1..Len(job[t].ops)
  BY <1>1, LocalJob
<1>3. PICK i \in DOMAIN job[t].ops :
        /\ job[t].ops[i] = [rec |-> r, checked |-> TRUE]
        /\ \A k \in 1..(i - 1) : job[t].ops[k].rec # r
  BY DEF Checked
<1>4. job[t].ops[i].rec = r /\ job[t].ops[i].checked
  BY <1>3
<1>5. ASSUME job[t].pc = "put", Op(t).rec = r, r \notin Touched(t) PROVE Op(t).checked
  <2>1. job[t].at \in DOMAIN job[t].ops
    BY <1>1, <1>2, <1>5, CurrentOp DEF Fits
  <2>2. i \notin 1..(job[t].at - 1)
    BY <1>4, <1>5 DEF Touched
  <2>3. job[t].at \notin 1..(i - 1)
    BY <1>3, <1>5 DEF Op
  <2>4. i = job[t].at
    BY <1>2, <2>1, <2>2, <2>3
  <2> QED BY <1>4, <2>4 DEF Op
<1>6. r \in Keys(t)
  BY <1>4 DEF Keys
<1> QED BY <1>3, <1>4, <1>5, <1>6

\* The store takes a batch only where it holds what the body read.
LEMMA BatchPasses ==
  ASSUME OneCommit, LocalInv, CourseInv, VersionInv, [Next]_vars, NEW t \in Txs, NEW r \in Records,
         Checked(t, r), job[t].pc = "batch", job'[t].pc = "finalize"
  PROVE  store[r] = job[t].seen[r]
<1>1. /\ t \in Actors /\ job \in [Actors -> Jobs] /\ job[t] \in Jobs
      /\ store \in [Records -> Envelopes] /\ \A u \in Txs : u = t
  BY LocalJob DEF Actors, LocalInv, OneCommit
<1>2. PutStep(t) \/ TxStep(t)
  BY LeavesItself
<1>3. Batch(t)
  BY <1>2 DEF PutStep, PutStore, PutReturns, PutThrows, TxStep, Drain, Drained, Preflight, Execute,
              Prepare, Finalize, Commit, Refused, Revert, Uncache
<1>4. \A s \in Keys(t) : LegFits(t, s)
  <2> SUFFICES ASSUME Becomes(t, [job[t] EXCEPT !.pc = "aborted", !.plan = <<>>]) PROVE FALSE
    BY <1>3 DEF Batch
  <2>1. job'[t] = [job[t] EXCEPT !.pc = "aborted", !.plan = <<>>]
    BY <1>1 DEF Becomes
  <2> QED BY <1>1, <2>1 DEF Jobs
<1>5. PICK i \in DOMAIN job[t].ops :
        /\ job[t].ops[i].rec = r /\ job[t].ops[i].checked
        /\ \A k \in 1..(i - 1) : job[t].ops[k].rec # r
  BY CheckedFirst
<1>6. Agrees(job[t], i)
  BY DEF CourseInv, Course
<1>7. job[t].prior[r].v = job[t].seen[r].v
  BY <1>5, <1>6 DEF Agrees
<1>8. store[r].v = job[t].prior[r].v
  BY <1>4, CheckedFirst DEF LegFits
<1>9. job[t].seen[r] = store[r] \/ job[t].seen[r].v < store[r].v
  BY <1>1 DEF VersionInv, Unwritten, Versions
<1>10. store[r].v \in Nat
  BY <1>1 DEF Envelopes
<1> QED BY <1>7, <1>8, <1>9, <1>10

\* One commit next to any number of puts that do not overlap each other on a record:
\* of a put called before the drain and a commit with an expectedVersion neither
\* overwrites the other unseen.  Both hypotheses are needed: put mints a version from
\* the cache, so two overlapping puts, or two commits, can store one version twice.
THEOREM EarlierPutsRespected == OneCommit => (Spec => CommitRespectsEarlierPuts)
<1> SUFFICES ASSUME OneCommit PROVE Spec => CommitRespectsEarlierPuts
  OBVIOUS
<1> DEFINE A == \A t \in Txs, r \in Records : job[t].alone /\ WritesFirst(t, r) =>
       /\ store[r].by \in job[t].early => store[r] = job[t].seen[r]
       /\ \A p \in job[t].early : job[p].pc = "put" => Op(p).rec # r
<1>1. Spec => []VersionInv
  <2>1. LocalInv /\ CourseInv /\ WaitInv /\ VersionInv /\ [Next]_vars => VersionInv'
    BY NextVersions
  <2> QED BY <2>1, InitVersions, AlwaysLocal, AlwaysCourse, AlwaysWaits, PTL DEF Spec
<1>2. LocalInv /\ CourseInv /\ WaitInv /\ VersionInv /\ [Next]_vars => A
  <2> SUFFICES ASSUME LocalInv, CourseInv, WaitInv, VersionInv, [Next]_vars, NEW t \in Txs,
                      NEW r \in Records, WritesFirst(t, r)
               PROVE  /\ store[r].by \in job[t].early => store[r] = job[t].seen[r]
                      /\ \A p \in job[t].early : job[p].pc = "put" => Op(p).rec # r
    OBVIOUS
  <2>1. Checked(t, r) /\ r \in Keys(t) /\ job[t].pc \in {"put", "batch"}
    BY CheckedFirst DEF WritesFirst
  <2>2. \A p \in job[t].early : job[p].pc = "put" => Op(p).rec # r
    BY <2>1 DEF WaitInv, Waiting, PastDrain, Registered
  <2>3. CASE job[t].pc = "put" /\ Op(t).rec = r /\ r \notin Touched(t)
    <3>1. Op(t).checked
      BY <2>1, <2>3, CheckedFirst
    <3> QED BY <2>2, <2>3, <3>1 DEF VersionInv, Passed
  <2>4. CASE job[t].pc = "batch" /\ job'[t].pc = "finalize"
    BY <2>1, <2>2, <2>4, BatchPasses
  <2> QED BY <2>3, <2>4 DEF WritesFirst
<1>3. Spec => [][A]_vars
  BY <1>1, <1>2, AlwaysLocal, AlwaysCourse, AlwaysWaits, PTL DEF Spec
<1> QED BY <1>3 DEF CommitRespectsEarlierPuts

=============================================================================
