-------------------------- MODULE CertificatesProofs --------------------------
(***************************************************************************)
(* What holds of Certificates for any number of dispatchers, workers,      *)
(* rows and attempts: that it implements Ownership, that a dispatched row  *)
(* is never lost, and that an undisturbed row is certified once.           *)
(***************************************************************************)
EXTENDS Certificates, CustodyProofs

-----------------------------------------------------------------------------
(* Job ids. *)

LEMMA JobIds ==
  /\ RowJobs \subseteq JobId
  /\ NoJob \notin JobId
  /\ \A id \in JobId : id[1] \in Pieces
  /\ \A p \in Pieces : <<p, 0>> \in JobId \ RowJobs /\ <<p, 0>>[1] = p
BY BoundsAssumption, NoJobAssumption DEF JobId, RowJobs, Regenerations

LEMMA RowOf ==
  ASSUME NEW id
  PROVE  /\ id \in RowJobs => Row(id) = {id}
         /\ id \notin RowJobs => Row(id) = {}
         /\ Row(id) \subseteq RowJobs
         /\ \A r \in Row(id) : r = id
BY DEF Row

-----------------------------------------------------------------------------
(* Types of what Certificates adds to Ownership. *)

Drain == [rows : SUBSET RowJobs, row : RowJobs \cup {NoJob}]

Job == [state : {"absent", "waiting", "active", "failed"}, tries : 0..MaxAttempts,
        stalled : BOOLEAN, client : Owner, lock : Workers \cup {NoWorker}]

Run == [at : {"idle", "render", "log"}, id : JobId \cup {NoJob}, client : Owner]

QueueTypeOK ==
  /\ dispatched \in SUBSET RowJobs
  /\ lease \in BOOLEAN
  /\ drain \in [Dispatchers -> Drain]
  /\ job \in [JobId -> Job]
  /\ failed \in Seq(JobId)
  /\ run \in [Workers -> Run]
  /\ certified \in [RowJobs -> 0..2]
  /\ gaveUp \in SUBSET RowJobs
  /\ disturbed \in SUBSET RowJobs
  /\ \A w \in Workers : run[w].at = "idle" <=> run[w].id = NoJob

\* The client was promised a certificate of the piece.
Promised(p, c) == \E i \in DOMAIN outbox[p] : outbox[p][i] = c

JobsPromised ==
  /\ \A id \in JobId : job[id].state # "absent" => Promised(id[1], job[id].client)
  /\ \A w \in Workers : run[w].at # "idle" => Promised(run[w].id[1], run[w].client)

DrainsClaimRows == \A d \in Dispatchers : drain[d].rows \subseteq Rows

CertificatesInv == IInv /\ QueueTypeOK /\ JobsPromised /\ DrainsClaimRows

\* An attempt more, while attempts are left.
LEMMA AnotherTry ==
  ASSUME NEW n \in 0..MaxAttempts, n + 1 < MaxAttempts
  PROVE  n + 1 \in 0..MaxAttempts
BY BoundsAssumption

LEMMA AbsentIsJob == Absent \in Job
BY BoundsAssumption DEF Absent, Job, Owner

LEMMA FreeIsRun == Free \in Run
BY DEF Free, Run, Owner

LEMMA AddJobType ==
  ASSUME QueueTypeOK, NEW id \in JobId, NEW c \in Owner, AddJob(id, c)
  PROVE  /\ job' \in [JobId -> Job]
         /\ \A k \in JobId : k # id => job'[k] = job[k]
         /\ job[id].state # "absent" => job'[id] = job[id]
         /\ job[id].state = "absent" => job'[id].client = c
         /\ job'[id].state # "absent"
<1> DEFINE new == [Absent EXCEPT !.state = "waiting", !.client = c]
<1>1. new \in Job /\ new.client = c /\ new.state = "waiting"
  BY AbsentIsJob DEF Job, Absent
<1> QED
  BY <1>1 DEF AddJob, QueueTypeOK

\* Burying a job leaves every other as it was, or deletes one that had failed.
LEMMA BuryJobFacts ==
  ASSUME QueueTypeOK, NEW id \in JobId, BuryJob(id)
  PROVE  /\ job' \in [JobId -> Job]
         /\ failed' \in Seq(JobId)
         /\ gaveUp' = gaveUp \cup Row(id)
         /\ \A i \in DOMAIN failed' :
              failed'[i] = id \/ \E k \in DOMAIN failed : failed'[i] = failed[k]
         /\ \A k \in JobId : job'[k].state # "absent" => job[k].client = job'[k].client
         /\ \A k \in JobId : \/ job'[k] = job[k]
                             \/ k = id
                             \/ job'[k] = Absent /\ \E i \in DOMAIN failed : k = failed[i]
         /\ job'[id].state \in {"failed", "absent"}
<1> DEFINE kept == Append(failed, id)
           dead == [job EXCEPT ![id].state = "failed"]
<1>1. /\ kept \in Seq(JobId)
      /\ Len(kept) = Len(failed) + 1
      /\ Len(failed) \in Nat
      /\ \A i \in 1..Len(failed) : kept[i] = failed[i]
      /\ kept[Len(failed) + 1] = id
  BY DEF QueueTypeOK
<1>2. /\ dead \in [JobId -> Job]
      /\ dead[id].state = "failed"
      /\ \A k \in JobId : k # id => dead[k] = job[k]
      /\ \A k \in JobId : dead[k].client = job[k].client
  BY DEF QueueTypeOK, Job
<1>3. gaveUp' = gaveUp \cup Row(id)
  BY DEF BuryJob
<1>4. CASE failed' = kept /\ job' = dead
  <2>1. \A i \in DOMAIN failed' :
          failed'[i] = id \/ \E k \in DOMAIN failed : failed'[i] = failed[k]
    BY <1>1, <1>4
  <2> QED
    BY <1>1, <1>2, <1>3, <1>4, <2>1
<1>5. CASE failed' = Tail(kept) /\ job' = [dead EXCEPT ![Head(kept)] = Absent]
  <2>1. Tail(kept) \in Seq(JobId) /\ Len(Tail(kept)) = Len(failed)
    BY <1>1
  <2>2. \A i \in 1..Len(failed) : Tail(kept)[i] = kept[i + 1]
    BY <1>1
  <2>3. \A i \in DOMAIN failed' :
          failed'[i] = id \/ \E k \in DOMAIN failed : failed'[i] = failed[k]
    <3> SUFFICES ASSUME NEW i \in 1..Len(failed)
                 PROVE  kept[i + 1] = id \/ \E k \in 1..Len(failed) : kept[i + 1] = failed[k]
      BY <1>1, <1>5, <2>1, <2>2
    <3>1. CASE i = Len(failed)
      BY <1>1, <3>1
    <3>2. CASE i < Len(failed)
      BY <1>1, <3>2
    <3> QED
      BY <1>1, <3>1, <3>2
  <2>4. Head(kept) \in JobId
    BY <1>1
  <2>5. Head(kept) = id \/ \E i \in DOMAIN failed : Head(kept) = failed[i]
    <3>1. CASE Len(failed) = 0
      BY <1>1, <3>1
    <3>2. CASE Len(failed) > 0
      BY <1>1, <3>2
    <3> QED
      BY <1>1, <3>1, <3>2
  <2>6. /\ job' \in [JobId -> Job]
        /\ job'[Head(kept)] = Absent
        /\ \A k \in JobId : k # Head(kept) => job'[k] = dead[k]
    BY <1>2, <1>5, <2>4, AbsentIsJob
  <2>7. Absent.state = "absent"
    BY DEF Absent
  <2> QED
    BY <1>2, <1>3, <1>5, <2>1, <2>3, <2>5, <2>6, <2>7
<1> QED
  BY <1>4, <1>5 DEF BuryJob

-----------------------------------------------------------------------------
(* Each action keeps the types, and what is promised. *)

Kept == QueueTypeOK' /\ JobsPromised' /\ DrainsClaimRows'

\* A promise, once recorded, stays.
LEMMA PromisesStay ==
  ASSUME IInv, IInv', LedgerAppendOnly, NEW p \in Pieces
  PROVE  /\ DOMAIN outbox[p] \subseteq DOMAIN outbox'[p]
         /\ \A c : Promised(p, c) => Promised(p, c)'
<1>1. /\ outbox[p] \in Seq(Clients) /\ outbox'[p] \in Seq(Clients)
      /\ ledger[p] \in Seq(OwnershipRecord) /\ ledger'[p] \in Seq(OwnershipRecord)
  BY DEF IInv, TypeOK
<1>2. /\ Len(outbox[p]) = Len(ledger[p]) /\ Len(outbox'[p]) = Len(ledger'[p])
      /\ \A i \in DOMAIN ledger[p] : outbox[p][i] = ledger[p][i].client
      /\ \A i \in DOMAIN ledger'[p] : outbox'[p][i] = ledger'[p][i].client
  BY DEF IInv, Consistent, OutboxMatchesLedger
<1>3. /\ Len(ledger'[p]) >= Len(ledger[p])
      /\ \A i \in DOMAIN ledger[p] : ledger'[p][i].client = ledger[p][i].client
  BY DEF LedgerAppendOnly
<1>4. /\ DOMAIN outbox[p] = DOMAIN ledger[p]
      /\ DOMAIN ledger[p] \subseteq DOMAIN ledger'[p]
      /\ DOMAIN outbox'[p] = DOMAIN ledger'[p]
  BY <1>1, <1>2, <1>3
<1>5. \A i \in DOMAIN outbox[p] : outbox'[p][i] = outbox[p][i]
  BY <1>2, <1>3, <1>4
<1> QED
  BY <1>4, <1>5 DEF Promised

LEMMA TransactKeeps == CertificatesInv /\ Transact => Kept /\ [Next]_ownershipVars
<1> SUFFICES ASSUME CertificatesInv, Transact PROVE Kept /\ [Next]_ownershipVars
  OBVIOUS
<1>1. Next
  BY DEF Transact, Next
<1>2. IInv /\ IInv' /\ LedgerAppendOnly
  BY <1>1, NextInvariant DEF CertificatesInv
<1>3. QueueTypeOK'
  BY DEF CertificatesInv, Transact, QueueTypeOK, dispatchVars, queueVars, historyVars
<1>4. JobsPromised'
  <2>1. UNCHANGED <<job, run>>
    BY DEF Transact, queueVars
  <2>2. \A p \in Pieces : \A c : Promised(p, c) => Promised(p, c)'
    BY <1>2, PromisesStay
  <2>3. \A w \in Workers : run[w].at # "idle" => run[w].id[1] \in Pieces
    BY JobIds DEF CertificatesInv, QueueTypeOK, Run
  <2> QED
    BY <2>1, <2>2, <2>3, JobIds DEF CertificatesInv, JobsPromised
<1>5. DrainsClaimRows'
  <2>1. UNCHANGED drain
    BY DEF Transact, dispatchVars
  <2>2. \A p \in Pieces : DOMAIN outbox[p] \subseteq DOMAIN outbox'[p]
    BY <1>2, PromisesStay
  <2>3. \A r \in RowJobs : r[1] \in Pieces
    BY JobIds
  <2> QED
    BY <2>1, <2>2, <2>3 DEF CertificatesInv, DrainsClaimRows, Rows
<1> QED
  BY <1>1, <1>3, <1>4, <1>5 DEF Kept

\* Steps that leave the tables and the jobs alone keep the promises.
LEMMA SamePromises ==
  ASSUME CertificatesInv, UNCHANGED ownershipVars, UNCHANGED run, QueueTypeOK',
         \A id \in JobId : job'[id].state # "absent" =>
           job[id].state # "absent" /\ job'[id].client = job[id].client
  PROVE  JobsPromised'
BY DEF CertificatesInv, JobsPromised, Promised, ownershipVars

\* A claimed row asks for a certificate that was promised.
LEMMA ClaimedIsPromised ==
  ASSUME CertificatesInv, NEW d \in Dispatchers, NEW r \in drain[d].rows
  PROVE  r \in RowJobs /\ outbox[r[1]][r[2]] \in Clients /\ Promised(r[1], outbox[r[1]][r[2]])
<1>1. r \in RowJobs /\ r[1] \in Pieces /\ r[2] \in DOMAIN outbox[r[1]]
  BY JobIds DEF CertificatesInv, DrainsClaimRows, Rows
<1>2. outbox[r[1]] \in Seq(Clients)
  BY <1>1 DEF CertificatesInv, IInv, TypeOK
<1> QED
  BY <1>1, <1>2 DEF Promised

LEMMA AddedIsPromised ==
  ASSUME CertificatesInv, UNCHANGED ownershipVars, UNCHANGED run, NEW id \in JobId,
         NEW c \in Owner, AddJob(id, c), Promised(id[1], c)
  PROVE  JobsPromised'
<1>1. QueueTypeOK /\ JobsPromised
  BY DEF CertificatesInv
<1>2. \A k \in JobId : job'[k].state # "absent" => Promised(k[1], job'[k].client)
  BY <1>1, AddJobType DEF JobsPromised
<1> QED
  BY <1>1, <1>2 DEF JobsPromised, Promised, ownershipVars

LEMMA DispatchKeeps == CertificatesInv /\ Dispatch => Kept /\ UNCHANGED ownershipVars
<1> SUFFICES ASSUME CertificatesInv, Dispatch PROVE Kept /\ UNCHANGED ownershipVars
  OBVIOUS
<1> USE DEF queueVars, historyVars, dispatchVars
<1>0. QueueTypeOK /\ JobsPromised /\ DrainsClaimRows /\ Rows \subseteq RowJobs
  BY DEF CertificatesInv, Rows
<1>1. CASE LeaseExpires
  <2>1. QueueTypeOK'
    <3>1. \A d \in Dispatchers : InHand(d) \subseteq RowJobs
      BY <1>0, RowOf DEF InHand, QueueTypeOK, Drain
    <3>2. disturbed' \in SUBSET RowJobs
      BY <1>0, <1>1, <3>1 DEF LeaseExpires, QueueTypeOK
    <3> QED
      BY <1>0, <1>1, <3>2 DEF LeaseExpires, QueueTypeOK
  <2> QED
    BY <1>0, <1>1, <2>1, SamePromises DEF LeaseExpires, Kept, DrainsClaimRows, Rows, ownershipVars
<1>2. ASSUME NEW d \in Dispatchers, Claim(d) PROVE Kept /\ UNCHANGED ownershipVars
  <2>1. [drain[d] EXCEPT !.rows = Rows \ dispatched] \in Drain
    BY <1>0 DEF QueueTypeOK, Drain
  <2>2. QueueTypeOK'
    <3>1. drain' \in [Dispatchers -> Drain]
      BY <1>0, <1>2, <2>1 DEF Claim, QueueTypeOK
    <3> QED
      BY <1>0, <1>2, <3>1 DEF Claim, QueueTypeOK
  <2>3. DrainsClaimRows'
    BY <1>0, <1>2, <2>1 DEF Claim, QueueTypeOK, Drain, DrainsClaimRows, Rows, ownershipVars
  <2> QED
    BY <1>0, <1>2, <2>2, <2>3, SamePromises DEF Claim, Kept
<1>3. ASSUME NEW d \in Dispatchers, Mark(d) \/ MarkFails(d) \/ DispatcherDies(d)
      PROVE  Kept /\ UNCHANGED ownershipVars
  <2>1. /\ [drain[d] EXCEPT !.row = NoJob] \in Drain
        /\ [drain[d] EXCEPT !.row = NoJob].rows = drain[d].rows
        /\ NoDrain \in Drain /\ NoDrain.rows = {}
    BY <1>0 DEF QueueTypeOK, Drain, NoDrain
  <2>2. /\ drain[d].row # NoJob => drain[d].row \in RowJobs
        /\ InHand(d) \subseteq RowJobs /\ Row(drain[d].row) \subseteq RowJobs
    BY <1>0, RowOf DEF QueueTypeOK, Drain, InHand
  <2>3. QueueTypeOK'
    <3>1. drain' \in [Dispatchers -> Drain]
      BY <1>0, <1>3, <2>1 DEF Mark, MarkFails, DispatcherDies, QueueTypeOK
    <3>2. dispatched' \subseteq RowJobs /\ disturbed' \subseteq RowJobs
      BY <1>0, <1>3, <2>2 DEF Mark, MarkFails, DispatcherDies, QueueTypeOK
    <3> QED
      BY <1>0, <1>3, <3>1, <3>2 DEF Mark, MarkFails, DispatcherDies, QueueTypeOK
  <2>4. DrainsClaimRows'
    <3>1. \A e \in Dispatchers : drain'[e].rows \subseteq drain[e].rows
      BY <1>0, <1>3, <2>1 DEF Mark, MarkFails, DispatcherDies, QueueTypeOK
    <3> QED
      BY <1>0, <1>3, <3>1 DEF Mark, MarkFails, DispatcherDies, DrainsClaimRows, Rows, ownershipVars
  <2> QED
    BY <1>0, <1>3, <2>3, <2>4, SamePromises DEF Mark, MarkFails, DispatcherDies, Kept
<1>4. ASSUME NEW d \in Dispatchers, NEW r \in RowJobs, Enqueue(d, r) \/ EnqueueFails(d, r)
      PROVE  Kept /\ UNCHANGED ownershipVars
  <2> DEFINE c == outbox[r[1]][r[2]]
  <2>1. r \in drain[d].rows /\ r \in JobId /\ c \in Owner /\ Promised(r[1], c)
    BY <1>4, ClaimedIsPromised, JobIds DEF Enqueue, EnqueueFails, Owner
  <2>2. AddJob(r, c) \/ UNCHANGED job
    BY <1>4 DEF Enqueue, EnqueueFails
  <2>3. job' \in [JobId -> Job]
    BY <1>0, <2>1, <2>2, AddJobType DEF QueueTypeOK
  <2>4. /\ drain' \in [Dispatchers -> Drain]
        /\ \A e \in Dispatchers : drain'[e].rows \subseteq drain[e].rows
    <3>1. /\ [drain[d] EXCEPT !.rows = @ \ {r}] \in Drain
          /\ [drain[d] EXCEPT !.rows = @ \ {r}].rows = drain[d].rows \ {r}
          /\ [drain[d] EXCEPT !.rows = @ \ {r}, !.row = r] \in Drain
          /\ [drain[d] EXCEPT !.rows = @ \ {r}, !.row = r].rows = drain[d].rows \ {r}
      BY <1>0 DEF QueueTypeOK, Drain
    <3>2. \/ drain' = [drain EXCEPT ![d] = [drain[d] EXCEPT !.rows = @ \ {r}]]
          \/ drain' = [drain EXCEPT ![d] = [drain[d] EXCEPT !.rows = @ \ {r}, !.row = r]]
      BY <1>0, <1>4 DEF Enqueue, EnqueueFails, QueueTypeOK, Drain
    <3> QED
      BY <1>0, <3>1, <3>2 DEF QueueTypeOK
  <2>5. QueueTypeOK'
    BY <1>0, <1>4, <2>3, <2>4 DEF Enqueue, EnqueueFails, QueueTypeOK
  <2>6. UNCHANGED <<ownershipVars, run>>
    BY <1>4 DEF Enqueue, EnqueueFails
  <2>7. JobsPromised'
    BY <2>1, <2>2, <2>5, <2>6, AddedIsPromised, SamePromises
  <2>8. DrainsClaimRows'
    BY <1>0, <2>4, <2>6 DEF DrainsClaimRows, Rows, ownershipVars
  <2> QED
    BY <2>5, <2>6, <2>7, <2>8 DEF Kept
<1> QED
  BY <1>1, <1>2, <1>3, <1>4 DEF Dispatch

LEMMA RegenerateKeeps ==
  ASSUME CertificatesInv, NEW p \in Pieces, Regenerate(p)
  PROVE  Kept /\ UNCHANGED ownershipVars
<1> USE DEF queueVars, historyVars, dispatchVars
<1>1. piece[p].owner \in Clients
  BY DEF Regenerate, CertificatesInv, IInv, TypeOK, Owner
<1>2. Promised(p, piece[p].owner)
  <2>1. /\ ledger[p] \in Seq(OwnershipRecord) /\ outbox[p] \in Seq(Clients)
        /\ Len(ledger[p]) > 0 /\ ledger[p][Len(ledger[p])].open
        /\ \A i \in DOMAIN ledger[p] : ledger[p][i].open => ledger[p][i].client = piece[p].owner
        /\ Len(outbox[p]) = Len(ledger[p])
        /\ \A i \in DOMAIN ledger[p] : outbox[p][i] = ledger[p][i].client
    BY <1>1 DEF CertificatesInv, IInv, TypeOK, Consistent, LedgerMatchesOwner, OutboxMatchesLedger
  <2>2. Len(ledger[p]) \in DOMAIN ledger[p] /\ Len(ledger[p]) \in DOMAIN outbox[p]
    BY <2>1
  <2> QED
    BY <2>1, <2>2 DEF Promised
<1>3. <<p, 0>> \in JobId /\ <<p, 0>>[1] = p
  BY JobIds
<1>4. job' \in [JobId -> Job]
  BY <1>1, <1>3, AddJobType DEF Regenerate, CertificatesInv, Owner
<1>5. QueueTypeOK'
  BY <1>4 DEF Regenerate, CertificatesInv, QueueTypeOK
<1>6. JobsPromised'
  BY <1>1, <1>2, <1>3, AddedIsPromised DEF Regenerate, Owner
<1> QED
  BY <1>5, <1>6 DEF Regenerate, Kept, CertificatesInv, DrainsClaimRows, Rows, ownershipVars

\* A worker that lets go of its job.
LEMMA LetGo ==
  ASSUME QueueTypeOK, NEW w \in Workers, run' = [run EXCEPT ![w] = Free]
  PROVE  /\ run' \in [Workers -> Run]
         /\ \A v \in Workers : run'[v].at = "idle" <=> run'[v].id = NoJob
         /\ \A v \in Workers : run'[v] = run[v] \/ run'[v] = Free
<1>1. Free.at = "idle" /\ Free.id = NoJob
  BY DEF Free
<1> QED
  BY <1>1, FreeIsRun DEF QueueTypeOK

\* What remains to show of a worker's step that writes no table.
LEMMA WorkKeepsPromises ==
  ASSUME CertificatesInv, UNCHANGED ownershipVars, UNCHANGED dispatchVars, QueueTypeOK',
         \A id \in JobId : job'[id].state # "absent" =>
           job[id].state # "absent" /\ job'[id].client = job[id].client,
         \A w \in Workers : \/ run'[w].at = "idle"
                            \/ /\ run[w].at # "idle"
                               /\ run'[w].id = run[w].id /\ run'[w].client = run[w].client
                            \/ /\ job[run'[w].id].state # "absent" /\ run'[w].id \in JobId
                               /\ run'[w].client = job[run'[w].id].client
  PROVE  Kept
<1>1. JobsPromised'
  BY DEF CertificatesInv, JobsPromised, Promised, ownershipVars
<1>2. DrainsClaimRows'
  BY DEF CertificatesInv, DrainsClaimRows, Rows, ownershipVars, dispatchVars
<1> QED
  BY <1>1, <1>2 DEF Kept

LEMMA TakeKeeps ==
  ASSUME CertificatesInv, NEW w \in Workers, NEW id \in JobId, Take(w, id)
  PROVE  Kept
<1> USE DEF queueVars, historyVars
<1>0. QueueTypeOK
  BY DEF CertificatesInv
<1> DEFINE taken == [job[id] EXCEPT !.state = "active", !.lock = w]
           at == [at |-> "render", id |-> id, client |-> job[id].client]
<1>1. taken \in Job /\ taken.client = job[id].client /\ at \in Run
  BY <1>0 DEF QueueTypeOK, Job, Run
<1>2. job' = [job EXCEPT ![id] = taken] /\ run' = [run EXCEPT ![w] = at]
  BY <1>0 DEF Take, QueueTypeOK, Job
<1>3. /\ job' \in [JobId -> Job] /\ run' \in [Workers -> Run]
      /\ \A v \in Workers : run'[v] = IF v = w THEN at ELSE run[v]
      /\ \A k \in JobId : job'[k] = IF k = id THEN taken ELSE job[k]
  BY <1>0, <1>1, <1>2 DEF QueueTypeOK
<1>4. id # NoJob
  BY JobIds
<1>5. QueueTypeOK'
  BY <1>0, <1>3, <1>4 DEF Take, QueueTypeOK, dispatchVars
<1>6. job[id].state # "absent"
  BY DEF Take
<1>7. \A k \in JobId : job'[k].state # "absent" =>
        job[k].state # "absent" /\ job'[k].client = job[k].client
  BY <1>1, <1>3, <1>6
<1>8. \A v \in Workers : \/ run'[v].at = "idle"
                         \/ /\ run[v].at # "idle"
                            /\ run'[v].id = run[v].id /\ run'[v].client = run[v].client
                         \/ /\ job[run'[v].id].state # "absent" /\ run'[v].id \in JobId
                            /\ run'[v].client = job[run'[v].id].client
  BY <1>3, <1>6
<1> QED
  BY <1>5, <1>7, <1>8, WorkKeepsPromises DEF Take

LEMMA IssueKeeps ==
  ASSUME CertificatesInv, NEW w \in Workers, Issue(w)
  PROVE  Kept /\ Next
<1> USE DEF queueVars, historyVars, dispatchVars
<1> DEFINE id == run[w].id
<1>0. QueueTypeOK /\ JobsPromised /\ DrainsClaimRows
  BY DEF CertificatesInv
<1>1. id \in JobId /\ id[1] \in Pieces /\ Promised(id[1], run[w].client)
  BY <1>0, JobIds DEF Issue, QueueTypeOK, Run, JobsPromised
<1>2. Next
  <2>1. PICK i \in DOMAIN outbox[id[1]] : outbox[id[1]][i] = run[w].client
    BY <1>1 DEF Promised
  <2>2. IssueCertificate(id[1], i)
    BY <2>1 DEF Issue, IssueCertificate
  <2> QED
    BY <1>1, <2>1, <2>2 DEF Next, CertificateStep
<1> DEFINE at == [run[w] EXCEPT !.at = "log"]
<1>3. /\ at \in Run /\ at.id = id /\ at.client = run[w].client /\ at.at = "log"
      /\ run' = [run EXCEPT ![w] = at]
  BY <1>0 DEF Issue, QueueTypeOK, Run
<1>4. /\ run' \in [Workers -> Run]
      /\ \A v \in Workers : run'[v] = IF v = w THEN at ELSE run[v]
  BY <1>0, <1>3 DEF QueueTypeOK
<1>5. certified' \in [RowJobs -> 0..2]
  BY <1>0 DEF Issue, QueueTypeOK
<1>6. QueueTypeOK'
  <2>1. \A v \in Workers : run'[v].at = "idle" <=> run'[v].id = NoJob
    BY <1>0, <1>1, <1>3, <1>4, JobIds DEF QueueTypeOK
  <2> QED
    BY <1>0, <1>4, <1>5, <2>1 DEF Issue, QueueTypeOK
<1>7. JobsPromised'
  BY <1>0, <1>1, <1>3, <1>4 DEF Issue, JobsPromised, Promised
<1>8. DrainsClaimRows'
  BY <1>0 DEF Issue, DrainsClaimRows, Rows
<1> QED
  BY <1>2, <1>6, <1>7, <1>8 DEF Kept

LEMMA FinishKeeps ==
  ASSUME CertificatesInv, NEW w \in Workers, Finish(w)
  PROVE  Kept
<1> USE DEF queueVars, historyVars
<1>0. QueueTypeOK
  BY DEF CertificatesInv
<1>1. /\ run' \in [Workers -> Run]
      /\ \A v \in Workers : run'[v].at = "idle" <=> run'[v].id = NoJob
      /\ \A v \in Workers : run'[v] = run[v] \/ run'[v] = Free
  BY <1>0, LetGo DEF Finish
<1>2. Absent \in Job /\ Absent.state = "absent" /\ Free.at = "idle"
  BY AbsentIsJob DEF Absent, Free
<1>3. /\ job' \in [JobId -> Job]
      /\ \A k \in JobId : job'[k] = job[k] \/ job'[k] = Absent
  BY <1>0, <1>2 DEF Finish, QueueTypeOK
<1>4. QueueTypeOK'
  BY <1>0, <1>1, <1>3 DEF Finish, QueueTypeOK, dispatchVars
<1>5. \A k \in JobId : job'[k].state # "absent" =>
        job[k].state # "absent" /\ job'[k].client = job[k].client
  BY <1>2, <1>3
<1> QED
  BY <1>1, <1>2, <1>4, <1>5, WorkKeepsPromises DEF Finish

LEMMA WorkerDiesKeeps ==
  ASSUME CertificatesInv, NEW w \in Workers, WorkerDies(w)
  PROVE  Kept
<1> USE DEF queueVars, historyVars
<1>0. QueueTypeOK
  BY DEF CertificatesInv
<1>1. /\ run' \in [Workers -> Run]
      /\ \A v \in Workers : run'[v].at = "idle" <=> run'[v].id = NoJob
      /\ \A v \in Workers : run'[v] = run[v] \/ run'[v] = Free
  BY <1>0, LetGo DEF WorkerDies
<1>2. disturbed' \in SUBSET RowJobs
  BY <1>0, RowOf DEF WorkerDies, QueueTypeOK
<1>3. QueueTypeOK'
  BY <1>0, <1>1, <1>2 DEF WorkerDies, QueueTypeOK, dispatchVars
<1>4. Free.at = "idle"
  BY DEF Free
<1> QED
  BY <1>1, <1>3, <1>4, WorkKeepsPromises DEF WorkerDies

\* A job that goes back to the queue or fails for good keeps its client.
LEMMA JobMoves ==
  ASSUME QueueTypeOK, NEW id \in JobId, job[id].state # "absent", NEW j \in Job,
         j.client = job[id].client, job' = [job EXCEPT ![id] = j]
  PROVE  /\ job' \in [JobId -> Job]
         /\ \A k \in JobId : job'[k].state # "absent" =>
              job[k].state # "absent" /\ job'[k].client = job[k].client
BY DEF QueueTypeOK

LEMMA BuryKeepsClients ==
  ASSUME QueueTypeOK, NEW id \in JobId, job[id].state # "absent", BuryJob(id)
  PROVE  \A k \in JobId : job'[k].state # "absent" =>
           job[k].state # "absent" /\ job'[k].client = job[k].client
<1>1. Absent.state = "absent"
  BY DEF Absent
<1> QED
  BY <1>1, BuryJobFacts

LEMMA FailKeeps ==
  ASSUME CertificatesInv, NEW w \in Workers, Fail(w)
  PROVE  Kept
<1> USE DEF queueVars, historyVars
<1> DEFINE id == run[w].id
<1>0. QueueTypeOK
  BY DEF CertificatesInv
<1>1. /\ run' \in [Workers -> Run]
      /\ \A v \in Workers : run'[v].at = "idle" <=> run'[v].id = NoJob
      /\ \A v \in Workers : run'[v] = run[v] \/ run'[v] = Free
  BY <1>0, LetGo DEF Fail
<1>2. id \in JobId
  BY <1>0 DEF Fail, QueueTypeOK, Run
<1>3. disturbed' \in SUBSET RowJobs
  BY <1>0, RowOf DEF Fail, QueueTypeOK
<1>4. /\ job' \in [JobId -> Job] /\ failed' \in Seq(JobId) /\ gaveUp' \in SUBSET RowJobs
      /\ \A k \in JobId : job'[k].state # "absent" =>
           job[k].state # "absent" /\ job'[k].client = job[k].client
  <2>1. CASE /\ HasLock(w)
             /\ job[id].tries + 1 < MaxAttempts
             /\ job' = [job EXCEPT ![id].state = "waiting", ![id].tries = @ + 1]
             /\ UNCHANGED <<failed, gaveUp>>
    <3> DEFINE j == [job[id] EXCEPT !.state = "waiting", !.tries = @ + 1]
    <3>1. job[id] \in Job /\ job[id].state # "absent"
      BY <1>0, <1>2, <2>1 DEF QueueTypeOK, HasLock
    <3>2. job[id].tries + 1 \in 0..MaxAttempts
      BY <2>1, <3>1, AnotherTry DEF Job
    <3>3. j \in Job /\ j.client = job[id].client
      BY <3>1, <3>2 DEF Job
    <3>4. job' = [job EXCEPT ![id] = j]
      BY <1>0, <1>2, <2>1, <3>1 DEF QueueTypeOK, Job
    <3> QED
      BY <1>0, <1>2, <2>1, <3>1, <3>3, <3>4, JobMoves DEF QueueTypeOK
  <2>2. CASE HasLock(w) /\ BuryJob(id)
    <3>1. job[id].state # "absent"
      BY <2>2 DEF HasLock
    <3> QED
      BY <1>0, <1>2, <2>2, <3>1, BuryJobFacts, BuryKeepsClients, RowOf DEF QueueTypeOK
  <2>3. CASE UNCHANGED <<job, failed, gaveUp>>
    BY <1>0, <2>3 DEF QueueTypeOK
  <2> QED
    BY <2>1, <2>2, <2>3 DEF Fail
<1>5. QueueTypeOK'
  BY <1>0, <1>1, <1>3, <1>4 DEF Fail, QueueTypeOK, dispatchVars
<1>6. Free.at = "idle"
  BY DEF Free
<1> QED
  BY <1>1, <1>4, <1>5, <1>6, WorkKeepsPromises DEF Fail

LEMMA StallKeeps ==
  ASSUME CertificatesInv, NEW id \in JobId, Stall(id)
  PROVE  Kept
<1> USE DEF queueVars, historyVars
<1>0. QueueTypeOK /\ job[id].state # "absent" /\ job[id] \in Job
  BY DEF CertificatesInv, Stall, QueueTypeOK
<1>1. disturbed' \in SUBSET RowJobs
  BY <1>0, RowOf DEF Stall, QueueTypeOK
<1>2. /\ job' \in [JobId -> Job] /\ failed' \in Seq(JobId) /\ gaveUp' \in SUBSET RowJobs
      /\ \A k \in JobId : job'[k].state # "absent" =>
           job[k].state # "absent" /\ job'[k].client = job[k].client
  <2>1. CASE /\ job' = [job EXCEPT ![id].state = "waiting", ![id].stalled = TRUE]
             /\ UNCHANGED <<failed, gaveUp>>
    <3> DEFINE j == [job[id] EXCEPT !.state = "waiting", !.stalled = TRUE]
    <3>1. j \in Job /\ j.client = job[id].client
      BY <1>0 DEF Job
    <3>2. job' = [job EXCEPT ![id] = j]
      BY <1>0, <2>1 DEF QueueTypeOK, Job
    <3> QED
      BY <1>0, <2>1, <3>1, <3>2, JobMoves DEF QueueTypeOK
  <2>2. CASE BuryJob(id)
    BY <1>0, <2>2, BuryJobFacts, BuryKeepsClients, RowOf DEF QueueTypeOK
  <2> QED
    BY <2>1, <2>2 DEF Stall
<1>3. QueueTypeOK'
  BY <1>0, <1>1, <1>2 DEF Stall, QueueTypeOK, dispatchVars
<1> QED
  BY <1>0, <1>2, <1>3, WorkKeepsPromises DEF Stall, QueueTypeOK, Run

-----------------------------------------------------------------------------
(* Certificates implements Ownership. *)

LEMMA CertificatesInitInv == CertificatesInit => CertificatesInv
<1> SUFFICES ASSUME CertificatesInit PROVE CertificatesInv
  OBVIOUS
<1>1. IInv
  BY InitInvariant DEF CertificatesInit
<1>2. QueueTypeOK
  <2>1. NoDrain \in Drain /\ Absent \in Job /\ Free \in Run
    BY AbsentIsJob, FreeIsRun DEF NoDrain, Drain
  <2>2. Free.at = "idle" /\ Free.id = NoJob
    BY DEF Free
  <2>3. \A w \in Workers : run[w].at = "idle" <=> run[w].id = NoJob
    BY <2>2 DEF CertificatesInit
  <2>4. failed \in Seq(JobId) /\ certified \in [RowJobs -> 0..2]
    BY DEF CertificatesInit
  <2>5. drain \in [Dispatchers -> Drain] /\ job \in [JobId -> Job] /\ run \in [Workers -> Run]
    BY <2>1 DEF CertificatesInit
  <2> QED
    BY <2>3, <2>4, <2>5 DEF CertificatesInit, QueueTypeOK
<1>3. JobsPromised /\ DrainsClaimRows
  BY DEF CertificatesInit, JobsPromised, DrainsClaimRows, Absent, Free, NoDrain
<1> QED
  BY <1>1, <1>2, <1>3 DEF CertificatesInv

LEMMA CertificatesStep ==
  CertificatesInv /\ [CertificatesNext]_certificatesVars
    => CertificatesInv' /\ [Next]_ownershipVars
<1> SUFFICES ASSUME CertificatesInv, [CertificatesNext]_certificatesVars
             PROVE  CertificatesInv' /\ [Next]_ownershipVars
  OBVIOUS
<1>1. Kept /\ [Next]_ownershipVars
  <2>1. CASE Transact
    BY <2>1, TransactKeeps
  <2>2. ASSUME NEW p \in Pieces, Regenerate(p) PROVE Kept /\ UNCHANGED ownershipVars
    BY <2>2, RegenerateKeeps
  <2>3. CASE Dispatch
    BY <2>3, DispatchKeeps
  <2>4. ASSUME NEW w \in Workers, NEW id \in JobId, Take(w, id)
        PROVE  Kept /\ UNCHANGED ownershipVars
    BY <2>4, TakeKeeps DEF Take
  <2>5. ASSUME NEW w \in Workers, Issue(w) PROVE Kept /\ Next
    BY <2>5, IssueKeeps
  <2>6. ASSUME NEW w \in Workers, Finish(w) \/ Fail(w) \/ WorkerDies(w)
        PROVE  Kept /\ UNCHANGED ownershipVars
    BY <2>6, FinishKeeps, FailKeeps, WorkerDiesKeeps DEF Finish, Fail, WorkerDies
  <2>7. ASSUME NEW id \in JobId, Stall(id) PROVE Kept /\ UNCHANGED ownershipVars
    BY <2>7, StallKeeps DEF Stall
  <2>8. CASE UNCHANGED certificatesVars
    BY <2>8 DEF certificatesVars, dispatchVars, queueVars, historyVars, ownershipVars, Kept,
                CertificatesInv, QueueTypeOK, JobsPromised, Promised, DrainsClaimRows, Rows
  <2> QED
    BY <2>1, <2>2, <2>3, <2>4, <2>5, <2>6, <2>7, <2>8 DEF CertificatesNext, Work
<1>2. IInv'
  BY <1>1, NextInvariant, StutterInvariant DEF CertificatesInv
<1> QED
  BY <1>1, <1>2 DEF Kept, CertificatesInv

LEMMA CertificatesInvariant == CertificatesSpec => []CertificatesInv
BY CertificatesInitInv, CertificatesStep, PTL DEF CertificatesSpec

\* Whatever fails between a transaction and its certificate, the tables change
\* only by the transactions of Ownership, and only promised clients are
\* certified: all that OwnershipProofs shows holds with the queue at work.
THEOREM CertificatesImplementOwnership == CertificatesSpec => ImplementsOwnership
<1>1. CertificatesInit => Init
  BY DEF CertificatesInit
<1> QED
  BY <1>1, CertificatesStep, CertificatesInvariant, PTL DEF CertificatesSpec, ImplementsOwnership, Spec

\* So custody is kept as well, whatever becomes of certificates.
COROLLARY CertificatesImplementCustody == CertificatesSpec => ImplementsCustody
BY CertificatesImplementOwnership, OwnershipImplementsCustody, PTL DEF ImplementsOwnership

\* The rows, the queue, the dispatchers and the workers are well typed.
THEOREM CertificatesTypeCorrect == CertificatesSpec => []CertificatesTypeOK
<1>1. CertificatesInv => CertificatesTypeOK
  BY DEF CertificatesInv, IInv, QueueTypeOK, CertificatesTypeOK, Drain, Job, Run
<1> QED
  BY <1>1, CertificatesInvariant, PTL

-----------------------------------------------------------------------------
(* No promise is lost. *)

Landed(r) == job[r].state # "absent" \/ certified[r] > 0 \/ r \in gaveUp

\* What makes a row's mark safe: its job was added before, a worker that has
\* only the log left has issued, and the failed jobs have run out of attempts.
PromisesInv ==
  /\ \A r \in dispatched : Landed(r)
  /\ \A d \in Dispatchers : drain[d].row # NoJob => Landed(drain[d].row)
  /\ \A w \in Workers : run[w].at = "log" /\ run[w].id \in RowJobs => certified[run[w].id] > 0
  /\ \A i \in DOMAIN failed : failed[i] \in RowJobs => failed[i] \in gaveUp

\* A job that has landed stays so if nothing else moves back.
LEMMA LandedStays ==
  ASSUME QueueTypeOK, QueueTypeOK', PromisesInv,
         \A r \in RowJobs : certified'[r] >= certified[r],
         gaveUp \subseteq gaveUp',
         \A r \in RowJobs : job[r].state # "absent" => Landed(r)'
  PROVE  \A r \in RowJobs : Landed(r) => Landed(r)'
BY DEF Landed, QueueTypeOK

LEMMA PromisesStep ==
  CertificatesInv /\ CertificatesInv' /\ PromisesInv /\ [CertificatesNext]_certificatesVars
    => PromisesInv'
<1> SUFFICES ASSUME CertificatesInv, CertificatesInv', PromisesInv,
                    [CertificatesNext]_certificatesVars
             PROVE  PromisesInv'
  OBVIOUS
<1> USE DEF dispatchVars, queueVars, historyVars
<1>0. QueueTypeOK /\ QueueTypeOK' /\ DrainsClaimRows
  BY DEF CertificatesInv
<1>a. \A n \in Nat : n >= n
  OBVIOUS
<1>b. RowJobs \subseteq JobId /\ NoJob \notin JobId
  BY JobIds
<1>1. ASSUME UNCHANGED <<dispatched, drain, job, failed, run, certified, gaveUp>> PROVE PromisesInv'
  BY <1>1 DEF PromisesInv, Landed
<1>2. ASSUME NEW d \in Dispatchers, Claim(d) \/ Mark(d) \/ MarkFails(d) \/ DispatcherDies(d)
      PROVE  PromisesInv'
  <2>1. UNCHANGED <<job, failed, run, certified, gaveUp>>
    BY <1>2 DEF Claim, Mark, MarkFails, DispatcherDies
  <2>2. \A e \in Dispatchers : drain'[e].row = drain[e].row \/ drain'[e].row = NoJob
    BY <1>0, <1>2 DEF Claim, Mark, MarkFails, DispatcherDies, QueueTypeOK, Drain, NoDrain
  <2>3. dispatched' = dispatched
        \/ (drain[d].row # NoJob /\ dispatched' = dispatched \cup {drain[d].row})
    BY <1>2 DEF Claim, Mark, MarkFails, DispatcherDies
  <2> QED
    BY <2>1, <2>2, <2>3 DEF PromisesInv, Landed
<1>3. ASSUME NEW d \in Dispatchers, NEW r \in RowJobs, Enqueue(d, r) \/ EnqueueFails(d, r)
      PROVE  PromisesInv'
  <2> DEFINE c == outbox[r[1]][r[2]]
  <2>1. c \in Owner
    BY <1>3, ClaimedIsPromised DEF Enqueue, EnqueueFails, CertificatesInv, Owner
  <2>2. \A k \in JobId : job[k].state # "absent" => job'[k].state # "absent"
    BY <1>0, <1>3, <1>b, <2>1, AddJobType DEF Enqueue, EnqueueFails
  <2>3. UNCHANGED <<dispatched, failed, run, certified, gaveUp>>
    BY <1>3 DEF Enqueue, EnqueueFails
  <2>4. \A k \in RowJobs : Landed(k) => Landed(k)'
    BY <1>b, <2>2, <2>3 DEF Landed
  <2>5. Enqueue(d, r) => Landed(r)'
    BY <1>0, <1>b, <2>1, AddJobType DEF Enqueue, Landed
  <2>6. \A e \in Dispatchers : drain'[e].row = drain[e].row \/ (Enqueue(d, r) /\ drain'[e].row = r)
    BY <1>0, <1>3 DEF Enqueue, EnqueueFails, QueueTypeOK, Drain
  <2>7. \A e \in Dispatchers : drain[e].row # NoJob => drain[e].row \in RowJobs
    BY <1>0 DEF QueueTypeOK, Drain
  <2> QED
    BY <1>0, <2>3, <2>4, <2>5, <2>6, <2>7 DEF PromisesInv, QueueTypeOK
<1>4. ASSUME UNCHANGED <<dispatched, drain>>,
             \A r \in RowJobs : Landed(r) => Landed(r)',
             \A w \in Workers : run'[w].at = "log" /\ run'[w].id \in RowJobs
                                  => certified'[run'[w].id] > 0,
             \A i \in DOMAIN failed' : failed'[i] \in RowJobs => failed'[i] \in gaveUp'
      PROVE  PromisesInv'
  <2>1. \A e \in Dispatchers : drain[e].row # NoJob => drain[e].row \in RowJobs
    BY <1>0 DEF QueueTypeOK, Drain
  <2> QED
    BY <1>0, <1>4, <2>1 DEF PromisesInv, QueueTypeOK
<1>5. ASSUME NEW p \in Pieces, Regenerate(p) PROVE PromisesInv'
  <2>1. piece[p].owner \in Owner /\ <<p, 0>> \in JobId \ RowJobs
    BY JobIds DEF CertificatesInv, IInv, TypeOK
  <2>2. \A r \in RowJobs : job'[r] = job[r]
    BY <1>0, <1>5, <1>b, <2>1, AddJobType DEF Regenerate
  <2> QED
    BY <1>0, <1>4, <1>5, <2>2 DEF Regenerate, Landed, PromisesInv
<1>6. ASSUME NEW w \in Workers, NEW id \in JobId, Take(w, id) PROVE PromisesInv'
  <2>1. \A r \in RowJobs : job'[r].state = job[r].state \/ job'[r].state = "active"
    BY <1>0, <1>6, <1>b DEF Take, QueueTypeOK, Job
  <2>2. \A v \in Workers : run'[v] = run[v] \/ run'[v].at = "render"
    BY <1>0, <1>6 DEF Take, QueueTypeOK
  <2>3. \A r \in RowJobs : Landed(r) => Landed(r)'
    BY <1>6, <2>1 DEF Take, Landed
  <2>4. UNCHANGED <<dispatched, drain, failed, certified, gaveUp>>
    BY <1>6 DEF Take
  <2> QED
    BY <1>4, <2>2, <2>3, <2>4 DEF PromisesInv
<1>7. ASSUME NEW w \in Workers, Issue(w) PROVE PromisesInv'
  <2> DEFINE id == run[w].id
  <2>1. \A r \in RowJobs : /\ certified'[r] >= certified[r]
                           /\ certified[r] > 0 => certified'[r] > 0
                           /\ r = id => certified'[r] > 0
    BY <1>0, <1>7 DEF Issue, QueueTypeOK
  <2>2. UNCHANGED <<dispatched, drain, job, failed, gaveUp>>
    BY <1>7 DEF Issue
  <2>3. \A r \in RowJobs : Landed(r) => Landed(r)'
    BY <1>0, <2>1, <2>2 DEF Landed, QueueTypeOK
  <2>4. \A v \in Workers : run'[v] = run[v] \/ run'[v].id = id
    BY <1>0, <1>7 DEF Issue, QueueTypeOK, Run
  <2>5. \A v \in Workers : run'[v].at = "log" /\ run'[v].id \in RowJobs
                                  => certified'[run'[v].id] > 0
    <3>1. \A v \in Workers : run[v].at = "log" /\ run[v].id \in RowJobs
                              => certified'[run[v].id] > 0
      BY <2>1 DEF PromisesInv
    <3> QED
      BY <2>1, <2>4, <3>1
  <2> QED
    BY <1>4, <2>2, <2>3, <2>5 DEF PromisesInv
<1>8. ASSUME NEW w \in Workers, Finish(w) PROVE PromisesInv'
  <2>1. /\ run' = [run EXCEPT ![w] = Free]
        /\ UNCHANGED <<dispatched, drain, failed, certified, gaveUp>>
    BY <1>8 DEF Finish
  <2>2. \A k \in JobId : k = run[w].id \/ job'[k] = job[k]
    BY <1>0, <1>8 DEF Finish, QueueTypeOK
  <2>3. run[w].id \in RowJobs => certified[run[w].id] > 0
    BY <1>8 DEF Finish, PromisesInv
  <2>4. \A r \in RowJobs : Landed(r) => Landed(r)'
    BY <1>b, <2>1, <2>2, <2>3 DEF Landed
  <2>5. \A v \in Workers : run'[v] = run[v] \/ run'[v].at = "idle"
    BY <1>0, <2>1, LetGo, FreeIsRun DEF Free, QueueTypeOK
  <2> QED
    BY <1>4, <2>1, <2>4, <2>5 DEF PromisesInv
<1>9. ASSUME NEW id \in JobId, UNCHANGED <<dispatched, drain, certified>>,
             \A v \in Workers : run'[v] = run[v] \/ run'[v].at = "idle",
             \/ BuryJob(id)
             \/ /\ UNCHANGED <<failed, gaveUp>>
                /\ \A k \in JobId : job'[k].state = job[k].state \/ job'[k].state = "waiting"
      PROVE  PromisesInv'
  <2>1. CASE BuryJob(id)
    <3>1. /\ gaveUp' = gaveUp \cup Row(id)
          /\ \A i \in DOMAIN failed' :
              failed'[i] = id \/ \E k \in DOMAIN failed : failed'[i] = failed[k]
          /\ \A k \in JobId : \/ job'[k] = job[k]
                              \/ k = id
                              \/ job'[k] = Absent /\ \E i \in DOMAIN failed : k = failed[i]
      BY <1>0, <2>1, BuryJobFacts
    <3>2. \A i \in DOMAIN failed' : failed'[i] \in RowJobs => failed'[i] \in gaveUp'
      BY <3>1, RowOf DEF PromisesInv
    <3>3. \A r \in RowJobs : Landed(r) => Landed(r)'
      BY <1>9, <1>b, <3>1, RowOf DEF PromisesInv, Landed
    <3> QED
      BY <1>4, <1>9, <3>2, <3>3 DEF PromisesInv
  <2>2. CASE /\ UNCHANGED <<failed, gaveUp>>
             /\ \A k \in JobId : job'[k].state = job[k].state \/ job'[k].state = "waiting"
    <3>1. \A r \in RowJobs : Landed(r) => Landed(r)'
      BY <1>9, <1>b, <2>2 DEF Landed
    <3> QED
      BY <1>4, <1>9, <2>2, <3>1 DEF PromisesInv
  <2> QED
    BY <1>9, <2>1, <2>2
<1>10. ASSUME NEW w \in Workers, Fail(w) PROVE PromisesInv'
  <2>1. \A v \in Workers : run'[v] = run[v] \/ run'[v].at = "idle"
    BY <1>0, <1>10, LetGo DEF Free, Fail
  <2>2. run[w].id \in JobId
    BY <1>0, <1>10 DEF Fail, QueueTypeOK, Run
  <2>3. \/ BuryJob(run[w].id)
        \/ /\ UNCHANGED <<failed, gaveUp>>
           /\ \A k \in JobId : job'[k].state = job[k].state \/ job'[k].state = "waiting"
    BY <1>0, <1>10, <2>2 DEF Fail, QueueTypeOK, Job
  <2> QED
    BY <1>9, <1>10, <2>1, <2>2, <2>3 DEF Fail
<1>11. ASSUME NEW w \in Workers, WorkerDies(w) PROVE PromisesInv'
  <2>1. \A v \in Workers : run'[v] = run[v] \/ run'[v].at = "idle"
    BY <1>0, <1>11, LetGo DEF Free, WorkerDies
  <2> QED
    BY <1>4, <1>11, <2>1 DEF WorkerDies, PromisesInv, Landed
<1>12. ASSUME NEW id \in JobId, Stall(id) PROVE PromisesInv'
  <2>1. \/ BuryJob(id)
        \/ /\ UNCHANGED <<failed, gaveUp>>
           /\ \A k \in JobId : job'[k].state = job[k].state \/ job'[k].state = "waiting"
    BY <1>0, <1>12 DEF Stall, QueueTypeOK, Job
  <2> QED
    BY <1>9, <1>12, <2>1 DEF Stall
<1>13. CASE Transact \/ LeaseExpires \/ UNCHANGED certificatesVars
  BY <1>1, <1>13 DEF Transact, LeaseExpires, certificatesVars
<1> QED
  BY <1>2, <1>3, <1>5, <1>6, <1>7, <1>8, <1>10, <1>11, <1>12, <1>13
     DEF CertificatesNext, Dispatch, Work

\* A row marked dispatched is never lost, for any number of dispatchers and
\* workers and wherever they die.
THEOREM PromisesAreKept == CertificatesSpec => []PromisesKept
<1>1. CertificatesInit => PromisesInv
  BY DEF CertificatesInit, PromisesInv, NoDrain, Free
<1>2. PromisesInv => PromisesKept
  BY DEF PromisesInv, PromisesKept, Landed
<1> QED
  BY <1>1, <1>2, PromisesStep, CertificatesInvariant, PTL DEF CertificatesSpec

-----------------------------------------------------------------------------
(* An undisturbed row is certified once. *)

\* One dispatcher at a time has the row, under the lease and before it is
\* marked; it reaches the queue from there only; and one worker, the one with
\* the lock, has its job.
Orderly(r) ==
  /\ \A w \in Workers : run[w].id = r => /\ job[r].state = "active"
                                         /\ job[r].lock = w
                                         /\ run[w].at = "render" => certified[r] = 0
  /\ job[r].state = "waiting" => certified[r] = 0
  /\ \A d \in Dispatchers :
       r \in drain[d].rows \/ drain[d].row = r => lease /\ r \notin dispatched
  /\ \A d, e \in Dispatchers :
       /\ r \in drain[d].rows => drain[e].row # r
       /\ r \in drain[d].rows /\ r \in drain[e].rows => d = e
       /\ drain[d].row = r /\ drain[e].row = r => d = e
  /\ r \notin dispatched /\ (\A d \in Dispatchers : drain[d].row # r)
       => job[r].state = "absent" /\ certified[r] = 0
  /\ certified[r] \in {0, 1}

OnceInv ==
  /\ \A r \in RowJobs \ disturbed : Orderly(r)
  /\ \A i \in DOMAIN failed : failed[i] \in RowJobs => failed[i] \in disturbed

LEMMA OnceStep ==
  CertificatesInv /\ OnceInv /\ [CertificatesNext]_certificatesVars => OnceInv'
<1> SUFFICES ASSUME CertificatesInv, OnceInv, [CertificatesNext]_certificatesVars
             PROVE  OnceInv'
  OBVIOUS
<1> USE DEF dispatchVars, queueVars, historyVars
<1>0. QueueTypeOK
  BY DEF CertificatesInv
<1>a. RowJobs \subseteq JobId /\ NoJob \notin RowJobs
  BY JobIds
<1>b. \A r \in RowJobs \ disturbed : Orderly(r)
  BY DEF OnceInv
<1>1. ASSUME UNCHANGED <<job, failed, run, certified, dispatched, lease, drain, disturbed>>
      PROVE  OnceInv'
  BY <1>1 DEF OnceInv, Orderly
<1>2. ASSUME NEW d \in Dispatchers, Claim(d) PROVE OnceInv'
  <2>1. \A e \in Dispatchers :
          drain'[e].row = drain[e].row /\ (e # d => drain'[e].rows = drain[e].rows)
    BY <1>0, <1>2 DEF Claim, QueueTypeOK, Drain
  <2>2. drain'[d].rows = Rows \ dispatched /\ lease' /\ ~lease
    BY <1>0, <1>2 DEF Claim, QueueTypeOK, Drain
  <2>3. UNCHANGED <<job, failed, run, certified, dispatched, disturbed>>
    BY <1>2 DEF Claim
  <2>4. ASSUME NEW r \in RowJobs \ disturbed PROVE Orderly(r)'
    BY <1>b, <2>1, <2>2, <2>3, <2>4 DEF Orderly
  <2> QED
    BY <2>3, <2>4 DEF OnceInv
<1>3. CASE LeaseExpires
  <2>1. UNCHANGED <<job, failed, run, certified, dispatched, drain>> /\ disturbed \subseteq disturbed'
    BY <1>3 DEF LeaseExpires
  <2>2. ASSUME NEW r \in RowJobs, r \notin disturbed'
        PROVE  Orderly(r)'
    <3>1. \A d \in Dispatchers : r \notin drain[d].rows /\ drain[d].row # r
      BY <1>3, <2>2 DEF LeaseExpires, InHand, Row
    <3> QED
      BY <1>b, <2>1, <2>2, <3>1 DEF Orderly
  <2> QED
    BY <2>1, <2>2 DEF OnceInv
<1>4. ASSUME NEW d \in Dispatchers, NEW q \in RowJobs, Enqueue(d, q) \/ EnqueueFails(d, q)
      PROVE  OnceInv'
  <2> DEFINE c == outbox[q[1]][q[2]]
  <2>1. q \in drain[d].rows /\ c \in Owner
    BY <1>4, ClaimedIsPromised DEF Enqueue, EnqueueFails, CertificatesInv, Owner
  <2>2. \A k \in JobId : k # q => job'[k] = job[k]
    BY <1>0, <1>4, <1>a, <2>1, AddJobType DEF Enqueue, EnqueueFails
  <2>3. UNCHANGED <<failed, run, certified, dispatched, lease>> /\ disturbed \subseteq disturbed'
    BY <1>4 DEF Enqueue, EnqueueFails
  <2>4. /\ \A e \in Dispatchers \ {d} : drain'[e] = drain[e]
        /\ drain'[d].rows = drain[d].rows \ {q}
        /\ drain[d].row = NoJob
        /\ drain'[d].row \in {q, NoJob}
    BY <1>0, <1>4 DEF Enqueue, EnqueueFails, QueueTypeOK, Drain
  <2>5. ASSUME NEW r \in RowJobs, r \notin disturbed', r # q PROVE Orderly(r)'
    <3>1. Orderly(r) /\ job'[r] = job[r]
      BY <1>a, <1>b, <2>2, <2>3, <2>5
    <3>2. \A e \in Dispatchers : /\ r \in drain'[e].rows <=> r \in drain[e].rows
                                 /\ drain'[e].row = r <=> drain[e].row = r
      BY <1>a, <2>4, <2>5
    <3> QED
      BY <2>3, <3>1, <3>2 DEF Orderly
  <2>6. ASSUME q \notin disturbed' PROVE Orderly(q)'
    <3>1. Enqueue(d, q) /\ Orderly(q)
      BY <1>4, <1>b, <2>3, <2>6 DEF EnqueueFails
    <3>2. drain'[d].row = q
      BY <1>0, <3>1 DEF Enqueue, QueueTypeOK, Drain
    <3>3. job[q].state = "absent" /\ certified[q] = 0
      BY <2>1, <3>1 DEF Orderly
    <3>4. job'[q].state = "waiting"
      BY <1>0, <1>a, <3>1, <3>3, AbsentIsJob DEF Enqueue, AddJob, QueueTypeOK, Absent
    <3>5. \A w \in Workers : run[w].id # q
      BY <3>1, <3>3 DEF Orderly
    <3>6. \A e \in Dispatchers \ {d} : q \notin drain'[e].rows /\ drain'[e].row # q
      BY <2>1, <2>4, <3>1 DEF Orderly
    <3>7. lease /\ q \notin dispatched
      BY <2>1, <3>1 DEF Orderly
    <3> QED
      BY <2>3, <2>4, <3>2, <3>3, <3>4, <3>5, <3>6, <3>7 DEF Orderly
  <2> QED
    BY <2>3, <2>5, <2>6 DEF OnceInv
<1>5. ASSUME NEW d \in Dispatchers, Mark(d) PROVE OnceInv'
  <2>1. /\ \A e \in Dispatchers \ {d} : drain'[e] = drain[e]
        /\ drain'[d].rows = drain[d].rows
        /\ drain'[d].row = NoJob
        /\ dispatched' = dispatched \cup {drain[d].row}
    BY <1>0, <1>5 DEF Mark, QueueTypeOK, Drain
  <2>2. UNCHANGED <<job, failed, run, certified, lease, disturbed>>
    BY <1>5 DEF Mark
  <2>3. ASSUME NEW r \in RowJobs \ disturbed, drain[d].row = r PROVE Orderly(r)'
    <3>1. Orderly(r) /\ r \in dispatched'
      BY <1>b, <2>1, <2>3
    <3>2. \A e \in Dispatchers : r \notin drain'[e].rows /\ drain'[e].row # r
      BY <1>a, <2>1, <2>3, <3>1 DEF Orderly
    <3> QED
      BY <2>2, <3>1, <3>2 DEF Orderly
  <2>4. ASSUME NEW r \in RowJobs \ disturbed, drain[d].row # r PROVE Orderly(r)'
    <3>1. Orderly(r) /\ (r \in dispatched' <=> r \in dispatched)
      BY <1>b, <2>1, <2>4
    <3>2. \A e \in Dispatchers : /\ r \in drain'[e].rows <=> r \in drain[e].rows
                                 /\ drain'[e].row = r <=> drain[e].row = r
      BY <1>a, <2>1, <2>4
    <3> QED
      BY <2>2, <3>1, <3>2 DEF Orderly
  <2> QED
    BY <2>2, <2>3, <2>4 DEF OnceInv
<1>6. ASSUME NEW d \in Dispatchers, MarkFails(d) \/ DispatcherDies(d) PROVE OnceInv'
  <2>1. /\ \A e \in Dispatchers \ {d} : drain'[e] = drain[e]
        /\ drain'[d].rows \subseteq drain[d].rows
        /\ drain'[d].row = NoJob
    BY <1>0, <1>6 DEF MarkFails, DispatcherDies, QueueTypeOK, Drain, NoDrain
  <2>2. UNCHANGED <<job, failed, run, certified, dispatched, lease>> /\ disturbed \subseteq disturbed'
    BY <1>6 DEF MarkFails, DispatcherDies
  <2>3. ASSUME NEW r \in RowJobs, r \notin disturbed' PROVE Orderly(r)'
    <3>1. Orderly(r) /\ drain[d].row # r
      BY <1>6, <1>b, <2>2, <2>3 DEF MarkFails, DispatcherDies, InHand, Row
    <3>2. \A e \in Dispatchers : /\ r \in drain'[e].rows => r \in drain[e].rows
                                 /\ drain'[e].row = r <=> drain[e].row = r
      BY <1>a, <2>1, <3>1
    <3> QED
      BY <2>2, <3>1, <3>2 DEF Orderly
  <2> QED
    BY <2>2, <2>3 DEF OnceInv
<1>7. ASSUME NEW p \in Pieces, Regenerate(p) PROVE OnceInv'
  <2>1. piece[p].owner \in Owner /\ <<p, 0>> \in JobId \ RowJobs
    BY JobIds DEF CertificatesInv, IInv, TypeOK
  <2>2. \A r \in RowJobs : job'[r] = job[r]
    BY <1>0, <1>7, <1>a, <2>1, AddJobType DEF Regenerate
  <2>3. UNCHANGED <<failed, run, certified, dispatched, lease, drain, disturbed>>
    BY <1>7 DEF Regenerate
  <2> QED
    BY <1>b, <2>2, <2>3 DEF OnceInv, Orderly
<1>8. ASSUME NEW w \in Workers, NEW id \in JobId, Take(w, id) PROVE OnceInv'
  <2>1. /\ \A k \in JobId \ {id} : job'[k] = job[k]
        /\ job[id].state = "waiting" /\ job'[id].state = "active" /\ job'[id].lock = w
    BY <1>0, <1>8 DEF Take, QueueTypeOK, Job
  <2>2. /\ \A v \in Workers \ {w} : run'[v] = run[v]
        /\ run'[w].id = id /\ run[w].id = NoJob
    BY <1>0, <1>8 DEF Take, QueueTypeOK
  <2>3. UNCHANGED <<failed, certified, dispatched, lease, drain, disturbed>>
    BY <1>8 DEF Take
  <2>4. ASSUME NEW r \in RowJobs \ disturbed PROVE Orderly(r)'
    <3>1. Orderly(r)
      BY <1>b
    <3>2. CASE r = id
      <4>1. certified[r] = 0 /\ \A v \in Workers : run[v].id # r
        BY <2>1, <3>1, <3>2 DEF Orderly
      <4> QED
        BY <2>1, <2>2, <2>3, <3>1, <3>2, <4>1 DEF Orderly
    <3>3. CASE r # id
      <4>1. job'[r] = job[r]
        BY <1>a, <2>1, <3>3
      <4>2. \A v \in Workers : /\ run'[v].id = r => run'[v] = run[v]
                               /\ run'[v].id = r <=> run[v].id = r
        BY <1>a, <2>2, <3>3
      <4> QED
        BY <2>3, <3>1, <4>1, <4>2 DEF Orderly
    <3> QED
      BY <3>2, <3>3
  <2> QED
    BY <2>3, <2>4 DEF OnceInv
<1>9. ASSUME NEW w \in Workers, Issue(w) PROVE OnceInv'
  <2>1. /\ \A r \in RowJobs : r # run[w].id => certified'[r] = certified[r]
        /\ run[w].id \in RowJobs /\ certified[run[w].id] = 0 => certified'[run[w].id] = 1
        /\ run[w].at = "render"
    BY <1>0, <1>9 DEF Issue, QueueTypeOK
  <2>2. /\ \A v \in Workers \ {w} : run'[v] = run[v]
        /\ run'[w].id = run[w].id /\ run'[w].at = "log"
    BY <1>0, <1>9 DEF Issue, QueueTypeOK, Run
  <2>3. UNCHANGED <<job, failed, dispatched, lease, drain, disturbed>>
    BY <1>9 DEF Issue
  <2>4. ASSUME NEW r \in RowJobs \ disturbed PROVE Orderly(r)'
    <3>1. Orderly(r)
      BY <1>b
    <3>2. CASE r = run[w].id
      <4>1. certified[r] = 0 /\ certified'[r] = 1
        BY <2>1, <3>1, <3>2 DEF Orderly
      <4>2. job[r].state = "active" /\ \A v \in Workers : run[v].id = r => v = w
        BY <3>1, <3>2 DEF Orderly
      <4> QED
        BY <2>2, <2>3, <3>1, <3>2, <4>1, <4>2 DEF Orderly
    <3>3. CASE r # run[w].id
      <4>1. certified'[r] = certified[r]
        BY <2>1, <3>3
      <4>2. \A v \in Workers : /\ run'[v].id = r => run'[v] = run[v]
                               /\ run'[v].id = r <=> run[v].id = r
        BY <2>2, <3>3
      <4> QED
        BY <2>3, <3>1, <4>1, <4>2 DEF Orderly
    <3> QED
      BY <3>2, <3>3
  <2> QED
    BY <2>3, <2>4 DEF OnceInv
<1>10. ASSUME NEW w \in Workers, Finish(w) PROVE OnceInv'
  <2>1. /\ \A v \in Workers \ {w} : run'[v] = run[v]
        /\ run'[w].id = NoJob
    BY <1>0, <1>10 DEF Finish, QueueTypeOK, Free
  <2>2. /\ \A k \in JobId : k # run[w].id => job'[k] = job[k]
        /\ HasLock(w) /\ run[w].id \in JobId => job'[run[w].id].state = "absent"
    BY <1>0, <1>10, AbsentIsJob DEF Finish, QueueTypeOK, Absent
  <2>3. UNCHANGED <<failed, certified, dispatched, lease, drain, disturbed>>
    BY <1>10 DEF Finish
  <2>4. ASSUME NEW r \in RowJobs \ disturbed PROVE Orderly(r)'
    <3>1. Orderly(r)
      BY <1>b
    <3>2. CASE r = run[w].id
      <4>1. job[r].state = "active" /\ \A v \in Workers : run[v].id = r => v = w
        BY <3>1, <3>2 DEF Orderly
      <4>2. HasLock(w)
        BY <3>1, <3>2 DEF Orderly, HasLock
      <4>3. job'[r].state = "absent" /\ \A v \in Workers : run'[v].id # r
        BY <1>a, <2>1, <2>2, <3>2, <4>1, <4>2
      <4> QED
        BY <2>3, <3>1, <4>1, <4>3 DEF Orderly
    <3>3. CASE r # run[w].id
      <4>1. job'[r] = job[r]
        BY <1>a, <2>2, <3>3
      <4>2. \A v \in Workers : /\ run'[v].id = r => run'[v] = run[v]
                               /\ run'[v].id = r <=> run[v].id = r
        BY <1>a, <2>1, <3>3
      <4> QED
        BY <2>3, <3>1, <4>1, <4>2 DEF Orderly
    <3> QED
      BY <3>2, <3>3
  <2> QED
    BY <2>3, <2>4 DEF OnceInv
<1>11. ASSUME NEW id, UNCHANGED <<certified, dispatched, lease, drain>>,
              disturbed' = disturbed \cup Row(id),
              \A v \in Workers : run'[v] = run[v] \/ run'[v].id = NoJob,
              \A v \in Workers : run[v].id # id => run'[v] = run[v],
              \/ id \in JobId /\ BuryJob(id)
              \/ /\ UNCHANGED failed
                 /\ \A k \in JobId : k # id => job'[k] = job[k]
       PROVE  OnceInv'
  <2>1. \A i \in DOMAIN failed' : failed'[i] \in RowJobs => failed'[i] \in disturbed'
    BY <1>0, <1>11, BuryJobFacts, RowOf DEF OnceInv
  <2>2. ASSUME NEW r \in RowJobs, r \notin disturbed' PROVE Orderly(r)'
    <3>1. r # id /\ Orderly(r)
      BY <1>11, <1>b, <2>2, RowOf
    <3>2. job'[r] = job[r]
      BY <1>0, <1>11, <1>a, <2>2, <3>1, BuryJobFacts DEF OnceInv
    <3>3. \A v \in Workers : /\ run'[v].id = r => run'[v] = run[v]
                             /\ run'[v].id = r <=> run[v].id = r
      BY <1>11, <1>a, <3>1
    <3> QED
      BY <1>11, <3>1, <3>2, <3>3 DEF Orderly
  <2> QED
    BY <2>1, <2>2 DEF OnceInv
<1>12. ASSUME NEW w \in Workers, Fail(w) \/ WorkerDies(w) PROVE OnceInv'
  <2>1. \A v \in Workers : /\ run'[v] = run[v] \/ run'[v].id = NoJob
                           /\ run[v].id # run[w].id => run'[v] = run[v]
    BY <1>0, <1>12 DEF Fail, WorkerDies, QueueTypeOK, Free
  <2>2. run[w].id \in JobId
    BY <1>0, <1>12 DEF Fail, WorkerDies, QueueTypeOK, Run
  <2>3. \/ BuryJob(run[w].id)
        \/ /\ UNCHANGED failed
           /\ \A k \in JobId : k # run[w].id => job'[k] = job[k]
    BY <1>0, <1>12, <2>2 DEF Fail, WorkerDies, QueueTypeOK
  <2>4. UNCHANGED <<certified, dispatched, lease, drain>> /\ disturbed' = disturbed \cup Row(run[w].id)
    BY <1>12 DEF Fail, WorkerDies
  <2> QED
    BY <1>11, <2>1, <2>2, <2>3, <2>4
<1>13. ASSUME NEW id \in JobId, Stall(id) PROVE OnceInv'
  <2>1. \/ BuryJob(id)
        \/ /\ UNCHANGED failed
           /\ \A k \in JobId : k # id => job'[k] = job[k]
    BY <1>0, <1>13 DEF Stall, QueueTypeOK
  <2>2. UNCHANGED <<certified, dispatched, lease, drain, run>> /\ disturbed' = disturbed \cup Row(id)
    BY <1>13 DEF Stall
  <2> QED
    BY <1>11, <2>1, <2>2
<1>14. CASE Transact \/ UNCHANGED certificatesVars
  BY <1>1, <1>14 DEF Transact, certificatesVars
<1> QED
  BY <1>2, <1>3, <1>4, <1>5, <1>6, <1>7, <1>8, <1>9, <1>10, <1>12, <1>13, <1>14
     DEF CertificatesNext, Dispatch, Work

\* A row that met no crash, no failed call and no dispatcher that outlived its
\* lease is certified at most once, however many crons and workers there are.
THEOREM UndisturbedCertifiedOnce == CertificatesSpec => []CertifiedOnce
<1>1. CertificatesInit => OnceInv
  BY JobIds DEF CertificatesInit, OnceInv, Orderly, NoDrain, Free, Absent
<1>2. OnceInv => CertifiedOnce
  BY DEF OnceInv, Orderly, CertifiedOnce
<1> QED
  BY <1>1, <1>2, OnceStep, CertificatesInvariant, PTL DEF CertificatesSpec
===============================================================================
