----------------------------- MODULE Certificates -----------------------------
(***************************************************************************)
(* How a promised certificate comes to be issued.  A transaction that      *)
(* moves a piece leaves a CertificateOutbox row (Ownership, Convey); a     *)
(* cron job under a Redis lease claims the rows not yet dispatched and     *)
(* enqueues a job for each; a worker takes the job, renders the document   *)
(* and commits the certificate.  An administrator may ask for a            *)
(* regeneration, which goes to the queue directly.                         *)
(*                                                                         *)
(* Processes die, calls to Redis and the database fail or lose their       *)
(* answer, and a dispatcher may outlive its lease.  The queue is BullMQ,   *)
(* modelled from the options the code gives it: a job whose id is taken is *)
(* not added again, a completed job disappears, of the failed ones the     *)
(* latest KeepFailed are kept, and a job whose worker no longer renews its *)
(* lock goes back to the queue once and fails the second time.             *)
(***************************************************************************)
EXTENDS Ownership, FiniteSets

CONSTANTS Dispatchers,  \* drains that can be under way at the same time
          Workers,      \* certificate processors, one per API instance
          MaxRows,      \* bound: outbox rows per piece
          MaxAttempts,  \* the job option attempts: 5 in the code
          KeepFailed,   \* the job option removeOnFail: 50 in the code
          NoJob,        \* nothing in hand
          NoWorker      \* nobody's lock

ASSUME BoundsAssumption ==
  /\ MaxRows \in Nat
  /\ MaxAttempts \in Nat \ {0}
  /\ KeepFailed \in Nat \ {0}

\* The job of the i-th outbox row of a piece, and the regeneration job.
RowJobs == Pieces \X (1..MaxRows)
Regenerations == Pieces \X {0}
JobId == RowJobs \cup Regenerations

ASSUME NoJobAssumption == NoJob \notin Pieces \X Nat

ASSUME NoWorkerAssumption == NoWorker \notin Workers

VARIABLES dispatched,  \* the outbox rows whose dispatchedAt is set
          lease,       \* the cron lease certificates:outbox-dispatch is held
          drain,       \* per dispatcher: rows claimed, and the one enqueued
          job,         \* the queue
          failed,      \* the failed jobs it keeps, oldest first
          run,         \* what each worker is at
          certified,   \* history: per row, certificates issued, counted to 2
          gaveUp,      \* history: the rows whose job's attempts ran out
          disturbed    \* history: the rows that met a fault

queueVars == <<job, failed>>
historyVars == <<certified, gaveUp, disturbed>>
dispatchVars == <<dispatched, lease, drain>>
certificatesVars == <<ownershipVars, dispatchVars, queueVars, run, historyVars>>

-----------------------------------------------------------------------------
(* The tables. *)

Rows == {r \in RowJobs : r[2] \in DOMAIN outbox[r[1]]}

\* The row a job is for; a regeneration is for none.
Row(id) == {id} \cap RowJobs

\* The rows a dispatcher has claimed and not done with.
InHand(d) == drain[d].rows \cup Row(drain[d].row)

NoDrain == [rows |-> {}, row |-> NoJob]

Absent == [state |-> "absent", tries |-> 0, stalled |-> FALSE, client |-> NoClient,
           lock |-> NoWorker]

Free == [at |-> "idle", id |-> NoJob, client |-> NoClient]

CertificatesTypeOK ==
  /\ TypeOK
  /\ dispatched \in SUBSET RowJobs
  /\ lease \in BOOLEAN
  /\ drain \in [Dispatchers -> [rows : SUBSET RowJobs, row : RowJobs \cup {NoJob}]]
  /\ job \in [JobId -> [state : {"absent", "waiting", "active", "failed"},
                        tries : 0..MaxAttempts, stalled : BOOLEAN, client : Owner,
                        lock : Workers \cup {NoWorker}]]
  /\ failed \in Seq(JobId)
  /\ run \in [Workers -> [at : {"idle", "render", "log"},
                          id : JobId \cup {NoJob}, client : Owner]]
  /\ certified \in [RowJobs -> 0..2]
  /\ gaveUp \in SUBSET RowJobs
  /\ disturbed \in SUBSET RowJobs

-----------------------------------------------------------------------------
(* The queue. *)

\* queue.add: a job that exists in whatever state, failed included, absorbs it.
AddJob(id, c) ==
  job' = IF job[id].state = "absent"
           THEN [job EXCEPT ![id] = [Absent EXCEPT !.state = "waiting", !.client = c]]
           ELSE job

\* A job fails for good; the oldest failed job beyond KeepFailed is deleted.
BuryJob(id) ==
  LET kept == Append(failed, id)
      dead == [job EXCEPT ![id].state = "failed"]
  IN
  /\ gaveUp' = gaveUp \cup Row(id)
  /\ IF Len(kept) <= KeepFailed
       THEN failed' = kept /\ job' = dead
       ELSE failed' = Tail(kept) /\ job' = [dead EXCEPT ![Head(kept)] = Absent]

-----------------------------------------------------------------------------
(* The dispatcher. *)

\* dispatchPending wins the lease and claimBatch takes what is undispatched;
\* the backlog is taken to fit in one batch of BATCH_SIZE rows.
Claim(d) ==
  /\ drain[d] = NoDrain
  /\ ~lease
  /\ lease' = TRUE
  /\ drain' = [drain EXCEPT ![d].rows = Rows \ dispatched]
  /\ UNCHANGED <<ownershipVars, dispatched, queueVars, run, historyVars>>

\* LEASE_SECONDS pass, whether or not the drain is over.  The rows in the
\* hands of a drain that is not over can be claimed a second time.
LeaseExpires ==
  /\ lease
  /\ lease' = FALSE
  /\ disturbed' = disturbed \cup UNION {InHand(d) : d \in Dispatchers}
  /\ UNCHANGED <<ownershipVars, dispatched, drain, queueVars, run, certified, gaveUp>>

\* Mutant: the row is marked before its job is added.
EnqueueMarked(d, r) ==
  /\ drain[d].row = NoJob
  /\ r \in drain[d].rows
  /\ drain' = [drain EXCEPT ![d].rows = @ \ {r}, ![d].row = r]
  /\ dispatched' = dispatched \cup {r}
  /\ AddJob(r, outbox[r[1]][r[2]]) \/ UNCHANGED job
  /\ UNCHANGED <<ownershipVars, lease, failed, run, historyVars>>

\* The job of a row is added, and the answer arrives.
Enqueue(d, r) ==
  /\ drain[d].row = NoJob
  /\ r \in drain[d].rows
  /\ drain' = [drain EXCEPT ![d].rows = @ \ {r}, ![d].row = r]
  /\ AddJob(r, outbox[r[1]][r[2]])
  /\ UNCHANGED <<ownershipVars, dispatched, lease, failed, run, historyVars>>

\* Mutant: dispatchedAt is written whether or not the job was added.
EnqueueFailsMarking(d, r) ==
  /\ drain[d].row = NoJob
  /\ r \in drain[d].rows
  /\ drain' = [drain EXCEPT ![d].rows = @ \ {r}]
  /\ dispatched' = dispatched \cup {r}
  /\ disturbed' = disturbed \cup {r}
  /\ UNCHANGED <<ownershipVars, lease, queueVars, run, certified, gaveUp>>

\* Redis is down, or only its answer is lost: the drain goes on to the next
\* row, and this one stays undispatched.
EnqueueFails(d, r) ==
  /\ drain[d].row = NoJob
  /\ r \in drain[d].rows
  /\ drain' = [drain EXCEPT ![d].rows = @ \ {r}]
  /\ AddJob(r, outbox[r[1]][r[2]]) \/ UNCHANGED job
  /\ disturbed' = disturbed \cup {r}
  /\ UNCHANGED <<ownershipVars, dispatched, lease, failed, run, certified, gaveUp>>

\* Mutant: dispatchedAt is left NULL.
MarkNothing(d) ==
  /\ drain[d].row # NoJob
  /\ drain' = [drain EXCEPT ![d].row = NoJob]
  /\ UNCHANGED <<ownershipVars, dispatched, lease, queueVars, run, historyVars>>

\* dispatchedAt is written.
Mark(d) ==
  /\ drain[d].row # NoJob
  /\ dispatched' = dispatched \cup {drain[d].row}
  /\ drain' = [drain EXCEPT ![d].row = NoJob]
  /\ UNCHANGED <<ownershipVars, lease, queueVars, run, historyVars>>

\* That update fails.
MarkFails(d) ==
  /\ drain[d].row # NoJob
  /\ disturbed' = disturbed \cup Row(drain[d].row)
  /\ drain' = [drain EXCEPT ![d].row = NoJob]
  /\ UNCHANGED <<ownershipVars, dispatched, lease, queueVars, run, certified, gaveUp>>

DispatcherDies(d) ==
  /\ drain[d] # NoDrain
  /\ drain' = [drain EXCEPT ![d] = NoDrain]
  /\ disturbed' = disturbed \cup InHand(d)
  /\ UNCHANGED <<ownershipVars, dispatched, lease, queueVars, run, certified, gaveUp>>

-----------------------------------------------------------------------------
(* The office. *)

\* Mutant: a piece that nobody owns is certified too.
RegenerateUnowned(p) ==
  /\ AddJob(<<p, 0>>, piece[p].owner)
  /\ UNCHANGED <<ownershipVars, dispatchVars, failed, run, historyVars>>

\* regenerate, for the present owner.  The answer is "queued" also when the
\* piece's earlier regeneration is still among the failed jobs.
Regenerate(p) ==
  /\ piece[p].owner # NoClient
  /\ AddJob(<<p, 0>>, piece[p].owner)
  /\ UNCHANGED <<ownershipVars, dispatchVars, failed, run, historyVars>>

\* The transactions of Ownership, while no piece outgrows the bound.
Transact ==
  /\ HouseStep \/ OrderStep \/ TransferStep
  /\ \A p \in Pieces : Len(outbox'[p]) <= MaxRows
  /\ UNCHANGED <<dispatchVars, queueVars, run, historyVars>>

-----------------------------------------------------------------------------
(* The workers. *)

Take(w, id) ==
  /\ run[w].at = "idle"
  /\ job[id].state = "waiting"
  /\ job' = [job EXCEPT ![id].state = "active", ![id].lock = w]
  /\ run' = [run EXCEPT ![w] = [at |-> "render", id |-> id, client |-> job[id].client]]
  /\ UNCHANGED <<ownershipVars, dispatchVars, failed, historyVars>>

\* generateCertificate commits: the piece's other certificates are put out of
\* force and this one is in force, whoever the owner is by now.
Issue(w) ==
  LET id == run[w].id IN
  /\ run[w].at = "render"
  /\ certificate' = [certificate EXCEPT ![id[1]] = run[w].client]
  /\ certified' = [r \in RowJobs |-> IF r = id /\ certified[r] < 2 THEN certified[r] + 1
                                                                   ELSE certified[r]]
  /\ run' = [run EXCEPT ![w].at = "log"]
  /\ UNCHANGED <<piece, ledger, order, transfer, outbox, dispatchVars, queueVars, gaveUp, disturbed>>

\* The worker still has the lock of the job it is at.
HasLock(w) == job[run[w].id].state = "active" /\ job[run[w].id].lock = w

\* The audit entry is written and the job completes, if it is still ours.
Finish(w) ==
  /\ run[w].at = "log"
  /\ job' = IF HasLock(w) THEN [job EXCEPT ![run[w].id] = Absent] ELSE job
  /\ run' = [run EXCEPT ![w] = Free]
  /\ UNCHANGED <<ownershipVars, dispatchVars, failed, historyVars>>

\* Mutant: the attempts have no limit.
FailWithoutLimit(w) ==
  LET id == run[w].id IN
  /\ run[w].at # "idle"
  /\ HasLock(w)
  /\ run' = [run EXCEPT ![w] = Free]
  /\ job' = [job EXCEPT ![id].state = "waiting", ![id].tries = @ + 1]
  /\ disturbed' = disturbed \cup Row(id)
  /\ UNCHANGED <<ownershipVars, dispatchVars, failed, certified, gaveUp>>

\* Rendering, the upload, the transaction or the audit entry fails: the job
\* is retried until its attempts run out.
Fail(w) ==
  LET id == run[w].id IN
  /\ run[w].at # "idle"
  /\ run' = [run EXCEPT ![w] = Free]
  /\ disturbed' = disturbed \cup Row(id)
  /\ \/ /\ HasLock(w)
        /\ job[id].tries + 1 < MaxAttempts
        /\ job' = [job EXCEPT ![id].state = "waiting", ![id].tries = @ + 1]
        /\ UNCHANGED <<failed, gaveUp>>
     \/ /\ HasLock(w)
        /\ job[id].tries + 1 >= MaxAttempts
        /\ BuryJob(id)
     \/ /\ ~HasLock(w)
        /\ UNCHANGED <<queueVars, gaveUp>>
  /\ UNCHANGED <<ownershipVars, dispatchVars, certified>>

WorkerDies(w) ==
  /\ run[w].at # "idle"
  /\ run' = [run EXCEPT ![w] = Free]
  /\ disturbed' = disturbed \cup Row(run[w].id)
  /\ UNCHANGED <<ownershipVars, dispatchVars, queueVars, certified, gaveUp>>

\* The lock of an active job runs out: its worker is dead, or a rendering
\* kept it from renewing the lock and it will go on.
Stall(id) ==
  /\ job[id].state = "active"
  /\ disturbed' = disturbed \cup Row(id)
  /\ \/ /\ ~job[id].stalled
        /\ job' = [job EXCEPT ![id].state = "waiting", ![id].stalled = TRUE]
        /\ UNCHANGED <<failed, gaveUp>>
     \/ /\ job[id].stalled
        /\ BuryJob(id)
  /\ UNCHANGED <<ownershipVars, dispatchVars, run, certified>>

-----------------------------------------------------------------------------
(* The specification. *)

CertificatesInit ==
  /\ Init
  /\ dispatched = {}
  /\ lease = FALSE
  /\ drain = [d \in Dispatchers |-> NoDrain]
  /\ job = [id \in JobId |-> Absent]
  /\ failed = <<>>
  /\ run = [w \in Workers |-> Free]
  /\ certified = [r \in RowJobs |-> 0]
  /\ gaveUp = {}
  /\ disturbed = {}

Dispatch ==
  \/ LeaseExpires
  \/ \E d \in Dispatchers :
       \/ Claim(d) \/ Mark(d) \/ MarkFails(d) \/ DispatcherDies(d)
       \/ \E r \in RowJobs : Enqueue(d, r) \/ EnqueueFails(d, r)

Work ==
  \/ \E w \in Workers :
       \/ \E id \in JobId : Take(w, id)
       \/ Issue(w) \/ Finish(w) \/ Fail(w) \/ WorkerDies(w)
  \/ \E id \in JobId : Stall(id)

CertificatesNext == Transact \/ (\E p \in Pieces : Regenerate(p)) \/ Dispatch \/ Work

CertificatesSpec == CertificatesInit /\ [][CertificatesNext]_certificatesVars

\* A job in the hands of nobody, whose stall BullMQ is bound to notice.
Orphaned(id) == job[id].state = "active" /\ \A w \in Workers : run[w].id # id

\* Cron keeps ticking and leases run out, a handler that has begun goes on
\* unless its process dies, Redis takes a row's job if it is asked for ever,
\* and the queue, which is first in first out, gives every job its turn.
\* Processes may die and calls may fail without end.
CertificatesFairness ==
  /\ WF_certificatesVars(LeaseExpires)
  /\ WF_certificatesVars(\E d \in Dispatchers : Claim(d))
  /\ \A d \in Dispatchers : WF_certificatesVars(Mark(d) \/ MarkFails(d))
  /\ \A d \in Dispatchers :
       WF_certificatesVars(\E r \in RowJobs : Enqueue(d, r) \/ EnqueueFails(d, r))
  /\ \A r \in RowJobs : SF_certificatesVars(\E d \in Dispatchers : Enqueue(d, r))
  /\ \A id \in JobId : SF_certificatesVars(\E w \in Workers : Take(w, id))
  /\ \A w \in Workers : WF_certificatesVars(Issue(w) \/ Finish(w) \/ Fail(w))
  /\ \A id \in JobId : WF_certificatesVars(Orphaned(id) /\ Stall(id))

FairCertificatesSpec == CertificatesSpec /\ CertificatesFairness

-----------------------------------------------------------------------------
(* Properties. *)

\* What the outbox is for: a row that says it was dispatched has its job in
\* the queue, or the certificate was issued, or the attempts ran out.  No
\* crash, failed call or second dispatcher loses it.
PromisesKept ==
  \A r \in dispatched : job[r].state # "absent" \/ certified[r] > 0 \/ r \in gaveUp

\* A row whose dispatch and job met no fault is certified once: the lease and
\* the job id keyed on the row make the many ticks of the cron harmless.
CertifiedOnce == \A r \in RowJobs \ disturbed : certified[r] <= 1

\* Jobs, retries and regenerations only ever do to the tables what Ownership
\* allows: whoever is certified was promised it by a transaction.
ImplementsOwnership == Spec

\* A row of the outbox is settled in the end: the certificate was issued at
\* least once, or the queue gave up after the attempts the job has.
RowsSettle == \A r \in RowJobs : r \in Rows ~> certified[r] > 0 \/ r \in gaveUp

===============================================================================
