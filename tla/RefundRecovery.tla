---------------------------- MODULE RefundRecovery ----------------------------
(***************************************************************************)
(* How money that is owed gets back to the cardholder.  A checkout that    *)
(* took money for pieces it could not deliver refunds the charge at once;  *)
(* when that fails, and when a capture or an office refund has no checkout *)
(* to see to it, a FailedRefund row is left.  A cron pass under a Redis    *)
(* lease claims the open rows, spends one of their attempts on a call to   *)
(* the gateway, and in the end hands those whose attempts are used up to   *)
(* the office, with an audit entry.                                        *)
(*                                                                         *)
(* The gateway may refuse, or accept and have its answer lost; updates     *)
(* fail; processes die; a pass may outlive its lease.  Rows are not unique *)
(* per charge, so that a charge may be refunded again: the code leaves it  *)
(* to the gateway to move the money once, by the idempotency key           *)
(* refund_<charge>.  This is assumed of the gateway here: returned holds   *)
(* the charges paid back, and nothing is concluded about how often.        *)
(***************************************************************************)
EXTENDS Naturals, FiniteSets

CONSTANTS Refunds,      \* ids of FailedRefund rows
          Charges,      \* captured charges
          Passes,       \* passes of the cron that can be under way together
          Recorders,    \* requests that leave a row without a checkout
          MaxAttempts,  \* MAX_RETRY_ATTEMPTS: 5 in the code
          NoCharge,     \* none of the charges
          NoRefund      \* none of the rows

ASSUME MaxAttemptsAssumption == MaxAttempts \in Nat \ {0}

ASSUME PassesAssumption == IsFiniteSet(Passes)

ASSUME NoneAssumption == NoCharge \notin Charges /\ NoRefund \notin Refunds

VARIABLES row,          \* FailedRefund: charge, attempts, resolvedAt set or not
          returned,     \* the gateway: the charges paid back
          lease,        \* the cron lease cart:retry-failed-refunds is held
          pass,         \* the passes under way
          compensation, \* per charge, refundFailedCheckout
          recorder,     \* the charge a recorder is about to leave a row for
          calls,        \* history: calls made for a row
          accepted,     \* history: rows for which a call was accepted
          compensated,  \* history: charges whose compensation was accepted
          handedOver,   \* history: rows with REFUND_RECOVERY_EXHAUSTED logged
          disturbed     \* history: rows that met a fault

historyVars == <<calls, accepted, compensated, handedOver, disturbed>>
refundVars == <<row, returned, lease, pass, compensation, recorder, historyVars>>

-----------------------------------------------------------------------------
(* The tables. *)

Owing(c) == [charge |-> c, attempts |-> 0, resolved |-> FALSE]

Doing(at, batch, r, ok) == [at |-> at, batch |-> batch, row |-> r, ok |-> ok]

Resting == Doing("idle", {}, NoRefund, FALSE)

RefundTypeOK ==
  /\ row \in [Refunds -> [charge : Charges \cup {NoCharge}, attempts : 0..MaxAttempts,
                          resolved : BOOLEAN]]
  /\ returned \in SUBSET Charges
  /\ lease \in BOOLEAN
  /\ pass \in [Passes -> [at : {"idle", "batch", "answer", "sweep", "close"},
                          batch : SUBSET Refunds, row : Refunds \cup {NoRefund},
                          ok : BOOLEAN]]
  /\ compensation \in [Charges -> {"none", "call", "log", "persist", "done", "dropped"}]
  /\ recorder \in [Recorders -> Charges \cup {NoCharge}]
  /\ calls \in [Refunds -> 0..MaxAttempts]
  /\ accepted \in SUBSET Refunds
  /\ compensated \in SUBSET Charges
  /\ handedOver \in SUBSET Refunds
  /\ disturbed \in SUBSET Refunds

Exists(r) == row[r].charge # NoCharge

Open(r) == Exists(r) /\ ~row[r].resolved

\* The rows a pass has claimed, or found exhausted, and not done with.
InHand(p) == pass[p].batch \cup (Refunds \cap {pass[p].row})

-----------------------------------------------------------------------------
(* The gateway. *)

\* An accepted refund: the charge is paid back, or was, which the gateway is
\* assumed to tell by the key.
PayBack(c) == returned' = returned \cup {c}

-----------------------------------------------------------------------------
(* Where rows come from. *)

\* create, by persistFailedRefund, recordUnmatchedCapture or refundOrder.
CreateRow(r, c) ==
  /\ ~Exists(r)
  /\ row' = [row EXCEPT ![r] = Owing(c)]

\* recordUnmatchedCapture, refundOrder: when the charge has no open row.
Look(k, c) ==
  /\ recorder[k] = NoCharge
  /\ ~\E r \in Refunds : Open(r) /\ row[r].charge = c
  /\ recorder' = [recorder EXCEPT ![k] = c]
  /\ UNCHANGED <<row, returned, lease, pass, compensation, historyVars>>

\* Another row may have been created since.
Record(k, r) ==
  /\ recorder[k] # NoCharge
  /\ CreateRow(r, recorder[k])
  /\ recorder' = [recorder EXCEPT ![k] = NoCharge]
  /\ UNCHANGED <<returned, lease, pass, compensation, historyVars>>

Proceed(c, from, to) ==
  /\ compensation[c] = from
  /\ compensation' = [compensation EXCEPT ![c] = to]

\* refundFailedCheckout asks for the refund.  A second return of a checkout may
\* come here again; what that adds, a rival row, the recorders add too.
Compensate(c) ==
  /\ Proceed(c, "none", "call")
  /\ UNCHANGED <<row, returned, lease, pass, recorder, historyVars>>

\* The gateway accepts, accepts unheard, or refuses.  Without a success the
\* refund is persisted, whether or not the failure could be logged.
CompensationCall(c) ==
  /\ Proceed(c, "call", "log") \/ Proceed(c, "call", "persist")
  /\ \/ PayBack(c) /\ compensated' = compensated \cup {c}
     \/ compensation'[c] = "persist" /\ UNCHANGED <<returned, compensated>>
  /\ UNCHANGED <<row, lease, pass, recorder, calls, accepted, handedOver, disturbed>>

\* The success is logged; if that throws, the refund is persisted all the same.
CompensationLog(c) ==
  /\ Proceed(c, "log", "done") \/ Proceed(c, "log", "persist")
  /\ UNCHANGED <<row, returned, lease, pass, recorder, historyVars>>

\* persistFailedRefund.
Persist(c, r) ==
  /\ Proceed(c, "persist", "done")
  /\ CreateRow(r, c)
  /\ UNCHANGED <<returned, lease, pass, recorder, historyVars>>

\* The insert fails, which only the log of the process tells, or the process
\* dies before it.
CompensationDropped(c) ==
  /\ \E from \in {"call", "log", "persist"} : Proceed(c, from, "dropped")
  /\ UNCHANGED <<row, returned, lease, pass, recorder, historyVars>>

-----------------------------------------------------------------------------
(* The passes. *)

\* Mutant: the attempt is counted only when the row is resolved or fails.
ClaimUncounted(p) ==
  /\ pass[p].at = "idle"
  /\ ~lease
  /\ lease' = TRUE
  /\ pass' = [pass EXCEPT ![p] = Doing("batch",
                {r \in Refunds : Open(r) /\ row[r].attempts < MaxAttempts}, NoRefund, FALSE)]
  /\ UNCHANGED <<row, returned, compensation, recorder, historyVars>>

\* Mutant: the limit of the attempts is off by one.
ClaimOffByOne(p) ==
  LET S == {r \in Refunds : Open(r) /\ row[r].attempts <= MaxAttempts} IN
  /\ pass[p].at = "idle"
  /\ ~lease
  /\ lease' = TRUE
  /\ row' = [r \in Refunds |-> IF r \in S THEN [row[r] EXCEPT !.attempts = @ + 1] ELSE row[r]]
  /\ pass' = [pass EXCEPT ![p] = Doing("batch", S, NoRefund, FALSE)]
  /\ UNCHANGED <<returned, compensation, recorder, historyVars>>

\* Mutant: the cron does not take the lease.
ClaimUnleased(p) ==
  LET S == {r \in Refunds : Open(r) /\ row[r].attempts < MaxAttempts} IN
  /\ pass[p].at = "idle"
  /\ row' = [r \in Refunds |-> IF r \in S THEN [row[r] EXCEPT !.attempts = @ + 1] ELSE row[r]]
  /\ pass' = [pass EXCEPT ![p] = Doing("batch", S, NoRefund, FALSE)]
  /\ UNCHANGED <<returned, lease, compensation, recorder, historyVars>>

\* claimBatch, under the lease.  The open rows are taken to fit in one batch
\* of BATCH_SIZE.
Claim(p) ==
  LET S == {r \in Refunds : Open(r) /\ row[r].attempts < MaxAttempts} IN
  /\ pass[p].at = "idle"
  /\ ~lease
  /\ lease' = TRUE
  /\ row' = [r \in Refunds |-> IF r \in S THEN [row[r] EXCEPT !.attempts = @ + 1] ELSE row[r]]
  /\ pass' = [pass EXCEPT ![p] = Doing("batch", S, NoRefund, FALSE)]
  /\ UNCHANGED <<returned, compensation, recorder, historyVars>>

\* LEASE_SECONDS pass: shorter than a batch of calls that all time out.  From
\* then on a pass that is still under way meets the next on any row.
LeaseExpires ==
  /\ lease
  /\ lease' = FALSE
  /\ disturbed' = IF \E p \in Passes : pass[p].at # "idle" THEN Refunds ELSE disturbed
  /\ UNCHANGED <<row, returned, pass, compensation, recorder,
                 calls, accepted, compensated, handedOver>>

\* attemptRefund calls the gateway: accepted, accepted unheard, or refused.
Call(p, r) ==
  /\ pass[p].at = "batch"
  /\ r \in pass[p].batch
  /\ calls' = [calls EXCEPT ![r] = @ + 1]
  /\ \E moved, ok \in BOOLEAN :
       /\ ok => moved
       /\ IF moved THEN PayBack(row[r].charge) ELSE UNCHANGED returned
       /\ accepted' = IF moved THEN accepted \cup {r} ELSE accepted
       /\ disturbed' = IF moved /\ ~ok THEN disturbed \cup {r} ELSE disturbed
       /\ pass' = [pass EXCEPT ![p] = Doing("answer", @.batch \ {r}, r, ok)]
  /\ UNCHANGED <<row, lease, compensation, recorder, compensated, handedOver>>

\* Mutant: the answer is not looked at.
WriteResolved(p) ==
  /\ pass[p].at = "answer"
  /\ row' = [row EXCEPT ![pass[p].row].resolved = TRUE]
  /\ pass' = [pass EXCEPT ![p] = Doing("batch", @.batch, NoRefund, FALSE)]
  /\ UNCHANGED <<returned, lease, compensation, recorder, historyVars>>

\* Mutant: a success is noted like a failure.
WriteNoted(p) ==
  /\ pass[p].at = "answer"
  /\ pass' = [pass EXCEPT ![p] = Doing("batch", @.batch, NoRefund, FALSE)]
  /\ UNCHANGED <<row, returned, lease, compensation, recorder, historyVars>>

\* A success sets resolvedAt; a failure is only noted in lastError.
Write(p) ==
  /\ pass[p].at = "answer"
  /\ row' = IF pass[p].ok THEN [row EXCEPT ![pass[p].row].resolved = TRUE] ELSE row
  /\ pass' = [pass EXCEPT ![p] = Doing("batch", @.batch, NoRefund, FALSE)]
  /\ UNCHANGED <<returned, lease, compensation, recorder, historyVars>>

\* That update fails.  If the one in the catch fails too, the pass is over,
\* and with it the attempts of the rows it had not come to.
WriteFails(p) ==
  /\ pass[p].at = "answer"
  /\ \/ /\ pass' = [pass EXCEPT ![p] = Resting]
        /\ disturbed' = disturbed \cup InHand(p)
     \/ /\ pass' = [pass EXCEPT ![p] = Doing("batch", @.batch, NoRefund, FALSE)]
        /\ disturbed' = disturbed \cup {pass[p].row}
  /\ UNCHANGED <<row, returned, lease, compensation, recorder,
                 calls, accepted, compensated, handedOver>>

\* escalateExhausted looks for the rows whose attempts are used up.
Sweep(p) ==
  /\ pass[p].at = "batch"
  /\ pass[p].batch = {}
  /\ pass' = [pass EXCEPT ![p] = Doing("sweep",
                {r \in Refunds : Open(r) /\ row[r].attempts >= MaxAttempts}, NoRefund, FALSE)]
  /\ UNCHANGED <<row, returned, lease, compensation, recorder, historyVars>>

\* Mutant: that the entry could not be written is overlooked.
HandOverUntold(p, r) ==
  /\ pass[p].at = "sweep"
  /\ r \in pass[p].batch
  /\ handedOver' = handedOver \cup {r} \/ UNCHANGED handedOver
  /\ pass' = [pass EXCEPT ![p] = Doing("close", @.batch \ {r}, r, FALSE)]
  /\ UNCHANGED <<row, returned, lease, compensation, recorder,
                 calls, accepted, compensated, disturbed>>

\* The office is told, before the row is closed.
HandOver(p, r) ==
  /\ pass[p].at = "sweep"
  /\ r \in pass[p].batch
  /\ handedOver' = handedOver \cup {r}
  /\ pass' = [pass EXCEPT ![p] = Doing("close", @.batch \ {r}, r, FALSE)]
  /\ UNCHANGED <<row, returned, lease, compensation, recorder,
                 calls, accepted, compensated, disturbed>>

Close(p) ==
  /\ pass[p].at = "close"
  /\ row' = [row EXCEPT ![pass[p].row].resolved = TRUE]
  /\ pass' = [pass EXCEPT ![p] = Doing("sweep", @.batch, NoRefund, FALSE)]
  /\ UNCHANGED <<returned, lease, compensation, recorder, historyVars>>

EndPass(p) ==
  /\ pass[p].at = "sweep"
  /\ pass[p].batch = {}
  /\ pass' = [pass EXCEPT ![p] = Resting]
  /\ UNCHANGED <<row, returned, lease, compensation, recorder, historyVars>>

\* The process dies, or the audit entry or update of an escalation throws.
PassDies(p) ==
  /\ pass[p].at # "idle"
  /\ pass' = [pass EXCEPT ![p] = Resting]
  /\ disturbed' = disturbed \cup InHand(p)
  /\ UNCHANGED <<row, returned, lease, compensation, recorder,
                 calls, accepted, compensated, handedOver>>

-----------------------------------------------------------------------------
(* The specification. *)

RefundInit ==
  /\ row = [r \in Refunds |-> Owing(NoCharge)]
  /\ returned = {}
  /\ lease = FALSE
  /\ pass = [p \in Passes |-> Resting]
  /\ compensation = [c \in Charges |-> "none"]
  /\ recorder = [k \in Recorders |-> NoCharge]
  /\ calls = [r \in Refunds |-> 0]
  /\ accepted = {}
  /\ compensated = {}
  /\ handedOver = {}
  /\ disturbed = {}

Owe ==
  \/ \E c \in Charges :
       \/ \E k \in Recorders : Look(k, c)
       \/ Compensate(c) \/ CompensationCall(c) \/ CompensationLog(c) \/ CompensationDropped(c)
       \/ \E r \in Refunds : Persist(c, r)
  \/ \E k \in Recorders, r \in Refunds : Record(k, r)

Recover ==
  \/ LeaseExpires
  \/ \E p \in Passes :
       \/ Claim(p) \/ Write(p) \/ WriteFails(p) \/ Sweep(p) \/ Close(p) \/ EndPass(p)
       \/ PassDies(p)
       \/ \E r \in Refunds : Call(p, r) \/ HandOver(p, r)

RefundNext == Owe \/ Recover

RefundSpec == RefundInit /\ [][RefundNext]_refundVars

\* Cron keeps ticking, leases run out, and a pass goes on unless it dies.
\* Passes may die and updates may fail without end, but of the passes that
\* come to their sweep, some do it, and some escalations of a row succeed.
RefundFairness ==
  /\ WF_refundVars(LeaseExpires)
  /\ WF_refundVars(\E p \in Passes : Claim(p))
  /\ \A p \in Passes :
       /\ WF_refundVars(\E r \in Refunds : Call(p, r) \/ HandOver(p, r))
       /\ WF_refundVars(Write(p) \/ WriteFails(p))
       /\ WF_refundVars(Close(p) \/ EndPass(p))
       /\ SF_refundVars(Sweep(p))
  /\ \A r \in Refunds :
       /\ SF_refundVars(\E p \in Passes : HandOver(p, r))
       /\ SF_refundVars(\E p \in Passes : pass[p].row = r /\ Close(p))

FairRefundSpec == RefundSpec /\ RefundFairness

-----------------------------------------------------------------------------
(* What it implements. *)

\* Where the money of a charge is.  A row that is closed without the money back
\* still counts only if the office was told of it.  The money of a charge with
\* no row is not yet owed: its compensation may still succeed at once.
MoneyOf(c) ==
  CASE c \in returned -> "returned"
    [] c \notin returned /\ (\E r \in Refunds : Open(r) /\ row[r].charge = c) -> "owed"
    [] /\ c \notin returned
       /\ ~\E r \in Refunds : Open(r) /\ row[r].charge = c
       /\ \E r \in handedOver : row[r].charge = c -> "told"
    [] OTHER -> "taken"

Promised == INSTANCE Sale
  WITH Orders <- Charges, money <- [c \in Charges |-> MoneyOf(c)], settled <- {}

-----------------------------------------------------------------------------
(* Properties. *)

\* Seen from the sale, all rows, passes, retries and crashes come to this: a
\* debt ends with the money back or the office told of it, and in no other way;
\* no row is closed that would let it be forgotten.
RefundsFollowSale == Promised!Spec

\* A row costs the gateway no more calls than it has used attempts, and never
\* more than MaxAttempts: two passes, or a crash between the call and the
\* update, do not call on credit.
CallsWithinAttempts ==
  \A r \in Refunds : calls[r] <= row[r].attempts /\ row[r].attempts <= MaxAttempts

\* Nothing owed is forgotten: a row is closed only once the money went back or
\* the office was told, and a compensation ends with the money back or a row,
\* unless the insert of the row failed or the process died.
RefundsAccountedFor ==
  /\ \A r \in Refunds :
       row[r].resolved => row[r].charge \in returned \/ r \in handedOver
  /\ \A c \in Charges :
       compensation[c] = "done" => c \in returned \/ \E r \in Refunds : row[r].charge = c

\* The handoff says that the money has not moved.  Of a row that met no fault -
\* no lost answer, no failed update, no crash, no pass that overran its lease -
\* no call of its own has moved it.  The compensation of the charge or a rival
\* row still may have, which the handoff does not look at: those, and nothing
\* else, make it false.
HandedOverUnpaid ==
  \A r \in handedOver \ disturbed :
    row[r].charge \in returned =>
      \/ row[r].charge \in compensated
      \/ \E s \in accepted \ {r} : row[s].charge = row[r].charge

\* Attempts are counted before the calls they are for.  Still the office is told
\* of a row that met no fault only when the gateway was asked for it as often as
\* the limit allows, and the gateway is not asked for it again.
HandedOverSpent == \A r \in handedOver \ disturbed : calls[r] = MaxAttempts

\* Every row is closed in the end, by a refund or by the handoff: rows are
\* neither starved nor retried for ever.
RowsClose == \A r \in Refunds : Exists(r) ~> row[r].resolved

===============================================================================
