------------------------------- MODULE Checkout -------------------------------
(***************************************************************************)
(* From the cart to a settled order: checkout holds, pending orders, the   *)
(* charge at the payment gateway, and the four callers that settle an      *)
(* order (the checkout request, the cardholder's return, the gateway's     *)
(* webhook, the sweeps), with refunds of money that has nowhere to land.   *)
(*                                                                         *)
(* A handler is a sequence of steps, one per database statement, trans-    *)
(* action or gateway call: what it decides from an earlier read stays      *)
(* decided across its awaits.  The transactions are those of Ownership.    *)
(* Requests run in threads, one at a time in each; a thread may crash      *)
(* between any two steps, which also stands for any error that leaves the  *)
(* rest of a handler undone.                                               *)
(*                                                                         *)
(* There is no clock.  A hold may expire at any moment; an order is stale  *)
(* only when the assumption of the sweeps holds (see Stale).  The contents *)
(* of carts are not kept: a member may reserve and check out any pieces.   *)
(***************************************************************************)
EXTENDS Ownership

CONSTANTS Threads,     \* requests and cron sweeps that run at the same time
          NoOrder,     \* not an order
          NoHold,      \* not a hold
          MaxReserves  \* bound on the reserve calls of a behaviour

ASSUME NoOrderAssumption == NoOrder \notin Orders

ASSUME NoHoldAssumption == NoHold \notin [client : Clients, epoch : Nat]

VARIABLES hold,      \* live CheckoutReservation of each piece
          now,       \* createdAt of the next reservation
          epoch,     \* per order, the reservation epoch in its idempotency key
          ref,       \* per order, whether paymentReference is set
          charge,    \* gateway: status of the charge of the order's key
          refund,    \* refund of that charge: none, owed (queued) or made
          claim,     \* Redis: the replay key of the charge's final webhook
          req        \* per thread, the handler it runs

checkoutOnlyVars == <<hold, now, epoch, ref, charge, refund, claim, req>>

checkoutVars == <<ownershipVars, checkoutOnlyVars>>

ChargeStatus == {"NONE", "INITIATED", "CAPTURED", "FAILED"}

Hold == [client : Clients, epoch : Nat]

Handler ==
  {"idle", "claim", "find", "place", "charge", "attach", "resume", "confirm",
   "refund", "fail", "failWrite", "cancelWrite", "release", "hook", "record", "mark"}

\* Who settles: checkout and return compensate, a webhook has a claim to keep.
Caller == {"checkout", "webhook", "other"}

Request == [at : Handler, via : Caller, client : Owner, items : SUBSET Pieces,
            epoch : Nat, order : Orders \cup {NoOrder}, answer : ChargeStatus]

Idle == [at |-> "idle", via |-> "other", client |-> NoClient, items |-> {},
         epoch |-> 0, order |-> NoOrder, answer |-> "NONE"]

CheckoutTypeOK ==
  /\ TypeOK
  /\ hold \in [Pieces -> Hold \cup {NoHold}]
  /\ now \in Nat
  /\ epoch \in [Orders -> Nat]
  /\ ref \in [Orders -> BOOLEAN]
  /\ charge \in [Orders -> ChargeStatus]
  /\ refund \in [Orders -> {"none", "owed", "made"}]
  /\ claim \in [Orders -> {"free", "inflight", "done"}]
  /\ req \in [Threads -> Request]

-----------------------------------------------------------------------------
(* Moving through a handler. *)

At(t, a) == req[t].at = a

Goto(t, a) == req' = [req EXCEPT ![t].at = a]

\* From here on the handler needs to know only its order.
WorkOn(t, o, caller, a) ==
  req' = [req EXCEPT ![t] = [Idle EXCEPT !.at = a, !.via = caller, !.order = o]]

End(t) == req' = [req EXCEPT ![t] = Idle]

\* A handler that has done its work; a webhook still has to say so.
Finish(t) ==
  /\ IF req[t].via = "webhook" THEN Goto(t, "mark") ELSE End(t)
  /\ UNCHANGED claim

\* A handler that throws; a webhook gives its claim back, to be retried.
Abort(t) ==
  /\ End(t)
  /\ claim' = IF req[t].via = "webhook" THEN [claim EXCEPT ![req[t].order] = "free"]
                                        ELSE claim

\* A FailedRefund row.  Refunds are keyed to the charge, so a row for a charge
\* that has one, or that was refunded, changes nothing.
QueueRefund(o) ==
  refund' = IF refund[o] = "made" THEN refund ELSE [refund EXCEPT ![o] = "owed"]

HeldBy(p, c) == hold[p] # NoHold /\ hold[p].client = c

-----------------------------------------------------------------------------
(* Reserving the pieces of a cart. *)

StartReserve(t, c, S) ==
  /\ At(t, "idle")
  /\ S # {}
  /\ \A p \in S : piece[p] = [status |-> "AVAILABLE", owner |-> NoClient]
  /\ now < MaxReserves
  /\ now' = now + 1
  /\ req' = [req EXCEPT ![t] = [Idle EXCEPT !.at = "claim", !.client = c,
                                            !.items = S, !.epoch = now]]
  /\ UNCHANGED <<ownershipVars, hold, epoch, ref, charge, refund, claim>>

\* Mutant: the unconditional upsert that reassigns another member's hold.
ClaimHoldsByUpsert(t) ==
  /\ At(t, "claim")
  /\ hold' = [p \in Pieces |-> IF p \in req[t].items
                                 THEN [client |-> req[t].client, epoch |-> req[t].epoch]
                                 ELSE hold[p]]
  /\ End(t)
  /\ UNCHANGED <<ownershipVars, now, epoch, ref, charge, refund, claim>>

\* Mutant: the holds are written from a request that was cleared first.
ClaimHoldsCleared(t) ==
  /\ At(t, "claim")
  /\ End(t)
  /\ hold' = [p \in Pieces |-> IF p \in req[t].items
                                  /\ (hold[p] = NoHold \/ HeldBy(p, req[t].client))
                                 THEN [client |-> req'[t].client, epoch |-> req[t].epoch]
                                 ELSE hold[p]]
  /\ UNCHANGED <<ownershipVars, now, epoch, ref, charge, refund, claim>>

\* INSERT ... ON CONFLICT DO UPDATE ... WHERE: a live hold of another member
\* is skipped.  When one is, the call fails but keeps the holds it got.
ClaimHolds(t) ==
  /\ At(t, "claim")
  /\ hold' = [p \in Pieces |-> IF p \in req[t].items
                                  /\ (hold[p] = NoHold \/ HeldBy(p, req[t].client))
                                 THEN [client |-> req[t].client, epoch |-> req[t].epoch]
                                 ELSE hold[p]]
  /\ End(t)
  /\ UNCHANGED <<ownershipVars, now, epoch, ref, charge, refund, claim>>

\* expiresAt passes; a later cleanup deletes what no query counts any more.
ExpireHold(p) ==
  /\ hold[p] # NoHold
  /\ hold' = [hold EXCEPT ![p] = NoHold]
  /\ UNCHANGED <<ownershipVars, now, epoch, ref, charge, refund, claim, req>>

-----------------------------------------------------------------------------
(* The checkout request. *)

\* The request's epoch is that of the oldest of the holds it checks out.
StartCheckout(t, c, S) ==
  /\ At(t, "idle")
  /\ \A p \in S : HeldBy(p, c) /\ piece[p].status = "AVAILABLE"
  /\ \E oldest \in S :
       /\ \A p \in S : hold[oldest].epoch <= hold[p].epoch
       /\ req' = [req EXCEPT ![t] = [Idle EXCEPT !.at = "find", !.via = "checkout", !.client = c,
                                                 !.items = S, !.epoch = hold[oldest].epoch]]
  /\ UNCHANGED <<ownershipVars, hold, now, epoch, ref, charge, refund, claim>>

\* The orders with the request's idempotency key: member, epoch and pieces.
WithKeyOf(t) ==
  {o \in Orders : /\ order[o].status # "NONE"
                  /\ order[o].client = req[t].client
                  /\ order[o].items = req[t].items
                  /\ epoch[o] = req[t].epoch}

\* The lookup of createPendingOrder, made before its transaction, and what
\* checkout does with an order it returns.  A cancelled order is not told
\* from a pending one.
FindOrder(t) ==
  /\ At(t, "find")
  /\ \/ /\ WithKeyOf(t) = {}
        /\ Goto(t, "place")
     \/ \E o \in WithKeyOf(t) :
          \/ /\ order[o].pay = "PAID"
             /\ End(t)
          \/ /\ order[o].pay # "PAID"
             /\ ref[o]
             /\ WorkOn(t, o, "other", "resume")
          \/ /\ order[o].pay # "PAID"
             /\ ~ref[o]
             /\ WorkOn(t, o, "checkout", "charge")
  /\ UNCHANGED <<ownershipVars, hold, now, epoch, ref, charge, refund, claim>>

\* Mutant: idempotencyKey has lost its UNIQUE constraint.
CreateOrderNotUnique(t) ==
  /\ At(t, "place")
  /\ \A p \in req[t].items : HeldBy(p, req[t].client)
  /\ \E o \in Orders :
       /\ PlaceOrder(o, req[t].client, req[t].items)
       /\ epoch' = [epoch EXCEPT ![o] = req[t].epoch]
       /\ WorkOn(t, o, "checkout", "charge")
  /\ UNCHANGED <<hold, now, ref, charge, refund, claim>>

CreateOrder(t) ==
  /\ At(t, "place")
  /\ WithKeyOf(t) = {}
  /\ \A p \in req[t].items : HeldBy(p, req[t].client)
  /\ \E o \in Orders :
       /\ PlaceOrder(o, req[t].client, req[t].items)
       /\ epoch' = [epoch EXCEPT ![o] = req[t].epoch]
       /\ WorkOn(t, o, "checkout", "charge")
  /\ UNCHANGED <<hold, now, ref, charge, refund, claim>>

\* Bound: there is no id left for another order.
NoOrderLeft == \A o \in Orders : order[o].status # "NONE"

\* The transaction rolls back: a piece sold, a hold lost, or the insert
\* refused because a concurrent request took the key after the lookup.
RefuseOrder(t) ==
  /\ At(t, "place")
  /\ \/ WithKeyOf(t) # {} \/ NoOrderLeft
     \/ \E p \in req[t].items : piece[p].status # "AVAILABLE" \/ ~HeldBy(p, req[t].client)
  /\ End(t)
  /\ UNCHANGED <<ownershipVars, hold, now, epoch, ref, charge, refund, claim>>

\* payments.charge.  The gateway makes at most one charge per key; it may
\* decline, capture, or ask for 3-D Secure.  If it never answers, both tries,
\* the request goes on to fail the order with no reference to the charge,
\* which may or may not exist.
RequestCharge(t) ==
  LET o == req[t].order IN
  /\ At(t, "charge")
  /\ \E s \in IF charge[o] = "NONE" THEN ChargeStatus ELSE {charge[o]} :
       /\ charge' = [charge EXCEPT ![o] = s]
       /\ \/ /\ s # "NONE"
             /\ req' = [req EXCEPT ![t].at = "attach", ![t].answer = s]
          \/ Goto(t, "fail")
  /\ UNCHANGED <<ownershipVars, hold, now, epoch, ref, refund, claim>>

\* attachPaymentReference, whatever has become of the order.
AttachReference(t) ==
  LET o == req[t].order IN
  /\ At(t, "attach")
  /\ ref' = [ref EXCEPT ![o] = TRUE]
  /\ \/ req[t].answer = "FAILED" /\ WorkOn(t, o, "checkout", "fail")
     \/ req[t].answer = "CAPTURED" /\ WorkOn(t, o, "checkout", "confirm")
     \/ req[t].answer = "INITIATED" /\ End(t)
  /\ UNCHANGED <<ownershipVars, hold, now, epoch, charge, refund, claim>>

\* resumeExistingCharge: the gateway may also be out of reach, and then the
\* order is failed as if the charge did not exist.
ResumeCharge(t) ==
  LET o == req[t].order IN
  /\ At(t, "resume")
  /\ \/ charge[o] = "CAPTURED" /\ Goto(t, "confirm")
     \/ charge[o] = "INITIATED" /\ End(t)
     \/ Goto(t, "fail")
  /\ UNCHANGED <<ownershipVars, hold, now, epoch, ref, charge, refund, claim>>

-----------------------------------------------------------------------------
(* confirmOrderPayment, and confirmOrCompensate around it. *)

\* Mutant: the reference the caller passes is not stored.
SettleWithoutReference(t) ==
  LET o == req[t].order IN
  /\ ConfirmOrder(o)
  /\ hold' = [p \in Pieces |-> IF p \in order[o].items THEN NoHold ELSE hold[p]]
  /\ UNCHANGED ref

\* The transaction stores the reference and clears everyone's holds.
Settle(t) ==
  LET o == req[t].order IN
  /\ ConfirmOrder(o)
  /\ hold' = [p \in Pieces |-> IF p \in order[o].items THEN NoHold ELSE hold[p]]
  /\ ref' = [ref EXCEPT ![o] = TRUE]

ConfirmPayment(t) ==
  /\ At(t, "confirm")
  /\ Settle(t)
  /\ Finish(t)
  /\ UNCHANGED <<now, epoch, charge, refund>>

ConfirmAgain(t) ==
  /\ At(t, "confirm")
  /\ order[req[t].order].pay = "PAID"
  /\ Finish(t)
  /\ UNCHANGED <<ownershipVars, hold, now, epoch, ref, charge, refund>>

\* BadRequestException: to checkout and return it looks like a passing fault.
ConfirmCancelled(t) ==
  LET o == req[t].order IN
  /\ At(t, "confirm")
  /\ order[o].pay # "PAID"
  /\ order[o].status = "CANCELLED"
  /\ Abort(t)
  /\ UNCHANGED <<ownershipVars, hold, now, epoch, ref, charge, refund>>

\* ConflictException: the pieces are gone.  Only checkout and return refund.
ConfirmConflict(t) ==
  LET o == req[t].order IN
  /\ At(t, "confirm")
  /\ Confirmable(o)
  /\ ~Deliverable(o)
  /\ \/ /\ req[t].via = "checkout"
        /\ Goto(t, "refund")
        /\ UNCHANGED claim
     \/ /\ req[t].via # "checkout"
        /\ Abort(t)
  /\ UNCHANGED <<ownershipVars, hold, now, epoch, ref, charge, refund>>

\* refundFailedCheckout: the gateway refunds, or the refund is queued, or that
\* fails too, which only the log tells.  The order is failed all the same.
Compensate(t) ==
  LET o == req[t].order IN
  /\ At(t, "refund")
  /\ refund' = [refund EXCEPT ![o] = "made"] \/ QueueRefund(o) \/ UNCHANGED refund
  /\ Goto(t, "fail")
  /\ UNCHANGED <<ownershipVars, hold, now, epoch, ref, charge, claim>>

-----------------------------------------------------------------------------
(* failOrderPayment and cancelOrder: a read, a write, a delete. *)

FailRead(t) ==
  LET o == req[t].order IN
  /\ At(t, "fail")
  /\ \/ /\ order[o].status = "CANCELLED"
        /\ Finish(t)
     \/ /\ order[o].status # "CANCELLED"
        /\ order[o].pay = "PAID"
        /\ Abort(t)
     \/ /\ order[o].status # "CANCELLED"
        /\ order[o].pay # "PAID"
        /\ Goto(t, "failWrite")
        /\ UNCHANGED claim
  /\ UNCHANGED <<ownershipVars, hold, now, epoch, ref, charge, refund>>

FailUpdate(t) ==
  /\ At(t, "failWrite")
  /\ FailWrite(req[t].order)
  /\ Goto(t, "release")
  /\ UNCHANGED <<hold, now, epoch, ref, charge, refund, claim>>

StartCancel(t, o) ==
  /\ At(t, "idle")
  /\ order[o].status = "PENDING"
  /\ ~ref[o]
  /\ WorkOn(t, o, "other", "cancelWrite")
  /\ UNCHANGED <<ownershipVars, hold, now, epoch, ref, charge, refund, claim>>

CancelUpdate(t) ==
  /\ At(t, "cancelWrite")
  /\ CancelWrite(req[t].order)
  /\ Goto(t, "release")
  /\ UNCHANGED <<hold, now, epoch, ref, charge, refund, claim>>

\* The member's holds on the order's pieces, of whichever checkout they are.
ReleaseHolds(t) ==
  LET o == req[t].order IN
  /\ At(t, "release")
  /\ hold' = [p \in Pieces |-> IF p \in order[o].items /\ HeldBy(p, order[o].client)
                                 THEN NoHold ELSE hold[p]]
  /\ Finish(t)
  /\ UNCHANGED <<ownershipVars, now, epoch, ref, charge, refund>>

-----------------------------------------------------------------------------
(* The gateway's side, and what comes back from it. *)

\* The charge becomes final.  The cardholder has the 3-D Secure page only
\* from the answer of a checkout that attached the reference.
ChargeSettles(o, s) ==
  /\ charge[o] = "INITIATED"
  /\ s = "FAILED" \/ (s = "CAPTURED" /\ ref[o])
  /\ charge' = [charge EXCEPT ![o] = s]
  /\ UNCHANGED <<ownershipVars, hold, now, epoch, ref, refund, claim, req>>

\* findOrderForCharge: by reference, else by the id in the charge's metadata.
Found(o) == ref[o] \/ order[o].status = "PENDING"

\* confirmCheckout: the cardholder is back from the 3-D Secure page.
StartReturn(t, o) ==
  /\ At(t, "idle")
  /\ ref[o]
  /\ order[o].pay # "PAID"
  /\ \E s \in {"CAPTURED", "FAILED"} :
       /\ charge[o] = s
       /\ WorkOn(t, o, "checkout", IF s = "CAPTURED" THEN "confirm" ELSE "fail")
  /\ UNCHANGED <<ownershipVars, hold, now, epoch, ref, charge, refund, claim>>

\* handleChargeEvent claims the replay key.  The gateway may deliver a final
\* status any number of times.
StartWebhook(t, o) ==
  /\ At(t, "idle")
  /\ charge[o] \in {"CAPTURED", "FAILED"}
  /\ claim[o] = "free"
  /\ claim' = [claim EXCEPT ![o] = "inflight"]
  /\ WorkOn(t, o, "webhook", "hook")
  /\ UNCHANGED <<ownershipVars, hold, now, epoch, ref, charge, refund>>

\* Mutants: the status of the charge is not looked at; a capture that finds
\* its order closed is taken for a duplicate.
WebhookNextUnclassified(o) ==
  CASE order[o].status = "PENDING" -> "confirm"
    [] order[o].pay = "PAID" /\ ref[o] -> "mark"
    [] OTHER -> "record"

WebhookNextDropping(o) ==
  CASE order[o].status = "PENDING" /\ charge[o] = "CAPTURED" -> "confirm"
    [] order[o].status = "PENDING" /\ charge[o] = "FAILED" -> "fail"
    [] OTHER -> "mark"

\* Mutant: the second notice of a capture is taken for a second charge.
WebhookNextRefunding(o) ==
  CASE charge[o] = "CAPTURED" /\ order[o].status = "PENDING" -> "confirm"
    [] charge[o] = "FAILED" /\ order[o].status = "PENDING" -> "fail"
    [] charge[o] = "CAPTURED" /\ order[o].status # "PENDING" -> "record"
    [] OTHER -> "mark"

\* Where processChargeEvent goes from the order it read.
WebhookNext(o) ==
  CASE charge[o] = "CAPTURED" /\ order[o].status = "PENDING" -> "confirm"
    [] charge[o] = "FAILED" /\ order[o].status = "PENDING" -> "fail"
    [] charge[o] = "CAPTURED" /\ ~(order[o].pay = "PAID" /\ ref[o])
         /\ order[o].status # "PENDING" -> "record"
    [] OTHER -> "mark"

\* A charge of no known order is dropped, its claim left to run out.
ProcessWebhook(t) ==
  LET o == req[t].order IN
  /\ At(t, "hook")
  /\ \/ Found(o) /\ Goto(t, WebhookNext(o))
     \/ ~Found(o) /\ End(t)
  /\ UNCHANGED <<ownershipVars, hold, now, epoch, ref, charge, refund, claim>>

\* recordUnmatchedCapture.
RecordUnmatched(t) ==
  /\ At(t, "record")
  /\ QueueRefund(req[t].order)
  /\ Goto(t, "mark")
  /\ UNCHANGED <<ownershipVars, hold, now, epoch, ref, charge, claim>>

MarkProcessed(t) ==
  /\ At(t, "mark")
  /\ claim' = [claim EXCEPT ![req[t].order] = "done"]
  /\ End(t)
  /\ UNCHANGED <<ownershipVars, hold, now, epoch, ref, charge, refund>>

\* WEBHOOK_IN_FLIGHT_SECONDS pass.
ClaimExpires(o) ==
  /\ claim[o] = "inflight"
  /\ claim' = [claim EXCEPT ![o] = "free"]
  /\ UNCHANGED <<ownershipVars, hold, now, epoch, ref, charge, refund, req>>

-----------------------------------------------------------------------------
(* The sweeps. *)

\* PENDING for 35 minutes.  The sweeps assume, and the model grants, that the
\* charge is then final and the checkout that made it is over.
Stale(o) ==
  /\ order[o].status = "PENDING"
  /\ charge[o] # "INITIATED"
  /\ \A t \in Threads : ~(req[t].order = o /\ req[t].via = "checkout")

\* reconcileStaleOrder, when the gateway answers; else it does nothing.
Reconcile(t, o) ==
  /\ At(t, "idle")
  /\ Stale(o)
  /\ ref[o]
  /\ WorkOn(t, o, "other", IF charge[o] = "CAPTURED" THEN "confirm" ELSE "fail")
  /\ UNCHANGED <<ownershipVars, hold, now, epoch, ref, charge, refund, claim>>

\* Mutant: the sweep leaves orders without a reference to the other sweep too.
ExpireOrderWithReference(t, o) ==
  /\ At(t, "idle")
  /\ Stale(o)
  /\ ref[o]
  /\ WorkOn(t, o, "other", "fail")
  /\ UNCHANGED <<ownershipVars, hold, now, epoch, ref, charge, refund, claim>>

\* expireStalePendingOrders: the order that has no charge to ask about.
ExpireOrder(t, o) ==
  /\ At(t, "idle")
  /\ Stale(o)
  /\ ~ref[o]
  /\ WorkOn(t, o, "other", "fail")
  /\ UNCHANGED <<ownershipVars, hold, now, epoch, ref, charge, refund, claim>>

\* RefundRecoveryService: a retry succeeds.  A row that runs out of attempts
\* is handed to the office, and the refund is still owed.
RecoverRefund(o) ==
  /\ refund[o] = "owed"
  /\ charge[o] = "CAPTURED"
  /\ refund' = [refund EXCEPT ![o] = "made"]
  /\ UNCHANGED <<ownershipVars, hold, now, epoch, ref, charge, claim, req>>

-----------------------------------------------------------------------------
(* The office, and crashes. *)

AdminPiece(p) ==
  /\ (\E s \in PieceStatus : UpdatePiece(p, s)) \/ (\E c \in Clients : AssignPiece(p, c))
  /\ UNCHANGED checkoutOnlyVars

AdminOrderStatus(o, s) ==
  /\ UpdateOrderStatus(o, s)
  /\ UNCHANGED checkoutOnlyVars

\* The refund itself is left to RefundRecoveryService, in the same transaction.
AdminRefund(o) ==
  /\ RefundOrder(o)
  /\ IF ref[o] THEN QueueRefund(o) ELSE UNCHANGED refund
  /\ UNCHANGED <<hold, now, epoch, ref, charge, claim, req>>

AdminRegister(p) == RegisterPiece(p, NoClient) /\ UNCHANGED checkoutOnlyVars

Crash(t) ==
  /\ ~At(t, "idle")
  /\ End(t)
  /\ UNCHANGED <<ownershipVars, hold, now, epoch, ref, charge, refund, claim>>

-----------------------------------------------------------------------------
(* The specification. *)

CheckoutInit ==
  /\ Init
  /\ hold = [p \in Pieces |-> NoHold]
  /\ now = 0
  /\ epoch = [o \in Orders |-> 0]
  /\ ref = [o \in Orders |-> FALSE]
  /\ charge = [o \in Orders |-> "NONE"]
  /\ refund = [o \in Orders |-> "none"]
  /\ claim = [o \in Orders |-> "free"]
  /\ req = [t \in Threads |-> Idle]

\* A handler that has begun takes its next step.
Proceed(t) ==
  \/ ClaimHolds(t) \/ FindOrder(t) \/ CreateOrder(t) \/ RefuseOrder(t)
  \/ RequestCharge(t) \/ AttachReference(t) \/ ResumeCharge(t)
  \/ ConfirmPayment(t) \/ ConfirmAgain(t) \/ ConfirmCancelled(t) \/ ConfirmConflict(t)
  \/ Compensate(t) \/ FailRead(t) \/ FailUpdate(t) \/ CancelUpdate(t) \/ ReleaseHolds(t)
  \/ ProcessWebhook(t) \/ RecordUnmatched(t) \/ MarkProcessed(t)

Member(t) ==
  \/ \E c \in Clients, S \in SUBSET Pieces : StartReserve(t, c, S) \/ StartCheckout(t, c, S)
  \/ \E o \in Orders : StartCancel(t, o) \/ StartReturn(t, o)

Gateway ==
  \E o \in Orders :
    \/ \E s \in ChargeStatus : ChargeSettles(o, s)
    \/ \E t \in Threads : StartWebhook(t, o)

Timers ==
  \/ \E p \in Pieces : ExpireHold(p)
  \/ \E o \in Orders :
       \/ ClaimExpires(o)
       \/ RecoverRefund(o)
       \/ \E t \in Threads : Reconcile(t, o) \/ ExpireOrder(t, o)

\* The service at work, with new pieces coming in but no other office act.
Service ==
  \/ \E t \in Threads : Proceed(t) \/ Member(t)
  \/ Gateway
  \/ Timers
  \/ \E p \in Pieces : AdminRegister(p)

Office ==
  \/ \E p \in Pieces : AdminPiece(p)
  \/ \E o \in Orders : AdminRefund(o) \/ \E s \in OrderStatus : AdminOrderStatus(o, s)

CheckoutNext ==
  \/ Service
  \/ Office
  \/ \E t \in Threads : Crash(t)

CheckoutSpec == CheckoutInit /\ [][CheckoutNext]_checkoutVars

\* The office does nothing; in ServiceSpec no process dies, either.
Unattended == Service \/ \E t \in Threads : Crash(t)

UnattendedSpec == CheckoutInit /\ [][Unattended]_checkoutVars

ServiceSpec == CheckoutInit /\ [][Service]_checkoutVars

\* Handlers that have begun go on, the gateway closes its charges, and cron
\* runs both sweeps again and again.  Webhooks, which the gateway gives up on,
\* and members owe nothing.  In FairHouseSpec processes die and the office
\* intervenes, but not for ever: in the end they do what the service might
\* have done without them, if anything.
Fairness ==
  /\ \A t \in Threads : WF_checkoutVars(~At(t, "idle") /\ Proceed(t))
  /\ \A o \in Orders :
       /\ WF_checkoutVars(\E s \in ChargeStatus : ChargeSettles(o, s))
       /\ SF_checkoutVars(\E t \in Threads : Reconcile(t, o))
       /\ SF_checkoutVars(\E t \in Threads : ExpireOrder(t, o))

FairServiceSpec == ServiceSpec /\ Fairness

FairHouseSpec ==
  /\ CheckoutSpec
  /\ <>[][Office \/ (\E t \in Threads : Crash(t)) => Service]_checkoutVars
  /\ Fairness

-----------------------------------------------------------------------------
(* What it implements. *)

\* Where the money of an order is.
MoneyOf(o) ==
  CASE refund[o] = "made" -> "returned"
    [] refund[o] = "owed" -> "owed"
    [] refund[o] = "none" /\ charge[o] = "CAPTURED" -> "taken"
    [] OTHER -> "none"

Promised == INSTANCE Sale
  WITH money <- [o \in Orders |-> MoneyOf(o)],
       settled <- {o \in Orders : order[o].pay = "PAID"}

-----------------------------------------------------------------------------
(* Properties. *)

\* While the office is passive, whatever members, webhooks, sweeps and retries
\* do at the same time is a sale: money is taken once, returned once, and
\* never both kept by the house for an order and owed back.
ImplementsSale == Promised!Spec

\* A handler takes a live hold from a member only by selling the piece or by
\* closing an order of that very member: two members who reserve, cancel and
\* fail at the same time never take each other's holds.
HoldLostInHandler(p) ==
  /\ hold[p] # NoHold
  /\ req' # req
  /\ hold'[p] = NoHold \/ hold'[p].client # hold[p].client

HoldsRespected ==
  [][\A p \in Pieces : HoldLostInHandler(p) =>
       /\ hold'[p] = NoHold
       /\ \/ piece'[p].owner \in Clients
          \/ \E t \in Threads : /\ At(t, "release")
                                /\ p \in order[req[t].order].items
                                /\ order[req[t].order].client = hold[p].client]_checkoutVars

\* However its requests are retried and raced, a checkout makes one order, and
\* so at most one charge.
OneOrderPerKey ==
  \A o, q \in Orders :
    /\ o # q
    /\ order[o].status # "NONE" /\ order[q].status # "NONE"
    /\ order[o].client = order[q].client /\ order[o].items = order[q].items
    => epoch[o] # epoch[q]

\* While the office refunds nothing, the buyer of a paid order owns its
\* pieces: of two members who both pay for a piece after a hold ran out, only
\* the one who owns it has a paid order.
PaidOrdersOwned ==
  \A o \in Orders : order[o].pay = "PAID" =>
    \A p \in order[o].items : OwnedBy(p, order[o].client)

\* Nobody keeps the goods and gets the money back: while the office leaves the
\* orders alone, an order that reads PAID never has a refund queued or made,
\* although the refund of a lost sale and the failing of its order are two
\* steps and other settlements of the same order run between them.
PaidOrdersNotRefunded ==
  \A o \in Orders : order[o].pay = "PAID" => refund[o] = "none"

\* No goods without money: whoever settles an order, and in whatever order the
\* four of them arrive, its charge was captured.
GoodsOnlyForCapture ==
  \A o \in Orders : order[o].pay \in {"PAID", "REFUNDED"} => charge[o] = "CAPTURED"

\* An order the office has refunded has its money on the way back: the row
\* needs the reference, which the settling of the order must have stored.
RefundedOrdersAreOwed ==
  \A o \in Orders : order[o].pay = "REFUNDED" => refund[o] # "none"

\* Only money that was taken is sent back, although refunds are begun from
\* what a handler read before its awaits.
RefundsOnlyOfCaptures ==
  \A o \in Orders : refund[o] # "none" => charge[o] = "CAPTURED"

\* The payment of an order, the charge and the refund agree.
MoneyMatchesOrders ==
  /\ GoodsOnlyForCapture
  /\ RefundedOrdersAreOwed
  /\ RefundsOnlyOfCaptures

\* When the webhook of a captured charge is marked processed, never to be
\* handled again, the money has landed: the pieces were delivered to the buyer
\* or a refund was queued or made.
ProcessedCapturesLand ==
  \A o \in Orders :
    claim[o] = "done" /\ charge[o] = "CAPTURED" =>
      \/ refund[o] # "none"
      \/ \A p \in order[o].items :
           \E i \in DOMAIN ledger[p] : ledger[p][i].client = order[o].client

\* No order stays pending, whatever crashed or was lost: the webhook, the
\* returning cardholder or a sweep ends it, except where the money was taken
\* and the pieces have gone to someone else (PendingCapturesSettle).
PendingOrdersEnd ==
  \A o \in Orders :
    order[o].status = "PENDING"
      ~> \/ order[o].status # "PENDING"
         \/ ref[o] /\ charge[o] = "CAPTURED" /\ ~Deliverable(o)

\* The code's claim that a settled order is never unwound automatically.
SettledStaysSettled ==
  [][\A o \in Orders : order[o].pay = "PAID" => order'[o].pay \in {"PAID", "REFUNDED"}]_checkoutVars

\* The code's claim that no piece is sold twice: where nothing can be given
\* back or passed on, no two paid orders have a piece in common.
PaidOncePerPiece ==
  \A o, q \in Orders :
    o # q /\ order[o].pay = "PAID" /\ order[q].pay = "PAID"
      => order[o].items \cap order[q].items = {}

\* The code's claim that the event of a captured charge is not dropped: the
\* webhook finds the order, or the request that will attach the reference is
\* still running.
CapturedChargeFindable ==
  \A o \in Orders : charge[o] = "CAPTURED" =>
    Found(o) \/ \E t \in Threads : At(t, "attach") /\ req[t].order = o

\* The code's claim that an order left pending with its money captured is
\* settled by the sweep.
PendingCapturesSettle ==
  \A o \in Orders :
    order[o].status = "PENDING" /\ ref[o] /\ charge[o] = "CAPTURED"
      ~> order[o].status # "PENDING"

=============================================================================
