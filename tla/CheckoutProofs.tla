---------------------------- MODULE CheckoutProofs ----------------------------
(***************************************************************************)
(* What holds of Checkout for every number of members, pieces, orders and  *)
(* concurrent requests.  First, that its handlers, however their steps     *)
(* interleave and wherever they crash, change the tables of Ownership only *)
(* by Ownership's transactions, so that all that OwnershipProofs proves    *)
(* holds here too.  Then, that no order is settled without its money.      *)
(***************************************************************************)
EXTENDS Checkout, OwnershipProofs

\* The handlers that have no order yet; those and idle need none.
Unbound == {"claim", "find", "place"}

\* A request knows its member until it has an order, and the order from then.
GoodRequest ==
  {r \in Request : /\ r.at \in Unbound => r.client \in Clients
                   /\ r.at \notin Unbound \cup {"idle"} => r.order \in Orders}

WellFormed ==
  /\ hold \in [Pieces -> Hold \cup {NoHold}]
  /\ now \in Nat
  /\ epoch \in [Orders -> Nat]
  /\ ref \in [Orders -> BOOLEAN]
  /\ charge \in [Orders -> ChargeStatus]
  /\ refund \in [Orders -> {"none", "owed", "made"}]
  /\ claim \in [Orders -> {"free", "inflight", "done"}]
  /\ req \in [Threads -> GoodRequest]

-----------------------------------------------------------------------------
(* How a handler moves. *)

LEMMA IdleIsGood == Idle \in GoodRequest
BY DEF Idle, GoodRequest, Request, Unbound, Handler, Caller, Owner, ChargeStatus

\* Going on with an order.
LEMMA GotoGood ==
  ASSUME WellFormed, NEW t \in Threads, req[t].order \in Orders,
         NEW a \in Handler \ Unbound, Goto(t, a)
  PROVE  req' \in [Threads -> GoodRequest]
<1>1. req[t] \in Request
  BY DEF WellFormed, GoodRequest
<1>2. [req[t] EXCEPT !.at = a] \in GoodRequest
  BY <1>1 DEF GoodRequest, Request
<1> QED
  BY <1>2 DEF WellFormed, Goto

\* Starting to work on an order.
LEMMA WorkOnGood ==
  ASSUME WellFormed, NEW t \in Threads, NEW o \in Orders, NEW c \in Caller,
         NEW a \in Handler \ Unbound, WorkOn(t, o, c, a)
  PROVE  req' \in [Threads -> GoodRequest]
<1>1. [Idle EXCEPT !.at = a, !.via = c, !.order = o] \in GoodRequest
  BY DEF Idle, GoodRequest, Request, Unbound, Owner, ChargeStatus
<1> QED
  BY <1>1 DEF WellFormed, WorkOn

LEMMA EndGood ==
  ASSUME WellFormed, NEW t \in Threads, End(t)
  PROVE  req' \in [Threads -> GoodRequest]
BY IdleIsGood DEF WellFormed, End

LEMMA FinishGood ==
  ASSUME WellFormed, NEW t \in Threads, req[t].order \in Orders, Finish(t)
  PROVE  /\ req' \in [Threads -> GoodRequest]
         /\ claim' = claim
<1>1. "mark" \in Handler \ Unbound
  BY DEF Handler, Unbound
<1> QED
  BY <1>1, GotoGood, EndGood DEF Finish

LEMMA AbortGood ==
  ASSUME WellFormed, NEW t \in Threads, Abort(t)
  PROVE  /\ req' \in [Threads -> GoodRequest]
         /\ claim' \in [Orders -> {"free", "inflight", "done"}]
<1>1. req' \in [Threads -> GoodRequest]
  BY EndGood DEF Abort
<1>2. claim' \in [Orders -> {"free", "inflight", "done"}]
  BY DEF Abort, WellFormed
<1> QED
  BY <1>1, <1>2

LEMMA OrderKnown ==
  ASSUME WellFormed, NEW t \in Threads, req[t].at \notin Unbound \cup {"idle"}
  PROVE  req[t].order \in Orders
BY DEF WellFormed, GoodRequest

LEMMA MemberKnown ==
  ASSUME WellFormed, NEW t \in Threads, req[t].at \in Unbound
  PROVE  /\ req[t].client \in Clients
         /\ req[t].items \in SUBSET Pieces
         /\ req[t].epoch \in Nat
BY DEF WellFormed, GoodRequest, Request, Unbound

-----------------------------------------------------------------------------
(* Every step keeps the state well formed. *)

\* Members and the office start requests with a member or an order.
LEMMA StartsWellFormed ==
  ASSUME WellFormed, NEW t \in Threads,
         Member(t) \/ \E o \in Orders : \/ StartWebhook(t, o)
                                        \/ Reconcile(t, o)
                                        \/ ExpireOrder(t, o)
  PROVE  WellFormed'
<1> USE DEF WellFormed
<1>1. ASSUME NEW c \in Clients, NEW S \in SUBSET Pieces, StartReserve(t, c, S)
      PROVE  WellFormed'
  <2>1. [Idle EXCEPT !.at = "claim", !.client = c, !.items = S, !.epoch = now] \in GoodRequest
    BY DEF Idle, GoodRequest, Request, Unbound, Owner, ChargeStatus, Handler, Caller
  <2> QED
    BY <1>1, <2>1 DEF StartReserve
<1>2. ASSUME NEW c \in Clients, NEW S \in SUBSET Pieces, StartCheckout(t, c, S)
      PROVE  WellFormed'
  <2>1. PICK q \in S :
          req' = [req EXCEPT ![t] = [Idle EXCEPT !.at = "find", !.via = "checkout", !.client = c,
                                                 !.items = S, !.epoch = hold[q].epoch]]
    BY <1>2 DEF StartCheckout
  <2>2. hold[q].epoch \in Nat
    BY <1>2 DEF StartCheckout, HeldBy, Hold
  <2>3. [Idle EXCEPT !.at = "find", !.via = "checkout", !.client = c,
                     !.items = S, !.epoch = hold[q].epoch] \in GoodRequest
    BY <2>2 DEF Idle, GoodRequest, Request, Unbound, Owner, ChargeStatus, Handler, Caller
  <2> QED
    BY <1>2, <2>1, <2>3 DEF StartCheckout
<1> DEFINE Works == \E o \in Orders, c \in Caller, a \in Handler \ Unbound : WorkOn(t, o, c, a)
<1>3. ASSUME Works, UNCHANGED <<hold, now, epoch, ref, charge, refund>>,
             claim' \in [Orders -> {"free", "inflight", "done"}]
      PROVE  WellFormed'
  <2>1. req' \in [Threads -> GoodRequest]
    BY <1>3, WorkOnGood
  <2> QED
    BY <1>3, <2>1
<1>4. ASSUME NEW o \in Orders,
             \/ StartCancel(t, o) \/ StartReturn(t, o) \/ StartWebhook(t, o)
             \/ Reconcile(t, o) \/ ExpireOrder(t, o)
      PROVE  WellFormed'
  <2>1. {"cancelWrite", "confirm", "fail", "hook"} \subseteq Handler \ Unbound
        /\ {"other", "checkout", "webhook"} \subseteq Caller
    BY DEF Handler, Unbound, Caller
  <2>2. CASE StartCancel(t, o)
    <3>1. Works
      BY <2>1, <2>2 DEF StartCancel
    <3> QED
      BY <2>2, <3>1, <1>3 DEF StartCancel
  <2>3. CASE StartReturn(t, o)
    <3>1. Works
      BY <2>1, <2>3 DEF StartReturn
    <3> QED
      BY <2>3, <3>1, <1>3 DEF StartReturn
  <2>4. CASE StartWebhook(t, o)
    <3>1. Works
      BY <2>1, <2>4 DEF StartWebhook
    <3> QED
      BY <2>4, <3>1, <1>3 DEF StartWebhook
  <2>5. CASE Reconcile(t, o)
    <3>1. Works
      BY <2>1, <2>5 DEF Reconcile
    <3> QED
      BY <2>5, <3>1, <1>3 DEF Reconcile
  <2>6. CASE ExpireOrder(t, o)
    <3>1. Works
      BY <2>1, <2>6 DEF ExpireOrder
    <3> QED
      BY <2>6, <3>1, <1>3 DEF ExpireOrder
  <2> QED
    BY <1>4, <2>2, <2>3, <2>4, <2>5, <2>6
<1> QED
  BY <1>1, <1>2, <1>4 DEF Member

\* The steps of a handler.
LEMMA ProceedWellFormed ==
  ASSUME WellFormed, NEW t \in Threads, Proceed(t)
  PROVE  WellFormed'
<1> DEFINE o == req[t].order
           Bound == Handler \ Unbound
<1>a. {"charge", "attach", "resume", "confirm", "refund", "fail", "failWrite", "cancelWrite",
       "release", "hook", "record", "mark"} \subseteq Bound
  BY DEF Handler, Unbound
<1>b. "checkout" \in Caller /\ "other" \in Caller
  BY DEF Caller
<1>c. ASSUME req' \in [Threads -> GoodRequest], UNCHANGED <<now, charge>>,
             hold' \in [Pieces -> Hold \cup {NoHold}],
             epoch' \in [Orders -> Nat],
             ref' \in [Orders -> BOOLEAN],
             refund' \in [Orders -> {"none", "owed", "made"}],
             claim' \in [Orders -> {"free", "inflight", "done"}]
      PROVE  WellFormed'
  BY <1>c DEF WellFormed
<1>d. /\ hold \in [Pieces -> Hold \cup {NoHold}]
      /\ epoch \in [Orders -> Nat]
      /\ ref \in [Orders -> BOOLEAN]
      /\ refund \in [Orders -> {"none", "owed", "made"}]
      /\ claim \in [Orders -> {"free", "inflight", "done"}]
  BY DEF WellFormed
<1>e. o \in Orders \/ req[t].at \in Unbound \cup {"idle"}
  BY OrderKnown
<1> HIDE DEF Bound
<1>1. CASE ClaimHolds(t)
  <2>1. [client |-> req[t].client, epoch |-> req[t].epoch] \in Hold
    BY <1>1, MemberKnown DEF ClaimHolds, At, Hold, Unbound
  <2>2. hold' \in [Pieces -> Hold \cup {NoHold}]
    BY <1>1, <1>d, <2>1 DEF ClaimHolds
  <2> QED
    BY <1>1, <1>c, <1>d, <2>2, EndGood DEF ClaimHolds
<1>2. CASE FindOrder(t)
  <2>1. CASE Goto(t, "place")
    <3>1. req[t] \in GoodRequest /\ req[t].client \in Clients
      BY <1>2, MemberKnown DEF FindOrder, At, Unbound, WellFormed
    <3>2. [req[t] EXCEPT !.at = "place"] \in GoodRequest
      BY <3>1 DEF GoodRequest, Request, Handler, Unbound
    <3>3. req' \in [Threads -> GoodRequest]
      BY <2>1, <3>2 DEF Goto, WellFormed
    <3> QED
      BY <1>2, <1>c, <1>d, <3>3 DEF FindOrder
  <2>2. CASE End(t)
    BY <1>2, <1>c, <1>d, <2>2, EndGood DEF FindOrder
  <2>3. ASSUME NEW q \in Orders, WorkOn(t, q, "other", "resume") \/ WorkOn(t, q, "checkout", "charge")
        PROVE  WellFormed'
    <3>1. req' \in [Threads -> GoodRequest]
      BY <1>a, <1>b, <2>3, WorkOnGood DEF Bound
    <3> QED
      BY <1>2, <1>c, <1>d, <3>1 DEF FindOrder
  <2> QED
    BY <1>2, <2>1, <2>2, <2>3 DEF FindOrder, WithKeyOf
<1>3. CASE CreateOrder(t)
  <2>1. PICK q \in Orders : /\ epoch' = [epoch EXCEPT ![q] = req[t].epoch]
                            /\ WorkOn(t, q, "checkout", "charge")
    BY <1>3 DEF CreateOrder
  <2>2. req[t].epoch \in Nat
    BY <1>3, MemberKnown DEF CreateOrder, At, Unbound
  <2>3. req' \in [Threads -> GoodRequest]
    BY <1>a, <1>b, <2>1, WorkOnGood DEF Bound
  <2>4. epoch' \in [Orders -> Nat]
    BY <1>d, <2>1, <2>2
  <2> QED
    BY <1>3, <1>c, <1>d, <2>3, <2>4 DEF CreateOrder
<1>4. CASE RefuseOrder(t)
  BY <1>4, <1>c, <1>d, EndGood DEF RefuseOrder
<1>5. CASE RequestCharge(t)
  <2>1. PICK s \in ChargeStatus :
          /\ charge' = [charge EXCEPT ![o] = s]
          /\ \/ req' = [req EXCEPT ![t].at = "attach", ![t].answer = s]
             \/ Goto(t, "fail")
    BY <1>5, <1>e DEF RequestCharge, At, Unbound, WellFormed
  <2>2. o \in Orders /\ req[t] \in Request
    BY <1>5, <1>e DEF RequestCharge, At, Unbound, WellFormed, GoodRequest
  <2>3. [req[t] EXCEPT !.at = "attach", !.answer = s] \in GoodRequest
    BY <2>2 DEF GoodRequest, Request, Handler, Unbound
  <2>4. CASE req' = [req EXCEPT ![t].at = "attach", ![t].answer = s]
    <3>1. req' = [req EXCEPT ![t] = [req[t] EXCEPT !.at = "attach", !.answer = s]]
      BY <2>4
    <3>2. req' \in [Threads -> GoodRequest]
      BY <2>3, <3>1 DEF WellFormed
    <3> QED
      BY <1>5, <2>1, <3>2 DEF RequestCharge, WellFormed
  <2>5. CASE Goto(t, "fail")
    <3>1. req' \in [Threads -> GoodRequest]
      BY <1>a, <2>2, <2>5, GotoGood DEF Bound
    <3> QED
      BY <1>5, <2>1, <3>1 DEF RequestCharge, WellFormed
  <2> QED
    BY <2>1, <2>4, <2>5
<1>6. CASE AttachReference(t)
  <2>1. o \in Orders
    BY <1>6, <1>e DEF AttachReference, At, Unbound
  <2>2. req' \in [Threads -> GoodRequest]
    BY <1>6, <1>a, <1>b, <2>1, WorkOnGood, EndGood DEF AttachReference, Bound
  <2>3. ref' \in [Orders -> BOOLEAN]
    BY <1>6, <1>d DEF AttachReference
  <2> QED
    BY <1>6, <1>c, <1>d, <2>2, <2>3 DEF AttachReference
<1>7. CASE ResumeCharge(t)
  <2>1. o \in Orders
    BY <1>7, <1>e DEF ResumeCharge, At, Unbound
  <2>2. req' \in [Threads -> GoodRequest]
    BY <1>7, <1>a, <2>1, GotoGood, EndGood DEF ResumeCharge, Bound
  <2> QED
    BY <1>7, <1>c, <1>d, <2>2 DEF ResumeCharge
<1>8. CASE ConfirmPayment(t)
  <2>1. o \in Orders
    BY <1>8, <1>e DEF ConfirmPayment, At, Unbound
  <2>2. req' \in [Threads -> GoodRequest] /\ claim' = claim
    BY <1>8, <2>1, FinishGood DEF ConfirmPayment
  <2>3. hold' \in [Pieces -> Hold \cup {NoHold}] /\ ref' \in [Orders -> BOOLEAN]
    BY <1>8, <1>d DEF ConfirmPayment, Settle
  <2> QED
    BY <1>8, <1>c, <1>d, <2>2, <2>3 DEF ConfirmPayment
<1>9. CASE ConfirmAgain(t)
  <2>1. o \in Orders
    BY <1>9, <1>e DEF ConfirmAgain, At, Unbound
  <2> QED
    BY <1>9, <1>c, <1>d, <2>1, FinishGood DEF ConfirmAgain
<1>10. CASE ConfirmCancelled(t)
  BY <1>10, <1>c, <1>d, AbortGood DEF ConfirmCancelled
<1>11. CASE ConfirmConflict(t)
  <2>1. o \in Orders
    BY <1>11, <1>e DEF ConfirmConflict, At, Unbound
  <2>2. CASE Goto(t, "refund") /\ UNCHANGED claim
    <3>1. req' \in [Threads -> GoodRequest]
      BY <1>a, <2>1, <2>2, GotoGood DEF Bound
    <3> QED
      BY <1>11, <1>c, <1>d, <2>2, <3>1 DEF ConfirmConflict
  <2>3. CASE Abort(t)
    BY <1>11, <1>c, <1>d, <2>3, AbortGood DEF ConfirmConflict
  <2> QED
    BY <1>11, <2>2, <2>3 DEF ConfirmConflict
<1>12. CASE Compensate(t)
  <2>1. o \in Orders
    BY <1>12, <1>e DEF Compensate, At, Unbound
  <2>2. req' \in [Threads -> GoodRequest]
    BY <1>12, <1>a, <2>1, GotoGood DEF Compensate, Bound
  <2>3. refund' \in [Orders -> {"none", "owed", "made"}]
    BY <1>12, <1>d DEF Compensate, QueueRefund
  <2> QED
    BY <1>12, <1>c, <1>d, <2>2, <2>3 DEF Compensate
<1>13. CASE FailRead(t)
  <2>1. o \in Orders
    BY <1>13, <1>e DEF FailRead, At, Unbound
  <2>2. CASE Goto(t, "failWrite") /\ UNCHANGED claim
    <3>1. req' \in [Threads -> GoodRequest]
      BY <1>a, <2>1, <2>2, GotoGood DEF Bound
    <3> QED
      BY <1>13, <1>c, <1>d, <2>2, <3>1 DEF FailRead
  <2>3. CASE Abort(t)
    BY <1>13, <1>c, <1>d, <2>3, AbortGood DEF FailRead
  <2>4. CASE Finish(t)
    BY <1>13, <1>c, <1>d, <2>1, <2>4, FinishGood DEF FailRead
  <2> QED
    BY <1>13, <2>2, <2>3, <2>4 DEF FailRead
<1>14. CASE FailUpdate(t)
  <2>1. o \in Orders
    BY <1>14, <1>e DEF FailUpdate, At, Unbound
  <2>2. req' \in [Threads -> GoodRequest]
    BY <1>14, <1>a, <2>1, GotoGood DEF FailUpdate, Bound
  <2> QED
    BY <1>14, <1>c, <1>d, <2>2 DEF FailUpdate
<1>15. CASE CancelUpdate(t)
  <2>1. o \in Orders
    BY <1>15, <1>e DEF CancelUpdate, At, Unbound
  <2>2. req' \in [Threads -> GoodRequest]
    BY <1>15, <1>a, <2>1, GotoGood DEF CancelUpdate, Bound
  <2> QED
    BY <1>15, <1>c, <1>d, <2>2 DEF CancelUpdate
<1>16. CASE ReleaseHolds(t)
  <2>1. o \in Orders
    BY <1>16, <1>e DEF ReleaseHolds, At, Unbound
  <2>2. hold' \in [Pieces -> Hold \cup {NoHold}]
    BY <1>16, <1>d DEF ReleaseHolds
  <2> QED
    BY <1>16, <1>c, <1>d, <2>1, <2>2, FinishGood DEF ReleaseHolds
<1>17. CASE ProcessWebhook(t)
  <2>1. o \in Orders
    BY <1>17, <1>e DEF ProcessWebhook, At, Unbound
  <2>2. WebhookNext(o) \in {"confirm", "fail", "record", "mark"}
    BY DEF WebhookNext
  <2>3. req' \in [Threads -> GoodRequest]
    BY <1>17, <1>a, <2>1, <2>2, GotoGood, EndGood DEF ProcessWebhook, Bound
  <2> QED
    BY <1>17, <1>c, <1>d, <2>3 DEF ProcessWebhook
<1>18. CASE RecordUnmatched(t)
  <2>1. o \in Orders
    BY <1>18, <1>e DEF RecordUnmatched, At, Unbound
  <2>2. req' \in [Threads -> GoodRequest]
    BY <1>18, <1>a, <2>1, GotoGood DEF RecordUnmatched, Bound
  <2>3. refund' \in [Orders -> {"none", "owed", "made"}]
    BY <1>18, <1>d DEF RecordUnmatched, QueueRefund
  <2> QED
    BY <1>18, <1>c, <1>d, <2>2, <2>3 DEF RecordUnmatched
<1>19. CASE MarkProcessed(t)
  <2>1. claim' \in [Orders -> {"free", "inflight", "done"}]
    BY <1>19, <1>d DEF MarkProcessed
  <2> QED
    BY <1>19, <1>c, <1>d, <2>1, EndGood DEF MarkProcessed
<1> QED
  BY <1>1, <1>2, <1>3, <1>4, <1>5, <1>6, <1>7, <1>8, <1>9, <1>10, <1>11, <1>12, <1>13, <1>14,
     <1>15, <1>16, <1>17, <1>18, <1>19 DEF Proceed

\* The gateway, the timers, the office and crashes.
LEMMA NextWellFormed == WellFormed /\ [CheckoutNext]_checkoutVars => WellFormed'
<1> SUFFICES ASSUME WellFormed, [CheckoutNext]_checkoutVars PROVE WellFormed'
  OBVIOUS
<1>1. ASSUME NEW t \in Threads, Proceed(t) PROVE WellFormed'
  BY <1>1, ProceedWellFormed
<1>2. ASSUME NEW t \in Threads, Member(t) PROVE WellFormed'
  BY <1>2, StartsWellFormed
<1>3. CASE Gateway
  <2>1. ASSUME NEW o \in Orders, NEW s \in ChargeStatus, ChargeSettles(o, s) PROVE WellFormed'
    BY <2>1 DEF ChargeSettles, WellFormed
  <2>2. ASSUME NEW o \in Orders, NEW t \in Threads, StartWebhook(t, o) PROVE WellFormed'
    BY <2>2, StartsWellFormed
  <2> QED
    BY <1>3, <2>1, <2>2 DEF Gateway
<1>4. CASE Timers
  <2>1. ASSUME NEW p \in Pieces, ExpireHold(p) PROVE WellFormed'
    BY <2>1 DEF ExpireHold, WellFormed
  <2>2. ASSUME NEW o \in Orders, ClaimExpires(o) PROVE WellFormed'
    BY <2>2 DEF ClaimExpires, WellFormed
  <2>3. ASSUME NEW o \in Orders, RecoverRefund(o) PROVE WellFormed'
    BY <2>3 DEF RecoverRefund, WellFormed
  <2>4. ASSUME NEW o \in Orders, NEW t \in Threads, Reconcile(t, o) \/ ExpireOrder(t, o)
        PROVE  WellFormed'
    BY <2>4, StartsWellFormed
  <2> QED
    BY <1>4, <2>1, <2>2, <2>3, <2>4 DEF Timers
<1>5. CASE UNCHANGED checkoutOnlyVars
  BY <1>5 DEF checkoutOnlyVars, WellFormed
<1>6. ASSUME NEW o \in Orders, AdminRefund(o) PROVE WellFormed'
  BY <1>6 DEF AdminRefund, QueueRefund, WellFormed
<1>7. ASSUME NEW t \in Threads, Crash(t) PROVE WellFormed'
  <2>1. req' \in [Threads -> GoodRequest]
    BY <1>7, EndGood DEF Crash
  <2> QED
    BY <1>7, <2>1 DEF Crash, WellFormed
<1>8. CASE Service
  BY <1>1, <1>2, <1>3, <1>4, <1>5, <1>8 DEF Service, AdminRegister
<1>9. CASE Office
  BY <1>5, <1>6, <1>9 DEF Office, AdminPiece, AdminOrderStatus
<1>10. CASE UNCHANGED checkoutVars
  BY <1>5, <1>10 DEF checkoutVars
<1> QED
  BY <1>7, <1>8, <1>9, <1>10 DEF CheckoutNext

-----------------------------------------------------------------------------
(* Checkout implements Ownership. *)

\* Of the steps of a handler, four write the tables, each by a transaction.
LEMMA ProceedIsTransaction ==
  ASSUME WellFormed, NEW t \in Threads, Proceed(t)
  PROVE  OrderStep \/ UNCHANGED ownershipVars
<1>1. CASE CreateOrder(t)
  <2>1. req[t].client \in Clients /\ req[t].items \in SUBSET Pieces
    BY <1>1, MemberKnown DEF CreateOrder, At, Unbound
  <2>2. PICK o \in Orders : PlaceOrder(o, req[t].client, req[t].items)
    BY <1>1 DEF CreateOrder
  <2>3. PICK c \in Clients, S \in SUBSET Pieces : c = req[t].client /\ S = req[t].items
    BY <2>1
  <2>4. PlaceOrder(o, c, S)
    BY <2>2, <2>3 DEF PlaceOrder
  <2> QED
    BY <2>4 DEF OrderStep
<1>2. CASE ConfirmPayment(t)
  <2>1. PICK o \in Orders : o = req[t].order
    BY <1>2, OrderKnown DEF ConfirmPayment, At, Unbound
  <2>2. ConfirmOrder(o)
    BY <1>2, <2>1 DEF ConfirmPayment, Settle, ConfirmOrder, Confirmable, Deliverable, OwnedBy, Convey
  <2> QED
    BY <2>2 DEF OrderStep
<1>3. CASE FailUpdate(t)
  <2>1. PICK o \in Orders : o = req[t].order
    BY <1>3, OrderKnown DEF FailUpdate, At, Unbound
  <2>2. FailWrite(o)
    BY <1>3, <2>1 DEF FailUpdate, FailWrite
  <2> QED
    BY <2>2 DEF OrderStep
<1>4. CASE CancelUpdate(t)
  <2>1. PICK o \in Orders : o = req[t].order
    BY <1>4, OrderKnown DEF CancelUpdate, At, Unbound
  <2>2. CancelWrite(o)
    BY <1>4, <2>1 DEF CancelUpdate, CancelWrite
  <2> QED
    BY <2>2 DEF OrderStep
<1> QED
  BY <1>1, <1>2, <1>3, <1>4
     DEF Proceed, ClaimHolds, FindOrder, RefuseOrder, RequestCharge, AttachReference, ResumeCharge,
         ConfirmAgain, ConfirmCancelled, ConfirmConflict, Compensate, FailRead, ReleaseHolds,
         ProcessWebhook, RecordUnmatched, MarkProcessed

LEMMA StepIsTransaction ==
  WellFormed /\ [CheckoutNext]_checkoutVars => [Next]_ownershipVars
<1> SUFFICES ASSUME WellFormed, [CheckoutNext]_checkoutVars PROVE Next \/ UNCHANGED ownershipVars
  OBVIOUS
<1>1. ASSUME NEW t \in Threads, Proceed(t) PROVE Next \/ UNCHANGED ownershipVars
  BY <1>1, ProceedIsTransaction DEF Next
<1>2. ASSUME NEW t \in Threads, Member(t) \/ Crash(t) PROVE UNCHANGED ownershipVars
  BY <1>2 DEF Member, StartReserve, StartCheckout, StartCancel, StartReturn, Crash
<1>3. CASE Gateway
  BY <1>3 DEF Gateway, ChargeSettles, StartWebhook
<1>4. CASE Timers
  BY <1>4 DEF Timers, ExpireHold, ClaimExpires, RecoverRefund, Reconcile, ExpireOrder
<1>5. ASSUME NEW p \in Pieces, AdminRegister(p) \/ AdminPiece(p) PROVE Next
  BY <1>5 DEF AdminRegister, AdminPiece, Next, HouseStep, Owner
<1>6. ASSUME NEW o \in Orders, AdminRefund(o) \/ \E s \in OrderStatus : AdminOrderStatus(o, s)
      PROVE  Next
  BY <1>6 DEF AdminRefund, AdminOrderStatus, Next, OrderStep
<1>7. CASE UNCHANGED checkoutVars
  BY <1>7 DEF checkoutVars
<1> QED
  BY <1>1, <1>2, <1>3, <1>4, <1>5, <1>6, <1>7 DEF CheckoutNext, Service, Office

LEMMA InitWellFormed == CheckoutInit => WellFormed
BY IdleIsGood DEF CheckoutInit, WellFormed, ChargeStatus

\* Handlers never lose track of their member or order.
THEOREM RequestsWellFormed == CheckoutSpec => []WellFormed
BY InitWellFormed, NextWellFormed, PTL DEF CheckoutSpec

\* Whatever its handlers interleave with, and wherever they crash, Checkout
\* changes orders and pieces by the transactions of Ownership only.
THEOREM CheckoutImplementsOwnership == CheckoutSpec => Spec
<1>1. CheckoutInit => Init
  BY DEF CheckoutInit
<1> QED
  BY <1>1, StepIsTransaction, RequestsWellFormed, PTL DEF CheckoutSpec, Spec

\* The rows, the holds, the gateway's charges and the requests are well typed.
THEOREM CheckoutTypeCorrect == CheckoutSpec => []CheckoutTypeOK
<1>1. WellFormed /\ TypeOK => CheckoutTypeOK
  BY DEF WellFormed, CheckoutTypeOK, GoodRequest
<1> QED
  BY <1>1, RequestsWellFormed, CheckoutImplementsOwnership, TypeCorrect, PTL

-----------------------------------------------------------------------------
(* Money. *)

\* What settling rests on: a paid order carries the reference of its charge,
\* and a request is about to confirm only an order whose charge was captured.
Settled(t) == At(t, "confirm") \/ (At(t, "attach") /\ req[t].answer = "CAPTURED")

PaidIsReferenced == \A o \in Orders : order[o].pay = "PAID" => ref[o]

ConfirmsCaptured == \A t \in Threads : Settled(t) => charge[req[t].order] = "CAPTURED"

MoneyInv ==
  /\ GoodsOnlyForCapture
  /\ RefundedOrdersAreOwed
  /\ PaidIsReferenced
  /\ ConfirmsCaptured

\* A captured charge stays captured, a stored reference stays stored, and a
\* refund owed or made stays so.
LEMMA MoneyIsMonotone ==
  ASSUME WellFormed, [CheckoutNext]_checkoutVars, NEW o \in Orders
  PROVE  /\ charge[o] = "CAPTURED" => charge'[o] = "CAPTURED"
         /\ ref[o] => ref'[o]
         /\ refund[o] # "none" => refund'[o] # "none"
<1> DEFINE Goal == /\ charge[o] = "CAPTURED" => charge'[o] = "CAPTURED"
                   /\ ref[o] => ref'[o]
                   /\ refund[o] # "none" => refund'[o] # "none"
<1> SUFFICES Goal
  OBVIOUS
<1>1. CASE UNCHANGED <<ref, charge, refund>>
  BY <1>1
<1>2. ASSUME NEW t \in Threads, Proceed(t) PROVE Goal
  <2>1. CASE RequestCharge(t)
    BY <2>1 DEF RequestCharge, WellFormed
  <2>2. CASE AttachReference(t)
    BY <2>2 DEF AttachReference, WellFormed
  <2>3. CASE ConfirmPayment(t)
    BY <2>3 DEF ConfirmPayment, Settle, WellFormed
  <2>4. CASE Compensate(t) \/ RecordUnmatched(t)
    BY <2>4 DEF Compensate, RecordUnmatched, QueueRefund, WellFormed
  <2> QED
    BY <1>1, <1>2, <2>1, <2>2, <2>3, <2>4
       DEF Proceed, ClaimHolds, FindOrder, CreateOrder, RefuseOrder, ResumeCharge, ConfirmAgain,
           ConfirmCancelled, ConfirmConflict, FailRead, FailUpdate, CancelUpdate, ReleaseHolds,
           ProcessWebhook, MarkProcessed
<1>3. ASSUME NEW q \in Orders, NEW s \in ChargeStatus, ChargeSettles(q, s) PROVE Goal
  BY <1>3 DEF ChargeSettles, WellFormed
<1>4. ASSUME NEW q \in Orders, RecoverRefund(q) \/ AdminRefund(q) PROVE Goal
  BY <1>4 DEF RecoverRefund, AdminRefund, QueueRefund, WellFormed
<1>5. ASSUME NEW t \in Threads, Member(t) \/ Crash(t) PROVE Goal
  BY <1>1, <1>5 DEF Member, StartReserve, StartCheckout, StartCancel, StartReturn, Crash
<1>6. CASE Gateway
  BY <1>1, <1>3, <1>6 DEF Gateway, StartWebhook
<1>7. CASE Timers
  BY <1>1, <1>4, <1>7 DEF Timers, ExpireHold, ClaimExpires, Reconcile, ExpireOrder
<1>8. ASSUME NEW p \in Pieces, AdminRegister(p) \/ AdminPiece(p) PROVE Goal
  BY <1>1, <1>8 DEF AdminRegister, AdminPiece, checkoutOnlyVars
<1>9. CASE Office
  BY <1>1, <1>4, <1>8, <1>9 DEF Office, AdminOrderStatus, checkoutOnlyVars
<1>10. CASE UNCHANGED checkoutVars
  BY <1>1, <1>10 DEF checkoutVars, checkoutOnlyVars
<1> QED
  BY <1>2, <1>5, <1>6, <1>7, <1>8, <1>9, <1>10 DEF CheckoutNext, Service

\* A request gets to a confirmation from a captured charge only.
LEMMA ConfirmsCapturedKept ==
  ASSUME WellFormed, ConfirmsCaptured, [CheckoutNext]_checkoutVars
  PROVE  ConfirmsCaptured'
<1> SUFFICES ASSUME NEW t \in Threads, Settled(t)'
             PROVE  charge'[req'[t].order] = "CAPTURED"
  BY DEF ConfirmsCaptured
<1> DEFINE Goal == charge'[req'[t].order] = "CAPTURED"
<1>a. ASSUME NEW o \in Orders, charge[o] = "CAPTURED" PROVE charge'[o] = "CAPTURED"
  BY <1>a, MoneyIsMonotone
<1>1. CASE req'[t] = req[t]
  <2>1. Settled(t) /\ req[t].order \in Orders
    BY <1>1, OrderKnown DEF Settled, At, Unbound
  <2> QED
    BY <1>1, <1>a, <2>1 DEF ConfirmsCaptured
<1>2. ASSUME NEW u \in Threads, End(u) PROVE req'[t] = req[t]
  BY <1>2 DEF End, Settled, At, Idle, WellFormed
<1>3. ASSUME NEW u \in Threads, NEW a \in Handler \ {"confirm", "attach"}, Goto(u, a)
      PROVE  req'[t] = req[t]
  BY <1>3 DEF Goto, Settled, At, WellFormed, GoodRequest, Request
<1>4. ASSUME NEW u \in Threads, NEW a \in Handler \ {"confirm", "attach"}, NEW o, NEW c, WorkOn(u, o, c, a)
      PROVE  req'[t] = req[t]
  BY <1>4 DEF WorkOn, Settled, At, Idle, WellFormed
<1>5. ASSUME NEW u \in Threads, Goto(u, "confirm"),
             req[u].order \in Orders, charge[req[u].order] = "CAPTURED"
      PROVE  Goal
  <2>1. CASE u = t
    <3>1. req'[t].order = req[t].order
      BY <1>5, <2>1 DEF Goto, WellFormed, GoodRequest, Request
    <3> QED
      BY <1>5, <1>a, <2>1, <3>1
  <2>2. CASE u # t
    BY <1>1, <1>5, <2>2 DEF Goto, WellFormed
  <2> QED
    BY <2>1, <2>2
<1>6. ASSUME NEW u \in Threads, NEW o \in Orders, NEW c, WorkOn(u, o, c, "confirm"),
             charge[o] = "CAPTURED"
      PROVE  Goal
  <2>1. CASE u = t
    <3>1. req'[t].order = o
      BY <1>6, <2>1 DEF WorkOn, WellFormed, Idle
    <3> QED
      BY <1>6, <1>a, <3>1
  <2>2. CASE u # t
    BY <1>1, <1>6, <2>2 DEF WorkOn, WellFormed
  <2> QED
    BY <2>1, <2>2
<1>b. {"place", "resume", "charge", "fail", "mark", "refund", "failWrite", "release", "record",
       "hook", "cancelWrite", "claim", "find"} \subseteq Handler \ {"confirm", "attach"}
  BY DEF Handler
<1>7. ASSUME NEW u \in Threads, Finish(u) \/ Abort(u) PROVE Goal
  BY <1>1, <1>2, <1>3, <1>7, <1>b DEF Finish, Abort
<1>8. ASSUME NEW u \in Threads, Proceed(u) PROVE Goal
  <2>1. CASE \/ ClaimHolds(u) \/ FindOrder(u) \/ CreateOrder(u) \/ RefuseOrder(u)
    BY <1>1, <1>2, <1>3, <1>4, <1>b, <2>1 DEF ClaimHolds, FindOrder, CreateOrder, RefuseOrder
  <2>2. CASE RequestCharge(u)
    <3>1. PICK s \in ChargeStatus :
            /\ charge' = [charge EXCEPT ![req[u].order] = s]
            /\ \/ req' = [req EXCEPT ![u].at = "attach", ![u].answer = s]
               \/ Goto(u, "fail")
      BY <2>2, OrderKnown DEF RequestCharge, At, Unbound, WellFormed
    <3>2. CASE Goto(u, "fail")
      BY <1>1, <1>3, <1>b, <3>2
    <3>3. CASE req' = [req EXCEPT ![u].at = "attach", ![u].answer = s] /\ u = t
      <4>1. req[t].order \in Orders /\ req[t] \in Request
        BY <2>2, <3>3, OrderKnown DEF RequestCharge, At, Unbound, WellFormed, GoodRequest
      <4>2. req'[t].at = "attach" /\ req'[t].answer = s /\ req'[t].order = req[t].order
        BY <3>3, <4>1 DEF WellFormed, Request
      <4>3. s = "CAPTURED"
        BY <4>2 DEF Settled, At
      <4> QED
        BY <3>1, <3>3, <4>1, <4>2, <4>3 DEF WellFormed
    <3>4. CASE req' = [req EXCEPT ![u].at = "attach", ![u].answer = s] /\ u # t
      BY <1>1, <3>4 DEF WellFormed
    <3> QED
      BY <3>1, <3>2, <3>3, <3>4
  <2>3. CASE AttachReference(u)
    <3>1. req[u].order \in Orders
      BY <2>3, OrderKnown DEF AttachReference, At, Unbound
    <3>2. CASE req[u].answer = "CAPTURED" /\ WorkOn(u, req[u].order, "checkout", "confirm")
      <4>1. charge[req[u].order] = "CAPTURED"
        BY <2>3, <3>2 DEF AttachReference, ConfirmsCaptured, Settled
      <4> QED
        BY <1>6, <3>1, <3>2, <4>1
    <3> QED
      BY <1>1, <1>2, <1>4, <1>b, <2>3, <3>2 DEF AttachReference
  <2>4. CASE ResumeCharge(u)
    <3>1. req[u].order \in Orders
      BY <2>4, OrderKnown DEF ResumeCharge, At, Unbound
    <3> QED
      BY <1>1, <1>2, <1>3, <1>5, <1>b, <2>4, <3>1 DEF ResumeCharge
  <2>5. CASE \/ ConfirmPayment(u) \/ ConfirmAgain(u) \/ ConfirmCancelled(u) \/ ConfirmConflict(u)
    BY <1>1, <1>3, <1>7, <1>b, <2>5
       DEF ConfirmPayment, ConfirmAgain, ConfirmCancelled, ConfirmConflict
  <2>6. CASE \/ Compensate(u) \/ FailRead(u) \/ FailUpdate(u) \/ CancelUpdate(u) \/ ReleaseHolds(u)
    BY <1>1, <1>3, <1>7, <1>b, <2>6
       DEF Compensate, FailRead, FailUpdate, CancelUpdate, ReleaseHolds
  <2>7. CASE ProcessWebhook(u)
    <3>1. req[u].order \in Orders
      BY <2>7, OrderKnown DEF ProcessWebhook, At, Unbound
    <3>2. \/ WebhookNext(req[u].order) = "confirm" /\ charge[req[u].order] = "CAPTURED"
          \/ WebhookNext(req[u].order) \in {"fail", "record", "mark"}
      BY DEF WebhookNext
    <3> QED
      BY <1>1, <1>2, <1>3, <1>5, <1>b, <2>7, <3>1, <3>2 DEF ProcessWebhook
  <2>8. CASE RecordUnmatched(u) \/ MarkProcessed(u)
    BY <1>1, <1>2, <1>3, <1>b, <2>8 DEF RecordUnmatched, MarkProcessed
  <2> QED
    BY <1>8, <2>1, <2>2, <2>3, <2>4, <2>5, <2>6, <2>7, <2>8 DEF Proceed
<1>9. ASSUME NEW u \in Threads, Member(u) PROVE Goal
  <2>1. ASSUME NEW c \in Clients, NEW S \in SUBSET Pieces, StartReserve(u, c, S) PROVE Goal
    BY <1>1, <2>1 DEF StartReserve, Settled, At, Idle, WellFormed
  <2>2. ASSUME NEW c \in Clients, NEW S \in SUBSET Pieces, StartCheckout(u, c, S) PROVE Goal
    <3>1. PICK q \in S :
            req' = [req EXCEPT ![u] = [Idle EXCEPT !.at = "find", !.via = "checkout", !.client = c,
                                                   !.items = S, !.epoch = hold[q].epoch]]
      BY <2>2 DEF StartCheckout
    <3> QED
      BY <1>1, <3>1 DEF Settled, At, Idle, WellFormed
  <2>3. ASSUME NEW o \in Orders, StartCancel(u, o) PROVE Goal
    BY <1>1, <1>4, <1>b, <2>3 DEF StartCancel
  <2>4. ASSUME NEW o \in Orders, StartReturn(u, o) PROVE Goal
    <3>1. \/ charge[o] = "CAPTURED" /\ WorkOn(u, o, "checkout", "confirm")
          \/ WorkOn(u, o, "checkout", "fail")
      BY <2>4 DEF StartReturn
    <3> QED
      BY <1>1, <1>4, <1>6, <1>b, <3>1
  <2> QED
    BY <1>9, <2>1, <2>2, <2>3, <2>4 DEF Member
<1>10. CASE Gateway
  BY <1>1, <1>4, <1>10, <1>b DEF Gateway, ChargeSettles, StartWebhook
<1>11. CASE Timers
  <2>1. ASSUME NEW u \in Threads, NEW o \in Orders, Reconcile(u, o) PROVE Goal
    <3>1. \/ charge[o] = "CAPTURED" /\ WorkOn(u, o, "other", "confirm")
          \/ WorkOn(u, o, "other", "fail")
      BY <2>1 DEF Reconcile
    <3> QED
      BY <1>1, <1>4, <1>6, <1>b, <3>1
  <2>2. ASSUME NEW u \in Threads, NEW o \in Orders, ExpireOrder(u, o) PROVE Goal
    BY <1>1, <1>4, <1>b, <2>2 DEF ExpireOrder
  <2> QED
    BY <1>1, <1>11, <2>1, <2>2 DEF Timers, ExpireHold, ClaimExpires, RecoverRefund
<1>12. ASSUME NEW u \in Threads, Crash(u) PROVE Goal
  BY <1>1, <1>2, <1>12 DEF Crash
<1>13. CASE Office \/ UNCHANGED checkoutVars \/ \E p \in Pieces : AdminRegister(p)
  BY <1>1, <1>13 DEF Office, AdminPiece, AdminRefund, AdminOrderStatus, AdminRegister,
                     checkoutVars, checkoutOnlyVars
<1> QED
  BY <1>8, <1>9, <1>10, <1>11, <1>12, <1>13 DEF CheckoutNext, Service

\* Five things happen to the payment of an order: nothing, it is placed, a
\* request fails it or confirms it, or the office refunds it.
LEMMA PaymentChanges ==
  ASSUME TypeOK, WellFormed, [CheckoutNext]_checkoutVars, NEW o \in Orders
  PROVE  \/ order'[o].pay = order[o].pay
         \/ order'[o].pay = "PENDING" /\ order[o].status = "NONE"
         \/ /\ order'[o].pay = "FAILED"
            /\ \E t \in Threads : FailUpdate(t) /\ req[t].order = o
         \/ /\ order'[o].pay = "PAID"
            /\ \E t \in Threads : ConfirmPayment(t) /\ req[t].order = o
         \/ /\ order'[o].pay = "REFUNDED"
            /\ order[o].pay = "PAID"
            /\ AdminRefund(o)
<1> DEFINE Goal == \/ order'[o].pay = order[o].pay
                   \/ order'[o].pay = "PENDING" /\ order[o].status = "NONE"
                   \/ /\ order'[o].pay = "FAILED"
                      /\ \E t \in Threads : FailUpdate(t) /\ req[t].order = o
                   \/ /\ order'[o].pay = "PAID"
                      /\ \E t \in Threads : ConfirmPayment(t) /\ req[t].order = o
                   \/ /\ order'[o].pay = "REFUNDED"
                      /\ order[o].pay = "PAID"
                      /\ AdminRefund(o)
<1> SUFFICES Goal
  OBVIOUS
<1>1. CASE UNCHANGED order
  BY <1>1
<1>2. ASSUME NEW t \in Threads, Proceed(t) PROVE Goal
  <2>1. CASE CreateOrder(t)
    BY <2>1 DEF CreateOrder, PlaceOrder, TypeOK
  <2>2. CASE ConfirmPayment(t)
    BY <2>2, OrderKnown DEF ConfirmPayment, Settle, ConfirmOrder, At, Unbound, TypeOK
  <2>3. CASE FailUpdate(t)
    <3>1. req[t].order \in Orders
      BY <2>3, OrderKnown DEF FailUpdate, At, Unbound
    <3> QED
      BY <2>3, <3>1 DEF FailUpdate, FailWrite, TypeOK
  <2>4. CASE CancelUpdate(t)
    <3>1. req[t].order \in Orders
      BY <2>4, OrderKnown DEF CancelUpdate, At, Unbound
    <3> QED
      BY <2>4, <3>1 DEF CancelUpdate, CancelWrite, TypeOK
  <2> QED
    BY <1>1, <1>2, <2>1, <2>2, <2>3, <2>4
       DEF Proceed, ClaimHolds, FindOrder, RefuseOrder, RequestCharge, AttachReference, ResumeCharge,
           ConfirmAgain, ConfirmCancelled, ConfirmConflict, Compensate, FailRead, ReleaseHolds,
           ProcessWebhook, RecordUnmatched, MarkProcessed, ownershipVars
<1>3. ASSUME NEW t \in Threads, Member(t) \/ Crash(t) PROVE Goal
  BY <1>1, <1>3 DEF Member, StartReserve, StartCheckout, StartCancel, StartReturn, Crash, ownershipVars
<1>4. CASE Gateway
  BY <1>1, <1>4 DEF Gateway, ChargeSettles, StartWebhook, ownershipVars
<1>5. CASE Timers
  BY <1>1, <1>5 DEF Timers, ExpireHold, ClaimExpires, RecoverRefund, Reconcile, ExpireOrder, ownershipVars
<1>6. ASSUME NEW p \in Pieces, AdminRegister(p) \/ AdminPiece(p) PROVE Goal
  BY <1>1, <1>6 DEF AdminRegister, AdminPiece, RegisterPiece, UpdatePiece, AssignPiece
<1>7. ASSUME NEW q \in Orders, AdminRefund(q) PROVE Goal
  BY <1>7 DEF AdminRefund, RefundOrder, TypeOK
<1>8. ASSUME NEW q \in Orders, NEW s \in OrderStatus, AdminOrderStatus(q, s) PROVE Goal
  BY <1>8 DEF AdminOrderStatus, UpdateOrderStatus, TypeOK
<1>9. CASE Office
  BY <1>6, <1>7, <1>8, <1>9 DEF Office
<1>10. CASE UNCHANGED checkoutVars
  BY <1>1, <1>10 DEF checkoutVars, ownershipVars
<1> QED
  BY <1>2, <1>3, <1>4, <1>5, <1>6, <1>9, <1>10 DEF CheckoutNext, Service

LEMMA InitMoney == CheckoutInit => MoneyInv
BY DEF CheckoutInit, Init, MoneyInv, GoodsOnlyForCapture, RefundedOrdersAreOwed, PaidIsReferenced,
       ConfirmsCaptured, Settled, At, Idle

LEMMA MoneyKept ==
  ASSUME TypeOK, WellFormed, MoneyInv, [CheckoutNext]_checkoutVars
  PROVE  MoneyInv'
<1> USE DEF MoneyInv
<1>1. GoodsOnlyForCapture'
  <2> SUFFICES ASSUME NEW o \in Orders, order'[o].pay \in {"PAID", "REFUNDED"}
               PROVE  charge[o] = "CAPTURED"
    BY MoneyIsMonotone DEF GoodsOnlyForCapture
  <2>1. CASE order'[o].pay = order[o].pay \/ order[o].pay = "PAID"
    BY <2>1 DEF GoodsOnlyForCapture
  <2>2. ASSUME NEW t \in Threads, ConfirmPayment(t), req[t].order = o
        PROVE  charge[o] = "CAPTURED"
    BY <2>2 DEF ConfirmPayment, ConfirmsCaptured, Settled
  <2> QED
    BY <2>1, <2>2, PaymentChanges
<1>2. RefundedOrdersAreOwed'
  <2> SUFFICES ASSUME NEW o \in Orders, order'[o].pay = "REFUNDED"
               PROVE  refund'[o] # "none"
    BY DEF RefundedOrdersAreOwed
  <2>1. CASE order'[o].pay = order[o].pay
    BY <2>1, MoneyIsMonotone DEF RefundedOrdersAreOwed
  <2>2. CASE order[o].pay = "PAID" /\ AdminRefund(o)
    <3>1. QueueRefund(o)
      BY <2>2 DEF AdminRefund, PaidIsReferenced
    <3> QED
      BY <3>1 DEF QueueRefund, WellFormed
  <2> QED
    BY <2>1, <2>2, PaymentChanges
<1>3. PaidIsReferenced'
  <2> SUFFICES ASSUME NEW o \in Orders, order'[o].pay = "PAID"
               PROVE  ref'[o]
    BY DEF PaidIsReferenced
  <2>1. CASE order'[o].pay = order[o].pay
    BY <2>1, MoneyIsMonotone DEF PaidIsReferenced
  <2>2. ASSUME NEW t \in Threads, ConfirmPayment(t), req[t].order = o
        PROVE  ref'[o]
    BY <2>2 DEF ConfirmPayment, Settle, WellFormed
  <2> QED
    BY <2>1, <2>2, PaymentChanges
<1> QED
  BY <1>1, <1>2, <1>3, ConfirmsCapturedKept

LEMMA MoneyInvariance == CheckoutSpec => []MoneyInv
<1>1. TypeOK /\ WellFormed /\ MoneyInv /\ [CheckoutNext]_checkoutVars => MoneyInv'
  BY MoneyKept
<1> QED
  BY <1>1, InitMoney, RequestsWellFormed, CheckoutImplementsOwnership, TypeCorrect, PTL
     DEF CheckoutSpec

\* No goods without money: every order ever settled, by whichever of its four
\* callers, has a captured charge.
THEOREM GoodsArePaidFor == CheckoutSpec => []GoodsOnlyForCapture
BY MoneyInvariance, PTL DEF MoneyInv

\* No order refunded by the office is left without a queued or made refund:
\* the reference that the queue needs was stored when the order was settled.
THEOREM RefundsAreOwed == CheckoutSpec => []RefundedOrdersAreOwed
BY MoneyInvariance, PTL DEF MoneyInv

\* What is proved of the tables in OwnershipProofs holds under Checkout's
\* interleavings and crashes.
COROLLARY TablesStayConsistent == CheckoutSpec => []IInv
BY CheckoutImplementsOwnership, Invariance, PTL

-----------------------------------------------------------------------------
(* Orders and their keys. *)

\* What an order is keyed by, once it is placed.
KeyKept(o) ==
  /\ (order'[o].status # "NONE") <=> (order[o].status # "NONE")
  /\ order'[o].client = order[o].client
  /\ order'[o].items = order[o].items
  /\ epoch'[o] = epoch[o]

\* Only createPendingOrder gives an order a key.
LEMMA KeysChange ==
  ASSUME TypeOK, OrdersWellFormed, WellFormed, [CheckoutNext]_checkoutVars
  PROVE  (\E t \in Threads : CreateOrder(t)) \/ (\A o \in Orders : KeyKept(o))
<1> DEFINE Kept == \A o \in Orders : KeyKept(o)
<1> USE DEF KeyKept
<1>1. CASE UNCHANGED <<order, epoch>>
  BY <1>1
<1>2. ASSUME NEW t \in Threads, Proceed(t) PROVE CreateOrder(t) \/ Kept
  <2>1. CASE ConfirmPayment(t)
    <3>1. req[t].order \in Orders
      BY <2>1, OrderKnown DEF ConfirmPayment, At, Unbound
    <3> QED
      BY <2>1, <3>1 DEF ConfirmPayment, Settle, ConfirmOrder, Confirmable, TypeOK
  <2>2. CASE FailUpdate(t)
    <3>1. req[t].order \in Orders
      BY <2>2, OrderKnown DEF FailUpdate, At, Unbound
    <3> QED
      BY <2>2, <3>1 DEF FailUpdate, FailWrite, TypeOK
  <2>3. CASE CancelUpdate(t)
    <3>1. req[t].order \in Orders
      BY <2>3, OrderKnown DEF CancelUpdate, At, Unbound
    <3> QED
      BY <2>3, <3>1 DEF CancelUpdate, CancelWrite, TypeOK
  <2> QED
    BY <1>1, <1>2, <2>1, <2>2, <2>3
       DEF Proceed, ClaimHolds, FindOrder, RefuseOrder, RequestCharge, AttachReference, ResumeCharge,
           ConfirmAgain, ConfirmCancelled, ConfirmConflict, Compensate, FailRead, ReleaseHolds,
           ProcessWebhook, RecordUnmatched, MarkProcessed, ownershipVars
<1>3. ASSUME NEW t \in Threads, Member(t) \/ Crash(t) PROVE Kept
  BY <1>1, <1>3 DEF Member, StartReserve, StartCheckout, StartCancel, StartReturn, Crash, ownershipVars
<1>4. CASE Gateway
  BY <1>1, <1>4 DEF Gateway, ChargeSettles, StartWebhook, ownershipVars
<1>5. CASE Timers
  BY <1>1, <1>5 DEF Timers, ExpireHold, ClaimExpires, RecoverRefund, Reconcile, ExpireOrder, ownershipVars
<1>6. ASSUME NEW p \in Pieces, AdminRegister(p) \/ AdminPiece(p) PROVE Kept
  BY <1>1, <1>6 DEF AdminRegister, AdminPiece, RegisterPiece, UpdatePiece, AssignPiece, checkoutOnlyVars
<1>7. ASSUME NEW o \in Orders, AdminRefund(o) PROVE Kept
  <2>1. order[o].status # "NONE"
    BY <1>7 DEF AdminRefund, RefundOrder, OrdersWellFormed
  <2> QED
    BY <1>7, <2>1 DEF AdminRefund, RefundOrder, TypeOK
<1>8. ASSUME NEW o \in Orders, NEW s \in OrderStatus, AdminOrderStatus(o, s) PROVE Kept
  BY <1>8 DEF AdminOrderStatus, UpdateOrderStatus, OrderTransitions, TypeOK, OrderStatus, checkoutOnlyVars
<1>9. CASE Office
  BY <1>6, <1>7, <1>8, <1>9 DEF Office
<1>10. CASE UNCHANGED checkoutVars
  BY <1>1, <1>10 DEF checkoutVars, ownershipVars, checkoutOnlyVars
<1> QED
  BY <1>2, <1>3, <1>4, <1>5, <1>6, <1>9, <1>10 DEF CheckoutNext, Service

\* The lookup and the UNIQUE constraint are one: an order is created only when
\* no other has its key, and nothing changes a key later.
LEMMA OneOrderPerKeyKept ==
  ASSUME TypeOK, OrdersWellFormed, WellFormed, OneOrderPerKey, [CheckoutNext]_checkoutVars
  PROVE  OneOrderPerKey'
<1>1. CASE \A o \in Orders : KeyKept(o)
  BY <1>1 DEF KeyKept, OneOrderPerKey
<1>2. ASSUME NEW t \in Threads, CreateOrder(t) PROVE OneOrderPerKey'
  <2>1. PICK n \in Orders :
          /\ PlaceOrder(n, req[t].client, req[t].items)
          /\ epoch' = [epoch EXCEPT ![n] = req[t].epoch]
    BY <1>2 DEF CreateOrder
  <2>2. ASSUME NEW o \in Orders \ {n} PROVE KeyKept(o)
    BY <2>1, <2>2 DEF PlaceOrder, KeyKept, TypeOK, WellFormed
  <2>3. /\ order'[n].client = req[t].client
        /\ order'[n].items = req[t].items
        /\ epoch'[n] = req[t].epoch
    BY <2>1 DEF PlaceOrder, TypeOK, WellFormed
  <2>4. ASSUME NEW o \in Orders, order[o].status # "NONE", order[o].client = req[t].client,
               order[o].items = req[t].items
        PROVE  epoch[o] # req[t].epoch
    BY <1>2, <2>4 DEF CreateOrder, WithKeyOf
  <2> QED
    BY <2>2, <2>3, <2>4 DEF KeyKept, OneOrderPerKey
<1> QED
  BY <1>1, <1>2, KeysChange

\* However requests are retried and raced, a checkout makes one order.
THEOREM CheckoutsAreIdempotent == CheckoutSpec => []OneOrderPerKey
<1>1. CheckoutInit => OneOrderPerKey
  BY DEF CheckoutInit, Init, OneOrderPerKey
<1>2. IInv => TypeOK /\ OrdersWellFormed
  BY DEF IInv, Consistent
<1>3. TypeOK /\ OrdersWellFormed /\ WellFormed /\ OneOrderPerKey /\ [CheckoutNext]_checkoutVars
        => OneOrderPerKey'
  BY OneOrderPerKeyKept
<1> QED
  BY <1>1, <1>2, <1>3, RequestsWellFormed, TablesStayConsistent, PTL DEF CheckoutSpec

===============================================================================
