--------------------------- MODULE SettlementProofs ---------------------------
(***************************************************************************)
(* More of what holds of Checkout for every number of members, pieces,     *)
(* orders and concurrent requests: who may take a hold, where the money of *)
(* a processed capture is, that the payment, the charge and the refund of  *)
(* an order agree, and, while the office is passive, that the buyer of a   *)
(* paid order has its pieces and has not been paid back, so that Checkout  *)
(* implements Sale.  As it implements Ownership, it implements Custody.    *)
(***************************************************************************)
EXTENDS CheckoutProofs, CustodyProofs

-----------------------------------------------------------------------------
(* How a step moves a thread, and what it may not undo. *)

\* Whoever moves a thread is a step of that very thread.
LEMMA ThreadMoves ==
  ASSUME WellFormed, [CheckoutNext]_checkoutVars, NEW t \in Threads, req'[t] # req[t]
  PROVE  \/ Proceed(t)
         \/ Member(t)
         \/ \E o \in Orders : StartWebhook(t, o) \/ Reconcile(t, o) \/ ExpireOrder(t, o)
         \/ Crash(t)
<1> DEFINE Other(u) == req' = [req EXCEPT ![u] = req'[u]] \/ req' = req
<1>1. ASSUME NEW u \in Threads, Other(u) PROVE u = t
  BY <1>1 DEF WellFormed
<1>2. ASSUME NEW u \in Threads, NEW a, Goto(u, a) PROVE Other(u)
  BY <1>2 DEF Goto, WellFormed
<1>3. ASSUME NEW u \in Threads, NEW o, NEW c, NEW a, WorkOn(u, o, c, a) PROVE Other(u)
  BY <1>3 DEF WorkOn, WellFormed
<1>4. ASSUME NEW u \in Threads, End(u) PROVE Other(u)
  BY <1>4 DEF End, WellFormed
<1>5. ASSUME NEW u \in Threads, Finish(u) \/ Abort(u) PROVE Other(u)
  BY <1>2, <1>4, <1>5 DEF Finish, Abort
<1>6. ASSUME NEW u \in Threads, NEW r, req' = [req EXCEPT ![u] = r] PROVE Other(u)
  BY <1>6 DEF WellFormed
<1>7. ASSUME NEW u \in Threads, Proceed(u) PROVE Other(u)
  <2>1. CASE RequestCharge(u)
    <3>1. CASE Goto(u, "fail")
      BY <1>2, <3>1
    <3>2. ASSUME NEW s, req' = [req EXCEPT ![u].at = "attach", ![u].answer = s]
          PROVE  Other(u)
      BY <3>2 DEF WellFormed
    <3> QED
      BY <2>1, <3>1, <3>2 DEF RequestCharge
  <2>2. CASE ClaimHolds(u) \/ RefuseOrder(u) \/ MarkProcessed(u)
    BY <1>4, <2>2 DEF ClaimHolds, RefuseOrder, MarkProcessed
  <2>3. CASE FindOrder(u) \/ CreateOrder(u) \/ AttachReference(u) \/ ResumeCharge(u)
    BY <1>2, <1>3, <1>4, <2>3 DEF FindOrder, CreateOrder, AttachReference, ResumeCharge
  <2>4. CASE ConfirmPayment(u) \/ ConfirmAgain(u) \/ ConfirmCancelled(u) \/ ConfirmConflict(u)
    BY <1>2, <1>5, <2>4 DEF ConfirmPayment, ConfirmAgain, ConfirmCancelled, ConfirmConflict
  <2>5. CASE Compensate(u) \/ FailRead(u) \/ FailUpdate(u) \/ CancelUpdate(u) \/ ReleaseHolds(u)
    BY <1>2, <1>5, <2>5 DEF Compensate, FailRead, FailUpdate, CancelUpdate, ReleaseHolds
  <2>6. CASE ProcessWebhook(u) \/ RecordUnmatched(u)
    BY <1>2, <1>4, <2>6 DEF ProcessWebhook, RecordUnmatched
  <2> QED
    BY <1>7, <2>1, <2>2, <2>3, <2>4, <2>5, <2>6 DEF Proceed
<1>8. ASSUME NEW u \in Threads, Member(u) PROVE Other(u)
  BY <1>3, <1>6, <1>8 DEF Member, StartReserve, StartCheckout, StartCancel, StartReturn
<1>9. ASSUME NEW u \in Threads, NEW o \in Orders,
             StartWebhook(u, o) \/ Reconcile(u, o) \/ ExpireOrder(u, o)
      PROVE  Other(u)
  BY <1>3, <1>9 DEF StartWebhook, Reconcile, ExpireOrder
<1>10. ASSUME NEW u \in Threads, Crash(u) PROVE Other(u)
  BY <1>4, <1>10 DEF Crash
<1>11. CASE req' = req
  BY <1>11
<1> HIDE DEF Other
<1>12. CASE Gateway
  BY <1>1, <1>9, <1>11, <1>12 DEF Gateway, ChargeSettles
<1>13. CASE Timers
  BY <1>1, <1>9, <1>11, <1>13 DEF Timers, ExpireHold, ClaimExpires, RecoverRefund
<1>14. CASE Office \/ UNCHANGED checkoutVars \/ \E p \in Pieces : AdminRegister(p)
  BY <1>11, <1>14 DEF Office, AdminPiece, AdminRefund, AdminOrderStatus, AdminRegister,
                      checkoutVars, checkoutOnlyVars
<1> QED
  BY <1>1, <1>7, <1>8, <1>10, <1>12, <1>13, <1>14 DEF CheckoutNext, Service

-----------------------------------------------------------------------------
(* Holds. *)

\* The three steps that write holds.
LEMMA HoldsChange ==
  ASSUME WellFormed, OrdersWellFormed, TypeOK, [CheckoutNext]_checkoutVars,
         NEW p \in Pieces, HoldLostInHandler(p)
  PROVE  /\ hold'[p] = NoHold
         /\ \/ piece'[p].owner \in Clients
            \/ \E t \in Threads : /\ At(t, "release")
                                  /\ p \in order[req[t].order].items
                                  /\ order[req[t].order].client = hold[p].client
<1> DEFINE Goal == /\ hold'[p] = NoHold
                   /\ \/ piece'[p].owner \in Clients
                      \/ \E t \in Threads : /\ At(t, "release")
                                            /\ p \in order[req[t].order].items
                                            /\ order[req[t].order].client = hold[p].client
<1> SUFFICES Goal
  OBVIOUS
<1>1. hold[p] # NoHold /\ hold'[p] # hold[p]
  BY DEF HoldLostInHandler
<1>2. ASSUME NEW t \in Threads, ClaimHolds(t) PROVE FALSE
  <2>1. CASE hold'[p] = hold[p]
    BY <1>1, <2>1
  <2>2. CASE HeldBy(p, req[t].client) /\ hold'[p] = [client |-> req[t].client, epoch |-> req[t].epoch]
    <3>1. hold'[p].client = hold[p].client /\ hold'[p] \in [client : Clients, epoch : Nat]
      BY <1>2, <2>2, MemberKnown DEF HeldBy, ClaimHolds, At, Unbound
    <3> QED
      BY <3>1, NoHoldAssumption DEF HoldLostInHandler
  <2> QED
    BY <1>1, <1>2, <2>1, <2>2 DEF ClaimHolds
<1>3. ASSUME NEW t \in Threads, ConfirmPayment(t) PROVE Goal
  <2>1. req[t].order \in Orders
    BY <1>3, OrderKnown DEF ConfirmPayment, At, Unbound
  <2>2. p \in order[req[t].order].items /\ hold'[p] = NoHold
    BY <1>1, <1>3 DEF ConfirmPayment, Settle
  <2>3. order[req[t].order].client \in Clients
    BY <1>3, <2>1 DEF ConfirmPayment, Settle, ConfirmOrder, Confirmable, OrdersWellFormed
  <2>4. piece'[p].owner = order[req[t].order].client
    BY <1>3, <2>2 DEF ConfirmPayment, Settle, ConfirmOrder, Deliverable, OwnedBy, Convey
  <2> QED
    BY <2>2, <2>3, <2>4
<1>4. ASSUME NEW t \in Threads, ReleaseHolds(t) PROVE Goal
  <2>1. /\ At(t, "release")
        /\ p \in order[req[t].order].items
        /\ HeldBy(p, order[req[t].order].client)
        /\ hold'[p] = NoHold
    BY <1>1, <1>4 DEF ReleaseHolds
  <2> QED
    BY <2>1 DEF HeldBy
<1>5. ASSUME NEW t \in Threads, Proceed(t) PROVE Goal
  BY <1>1, <1>2, <1>3, <1>4, <1>5
     DEF Proceed, FindOrder, CreateOrder, RefuseOrder, RequestCharge, AttachReference, ResumeCharge,
         ConfirmAgain, ConfirmCancelled, ConfirmConflict, Compensate, FailRead, FailUpdate,
         CancelUpdate, ProcessWebhook, RecordUnmatched, MarkProcessed
<1>6. PICK t \in Threads : req'[t] # req[t]
  <2>1. req' \in [Threads -> GoodRequest]
    BY NextWellFormed DEF WellFormed
  <2> QED
    BY <2>1 DEF HoldLostInHandler, WellFormed
<1>7. CASE Proceed(t)
  BY <1>5, <1>7
<1>8. CASE Member(t)
  BY <1>1, <1>8 DEF Member, StartReserve, StartCheckout, StartCancel, StartReturn
<1>9. CASE \E o \in Orders : StartWebhook(t, o) \/ Reconcile(t, o) \/ ExpireOrder(t, o)
  BY <1>1, <1>9 DEF StartWebhook, Reconcile, ExpireOrder
<1>10. CASE Crash(t)
  BY <1>1, <1>10 DEF Crash
<1> QED
  BY <1>6, <1>7, <1>8, <1>9, <1>10, ThreadMoves

\* Members who reserve, cancel and fail at the same time never take each
\* other's holds.
THEOREM HoldsAreRespected == CheckoutSpec => HoldsRespected
<1> DEFINE Kept ==
      \A p \in Pieces : HoldLostInHandler(p) =>
        /\ hold'[p] = NoHold
        /\ \/ piece'[p].owner \in Clients
           \/ \E t \in Threads : /\ At(t, "release")
                                 /\ p \in order[req[t].order].items
                                 /\ order[req[t].order].client = hold[p].client
<1>1. IInv => TypeOK /\ OrdersWellFormed
  BY DEF IInv, Consistent
<1>2. IInv /\ WellFormed /\ [CheckoutNext]_checkoutVars => [Kept]_checkoutVars
  BY <1>1, HoldsChange
<1> QED
  BY <1>2, RequestsWellFormed, TablesStayConsistent, PTL DEF CheckoutSpec, HoldsRespected

-----------------------------------------------------------------------------
(* Orders exist while anyone works on them. *)

Exists(o) == order[o].status # "NONE"

\* An order that has a reference, a charge or a request at work was placed.
WorkIsOnOrders ==
  /\ \A o \in Orders : ref[o] \/ charge[o] # "NONE" => Exists(o)
  /\ \A t \in Threads : req[t].at \notin Unbound \cup {"idle"} => Exists(req[t].order)

\* Orders are never unmade, and once placed keep their buyer and pieces.
LEMMA OrdersLast ==
  ASSUME TypeOK, OrdersWellFormed, WellFormed, [CheckoutNext]_checkoutVars,
         NEW o \in Orders, Exists(o)
  PROVE  /\ order'[o].status # "NONE"
         /\ order'[o].client = order[o].client
         /\ order'[o].items = order[o].items
<1>1. ASSUME NEW t \in Threads, CreateOrder(t)
      PROVE  order'[o] = order[o]
  <2>1. PICK n \in Orders : PlaceOrder(n, req[t].client, req[t].items)
    BY <1>1 DEF CreateOrder
  <2>2. n # o
    BY <2>1 DEF PlaceOrder, Exists
  <2> QED
    BY <2>1, <2>2 DEF PlaceOrder, TypeOK
<1> QED
  BY <1>1, KeysChange DEF KeyKept, Exists

LEMMA WorkIsOnOrdersKept ==
  ASSUME TypeOK, OrdersWellFormed, WellFormed, WorkIsOnOrders, [CheckoutNext]_checkoutVars
  PROVE  WorkIsOnOrders'
<1>a. ASSUME NEW o \in Orders, Exists(o) PROVE order'[o].status # "NONE"
  BY <1>a, OrdersLast
<1>b. /\ \A o \in Orders : ref[o] \/ charge[o] # "NONE" => Exists(o)
      /\ \A t \in Threads : req[t].at \notin Unbound \cup {"idle"} => Exists(req[t].order)
  BY DEF WorkIsOnOrders
<1>c. ASSUME NEW t \in Threads, req[t].at \notin Unbound \cup {"idle"}
      PROVE  req[t].order \in Orders /\ order'[req[t].order].status # "NONE"
  BY <1>a, <1>b, <1>c, OrderKnown
<1>1. ASSUME NEW o \in Orders, ref'[o] \/ charge'[o] # "NONE"
      PROVE  order'[o].status # "NONE"
  <2>1. CASE ref'[o] = ref[o] /\ charge'[o] = charge[o]
    BY <1>1, <1>a, <1>b, <2>1
  <2>2. ASSUME NEW t \in Threads, Proceed(t) PROVE order'[o].status # "NONE"
    <3>1. CASE RequestCharge(t)
      <4>1. charge'[o] = charge[o] \/ req[t].order = o
        BY <3>1 DEF RequestCharge, WellFormed
      <4> QED
        BY <2>1, <3>1, <4>1, <1>c DEF RequestCharge, At, Unbound
    <3>2. CASE AttachReference(t)
      <4>1. ref'[o] = ref[o] \/ req[t].order = o
        BY <3>2 DEF AttachReference, WellFormed
      <4> QED
        BY <2>1, <3>2, <4>1, <1>c DEF AttachReference, At, Unbound
    <3>3. CASE ConfirmPayment(t)
      <4>1. ref'[o] = ref[o] \/ req[t].order = o
        BY <3>3 DEF ConfirmPayment, Settle, WellFormed
      <4> QED
        BY <2>1, <3>3, <4>1, <1>c DEF ConfirmPayment, At, Unbound
    <3> QED
      BY <2>1, <2>2, <3>1, <3>2, <3>3
         DEF Proceed, ClaimHolds, FindOrder, CreateOrder, RefuseOrder, ResumeCharge,
             ConfirmAgain, ConfirmCancelled, ConfirmConflict, Compensate, FailRead, FailUpdate,
             CancelUpdate, ReleaseHolds, ProcessWebhook, RecordUnmatched, MarkProcessed
  <2>3. ASSUME NEW t \in Threads, Member(t) \/ Crash(t) PROVE order'[o].status # "NONE"
    BY <2>1, <2>3 DEF Member, StartReserve, StartCheckout, StartCancel, StartReturn, Crash
  <2>4. CASE Gateway
    <3>1. ASSUME NEW q \in Orders, NEW s \in ChargeStatus, ChargeSettles(q, s)
          PROVE  order'[o].status # "NONE"
      <4>1. charge'[o] = charge[o] \/ (q = o /\ charge[o] # "NONE")
        BY <3>1 DEF ChargeSettles, WellFormed
      <4> QED
        BY <2>1, <3>1, <4>1, <1>a, <1>b DEF ChargeSettles
    <3> QED
      BY <2>1, <2>4, <3>1 DEF Gateway, StartWebhook
  <2>5. CASE Timers
    BY <2>1, <2>5 DEF Timers, ExpireHold, ClaimExpires, RecoverRefund, Reconcile, ExpireOrder
  <2>6. CASE Office \/ UNCHANGED checkoutVars \/ \E p \in Pieces : AdminRegister(p)
    BY <2>1, <2>6 DEF Office, AdminPiece, AdminRefund, AdminOrderStatus, AdminRegister,
                      checkoutVars, checkoutOnlyVars
  <2> QED
    BY <2>2, <2>3, <2>4, <2>5, <2>6 DEF CheckoutNext, Service
<1>2. ASSUME NEW t \in Threads, req'[t].at \notin Unbound \cup {"idle"}
      PROVE  order'[req'[t].order].status # "NONE"
  <2> DEFINE Goal == order'[req'[t].order].status # "NONE"
  <2>a. ASSUME NEW o \in Orders, NEW c, NEW a, WorkOn(t, o, c, a), order'[o].status # "NONE"
        PROVE  Goal
    BY <2>a DEF WorkOn, WellFormed, Idle
  <2>b. ASSUME NEW a, Goto(t, a), req[t].at \notin Unbound \cup {"idle"} PROVE Goal
    <3>1. req'[t].order = req[t].order
      BY <2>b DEF Goto, WellFormed, GoodRequest, Request
    <3> QED
      BY <2>b, <3>1, <1>c
  <2>c. ASSUME End(t) PROVE FALSE
    BY <2>c, <1>2 DEF End, Idle, WellFormed
  <2>d. ASSUME Finish(t) \/ Abort(t), req[t].at \notin Unbound \cup {"idle"} PROVE Goal
    BY <2>b, <2>c, <2>d DEF Finish, Abort
  <2>1. CASE req'[t] = req[t]
    BY <1>2, <1>c, <2>1
  <2>2. CASE Proceed(t)
    <3>1. CASE ClaimHolds(t) \/ RefuseOrder(t) \/ MarkProcessed(t)
      BY <2>c, <3>1 DEF ClaimHolds, RefuseOrder, MarkProcessed
    <3>2. CASE FindOrder(t)
      <4>1. ASSUME Goto(t, "place") PROVE FALSE
        BY <1>2, <4>1 DEF Goto, WellFormed, GoodRequest, Request, Unbound
      <4>2. ASSUME NEW o \in WithKeyOf(t), WorkOn(t, o, "other", "resume") \/ WorkOn(t, o, "checkout", "charge")
            PROVE  Goal
        <5>1. o \in Orders /\ Exists(o)
          BY <4>2 DEF WithKeyOf, Exists
        <5> QED
          BY <4>2, <5>1, <1>a, <2>a
      <4> QED
        BY <2>c, <3>2, <4>1, <4>2 DEF FindOrder
    <3>3. CASE CreateOrder(t)
      <4>1. PICK n \in Orders : PlaceOrder(n, req[t].client, req[t].items)
                                /\ WorkOn(t, n, "checkout", "charge")
        BY <3>3 DEF CreateOrder
      <4>2. order'[n].status # "NONE"
        BY <4>1 DEF PlaceOrder, TypeOK
      <4> QED
        BY <4>1, <4>2, <2>a
    <3>4. CASE RequestCharge(t)
      <4>1. req[t].at \notin Unbound \cup {"idle"}
        BY <3>4 DEF RequestCharge, At, Unbound
      <4>2. ASSUME NEW s, req' = [req EXCEPT ![t].at = "attach", ![t].answer = s] PROVE Goal
        <5>1. req'[t].order = req[t].order
          BY <4>2 DEF WellFormed, GoodRequest, Request
        <5> QED
          BY <4>1, <5>1, <1>c
      <4> QED
        BY <3>4, <4>1, <4>2, <2>b DEF RequestCharge
    <3>5. CASE AttachReference(t)
      <4>1. req[t].order \in Orders /\ order'[req[t].order].status # "NONE"
        BY <3>5, <1>c DEF AttachReference, At, Unbound
      <4> QED
        BY <3>5, <4>1, <2>a, <2>c DEF AttachReference
    <3>6. CASE ResumeCharge(t) \/ Compensate(t) \/ FailUpdate(t) \/ CancelUpdate(t)
               \/ ProcessWebhook(t) \/ RecordUnmatched(t)
      <4>1. req[t].at \notin Unbound \cup {"idle"}
        BY <3>6 DEF ResumeCharge, Compensate, FailUpdate, CancelUpdate, ProcessWebhook,
                    RecordUnmatched, At, Unbound
      <4> QED
        BY <3>6, <4>1, <2>b, <2>c
           DEF ResumeCharge, Compensate, FailUpdate, CancelUpdate, ProcessWebhook, RecordUnmatched
    <3>7. CASE ConfirmPayment(t) \/ ConfirmAgain(t) \/ ConfirmCancelled(t) \/ ConfirmConflict(t)
               \/ FailRead(t) \/ ReleaseHolds(t)
      <4>1. req[t].at \notin Unbound \cup {"idle"}
        BY <3>7 DEF ConfirmPayment, ConfirmAgain, ConfirmCancelled, ConfirmConflict, FailRead,
                    ReleaseHolds, At, Unbound
      <4> QED
        BY <3>7, <4>1, <2>b, <2>d
           DEF ConfirmPayment, ConfirmAgain, ConfirmCancelled, ConfirmConflict, FailRead, ReleaseHolds
    <3> QED
      BY <2>2, <3>1, <3>2, <3>3, <3>4, <3>5, <3>6, <3>7 DEF Proceed
  <2>3. CASE Member(t)
    <3>1. ASSUME NEW c \in Clients, NEW S \in SUBSET Pieces, StartReserve(t, c, S) PROVE FALSE
      BY <1>2, <3>1 DEF StartReserve, Idle, WellFormed, Unbound
    <3>2. ASSUME NEW c \in Clients, NEW S \in SUBSET Pieces, StartCheckout(t, c, S) PROVE FALSE
      BY <1>2, <3>2 DEF StartCheckout, Idle, WellFormed, Unbound
    <3>3. ASSUME NEW o \in Orders, StartCancel(t, o) \/ StartReturn(t, o) PROVE Goal
      <4>1. Exists(o)
        BY <3>3, <1>b DEF StartCancel, StartReturn, Exists
      <4> QED
        BY <3>3, <4>1, <1>a, <2>a DEF StartCancel, StartReturn
    <3> QED
      BY <2>3, <3>1, <3>2, <3>3 DEF Member
  <2>4. ASSUME NEW o \in Orders, StartWebhook(t, o) \/ Reconcile(t, o) \/ ExpireOrder(t, o)
        PROVE  Goal
    <3>1. Exists(o)
      BY <2>4, <1>b DEF StartWebhook, Reconcile, ExpireOrder, Stale, Exists
    <3> QED
      BY <2>4, <3>1, <1>a, <2>a DEF StartWebhook, Reconcile, ExpireOrder
  <2>5. CASE Crash(t)
    BY <2>c, <2>5 DEF Crash
  <2> QED
    BY <2>1, <2>2, <2>3, <2>4, <2>5, ThreadMoves
<1> QED
  BY <1>1, <1>2 DEF WorkIsOnOrders, Exists

LEMMA WorkInvariance == CheckoutSpec => []WorkIsOnOrders
<1>1. CheckoutInit => WorkIsOnOrders
  BY DEF CheckoutInit, WorkIsOnOrders, Idle
<1>2. IInv => TypeOK /\ OrdersWellFormed
  BY DEF IInv, Consistent
<1>3. IInv /\ WellFormed /\ WorkIsOnOrders /\ [CheckoutNext]_checkoutVars => WorkIsOnOrders'
  BY <1>2, WorkIsOnOrdersKept
<1> QED
  BY <1>1, <1>3, RequestsWellFormed, TablesStayConsistent, PTL DEF CheckoutSpec

-----------------------------------------------------------------------------
(* Captured money lands before its webhook is marked processed. *)

IsFinal(o) == charge[o] \in {"CAPTURED", "FAILED"}

Delivered(o) ==
  \A p \in order[o].items : \E i \in DOMAIN ledger[p] : ledger[p][i].client = order[o].client

\* The charge failed, or its money is with the pieces' history or on its way back.
Accounted(o) ==
  /\ Exists(o)
  /\ IsFinal(o)
  /\ charge[o] = "FAILED" \/ refund[o] # "none" \/ Delivered(o)

\* What a webhook knows of its charge at each of its steps.
WebhookKnows(t) ==
  /\ req[t].at \in {"hook", "record", "mark"} => req[t].via = "webhook"
  /\ req[t].via = "webhook" =>
       /\ req[t].at \in {"hook", "record", "mark", "confirm", "fail", "failWrite", "release"}
       /\ IsFinal(req[t].order)
       /\ req[t].at \in {"fail", "failWrite", "release"} => charge[req[t].order] = "FAILED"
       /\ req[t].at = "mark" => Accounted(req[t].order)

CapturesLand ==
  /\ \A t \in Threads : WebhookKnows(t)
  /\ \A o \in Orders : claim[o] = "done" => Accounted(o)

\* A final charge does not change.
LEMMA FinalChargesStay ==
  ASSUME WellFormed, [CheckoutNext]_checkoutVars, NEW o \in Orders, IsFinal(o)
  PROVE  charge'[o] = charge[o]
<1> USE DEF IsFinal
<1>1. CASE UNCHANGED charge
  BY <1>1
<1>2. ASSUME NEW t \in Threads, Proceed(t) PROVE charge'[o] = charge[o]
  <2>1. CASE RequestCharge(t)
    BY <2>1 DEF RequestCharge, WellFormed
  <2> QED
    BY <1>1, <1>2, <2>1
       DEF Proceed, ClaimHolds, FindOrder, CreateOrder, RefuseOrder, AttachReference, ResumeCharge,
           ConfirmPayment, ConfirmAgain, ConfirmCancelled, ConfirmConflict, Compensate, FailRead,
           FailUpdate, CancelUpdate, ReleaseHolds, ProcessWebhook, RecordUnmatched, MarkProcessed
<1>3. ASSUME NEW t \in Threads, Member(t) \/ Crash(t) PROVE charge'[o] = charge[o]
  BY <1>1, <1>3 DEF Member, StartReserve, StartCheckout, StartCancel, StartReturn, Crash
<1>4. CASE Gateway
  BY <1>1, <1>4 DEF Gateway, ChargeSettles, StartWebhook, WellFormed
<1>5. CASE Timers
  BY <1>1, <1>5 DEF Timers, ExpireHold, ClaimExpires, RecoverRefund, Reconcile, ExpireOrder
<1>6. CASE Office \/ UNCHANGED checkoutVars \/ \E p \in Pieces : AdminRegister(p)
  BY <1>1, <1>6 DEF Office, AdminPiece, AdminRefund, AdminOrderStatus, AdminRegister,
                    checkoutVars, checkoutOnlyVars
<1> QED
  BY <1>2, <1>3, <1>4, <1>5, <1>6 DEF CheckoutNext, Service

LEMMA AccountedStays ==
  ASSUME IInv, IInv', WellFormed, [CheckoutNext]_checkoutVars, NEW o \in Orders, Accounted(o)
  PROVE  Accounted(o)'
<1>1. TypeOK /\ TypeOK' /\ OrdersWellFormed
  BY DEF IInv, Consistent
<1>2. /\ Exists(o)'
      /\ order'[o].client = order[o].client
      /\ order'[o].items = order[o].items
  BY <1>1, OrdersLast DEF Accounted, Exists
<1>3. charge'[o] = charge[o] /\ (refund[o] # "none" => refund'[o] # "none")
  BY FinalChargesStay, MoneyIsMonotone DEF Accounted
<1>4. Delivered(o) => Delivered(o)'
  <2> SUFFICES ASSUME Delivered(o), NEW p \in order[o].items
               PROVE  \E i \in DOMAIN ledger'[p] : ledger'[p][i].client = order[o].client
    BY <1>2 DEF Delivered
  <2>1. p \in Pieces /\ ledger[p] \in Seq(OwnershipRecord) /\ ledger'[p] \in Seq(OwnershipRecord)
    BY <1>1 DEF TypeOK
  <2>2. PICK i \in DOMAIN ledger[p] : ledger[p][i].client = order[o].client
    BY DEF Delivered
  <2>3. UNCHANGED ledger \/ LedgerAppendOnly
    BY StepIsTransaction, NextInvariant DEF ownershipVars
  <2>4. i \in DOMAIN ledger'[p] /\ ledger'[p][i].client = ledger[p][i].client
    BY <2>1, <2>2, <2>3 DEF LedgerAppendOnly
  <2> QED
    BY <2>2, <2>4
<1> QED
  BY <1>2, <1>3, <1>4 DEF Accounted, IsFinal

LEMMA CapturesLandKept ==
  ASSUME IInv, IInv', WellFormed, WorkIsOnOrders, CapturesLand, [CheckoutNext]_checkoutVars
  PROVE  CapturesLand'
<1>a. ASSUME NEW o \in Orders, Accounted(o) PROVE Accounted(o)'
  BY <1>a, AccountedStays
<1>b. ASSUME NEW o \in Orders, IsFinal(o) PROVE IsFinal(o)' /\ charge'[o] = charge[o]
  BY <1>b, FinalChargesStay DEF IsFinal
<1>c. \A t \in Threads : WebhookKnows(t)
  BY DEF CapturesLand
<1>d. ASSUME NEW t \in Threads, req[t].at \notin Unbound \cup {"idle"}
      PROVE  req[t].order \in Orders /\ Exists(req[t].order)
  BY <1>d, OrderKnown DEF WorkIsOnOrders
<1>e. ASSUME NEW o \in Orders, order[o].pay = "PAID" PROVE Delivered(o)
  BY <1>e DEF IInv, Consistent, PaidOrdersDelivered, Delivered
<1>1. ASSUME NEW t \in Threads PROVE WebhookKnows(t)'
  <2>o. PICK o : o = req[t].order
    OBVIOUS
  <2> USE <2>o
  <2> DEFINE Goal == WebhookKnows(t)'
  <2>1. CASE req'[t] = req[t]
    <3>1. CASE req[t].via = "webhook" \/ req[t].at \in {"hook", "record", "mark"}
      <4>1. o \in Orders /\ WebhookKnows(t)
        BY <1>c, <1>d, <3>1 DEF WebhookKnows, Unbound
      <4> QED
        BY <1>a, <1>b, <2>1, <3>1, <4>1 DEF WebhookKnows
    <3> QED
      BY <2>1, <3>1 DEF WebhookKnows
  <2>2. ASSUME NEW q, NEW c \in {"checkout", "other"}, NEW a, WorkOn(t, q, c, a),
               a \notin {"hook", "record", "mark"}
        PROVE  Goal
    BY <2>2 DEF WorkOn, WellFormed, Idle, WebhookKnows
  <2>3. ASSUME End(t) PROVE Goal
    BY <2>3 DEF End, WellFormed, Idle, WebhookKnows
  <2>4. ASSUME NEW a, Goto(t, a), req[t].via # "webhook", a \notin {"hook", "record", "mark"}
        PROVE  Goal
    <3>1. req'[t].at = a /\ req'[t].via = req[t].via
      BY <2>4 DEF Goto, WellFormed, GoodRequest, Request
    <3> QED
      BY <2>4, <3>1 DEF WebhookKnows
  <2>5. ASSUME NEW a \in {"hook", "record", "confirm"}, Goto(t, a), req[t].via = "webhook",
               o \in Orders, IsFinal(o)
        PROVE  Goal
    <3>1. req'[t].at = a /\ req'[t].via = "webhook" /\ req'[t].order = o
      BY <2>5 DEF Goto, WellFormed, GoodRequest, Request
    <3> QED
      BY <1>b, <2>5, <3>1 DEF WebhookKnows
  <2>6. ASSUME NEW a \in {"fail", "failWrite", "release"}, Goto(t, a), req[t].via = "webhook",
               o \in Orders, charge[o] = "FAILED"
        PROVE  Goal
    <3>1. req'[t].at = a /\ req'[t].via = "webhook" /\ req'[t].order = o
      BY <2>6 DEF Goto, WellFormed, GoodRequest, Request
    <3>2. IsFinal(o)' /\ charge'[o] = "FAILED"
      BY <1>b, <2>6 DEF IsFinal
    <3> QED
      BY <2>6, <3>1, <3>2 DEF WebhookKnows
  <2>7. ASSUME Goto(t, "mark"), req[t].via = "webhook", o \in Orders, Accounted(o)'
        PROVE  Goal
    <3>1. req'[t].at = "mark" /\ req'[t].via = "webhook" /\ req'[t].order = o
      BY <2>7 DEF Goto, WellFormed, GoodRequest, Request
    <3> QED
      BY <2>7, <3>1 DEF WebhookKnows, Accounted
  <2>8. ASSUME Finish(t), o \in Orders, req[t].via = "webhook" => Accounted(o)' PROVE Goal
    BY <2>3, <2>7, <2>8 DEF Finish
  <2>9. CASE Proceed(t)
    <3>1. CASE ClaimHolds(t) \/ RefuseOrder(t) \/ MarkProcessed(t) \/ ConfirmCancelled(t)
      BY <2>3, <3>1 DEF ClaimHolds, RefuseOrder, MarkProcessed, ConfirmCancelled, Abort
    <3>2. CASE FindOrder(t)
      <4>1. req[t].via # "webhook"
        BY <1>c, <3>2 DEF FindOrder, At, WebhookKnows
      <4> QED
        BY <2>2, <2>3, <2>4, <3>2, <4>1 DEF FindOrder
    <3>3. CASE CreateOrder(t)
      BY <2>2, <3>3 DEF CreateOrder
    <3>4. CASE RequestCharge(t)
      <4>1. req[t].via # "webhook"
        BY <1>c, <3>4 DEF RequestCharge, At, WebhookKnows
      <4>2. ASSUME NEW s, req' = [req EXCEPT ![t].at = "attach", ![t].answer = s] PROVE Goal
        <5>1. req'[t].at = "attach" /\ req'[t].via = req[t].via
          BY <4>2 DEF WellFormed, GoodRequest, Request
        <5> QED
          BY <4>1, <5>1 DEF WebhookKnows
      <4> QED
        BY <2>4, <3>4, <4>1, <4>2 DEF RequestCharge
    <3>5. CASE AttachReference(t)
      BY <2>2, <2>3, <3>5 DEF AttachReference
    <3>6. CASE ResumeCharge(t)
      <4>1. req[t].via # "webhook"
        BY <1>c, <3>6 DEF ResumeCharge, At, WebhookKnows
      <4> QED
        BY <2>3, <2>4, <3>6, <4>1 DEF ResumeCharge
    <3>7. CASE ConfirmPayment(t)
      <4>1. o \in Orders /\ Exists(o)
        BY <1>d, <3>7 DEF ConfirmPayment, At, Unbound
      <4>2. order'[o].pay = "PAID" /\ Exists(o)'
        <5>1. order' = [order EXCEPT ![o].status = "PAID", ![o].pay = "PAID"]
          BY <3>7 DEF ConfirmPayment, Settle, ConfirmOrder
        <5>2. order'[o].pay = "PAID" /\ order'[o].status = "PAID"
          BY <4>1, <5>1 DEF IInv, TypeOK
        <5> QED
          BY <5>2 DEF Exists
      <4>3. Delivered(o)'
        BY <4>1, <4>2 DEF IInv, Consistent, PaidOrdersDelivered, Delivered
      <4>4. req[t].via = "webhook" => Accounted(o)'
        BY <1>b, <1>c, <4>1, <4>2, <4>3 DEF WebhookKnows, Accounted
      <4> QED
        BY <2>8, <3>7, <4>1, <4>4 DEF ConfirmPayment
    <3>8. CASE ConfirmAgain(t)
      <4>1. o \in Orders /\ Exists(o)
        BY <1>d, <3>8 DEF ConfirmAgain, At, Unbound
      <4>2. req[t].via = "webhook" => Accounted(o)
        BY <1>c, <1>e, <3>8, <4>1 DEF ConfirmAgain, WebhookKnows, Accounted
      <4> QED
        BY <1>a, <2>8, <3>8, <4>1, <4>2 DEF ConfirmAgain
    <3>9. CASE ConfirmConflict(t)
      BY <2>3, <2>4, <3>9 DEF ConfirmConflict, Abort
    <3>10. CASE Compensate(t)
      <4>1. req[t].via # "webhook"
        BY <1>c, <3>10 DEF Compensate, At, WebhookKnows
      <4> QED
        BY <2>4, <3>10, <4>1 DEF Compensate
    <3>11. CASE FailRead(t)
      <4>1. o \in Orders /\ Exists(o)
        BY <1>d, <3>11 DEF FailRead, At, Unbound
      <4>2. req[t].via = "webhook" => charge[o] = "FAILED" /\ Accounted(o)
        BY <1>c, <3>11, <4>1 DEF FailRead, At, WebhookKnows, Accounted
      <4>3. CASE Finish(t)
        BY <1>a, <2>8, <4>1, <4>2, <4>3
      <4>4. CASE Abort(t)
        BY <2>3, <4>4 DEF Abort
      <4>5. CASE Goto(t, "failWrite")
        BY <2>4, <2>6, <4>1, <4>2, <4>5
      <4> QED
        BY <3>11, <4>3, <4>4, <4>5 DEF FailRead
    <3>12. CASE FailUpdate(t)
      <4>1. o \in Orders /\ (req[t].via = "webhook" => charge[o] = "FAILED")
        BY <1>c, <1>d, <3>12 DEF FailUpdate, At, Unbound, WebhookKnows
      <4> QED
        BY <2>4, <2>6, <3>12, <4>1 DEF FailUpdate
    <3>13. CASE CancelUpdate(t)
      <4>1. req[t].via # "webhook"
        BY <1>c, <3>13 DEF CancelUpdate, At, WebhookKnows
      <4> QED
        BY <2>4, <3>13, <4>1 DEF CancelUpdate
    <3>14. CASE ReleaseHolds(t)
      <4>1. o \in Orders /\ Exists(o)
        BY <1>d, <3>14 DEF ReleaseHolds, At, Unbound
      <4>2. req[t].via = "webhook" => Accounted(o)
        BY <1>c, <3>14, <4>1 DEF ReleaseHolds, At, WebhookKnows, Accounted
      <4> QED
        BY <1>a, <2>8, <3>14, <4>1, <4>2 DEF ReleaseHolds
    <3>15. CASE ProcessWebhook(t)
      <4>1. o \in Orders /\ Exists(o) /\ req[t].via = "webhook" /\ IsFinal(o)
        BY <1>c, <1>d, <3>15 DEF ProcessWebhook, At, Unbound, WebhookKnows
      <4>2. \/ WebhookNext(o) \in {"confirm", "record"}
            \/ WebhookNext(o) = "fail" /\ charge[o] = "FAILED"
            \/ WebhookNext(o) = "mark" /\ (charge[o] = "FAILED" \/ order[o].pay = "PAID")
        BY <4>1 DEF WebhookNext, IsFinal
      <4>3. CASE WebhookNext(o) = "mark" /\ (charge[o] = "FAILED" \/ order[o].pay = "PAID")
                 /\ Goto(t, WebhookNext(o))
        <5>1. Accounted(o)
          BY <1>e, <4>1, <4>3 DEF Accounted
        <5> QED
          BY <1>a, <2>7, <4>1, <4>3, <5>1
      <4> QED
        BY <2>3, <2>5, <2>6, <3>15, <4>1, <4>2, <4>3 DEF ProcessWebhook
    <3>16. CASE RecordUnmatched(t)
      <4>1. o \in Orders /\ Exists(o) /\ req[t].via = "webhook" /\ IsFinal(o)
        BY <1>c, <1>d, <3>16 DEF RecordUnmatched, At, Unbound, WebhookKnows
      <4>2. refund'[o] # "none"
        BY <3>16, <4>1 DEF RecordUnmatched, QueueRefund, WellFormed
      <4>3. Exists(o)'
        BY <3>16, <4>1 DEF RecordUnmatched, ownershipVars, Exists
      <4>4. Accounted(o)'
        BY <1>b, <4>1, <4>2, <4>3 DEF Accounted
      <4> QED
        BY <2>7, <3>16, <4>1, <4>4 DEF RecordUnmatched
    <3> QED
      BY <2>9, <3>1, <3>2, <3>3, <3>4, <3>5, <3>6, <3>7, <3>8, <3>9, <3>10, <3>11, <3>12, <3>13,
         <3>14, <3>15, <3>16 DEF Proceed
  <2>10. CASE Member(t)
    <3>1. ASSUME NEW c \in Clients, NEW S \in SUBSET Pieces, StartReserve(t, c, S) PROVE Goal
      BY <3>1 DEF StartReserve, Idle, WellFormed, WebhookKnows
    <3>2. ASSUME NEW c \in Clients, NEW S \in SUBSET Pieces, StartCheckout(t, c, S) PROVE Goal
      BY <3>2 DEF StartCheckout, Idle, WellFormed, WebhookKnows
    <3> QED
      BY <2>2, <2>10, <3>1, <3>2 DEF Member, StartCancel, StartReturn
  <2>11. ASSUME NEW q \in Orders, StartWebhook(t, q) PROVE Goal
    <3>1. req'[t].at = "hook" /\ req'[t].via = "webhook" /\ req'[t].order = q
      BY <2>11 DEF StartWebhook, WorkOn, WellFormed, Idle
    <3>2. IsFinal(q)
      BY <2>11 DEF StartWebhook, IsFinal
    <3> QED
      BY <1>b, <3>1, <3>2 DEF WebhookKnows
  <2>12. ASSUME NEW q \in Orders, Reconcile(t, q) \/ ExpireOrder(t, q) PROVE Goal
    BY <2>2, <2>12 DEF Reconcile, ExpireOrder
  <2>13. CASE Crash(t)
    BY <2>3, <2>13 DEF Crash
  <2> QED
    BY <2>1, <2>9, <2>10, <2>11, <2>12, <2>13, ThreadMoves
<1>2. ASSUME NEW o \in Orders, claim'[o] = "done" PROVE Accounted(o)'
  <2>1. CASE claim[o] = "done"
    BY <1>a, <2>1 DEF CapturesLand
  <2>2. ASSUME NEW t \in Threads, MarkProcessed(t) PROVE Accounted(o)'
    <3>1. req[t].order = o \/ claim'[o] = claim[o]
      BY <2>2 DEF MarkProcessed, WellFormed
    <3>2. CASE req[t].order = o
      BY <1>a, <1>c, <2>2, <3>2 DEF MarkProcessed, At, WebhookKnows
    <3> QED
      BY <1>2, <2>1, <3>1, <3>2
  <2>3. ASSUME NEW t \in Threads, Finish(t) \/ Abort(t) PROVE Accounted(o)'
    <3>1. claim'[o] \in {claim[o], "free"}
      BY <2>3 DEF Finish, Abort, WellFormed
    <3> QED
      BY <1>2, <2>1, <3>1
  <2>4. ASSUME NEW t \in Threads, Proceed(t) PROVE Accounted(o)'
    BY <1>2, <2>1, <2>2, <2>3, <2>4
       DEF Proceed, ClaimHolds, FindOrder, CreateOrder, RefuseOrder, RequestCharge, AttachReference,
           ResumeCharge, ConfirmPayment, ConfirmAgain, ConfirmCancelled, ConfirmConflict, Compensate,
           FailRead, FailUpdate, CancelUpdate, ReleaseHolds, ProcessWebhook, RecordUnmatched
  <2>5. ASSUME NEW t \in Threads, Member(t) \/ Crash(t) PROVE Accounted(o)'
    BY <1>2, <2>1, <2>5 DEF Member, StartReserve, StartCheckout, StartCancel, StartReturn, Crash
  <2>6. CASE Gateway
    BY <1>2, <2>1, <2>6 DEF Gateway, ChargeSettles, StartWebhook, WellFormed
  <2>7. CASE Timers
    BY <1>2, <2>1, <2>7 DEF Timers, ExpireHold, ClaimExpires, RecoverRefund, Reconcile, ExpireOrder,
                            WellFormed
  <2>8. CASE Office \/ UNCHANGED checkoutVars \/ \E p \in Pieces : AdminRegister(p)
    BY <1>2, <2>1, <2>8 DEF Office, AdminPiece, AdminRefund, AdminOrderStatus, AdminRegister,
                            checkoutVars, checkoutOnlyVars
  <2> QED
    BY <2>4, <2>5, <2>6, <2>7, <2>8 DEF CheckoutNext, Service
<1> QED
  BY <1>1, <1>2 DEF CapturesLand

\* When the webhook of a captured charge is marked processed, its money has
\* landed, whoever else settles, fails, cancels or refunds the order meanwhile.
THEOREM CapturedMoneyLands == CheckoutSpec => []ProcessedCapturesLand
<1>1. CheckoutInit => CapturesLand
  BY DEF CheckoutInit, CapturesLand, WebhookKnows, Idle
<1>2. IInv /\ IInv' /\ WellFormed /\ WorkIsOnOrders /\ CapturesLand /\ [CheckoutNext]_checkoutVars
        => CapturesLand'
  BY CapturesLandKept
<1>3. CapturesLand => ProcessedCapturesLand
  BY DEF CapturesLand, Accounted, Delivered, ProcessedCapturesLand
<1> QED
  BY <1>1, <1>2, <1>3, WorkInvariance, RequestsWellFormed, TablesStayConsistent, PTL
     DEF CheckoutSpec

-----------------------------------------------------------------------------
(* Refunds. *)

\* A thread gets to send money back in two ways only, with the order it has.
LEMMA RefundBegins ==
  ASSUME WellFormed, [CheckoutNext]_checkoutVars, NEW t \in Threads,
         req'[t] # req[t], req'[t].at \in {"refund", "record"}
  PROVE  /\ req'[t].order = req[t].order
         /\ \/ ConfirmConflict(t)
            \/ ProcessWebhook(t) /\ WebhookNext(req[t].order) = "record"
<1> DEFINE Goal == /\ req'[t].order = req[t].order
                   /\ \/ ConfirmConflict(t)
                      \/ ProcessWebhook(t) /\ WebhookNext(req[t].order) = "record"
<1>1. ASSUME NEW q, NEW c, NEW a, WorkOn(t, q, c, a), a \notin {"refund", "record"} PROVE FALSE
  BY <1>1 DEF WorkOn, WellFormed, Idle
<1>2. ASSUME End(t) PROVE FALSE
  BY <1>2 DEF End, WellFormed, Idle
<1>3. ASSUME NEW a, Goto(t, a)
      PROVE  a \in {"refund", "record"} /\ req'[t].order = req[t].order
  BY <1>3 DEF Goto, WellFormed, GoodRequest, Request
<1>4. ASSUME Finish(t) \/ Abort(t) PROVE FALSE
  BY <1>2, <1>3, <1>4 DEF Finish, Abort
<1>5. CASE Proceed(t)
  <2>1. CASE ConfirmConflict(t)
    BY <1>3, <1>4, <2>1 DEF ConfirmConflict
  <2>2. CASE ProcessWebhook(t)
    <3>1. Goto(t, WebhookNext(req[t].order))
      BY <1>2, <2>2 DEF ProcessWebhook
    <3>2. WebhookNext(req[t].order) \in {"confirm", "fail", "record", "mark"}
      BY DEF WebhookNext
    <3> QED
      BY <1>3, <2>2, <3>1, <3>2
  <2>3. CASE RequestCharge(t)
    <3>1. ASSUME NEW s, req' = [req EXCEPT ![t].at = "attach", ![t].answer = s] PROVE FALSE
      BY <3>1 DEF WellFormed, GoodRequest, Request
    <3> QED
      BY <1>3, <2>3, <3>1 DEF RequestCharge
  <2> QED
    BY <1>1, <1>2, <1>3, <1>4, <1>5, <2>1, <2>2, <2>3
       DEF Proceed, ClaimHolds, FindOrder, CreateOrder, RefuseOrder, AttachReference, ResumeCharge,
           ConfirmPayment, ConfirmAgain, ConfirmCancelled, Compensate, FailRead, FailUpdate,
           CancelUpdate, ReleaseHolds, RecordUnmatched, MarkProcessed
<1>6. CASE Member(t)
  <2>1. ASSUME NEW c \in Clients, NEW S \in SUBSET Pieces, StartReserve(t, c, S) PROVE FALSE
    BY <2>1 DEF StartReserve, Idle, WellFormed
  <2>2. ASSUME NEW c \in Clients, NEW S \in SUBSET Pieces, StartCheckout(t, c, S) PROVE FALSE
    BY <2>2 DEF StartCheckout, Idle, WellFormed
  <2> QED
    BY <1>1, <1>6, <2>1, <2>2 DEF Member, StartCancel, StartReturn
<1>7. CASE \E q \in Orders : StartWebhook(t, q) \/ Reconcile(t, q) \/ ExpireOrder(t, q)
  BY <1>1, <1>7 DEF StartWebhook, Reconcile, ExpireOrder
<1>8. CASE Crash(t)
  BY <1>2, <1>8 DEF Crash
<1> QED
  BY <1>5, <1>6, <1>7, <1>8, ThreadMoves

\* The four steps that write refunds, each that of one order.
LEMMA RefundMoves ==
  ASSUME WellFormed, [CheckoutNext]_checkoutVars, NEW o \in Orders, refund'[o] # refund[o]
  PROVE  \/ \E t \in Threads : (Compensate(t) \/ RecordUnmatched(t)) /\ req[t].order = o
         \/ RecoverRefund(o)
         \/ AdminRefund(o)
<1> DEFINE Goal == \/ \E t \in Threads : (Compensate(t) \/ RecordUnmatched(t)) /\ req[t].order = o
                   \/ RecoverRefund(o)
                   \/ AdminRefund(o)
<1>1. ASSUME NEW t \in Threads, Compensate(t) \/ RecordUnmatched(t) PROVE Goal
  <2>1. req[t].order = o
    BY <1>1 DEF Compensate, RecordUnmatched, QueueRefund, WellFormed
  <2> QED
    BY <1>1, <2>1
<1>2. ASSUME NEW q \in Orders, RecoverRefund(q) \/ AdminRefund(q) PROVE Goal
  <2>1. q = o
    BY <1>2 DEF RecoverRefund, AdminRefund, QueueRefund, WellFormed
  <2> QED
    BY <1>2, <2>1
<1>3. ASSUME NEW t \in Threads, Proceed(t) PROVE Goal
  BY <1>1, <1>3
     DEF Proceed, ClaimHolds, FindOrder, CreateOrder, RefuseOrder, RequestCharge, AttachReference,
         ResumeCharge, ConfirmPayment, ConfirmAgain, ConfirmCancelled, ConfirmConflict, FailRead,
         FailUpdate, CancelUpdate, ReleaseHolds, ProcessWebhook, MarkProcessed
<1>4. ASSUME NEW t \in Threads, Member(t) \/ Crash(t) PROVE FALSE
  BY <1>4 DEF Member, StartReserve, StartCheckout, StartCancel, StartReturn, Crash
<1>5. CASE Gateway
  BY <1>5 DEF Gateway, ChargeSettles, StartWebhook
<1>6. CASE Timers
  BY <1>2, <1>6 DEF Timers, ExpireHold, ClaimExpires, Reconcile, ExpireOrder
<1>7. CASE Office \/ UNCHANGED checkoutVars \/ \E p \in Pieces : AdminRegister(p)
  BY <1>2, <1>7 DEF Office, AdminPiece, AdminOrderStatus, AdminRegister, checkoutVars,
                    checkoutOnlyVars
<1> QED
  BY <1>3, <1>4, <1>5, <1>6, <1>7 DEF CheckoutNext, Service

\* What refunds rest on: a thread about to send money back has seen it taken.
RefundsInv ==
  /\ RefundsOnlyOfCaptures
  /\ \A t \in Threads : req[t].at \in {"refund", "record"} => charge[req[t].order] = "CAPTURED"

LEMMA RefundsKept ==
  ASSUME WellFormed, MoneyInv, RefundsInv, [CheckoutNext]_checkoutVars
  PROVE  RefundsInv'
<1>a. ASSUME NEW o \in Orders, charge[o] = "CAPTURED" PROVE charge'[o] = "CAPTURED"
  BY <1>a, MoneyIsMonotone
<1>b. ASSUME NEW t \in Threads, req[t].at \in {"refund", "record"}
      PROVE  req[t].order \in Orders /\ charge[req[t].order] = "CAPTURED"
  BY <1>b, OrderKnown DEF Unbound, RefundsInv
<1>1. ASSUME NEW o \in Orders, refund'[o] # "none" PROVE charge'[o] = "CAPTURED"
  <2>1. CASE refund'[o] = refund[o]
    BY <1>1, <1>a, <2>1 DEF RefundsInv, RefundsOnlyOfCaptures
  <2>2. ASSUME NEW t \in Threads, Compensate(t) \/ RecordUnmatched(t), req[t].order = o
        PROVE  charge[o] = "CAPTURED"
    BY <1>b, <2>2 DEF Compensate, RecordUnmatched, At
  <2>3. CASE RecoverRefund(o)
    BY <1>a, <2>3 DEF RecoverRefund
  <2>4. CASE AdminRefund(o)
    BY <1>a, <2>4 DEF AdminRefund, RefundOrder, MoneyInv, GoodsOnlyForCapture
  <2> QED
    BY <1>a, <2>1, <2>2, <2>3, <2>4, RefundMoves
<1>2. ASSUME NEW t \in Threads, req'[t].at \in {"refund", "record"}
      PROVE  charge'[req'[t].order] = "CAPTURED"
  <2>1. CASE req'[t] = req[t]
    BY <1>2, <1>a, <1>b, <2>1
  <2>2. CASE req'[t] # req[t]
    <3>1. /\ req'[t].order = req[t].order
          /\ \/ ConfirmConflict(t)
             \/ ProcessWebhook(t) /\ WebhookNext(req[t].order) = "record"
      BY <1>2, <2>2, RefundBegins
    <3>2. CASE ConfirmConflict(t)
      <4>1. req[t].order \in Orders /\ charge[req[t].order] = "CAPTURED"
        BY <3>2, OrderKnown DEF ConfirmConflict, MoneyInv, ConfirmsCaptured, Settled, At, Unbound
      <4> QED
        BY <1>a, <3>1, <4>1
    <3>3. CASE ProcessWebhook(t) /\ WebhookNext(req[t].order) = "record"
      <4>1. req[t].order \in Orders /\ charge[req[t].order] = "CAPTURED"
        BY <3>3, OrderKnown DEF ProcessWebhook, WebhookNext, At, Unbound
      <4> QED
        BY <1>a, <3>1, <4>1
    <3> QED
      BY <3>1, <3>2, <3>3
  <2> QED
    BY <2>1, <2>2
<1> QED
  BY <1>1, <1>2 DEF RefundsInv, RefundsOnlyOfCaptures

LEMMA RefundsInvariance == CheckoutSpec => []RefundsInv
<1>1. CheckoutInit => RefundsInv
  BY DEF CheckoutInit, RefundsInv, RefundsOnlyOfCaptures, Idle
<1>2. WellFormed /\ MoneyInv /\ RefundsInv /\ [CheckoutNext]_checkoutVars => RefundsInv'
  BY RefundsKept
<1> QED
  BY <1>1, <1>2, RequestsWellFormed, MoneyInvariance, PTL DEF CheckoutSpec

\* However its four callers and the office interleave, and wherever they die,
\* an order is paid or refunded only with money that was taken, the money of
\* a refunded one is on its way back, and nothing else is ever sent back.
THEOREM MoneyMatches == CheckoutSpec => []MoneyMatchesOrders
<1>1. MoneyInv /\ RefundsInv => MoneyMatchesOrders
  BY DEF MoneyInv, RefundsInv, MoneyMatchesOrders
<1> QED
  BY <1>1, MoneyInvariance, RefundsInvariance, PTL

\* The code says that a settled order is not unwound, and it may be; but by one
\* thing only: a failOrderPayment that read the order before it was settled.
THEOREM OnlyLateFailuresUnwind ==
  CheckoutSpec =>
    [][\A o \in Orders :
         order[o].pay = "PAID" /\ order'[o].pay \notin {"PAID", "REFUNDED"} =>
           /\ \E t \in Threads : At(t, "failWrite") /\ req[t].order = o
           /\ order'[o].pay = "FAILED"
           /\ charge[o] = "CAPTURED"]_checkoutVars
<1> DEFINE Unwinding ==
      \A o \in Orders :
        order[o].pay = "PAID" /\ order'[o].pay \notin {"PAID", "REFUNDED"} =>
          /\ \E t \in Threads : At(t, "failWrite") /\ req[t].order = o
          /\ order'[o].pay = "FAILED"
          /\ charge[o] = "CAPTURED"
<1>1. IInv /\ WellFormed /\ MoneyInv /\ [CheckoutNext]_checkoutVars => [Unwinding]_checkoutVars
  <2> SUFFICES ASSUME IInv, WellFormed, MoneyInv, [CheckoutNext]_checkoutVars, NEW o \in Orders,
                      order[o].pay = "PAID", order'[o].pay \notin {"PAID", "REFUNDED"}
               PROVE  /\ \E t \in Threads : At(t, "failWrite") /\ req[t].order = o
                      /\ order'[o].pay = "FAILED"
                      /\ charge[o] = "CAPTURED"
    OBVIOUS
  <2>1. TypeOK /\ order[o].status # "NONE" /\ charge[o] = "CAPTURED"
    BY DEF IInv, Consistent, OrdersWellFormed, MoneyInv, GoodsOnlyForCapture
  <2> QED
    BY <2>1, PaymentChanges DEF FailUpdate
<1> QED
  BY <1>1, RequestsWellFormed, TablesStayConsistent, MoneyInvariance, PTL DEF CheckoutSpec

\* What is proved of titles and owners in CustodyProofs and OwnershipProofs
\* holds under checkout's interleavings and crashes: custody moves as promised,
\* no record is lost, and no owner loses a piece but by refund or approval.
THEOREM CheckoutImplementsCustody ==
  CheckoutSpec => ImplementsCustody /\ HistoryIsAppendOnly /\ OwnerLosesOnlyByRefundOrApproval
BY CheckoutImplementsOwnership, OwnershipImplementsCustody, AppendOnlyHistory, OwnersProtected, PTL

-----------------------------------------------------------------------------
(* While the office is passive. *)

\* A step of the service is a transaction of these, or leaves the tables alone.
ServiceTransaction ==
  \/ \E p \in Pieces : RegisterPiece(p, NoClient)
  \/ \E o \in Orders :
       \/ \E c \in Clients, S \in SUBSET Pieces : PlaceOrder(o, c, S)
       \/ ConfirmOrder(o)
       \/ CancelWrite(o)
       \/ FailWrite(o)

LEMMA ServiceSteps ==
  ASSUME WellFormed, [Unattended]_checkoutVars
  PROVE  ServiceTransaction \/ UNCHANGED ownershipVars
<1>1. ASSUME NEW t \in Threads, Proceed(t) PROVE ServiceTransaction \/ UNCHANGED ownershipVars
  <2>1. CASE CreateOrder(t)
    <3>1. PICK c \in Clients, S \in SUBSET Pieces : c = req[t].client /\ S = req[t].items
      BY <2>1, MemberKnown DEF CreateOrder, At, Unbound
    <3>2. PICK o \in Orders : PlaceOrder(o, c, S)
      BY <2>1, <3>1 DEF CreateOrder, PlaceOrder
    <3> QED
      BY <3>2 DEF ServiceTransaction
  <2>2. CASE ConfirmPayment(t) \/ FailUpdate(t) \/ CancelUpdate(t)
    <3>1. PICK o \in Orders : o = req[t].order
      BY <2>2, OrderKnown DEF ConfirmPayment, FailUpdate, CancelUpdate, At, Unbound
    <3>2. ConfirmOrder(o) \/ FailWrite(o) \/ CancelWrite(o)
      BY <2>2, <3>1 DEF ConfirmPayment, Settle, FailUpdate, CancelUpdate
    <3> QED
      BY <3>2 DEF ServiceTransaction
  <2> QED
    BY <1>1, <2>1, <2>2
       DEF Proceed, ClaimHolds, FindOrder, RefuseOrder, RequestCharge, AttachReference, ResumeCharge,
           ConfirmAgain, ConfirmCancelled, ConfirmConflict, Compensate, FailRead, ReleaseHolds,
           ProcessWebhook, RecordUnmatched, MarkProcessed
<1>2. ASSUME NEW t \in Threads, Member(t) PROVE UNCHANGED ownershipVars
  BY <1>2 DEF Member, StartReserve, StartCheckout, StartCancel, StartReturn
<1>3. CASE Gateway
  BY <1>3 DEF Gateway, ChargeSettles, StartWebhook
<1>4. CASE Timers
  BY <1>4 DEF Timers, ExpireHold, ClaimExpires, RecoverRefund, Reconcile, ExpireOrder
<1>5. ASSUME NEW p \in Pieces, AdminRegister(p) PROVE ServiceTransaction
  BY <1>5 DEF AdminRegister, ServiceTransaction
<1>6. ASSUME NEW t \in Threads, Crash(t) PROVE UNCHANGED ownershipVars
  BY <1>6 DEF Crash
<1>7. CASE UNCHANGED checkoutVars
  BY <1>7 DEF checkoutVars
<1> QED
  BY <1>1, <1>2, <1>3, <1>4, <1>5, <1>6, <1>7 DEF Unattended, Service

\* It only records refunds: the office's step is none of its own.
LEMMA ServiceRefundsNothing ==
  ASSUME TypeOK, WellFormed, [Unattended]_checkoutVars, NEW o \in Orders
  PROVE  ~AdminRefund(o)
<1> SUFFICES ASSUME AdminRefund(o) PROVE FALSE
  OBVIOUS
<1>1. order[o].pay = "PAID" /\ order'[o].pay = "REFUNDED"
  BY DEF AdminRefund, RefundOrder, TypeOK
<1>2. ASSUME NEW q \in Orders, NEW c \in Clients, NEW S \in SUBSET Pieces, PlaceOrder(q, c, S)
      PROVE  order'[o].pay \in {order[o].pay, "PENDING"}
  BY <1>2 DEF PlaceOrder, TypeOK
<1>3. ASSUME NEW q \in Orders, ConfirmOrder(q) \/ CancelWrite(q) \/ FailWrite(q)
      PROVE  order'[o].pay \in {order[o].pay, "FAILED", "PAID"}
  <2>1. q = o \/ order'[o] = order[o]
    BY <1>3 DEF ConfirmOrder, CancelWrite, FailWrite, TypeOK
  <2>2. order'[q].pay \in {order[q].pay, "FAILED", "PAID"}
    BY <1>3 DEF ConfirmOrder, CancelWrite, FailWrite, TypeOK
  <2> QED
    BY <2>1, <2>2
<1>4. (UNCHANGED ownershipVars \/ \E p \in Pieces : RegisterPiece(p, NoClient)) => order' = order
  BY DEF ownershipVars, RegisterPiece
<1> QED
  BY <1>1, <1>2, <1>3, <1>4, ServiceSteps DEF ServiceTransaction

\* A piece is for sale or sold, an order's pieces are registered, its two
\* statuses agree, and the buyer of a paid order owns its pieces.
ShopInOrder ==
  /\ \A p \in Pieces : piece[p].status \in {"ABSENT", "AVAILABLE", "OWNED"}
  /\ \A o \in Orders :
       /\ Exists(o) => \A p \in order[o].items : piece[p].status # "ABSENT"
       /\ order[o].status \in {"NONE", "PENDING", "PAID", "CANCELLED"}
       /\ order[o].status = "PAID" => order[o].pay = "PAID"
  /\ PaidOrdersOwned

\* The order can never be paid any more: it was closed unpaid, or one of its
\* pieces has been sold to someone else.
Lost(o) ==
  /\ Exists(o)
  /\ \/ order[o].status = "CANCELLED" /\ order[o].pay # "PAID"
     \/ \E p \in order[o].items : piece[p].status = "OWNED" /\ piece[p].owner # order[o].client

\* Both survive the service's transactions.
LEMMA ShopStays ==
  ASSUME TypeOK, TypeOK', OrdersWellFormed, ShopInOrder,
         ServiceTransaction \/ UNCHANGED ownershipVars
  PROVE  /\ ShopInOrder'
         /\ \A o \in Orders : Lost(o) => Lost(o)'
<1> DEFINE Goal == ShopInOrder' /\ \A o \in Orders : Lost(o) => Lost(o)'
<1> USE DEF ShopInOrder, PaidOrdersOwned, OwnedBy, Lost, Exists
<1>1. CASE UNCHANGED ownershipVars
  BY <1>1 DEF ownershipVars
<1>2. ASSUME NEW p \in Pieces, RegisterPiece(p, NoClient) PROVE Goal
  <2>1. piece' = [piece EXCEPT ![p].status = "AVAILABLE"] /\ order' = order
    BY <1>2, NoClientAssumption DEF RegisterPiece, SetStatus
  <2>2. piece[p].status = "ABSENT"
    BY <1>2 DEF RegisterPiece
  <2>3. ASSUME NEW q \in Pieces
        PROVE  /\ q # p => piece'[q] = piece[q]
               /\ q = p => piece'[q].status = "AVAILABLE"
    BY <2>1 DEF TypeOK
  <2>4. ASSUME NEW o \in Orders, NEW q \in order[o].items
        PROVE  q \in Pieces
    BY DEF TypeOK
  <2>5. ShopInOrder'
    BY <2>1, <2>2, <2>3, <2>4
  <2> QED
    BY <2>1, <2>2, <2>3, <2>4, <2>5
<1>3. ASSUME NEW o \in Orders, NEW c \in Clients, NEW S \in SUBSET Pieces, PlaceOrder(o, c, S)
      PROVE  Goal
  <2>1. /\ order[o].status = "NONE"
        /\ order'[o] = [status |-> "PENDING", pay |-> "PENDING", client |-> c, items |-> S]
        /\ \A q \in Orders \ {o} : order'[q] = order[q]
        /\ piece' = piece
        /\ \A p \in S : piece[p].status = "AVAILABLE"
    BY <1>3 DEF PlaceOrder, TypeOK
  <2> QED
    BY <2>1
<1>4. ASSUME NEW o \in Orders, CancelWrite(o) \/ FailWrite(o) PROVE Goal
  <2>1. /\ order[o].status # "NONE"
        /\ order'[o].status = "CANCELLED"
        /\ order'[o].pay \in {order[o].pay, "FAILED"}
        /\ order'[o].client = order[o].client
        /\ order'[o].items = order[o].items
        /\ \A q \in Orders \ {o} : order'[q] = order[q]
        /\ piece' = piece
    BY <1>4 DEF CancelWrite, FailWrite, TypeOK
  <2> QED
    BY <2>1
<1>5. ASSUME NEW o \in Orders, ConfirmOrder(o) PROVE Goal
  <2>1. /\ order[o].status \notin {"NONE", "CANCELLED"}
        /\ order'[o].status = "PAID"
        /\ order'[o].pay = "PAID"
        /\ order'[o].client = order[o].client
        /\ order'[o].items = order[o].items
        /\ \A q \in Orders \ {o} : order'[q] = order[q]
    BY <1>5 DEF ConfirmOrder, Confirmable, TypeOK
  <2>2. \A p \in order[o].items : piece[p].status = "AVAILABLE" \/ OwnedBy(p, order[o].client)
    BY <1>5 DEF ConfirmOrder, Deliverable
  <2>3. \A p \in Pieces :
          piece'[p] = IF p \in order[o].items /\ piece[p].status = "AVAILABLE"
                        THEN [status |-> "OWNED", owner |-> order[o].client] ELSE piece[p]
    BY <1>5 DEF ConfirmOrder, Convey
  <2>4. \A q \in Orders : order[q].items \subseteq Pieces
    BY DEF TypeOK
  <2>5. \A p \in Pieces : /\ piece'[p].status \in {"ABSENT", "AVAILABLE", "OWNED"}
                          /\ piece[p].status # "ABSENT" => piece'[p].status # "ABSENT"
                          /\ piece[p].status = "OWNED" => piece'[p] = piece[p]
    BY <2>3
  <2>6. \A p \in order[o].items : OwnedBy(p, order[o].client)'
    BY <2>1, <2>2, <2>3, <2>4
  <2>7. PaidOrdersOwned'
    <3> SUFFICES ASSUME NEW q \in Orders, order'[q].pay = "PAID", NEW p \in order'[q].items
                 PROVE  piece'[p] = [status |-> "OWNED", owner |-> order'[q].client]
      OBVIOUS
    <3>1. CASE q = o
      BY <2>1, <2>6, <3>1
    <3>2. CASE q # o
      <4>1. order'[q] = order[q]
        BY <2>1, <3>2
      <4>2. p \in order[q].items /\ order[q].pay = "PAID"
        BY <4>1
      <4>3. piece[p].status = "OWNED" /\ piece[p] = [status |-> "OWNED", owner |-> order[q].client]
        BY <4>2
      <4>4. p \in Pieces
        BY <4>2, <2>4
      <4> QED
        BY <4>1, <4>3, <4>4, <2>5
    <3> QED
      BY <3>1, <3>2
  <2>8. ShopInOrder'
    <3>1. ASSUME NEW q \in Orders
          PROVE  /\ Exists(q)' => Exists(q)
                 /\ order'[q].items = order[q].items
                 /\ order'[q].status \in {"NONE", "PENDING", "PAID", "CANCELLED"}
                 /\ order'[q].status = "PAID" => order'[q].pay = "PAID"
      <4>1. CASE q = o
        BY <2>1, <4>1
      <4>2. CASE q # o
        BY <2>1, <4>2
      <4> QED
        BY <4>1, <4>2
    <3>2. ASSUME NEW q \in Orders, Exists(q)', NEW p \in order'[q].items
          PROVE  piece'[p].status # "ABSENT"
      BY <2>4, <2>5, <3>1, <3>2
    <3> QED
      BY <2>5, <2>7, <3>1, <3>2
  <2>9. ASSUME NEW q \in Orders, Lost(q) PROVE Lost(q)'
    <3>1. q # o
      BY <2>1, <2>2, <2>9
    <3> QED
      BY <2>1, <2>4, <2>5, <2>9, <3>1
  <2> QED
    BY <2>8, <2>9
<1> QED
  BY <1>1, <1>2, <1>3, <1>4, <1>5 DEF ServiceTransaction

LEMMA UnattendedIsCheckout == UnattendedSpec => CheckoutSpec
<1>1. [Unattended]_checkoutVars => [CheckoutNext]_checkoutVars
  BY DEF Unattended, CheckoutNext
<1> QED
  BY <1>1, PTL DEF UnattendedSpec, CheckoutSpec

LEMMA ShopInvariance == UnattendedSpec => []ShopInOrder
<1>1. CheckoutInit => ShopInOrder
  BY DEF CheckoutInit, Init, ShopInOrder, Exists, PaidOrdersOwned
<1>2. IInv => TypeOK /\ OrdersWellFormed
  BY DEF IInv, Consistent
<1>3. IInv /\ IInv' /\ WellFormed /\ ShopInOrder /\ [Unattended]_checkoutVars => ShopInOrder'
  BY <1>2, ShopStays, ServiceSteps DEF IInv
<1> QED
  BY <1>1, <1>3, UnattendedIsCheckout, RequestsWellFormed, TablesStayConsistent, PTL DEF UnattendedSpec

\* Of two members who both pay for a piece, only its owner has a paid order.
THEOREM BuyersOwn == UnattendedSpec => []PaidOrdersOwned
BY ShopInvariance, PTL DEF ShopInOrder

\* Money is sent back, or about to be, only for orders that are lost.
RefundsAreForLost ==
  /\ \A o \in Orders : refund[o] # "none" => Lost(o)
  /\ \A t \in Threads : req[t].at \in {"refund", "record"} => Lost(req[t].order)

LEMMA RefundsAreForLostKept ==
  ASSUME IInv, IInv', WellFormed, WorkIsOnOrders, MoneyInv, ShopInOrder, RefundsAreForLost,
         [Unattended]_checkoutVars
  PROVE  RefundsAreForLost'
<1>a. ASSUME NEW o \in Orders, Lost(o) PROVE Lost(o)'
  BY <1>a, ShopStays, ServiceSteps DEF IInv, Consistent
<1>b. TypeOK /\ [CheckoutNext]_checkoutVars
  BY DEF Unattended, CheckoutNext, IInv
<1>c. ASSUME NEW t \in Threads, req[t].at \notin Unbound \cup {"idle"}
      PROVE  req[t].order \in Orders /\ Exists(req[t].order)
  BY <1>c, OrderKnown DEF WorkIsOnOrders
<1>d. ASSUME NEW t \in Threads, req[t].at \in {"refund", "record"}
      PROVE  req[t].order \in Orders /\ Lost(req[t].order)
  BY <1>c, <1>d DEF RefundsAreForLost, Unbound
<1>1. ASSUME NEW o \in Orders, refund'[o] # "none" PROVE Lost(o)'
  <2>1. CASE refund[o] # "none"
    BY <1>a, <2>1 DEF RefundsAreForLost
  <2>2. ASSUME NEW t \in Threads, Compensate(t) \/ RecordUnmatched(t), req[t].order = o
        PROVE  Lost(o)'
    BY <1>a, <1>d, <2>2 DEF Compensate, RecordUnmatched, At
  <2>3. CASE RecoverRefund(o)
    BY <2>1, <2>3 DEF RecoverRefund
  <2> QED
    BY <1>1, <1>b, <2>1, <2>2, <2>3, RefundMoves, ServiceRefundsNothing
<1>2. ASSUME NEW t \in Threads, req'[t].at \in {"refund", "record"} PROVE Lost(req[t].order)'
  <2>o. PICK o : o = req[t].order
    OBVIOUS
  <2>1. ASSUME o \in Orders, Lost(o), req'[t].order = o PROVE Lost(req[t].order)'
    BY <1>a, <2>1 DEF Lost, Exists
  <2>2. CASE req'[t] = req[t]
    BY <1>2, <1>d, <2>o, <2>1, <2>2
  <2>3. CASE req'[t] # req[t]
    <3>1. /\ req'[t].order = o
          /\ ConfirmConflict(t) \/ (ProcessWebhook(t) /\ WebhookNext(o) = "record")
      BY <1>2, <1>b, <2>o, <2>3, RefundBegins
    <3>2. CASE ConfirmConflict(t)
      <4>1. o \in Orders /\ Exists(o)
        BY <1>c, <2>o, <3>2 DEF ConfirmConflict, At, Unbound
      <4>2. PICK p \in order[o].items : piece[p].status # "AVAILABLE" /\ ~OwnedBy(p, order[o].client)
        BY <2>o, <3>2 DEF ConfirmConflict, Deliverable
      <4>3. p \in Pieces /\ piece[p] \in [status : PieceStatus, owner : Owner]
        BY <4>1 DEF IInv, TypeOK
      <4>4. piece[p].status = "OWNED"
        BY <4>1, <4>2, <4>3 DEF ShopInOrder
      <4>5. piece[p].owner # order[o].client
        BY <4>2, <4>3, <4>4 DEF OwnedBy
      <4>6. Lost(o)
        BY <4>1, <4>4, <4>5 DEF Lost
      <4> QED
        BY <2>1, <3>1, <4>1, <4>6
    <3>3. CASE ProcessWebhook(t) /\ WebhookNext(o) = "record"
      <4>1. o \in Orders /\ Exists(o)
        BY <1>c, <2>o, <3>3 DEF ProcessWebhook, At, Unbound
      <4>2. order[o].status # "PENDING" /\ ~(order[o].pay = "PAID" /\ ref[o])
        BY <3>3 DEF WebhookNext
      <4>3. order[o].pay # "PAID"
        BY <4>1, <4>2 DEF MoneyInv, PaidIsReferenced
      <4>4. order[o].status = "CANCELLED"
        BY <4>1, <4>2, <4>3 DEF ShopInOrder, Exists
      <4> QED
        BY <2>1, <3>1, <4>1, <4>3, <4>4 DEF Lost
    <3> QED
      BY <3>1, <3>2, <3>3
  <2> QED
    BY <2>2, <2>3
<1> QED
  BY <1>1, <1>2 DEF RefundsAreForLost

\* While the office leaves the orders alone, nobody keeps the goods and gets
\* the money back.
THEOREM PaidIsNotRefunded == UnattendedSpec => []PaidOrdersNotRefunded
<1>1. CheckoutInit => RefundsAreForLost
  BY DEF CheckoutInit, RefundsAreForLost, Idle
<1>2. IInv /\ IInv' /\ WellFormed /\ WorkIsOnOrders /\ MoneyInv /\ ShopInOrder /\ RefundsAreForLost
        /\ [Unattended]_checkoutVars => RefundsAreForLost'
  BY RefundsAreForLostKept
<1>3. ShopInOrder /\ RefundsAreForLost => PaidOrdersNotRefunded
  <2> SUFFICES ASSUME ShopInOrder, RefundsAreForLost, NEW o \in Orders,
                      order[o].pay = "PAID", refund[o] # "none"
               PROVE  FALSE
    BY DEF PaidOrdersNotRefunded
  <2>1. PICK p \in order[o].items : piece[p].owner # order[o].client
    BY DEF RefundsAreForLost, Lost
  <2>2. piece[p] = [status |-> "OWNED", owner |-> order[o].client]
    BY DEF ShopInOrder, PaidOrdersOwned, OwnedBy
  <2> QED
    BY <2>1, <2>2
<1> QED
  BY <1>1, <1>2, <1>3, UnattendedIsCheckout, WorkInvariance, MoneyInvariance, ShopInvariance,
     RequestsWellFormed, TablesStayConsistent, PTL DEF UnattendedSpec

-----------------------------------------------------------------------------
(* The service keeps what a sale promises. *)

SaleMoney == [o \in Orders |-> MoneyOf(o)]
SaleSettled == {o \in Orders : order[o].pay = "PAID"}

\* A step changes the charge, the refund or the payment, of one order.
LEMMA OneAtATime ==
  ASSUME TypeOK, WellFormed, [Unattended]_checkoutVars
  PROVE  \/ UNCHANGED <<charge, refund, order>>
         \/ \E o \in Orders :
              \/ /\ UNCHANGED <<order, charge>>
                 /\ \A q \in Orders \ {o} : refund'[q] = refund[q]
              \/ /\ UNCHANGED <<order, refund>>
                 /\ \A q \in Orders \ {o} : charge'[q] = charge[q]
              \/ /\ UNCHANGED <<charge, refund>>
                 /\ \A q \in Orders \ {o} : order'[q] = order[q]
<1> DEFINE RefundOf(o) == UNCHANGED <<order, charge>> /\ \A q \in Orders \ {o} : refund'[q] = refund[q]
           ChargeOf(o) == UNCHANGED <<order, refund>> /\ \A q \in Orders \ {o} : charge'[q] = charge[q]
           OrderOf(o) == UNCHANGED <<charge, refund>> /\ \A q \in Orders \ {o} : order'[q] = order[q]
           Goal == \/ UNCHANGED <<charge, refund, order>>
                   \/ \E o \in Orders : RefundOf(o) \/ ChargeOf(o) \/ OrderOf(o)
<1> SUFFICES Goal
  OBVIOUS
<1>1. ASSUME NEW t \in Threads, Proceed(t) PROVE Goal
  <2>1. CASE CreateOrder(t)
    <3>1. PICK o \in Orders : PlaceOrder(o, req[t].client, req[t].items)
      BY <2>1 DEF CreateOrder
    <3>2. OrderOf(o)
      BY <2>1, <3>1 DEF CreateOrder, PlaceOrder, TypeOK
    <3> QED
      BY <3>2
  <2>2. CASE ConfirmPayment(t) \/ FailUpdate(t) \/ CancelUpdate(t)
    <3>1. req[t].order \in Orders
      BY <2>2, OrderKnown DEF ConfirmPayment, FailUpdate, CancelUpdate, At, Unbound
    <3>2. UNCHANGED <<charge, refund>>
      BY <2>2 DEF ConfirmPayment, FailUpdate, CancelUpdate
    <3>3. \A q \in Orders \ {req[t].order} : order'[q] = order[q]
      BY <2>2, <3>1 DEF ConfirmPayment, Settle, ConfirmOrder, FailUpdate, FailWrite, CancelUpdate,
                        CancelWrite, TypeOK
    <3> QED
      BY <3>1, <3>2, <3>3
  <2>3. CASE RequestCharge(t)
    <3>1. req[t].order \in Orders
      BY <2>3, OrderKnown DEF RequestCharge, At, Unbound
    <3>2. ChargeOf(req[t].order)
      BY <2>3, <3>1 DEF RequestCharge, WellFormed, ownershipVars
    <3> QED
      BY <3>1, <3>2
  <2>4. CASE Compensate(t) \/ RecordUnmatched(t)
    <3>1. req[t].order \in Orders
      BY <2>4, OrderKnown DEF Compensate, RecordUnmatched, At, Unbound
    <3>2. RefundOf(req[t].order)
      BY <2>4, <3>1 DEF Compensate, RecordUnmatched, QueueRefund, WellFormed, ownershipVars
    <3> QED
      BY <3>1, <3>2
  <2>5. CASE \/ ClaimHolds(t) \/ FindOrder(t) \/ RefuseOrder(t) \/ AttachReference(t)
             \/ ResumeCharge(t) \/ ConfirmAgain(t) \/ ConfirmCancelled(t) \/ ConfirmConflict(t)
             \/ FailRead(t) \/ ReleaseHolds(t) \/ ProcessWebhook(t) \/ MarkProcessed(t)
    BY <2>5 DEF ClaimHolds, FindOrder, RefuseOrder, AttachReference, ResumeCharge, ConfirmAgain,
                ConfirmCancelled, ConfirmConflict, FailRead, ReleaseHolds, ProcessWebhook,
                MarkProcessed, ownershipVars
  <2> QED
    BY <1>1, <2>1, <2>2, <2>3, <2>4, <2>5 DEF Proceed
<1>2. ASSUME NEW t \in Threads, Member(t) PROVE UNCHANGED <<charge, refund, order>>
  BY <1>2 DEF Member, StartReserve, StartCheckout, StartCancel, StartReturn, ownershipVars
<1>3. ASSUME NEW o \in Orders, NEW s \in ChargeStatus, ChargeSettles(o, s) PROVE ChargeOf(o)
  BY <1>3 DEF ChargeSettles, WellFormed, ownershipVars
<1>4. ASSUME NEW o \in Orders, RecoverRefund(o) PROVE RefundOf(o)
  BY <1>4 DEF RecoverRefund, WellFormed, ownershipVars
<1>5. CASE Gateway
  <2>1. ASSUME NEW o \in Orders, NEW t \in Threads, StartWebhook(t, o)
        PROVE  UNCHANGED <<charge, refund, order>>
    BY <2>1 DEF StartWebhook, ownershipVars
  <2> QED
    BY <1>3, <1>5, <2>1 DEF Gateway
<1>6. CASE Timers
  <2>1. ASSUME NEW o \in Orders, NEW t \in Threads, Reconcile(t, o) \/ ExpireOrder(t, o)
        PROVE  UNCHANGED <<charge, refund, order>>
    BY <2>1 DEF Reconcile, ExpireOrder, ownershipVars
  <2>2. ASSUME NEW o \in Orders, ClaimExpires(o) PROVE UNCHANGED <<charge, refund, order>>
    BY <2>2 DEF ClaimExpires, ownershipVars
  <2>3. ASSUME NEW p \in Pieces, ExpireHold(p) PROVE UNCHANGED <<charge, refund, order>>
    BY <2>3 DEF ExpireHold, ownershipVars
  <2> QED
    BY <1>4, <1>6, <2>1, <2>2, <2>3 DEF Timers
<1>7. ASSUME NEW p \in Pieces, AdminRegister(p) PROVE UNCHANGED <<charge, refund, order>>
  BY <1>7 DEF AdminRegister, RegisterPiece, checkoutOnlyVars
<1>8. CASE UNCHANGED checkoutVars
  BY <1>8 DEF checkoutVars, checkoutOnlyVars, ownershipVars
<1>9. ASSUME NEW t \in Threads, Crash(t) PROVE UNCHANGED <<charge, refund, order>>
  BY <1>9 DEF Crash, ownershipVars
<1> QED
  BY <1>1, <1>2, <1>5, <1>6, <1>7, <1>8, <1>9 DEF Unattended, Service

\* What each of these is of the sale.  That the payment, the charge and the
\* refund agree after the step shows that the sale allows it.
LEMMA SaleMaps ==
  ASSUME TypeOK, TypeOK', WellFormed, WellFormed', MoneyMatchesOrders', PaidOrdersNotRefunded',
         [Unattended]_checkoutVars
  PROVE  [Promised!Next]_Promised!saleVars
<1>0. [CheckoutNext]_checkoutVars
  BY DEF Unattended, CheckoutNext
<1>1. ASSUME \A q \in Orders : MoneyOf(q)' = MoneyOf(q),
             \A q \in Orders : (order'[q].pay = "PAID") <=> (order[q].pay = "PAID")
      PROVE  UNCHANGED Promised!saleVars
  BY <1>1 DEF Promised!saleVars
<1>2. ASSUME UNCHANGED order PROVE SaleSettled' = SaleSettled
  BY <1>2 DEF SaleSettled
<1>3. ASSUME UNCHANGED <<charge, refund>> PROVE SaleMoney' = SaleMoney
  BY <1>3 DEF SaleMoney, MoneyOf
<1>4. ASSUME NEW o \in Orders, UNCHANGED <<order, charge>>,
             \A q \in Orders \ {o} : refund'[q] = refund[q]
      PROVE  Promised!Next \/ UNCHANGED Promised!saleVars
  <2>1. \A q \in Orders \ {o} : MoneyOf(q)' = MoneyOf(q)
    BY <1>4 DEF MoneyOf
  <2>2. CASE refund'[o] = refund[o]
    <3>1. MoneyOf(o)' = MoneyOf(o)
      BY <1>4, <2>2 DEF MoneyOf
    <3> QED
      BY <1>1, <1>4, <2>1, <3>1
  <2>3. CASE refund'[o] # refund[o]
    <3>1. \/ refund[o] = "none" /\ refund'[o] \in {"owed", "made"}
          \/ refund[o] = "owed" /\ refund'[o] = "made"
      <4>1. ~AdminRefund(o)
        BY ServiceRefundsNothing
      <4>2. ASSUME NEW t \in Threads, Compensate(t) \/ RecordUnmatched(t), req[t].order = o
            PROVE  refund[o] = "made" => refund'[o] = "made"
        BY <4>2 DEF Compensate, RecordUnmatched, QueueRefund, WellFormed
      <4>3. ASSUME RecoverRefund(o) PROVE refund[o] = "owed"
        BY <4>3 DEF RecoverRefund
      <4>4. /\ refund[o] \in {"none", "owed", "made"}
            /\ refund'[o] \in {"none", "owed", "made"}
            /\ refund[o] # "none" => refund'[o] # "none"
        BY <1>0, MoneyIsMonotone DEF WellFormed
      <4> QED
        BY <1>0, <2>3, <4>1, <4>2, <4>3, <4>4, RefundMoves
    <3>2. charge[o] = "CAPTURED" /\ order[o].pay # "PAID"
      BY <1>4, <3>1 DEF MoneyMatchesOrders, RefundsOnlyOfCaptures, PaidOrdersNotRefunded
    <3>3. SaleMoney' = [SaleMoney EXCEPT ![o] = MoneyOf(o)'] /\ SaleMoney[o] = MoneyOf(o)
      BY <2>1 DEF SaleMoney
    <3>4. o \notin SaleSettled
      BY <3>2 DEF SaleSettled
    <3>5. \/ MoneyOf(o) = "taken" /\ MoneyOf(o)' = "owed"
          \/ MoneyOf(o) \in {"taken", "owed"} /\ MoneyOf(o)' = "returned"
      BY <1>4, <3>1, <3>2 DEF MoneyOf
    <3>6. Promised!Owe(o) \/ Promised!Return(o)
      BY <1>2, <1>4, <3>3, <3>4, <3>5 DEF Promised!Owe, Promised!Return, SaleMoney, SaleSettled
    <3> QED
      BY <3>6 DEF Promised!Next
  <2> QED
    BY <2>2, <2>3
<1>5. ASSUME NEW o \in Orders, UNCHANGED <<order, refund>>,
             \A q \in Orders \ {o} : charge'[q] = charge[q]
      PROVE  Promised!Next \/ UNCHANGED Promised!saleVars
  <2>1. \A q \in Orders \ {o} : MoneyOf(q)' = MoneyOf(q)
    BY <1>5 DEF MoneyOf
  <2>2. CASE MoneyOf(o)' = MoneyOf(o)
    BY <1>1, <1>5, <2>1, <2>2
  <2>3. CASE MoneyOf(o)' # MoneyOf(o)
    <3>1. charge[o] = "CAPTURED" => charge'[o] = "CAPTURED"
      BY <1>0, MoneyIsMonotone
    <3>2. refund[o] \in {"none", "owed", "made"}
      BY DEF WellFormed
    <3>3. MoneyOf(o) = "none" /\ MoneyOf(o)' = "taken"
      BY <1>5, <2>3, <3>1, <3>2 DEF MoneyOf
    <3>4. SaleMoney' = [SaleMoney EXCEPT ![o] = "taken"] /\ SaleMoney[o] = MoneyOf(o)
      BY <2>1, <3>3 DEF SaleMoney
    <3>5. Promised!Take(o)
      BY <1>2, <1>5, <3>3, <3>4 DEF Promised!Take, SaleMoney, SaleSettled
    <3> QED
      BY <3>5 DEF Promised!Next
  <2> QED
    BY <2>2, <2>3
<1>6. ASSUME NEW o \in Orders, UNCHANGED <<charge, refund>>,
             \A q \in Orders \ {o} : order'[q] = order[q]
      PROVE  Promised!Next \/ UNCHANGED Promised!saleVars
  <2>1. CASE (order'[o].pay = "PAID") <=> (order[o].pay = "PAID")
    BY <1>1, <1>6, <2>1 DEF MoneyOf
  <2>2. CASE order'[o].pay # "PAID" /\ order[o].pay = "PAID"
    <3>1. SaleSettled' = SaleSettled \ {o}
      BY <1>6, <2>2 DEF SaleSettled
    <3>2. Promised!Unwind(o)
      BY <1>3, <1>6, <3>1 DEF Promised!Unwind, SaleMoney, SaleSettled
    <3> QED
      BY <3>2 DEF Promised!Next
  <2>3. CASE order'[o].pay = "PAID" /\ order[o].pay # "PAID"
    <3>1. SaleSettled' = SaleSettled \cup {o}
      BY <1>6, <2>3 DEF SaleSettled
    <3>2. charge[o] = "CAPTURED" /\ refund[o] = "none"
      BY <1>6, <2>3 DEF MoneyMatchesOrders, GoodsOnlyForCapture, PaidOrdersNotRefunded
    <3>3. SaleMoney[o] = "taken"
      BY <3>2 DEF SaleMoney, MoneyOf
    <3>4. Promised!Settle(o)
      BY <1>3, <1>6, <3>1, <3>3 DEF Promised!Settle, SaleMoney, SaleSettled
    <3> QED
      BY <3>4 DEF Promised!Next
  <2> QED
    BY <2>1, <2>2, <2>3
<1>7. CASE UNCHANGED <<charge, refund, order>>
  BY <1>1, <1>7 DEF MoneyOf
<1> QED
  BY <1>4, <1>5, <1>6, <1>7, OneAtATime

\* While the office is passive, every interleaving of members, webhooks,
\* returns, sweeps and retries is a sale: money taken once, kept only for
\* goods delivered, owed or returned only when they are not.
THEOREM SettlementImplementsSale == UnattendedSpec => ImplementsSale
<1>1. CheckoutInit => Promised!Init
  <2> SUFFICES ASSUME CheckoutInit PROVE Promised!Init
    OBVIOUS
  <2>1. \A o \in Orders : MoneyOf(o) = "none" /\ order[o].pay # "PAID"
    BY DEF CheckoutInit, Init, MoneyOf
  <2> QED
    BY <2>1 DEF Promised!Init
<1>2. IInv => TypeOK
  BY DEF IInv
<1>3. /\ IInv /\ IInv' /\ WellFormed /\ WellFormed' /\ MoneyMatchesOrders' /\ PaidOrdersNotRefunded'
      /\ [Unattended]_checkoutVars
      => [Promised!Next]_Promised!saleVars
  BY <1>2, SaleMaps DEF IInv
<1> QED
  BY <1>1, <1>3, UnattendedIsCheckout, RequestsWellFormed, TablesStayConsistent, MoneyMatches,
     PaidIsNotRefunded, PTL DEF UnattendedSpec, ImplementsSale, Promised!Spec

\* All of it holds of the service that no process leaves, which the run checks.
COROLLARY ServiceKeepsItsWord ==
  ServiceSpec => []PaidOrdersOwned /\ []PaidOrdersNotRefunded /\ ImplementsSale
<1>1. [Service]_checkoutVars => [Unattended]_checkoutVars
  BY DEF Unattended
<1>2. ServiceSpec => UnattendedSpec
  BY <1>1, PTL DEF ServiceSpec, UnattendedSpec
<1> QED
  BY <1>2, BuyersOwn, PaidIsNotRefunded, SettlementImplementsSale, PTL

===============================================================================
