----------------------------- MODULE AccessProofs -----------------------------
(***************************************************************************)
(* What holds of Access for any members, classes, collections, requests    *)
(* and handlers: every property that its run checks.                       *)
(***************************************************************************)
EXTENDS Access, TLAPS

-----------------------------------------------------------------------------
(* The inductive invariant: what a handler knows at each of its steps.     *)
(* What it knows of others' rows holds until someone writes beside it.     *)

\* The rows that a handler is about to write.
RowsOK(h) ==
  /\ \A r \in handler[h].ids : status[r] # "none" /\ r \in seen[h]
  /\ handler[h].at = "idle" => handler[h].ids = {}
  /\ handler[h].at \in {"idle", "approve", "reject", "rotate", "grant"} =>
       handler[h].member = Nobody /\ handler[h].collection = Nothing
  /\ handler[h].at \in {"approve", "grant", "complete", "reject"} =>
       \E r \in Requests : handler[h].ids = {r}
  /\ handler[h].at \in {"approve", "grant", "complete"} => handler[h].gone = {}
  /\ handler[h].at \in {"links", "sync"} => handler[h].member # Nobody
  /\ handler[h].at \in {"relink", "find"} => handler[h].collection # Nothing
  /\ handler[h].at = "close" =>
       handler[h].member # Nobody \/ handler[h].collection # Nothing
  /\ handler[h].member # Nobody =>
       handler[h].collection = Nothing /\ \E k \in Classes : handler[h].classes = {k}

\* What an approval is about to give.
ApprovalOK(h) ==
  \A r \in handler[h].ids :
    /\ handler[h].at = "grant" =>
         /\ For(r, "ACCESS_REQUEST")
         /\ asks[r].target \in Collections
         /\ h \in stale \/ handler[h].classes = {classOf[asks[r].client]}
    /\ handler[h].at = "complete" /\ For(r, "MEMBERSHIP_UPGRADE") /\ asks[r].target \in Classes =>
         handler[h].member = asks[r].client /\ handler[h].classes = {asks[r].target}
    /\ handler[h].at = "complete" /\ For(r, "ACCESS_REQUEST") /\ asks[r].target \in Collections =>
         /\ handler[h].collection = asks[r].target
         /\ h \in stale \/ classOf[asks[r].client] \in links[asks[r].target] \cup handler[h].classes

VisibleTo(h) == {c \in Collections : handler[h].classes \cap links[c] # {}}

OfMember(h) ==
  {r \in Requests : /\ IsOpen(r)
                    /\ For(r, "ACCESS_REQUEST")
                    /\ asks[r].client = handler[h].member
                    /\ asks[r].target \in handler[h].visible}

OfCollection(h) ==
  {r \in Requests : /\ IsOpen(r)
                    /\ For(r, "ACCESS_REQUEST")
                    /\ asks[r].target = handler[h].collection
                    /\ classOf[asks[r].client] \in handler[h].classes}

\* What an edit has found.
EditOK(h) ==
  /\ handler[h].at = "sync" => h \in stale \/ handler[h].visible = VisibleTo(h)
  /\ handler[h].at = "close" => \A r \in handler[h].ids : For(r, "ACCESS_REQUEST")
  /\ handler[h].at = "close" /\ handler[h].member # Nobody =>
       /\ \A r \in handler[h].ids :
            asks[r].client = handler[h].member /\ asks[r].target \in handler[h].visible
       /\ h \in stale \/ (handler[h].visible = VisibleTo(h) /\ handler[h].ids = OfMember(h))
  /\ handler[h].at = "close" /\ handler[h].member = Nobody =>
       /\ \A r \in handler[h].ids : asks[r].target = handler[h].collection
       /\ h \in stale \/ handler[h].ids = OfCollection(h)

HandlerOK(h) == RowsOK(h) /\ ApprovalOK(h) /\ EditOK(h)

AccessIInv ==
  /\ AccessTypeOK
  /\ \A h \in Handlers : HandlerOK(h)
  /\ SatisfiedAreClosed
  /\ CompletedKeysAreIssued



-----------------------------------------------------------------------------
(* The initial states. *)

LEMMA IdleIsARecord == Idle \in HandlerRecords
BY DEF Idle, HandlerRecords

LEMMA AccessInitial == AccessInit => AccessIInv
<1> SUFFICES ASSUME AccessInit PROVE AccessIInv
  OBVIOUS
<1>1. AccessTypeOK
  BY IdleIsARecord DEF AccessInit, AccessTypeOK
<1>2. ASSUME NEW h \in Handlers PROVE HandlerOK(h)
  <2>1. handler[h] = Idle
    BY DEF AccessInit
  <2>2. handler[h].at = "idle" /\ handler[h].ids = {} /\ handler[h].member = Nobody
        /\ handler[h].collection = Nothing
    BY <2>1 DEF Idle
  <2>3. RowsOK(h)
    BY <2>2 DEF RowsOK
  <2>4. ApprovalOK(h)
    BY <2>2 DEF ApprovalOK
  <2>5. EditOK(h)
    BY <2>2 DEF EditOK
  <2> QED
    BY <2>3, <2>4, <2>5 DEF HandlerOK
<1>3. SatisfiedAreClosed
  BY DEF AccessInit, SatisfiedAreClosed, Satisfied, IsOpen
<1>4. CompletedKeysAreIssued
  BY DEF AccessInit, CompletedKeysAreIssued
<1> QED
  BY <1>1, <1>2, <1>3, <1>4 DEF AccessIInv

-----------------------------------------------------------------------------
(* Whatever another does, a handler knows what it knew. *)

\* Noting of a step in which k does not act.
LEMMA Undisturbed ==
  ASSUME NEW acting, NEW excuses, Noting(acting, excuses),
         NEW k \in Handlers, k \notin acting,
         InTransaction(k), InTransaction(k)', k \notin stale'
  PROVE  k \notin stale /\ classOf' = classOf /\ links' = links /\ status' = status
BY DEF Noting, Wrote

LEMMA Bystander ==
  ASSUME AccessTypeOK, NEW acting, NEW excuses, Noting(acting, excuses),
         NEW k \in Handlers, k \notin acting, HandlerOK(k),
         handler'[k].at = handler[k].at,
         handler'[k].member = handler[k].member,
         handler'[k].collection = handler[k].collection,
         handler'[k].classes = handler[k].classes,
         handler'[k].visible = handler[k].visible,
         handler'[k].ids = handler[k].ids,
         handler'[k].gone \subseteq handler[k].gone,
         \A r \in Requests : status[r] # "none" =>
           status'[r] # "none" /\ asks'[r] = asks[r],
         status' = status => asks' = asks
  PROVE  HandlerOK(k)'
<1> DEFINE w == handler[k]
<1>1. w.ids \in SUBSET Requests
  BY DEF AccessTypeOK, HandlerRecords
<1>2. \A r \in w.ids : status[r] # "none" /\ status'[r] # "none" /\ asks'[r] = asks[r]
  BY <1>1 DEF HandlerOK, RowsOK
<1>3. RowsOK(k)'
  <2>1. ASSUME NEW r \in w.ids PROVE r \in seen'[k]
    <3>1. r \in seen[k] /\ w.at # "idle"
      BY DEF HandlerOK, RowsOK
    <3> QED
      BY <3>1, <1>1 DEF Noting
  <2>2. w.gone = {} => handler'[k].gone = {}
    OBVIOUS
  <2> QED
    BY <1>2, <2>1, <2>2 DEF HandlerOK, RowsOK
<1>4. InTransaction(k)' = InTransaction(k)
  BY DEF InTransaction
<1>5. w.at \in {"grant", "complete", "sync", "close"} /\ k \notin stale' =>
        /\ k \notin stale
        /\ classOf' = classOf /\ links' = links /\ status' = status /\ asks' = asks
  <2> SUFFICES ASSUME w.at \in {"grant", "complete", "sync", "close"}, k \notin stale'
               PROVE  /\ k \notin stale
                      /\ classOf' = classOf /\ links' = links
                      /\ status' = status /\ asks' = asks
    OBVIOUS
  <2>1. InTransaction(k)
    BY DEF InTransaction
  <2>2. k \notin stale /\ classOf' = classOf /\ links' = links /\ status' = status
    BY <2>1, <1>4, Undisturbed
  <2> QED
    BY <2>2
<1>6. ApprovalOK(k)'
  <2> SUFFICES ASSUME NEW r \in w.ids
               PROVE  /\ w.at = "grant" =>
                           /\ For(r, "ACCESS_REQUEST")'
                           /\ asks'[r].target \in Collections
                           /\ k \in stale' \/ w.classes = {classOf'[asks'[r].client]}
                      /\ w.at = "complete" /\ For(r, "MEMBERSHIP_UPGRADE")'
                           /\ asks'[r].target \in Classes =>
                           w.member = asks'[r].client /\ w.classes = {asks'[r].target}
                      /\ w.at = "complete" /\ For(r, "ACCESS_REQUEST")'
                           /\ asks'[r].target \in Collections =>
                           /\ w.collection = asks'[r].target
                           /\ k \in stale' \/ classOf'[asks'[r].client] \in links'[asks'[r].target] \cup w.classes
    BY DEF ApprovalOK
  <2>1. asks'[r] = asks[r]
    BY <1>2
  <2>2. ApprovalOK(k)
    BY DEF HandlerOK
  <2> QED
    BY <2>1, <2>2, <1>5 DEF ApprovalOK, For
<1>7. EditOK(k)'
  <2>1. EditOK(k)
    BY DEF HandlerOK
  <2>2. \A r \in w.ids : asks'[r] = asks[r]
    BY <1>2
  <2>3. w.at = "sync" => k \in stale' \/ w.visible = VisibleTo(k)'
    BY <2>1, <1>5 DEF EditOK, VisibleTo
  <2>4. w.at = "close" => \A r \in w.ids : For(r, "ACCESS_REQUEST")'
    BY <2>1, <2>2 DEF EditOK, For
  <2>5. w.at = "close" /\ k \notin stale' =>
          VisibleTo(k)' = VisibleTo(k) /\ OfMember(k)' = OfMember(k)
          /\ OfCollection(k)' = OfCollection(k)
    BY <1>5 DEF VisibleTo, OfMember, OfCollection, IsOpen, For
  <2>6. w.at = "close" /\ w.member # Nobody =>
          /\ \A r \in w.ids : asks'[r].client = w.member /\ asks'[r].target \in w.visible
          /\ k \in stale' \/ (w.visible = VisibleTo(k)' /\ w.ids = OfMember(k)')
    BY <2>1, <2>2, <2>5, <1>5 DEF EditOK
  <2>7. w.at = "close" /\ w.member = Nobody =>
          /\ \A r \in w.ids : asks'[r].target = w.collection
          /\ k \in stale' \/ w.ids = OfCollection(k)'
    BY <2>1, <2>2, <2>5, <1>5 DEF EditOK
  <2> QED
    BY <2>3, <2>4, <2>6, <2>7 DEF EditOK
<1> QED
  BY <1>3, <1>6, <1>7 DEF HandlerOK

-----------------------------------------------------------------------------
(* Steps that write no row: only the handler moves. *)

LEMMA QuietStep ==
  ASSUME AccessIInv, NEW h \in Handlers, NEW excuses, Noting({h}, excuses),
         UNCHANGED <<classOf, links, asks, status>>,
         NEW w \in HandlerRecords, handler' = [handler EXCEPT ![h] = w],
         HandlerOK(h)',
         issued \subseteq issued', issued' \subseteq Requests,
         lost \subseteq lost', lost' \subseteq Requests,
         handler[h].at = "rotate" => handler[h].ids \subseteq issued' \cup lost'
  PROVE  AccessIInv'
<1> USE DEF AccessIInv
<1>1. AccessTypeOK'
  BY DEF AccessTypeOK, Noting
<1>2. \A k \in Handlers \ {h} : handler'[k] = handler[k]
  BY DEF AccessTypeOK
<1>3. ASSUME NEW k \in Handlers PROVE HandlerOK(k)'
  <2>1. CASE k = h
    BY <2>1
  <2>2. CASE k # h
    <3>1. handler'[k] = handler[k]
      BY <1>2, <2>2
    <3>2. HandlerOK(k) /\ AccessTypeOK /\ k \notin {h}
      BY <2>2
    <3>3. \A r \in Requests : status[r] # "none" =>
            status'[r] # "none" /\ asks'[r] = asks[r]
      OBVIOUS
    <3> QED
      BY <3>1, <3>2, <3>3, Bystander
  <2> QED
    BY <2>1, <2>2
<1>4. SatisfiedAreClosed'
  BY DEF SatisfiedAreClosed, Satisfied, IsOpen, For, Noting
<1>5. CompletedKeysAreIssued'
  <2> SUFFICES ASSUME NEW r \in Requests, status[r] = "COMPLETED", For(r, "KEY_ISSUANCE")
               PROVE  \/ r \in issued' \cup lost'
                      \/ \E k \in Handlers : handler'[k].at = "rotate" /\ r \in handler'[k].ids
    BY DEF CompletedKeysAreIssued, For
  <2>1. CASE r \in issued \cup lost
    BY <2>1
  <2>2. CASE \E k \in Handlers : handler[k].at = "rotate" /\ r \in handler[k].ids
    BY <2>2, <1>2
  <2> QED
    BY <2>1, <2>2 DEF CompletedKeysAreIssued
<1> QED
  BY <1>1, <1>3, <1>4, <1>5

\* A handler at work met the requests that it met, and is disturbed if it was.
LEMMA OwnStep ==
  ASSUME AccessTypeOK, NEW h \in Handlers, NEW excuses, Noting({h}, excuses),
         handler[h].at # "idle"
  PROVE  /\ \A r \in Requests : r \in seen[h] => r \in seen'[h]
         /\ InTransaction(h) /\ InTransaction(h)' /\ h \in stale => h \in stale'
BY DEF Noting

LEMMA ApproveStep ==
  ASSUME AccessIInv, NEW h \in Handlers, NEW r \in Requests,
         Approve(h, r) \/ Reject(h, r), Noting({h}, FALSE)
  PROVE  AccessIInv'
<1> PICK at \in {"approve", "reject"} : handler' = [handler EXCEPT ![h] = [Idle EXCEPT !.at = at, !.ids = {r}]]
  BY DEF Approve, Reject, Begin
<1> DEFINE w == [Idle EXCEPT !.at = at, !.ids = {r}]
<1>1. w \in HandlerRecords
  BY DEF Idle, HandlerRecords
<1>2. handler'[h] = w
  BY DEF AccessIInv, AccessTypeOK
<1>3. w.at = at /\ w.ids = {r} /\ w.member = Nobody /\ w.collection = Nothing /\ w.gone = {}
  BY DEF Idle
<1>4. IsOpen(r) /\ handler[h].at = "idle" /\ UNCHANGED <<classOf, links, asks, status, issued, lost>>
  BY DEF Approve, Reject, Begin
<1>5. status'[r] # "none" /\ r \in seen'[h]
  BY <1>4 DEF IsOpen, Noting
<1>6. HandlerOK(h)'
  <2>1. RowsOK(h)'
    BY <1>2, <1>3, <1>5 DEF RowsOK
  <2>2. ApprovalOK(h)' /\ EditOK(h)'
    BY <1>2, <1>3 DEF ApprovalOK, EditOK
  <2> QED
    BY <2>1, <2>2 DEF HandlerOK
<1>7. issued \in SUBSET Requests /\ lost \in SUBSET Requests
  BY DEF AccessIInv, AccessTypeOK
<1>8. handler' = [handler EXCEPT ![h] = w]
  OBVIOUS
<1>9. handler[h].at # "rotate"
  BY <1>4
<1> HIDE DEF w
<1> QED
  BY <1>1, <1>4, <1>6, <1>7, <1>8, <1>9, QuietStep

LEMMA UpgradeStep ==
  ASSUME AccessIInv, NEW h \in Handlers, NEW r \in Requests,
         Upgrade(h, r), Noting({h}, FALSE)
  PROVE  AccessIInv'
<1> DEFINE w == [handler[h] EXCEPT !.at = "complete", !.member = asks[r].client,
                                   !.classes = {asks[r].target}]
<1>1. /\ handler \in [Handlers -> HandlerRecords] /\ handler[h] \in HandlerRecords
      /\ issued \in SUBSET Requests /\ lost \in SUBSET Requests
      /\ AccessTypeOK /\ HandlerOK(h)
  BY DEF AccessIInv, AccessTypeOK
<1>2. handler[h].at = "approve" /\ r \in handler[h].ids /\ For(r, "MEMBERSHIP_UPGRADE")
      /\ asks[r].target \in Classes /\ UNCHANGED <<classOf, links, asks, status, issued, lost>>
  BY DEF Upgrade
<1>3. handler' = [handler EXCEPT ![h] = w] /\ handler'[h] = w
  BY <1>1 DEF Upgrade
<1>4. asks[r] \in Asks /\ asks[r].client \in Members
  BY <1>2 DEF AccessIInv, AccessTypeOK, For, Asks
<1>5. w \in HandlerRecords
  BY <1>1, <1>2, <1>4 DEF HandlerRecords
<1>6. /\ w.at = "complete" /\ w.member = asks[r].client /\ w.classes = {asks[r].target}
      /\ w.ids = handler[h].ids /\ w.gone = handler[h].gone
      /\ w.collection = handler[h].collection
  BY <1>1 DEF HandlerRecords
<1>7. handler[h].ids = {r} /\ handler[h].gone = {} /\ handler[h].collection = Nothing
  BY <1>1, <1>2 DEF HandlerOK, RowsOK
<1>8. HandlerOK(h)'
  <2>1. status'[r] # "none" /\ r \in seen'[h]
    BY <1>1, <1>2, OwnStep DEF HandlerOK, RowsOK
  <2>2. RowsOK(h)'
    BY <1>2, <1>3, <1>6, <1>7, <2>1 DEF RowsOK
  <2>3. ApprovalOK(h)' /\ EditOK(h)'
    BY <1>2, <1>3, <1>6, <1>7 DEF ApprovalOK, EditOK, For
  <2> QED
    BY <2>2, <2>3 DEF HandlerOK
<1> HIDE DEF w
<1> QED
  BY <1>1, <1>2, <1>3, <1>5, <1>8, QuietStep

LEMMA ReadClassStep ==
  ASSUME AccessIInv, NEW h \in Handlers, NEW r \in Requests,
         ReadClass(h, r), Noting({h}, FALSE)
  PROVE  AccessIInv'
<1> DEFINE w == [handler[h] EXCEPT !.at = "grant", !.classes = {classOf[asks[r].client]}]
<1>1. /\ handler \in [Handlers -> HandlerRecords] /\ handler[h] \in HandlerRecords
      /\ issued \in SUBSET Requests /\ lost \in SUBSET Requests
      /\ AccessTypeOK /\ HandlerOK(h)
  BY DEF AccessIInv, AccessTypeOK
<1>2. handler[h].at = "approve" /\ r \in handler[h].ids /\ For(r, "ACCESS_REQUEST")
      /\ asks[r].target \in Collections /\ UNCHANGED <<classOf, links, asks, status, issued, lost>>
  BY DEF ReadClass
<1>3. handler' = [handler EXCEPT ![h] = w] /\ handler'[h] = w
  BY <1>1 DEF ReadClass
<1>4. asks[r] \in Asks /\ asks[r].client \in Members /\ classOf[asks[r].client] \in Classes
  BY <1>2 DEF AccessIInv, AccessTypeOK, For, Asks
<1>5. w \in HandlerRecords
  BY <1>1, <1>4 DEF HandlerRecords
<1>6. /\ w.at = "grant" /\ w.classes = {classOf[asks[r].client]}
      /\ w.ids = handler[h].ids /\ w.gone = handler[h].gone
      /\ w.collection = handler[h].collection /\ w.member = handler[h].member
  BY <1>1 DEF HandlerRecords
<1>7. handler[h].ids = {r} /\ handler[h].gone = {} /\ handler[h].collection = Nothing
      /\ handler[h].member = Nobody
  BY <1>1, <1>2 DEF HandlerOK, RowsOK
<1>8. HandlerOK(h)'
  <2>1. status'[r] # "none" /\ r \in seen'[h]
    BY <1>1, <1>2, OwnStep DEF HandlerOK, RowsOK
  <2>2. RowsOK(h)'
    BY <1>2, <1>3, <1>6, <1>7, <2>1 DEF RowsOK
  <2>3. ApprovalOK(h)' /\ EditOK(h)'
    BY <1>2, <1>3, <1>6, <1>7 DEF ApprovalOK, EditOK, For
  <2> QED
    BY <2>2, <2>3 DEF HandlerOK
<1> HIDE DEF w
<1> QED
  BY <1>1, <1>2, <1>3, <1>5, <1>8, QuietStep

LEMMA GrantStep ==
  ASSUME AccessIInv, NEW h \in Handlers, NEW r \in Requests,
         Grant(h, r), Noting({h}, FALSE)
  PROVE  AccessIInv'
<1> DEFINE w == [handler[h] EXCEPT !.at = "complete", !.collection = asks[r].target,
                                   !.classes = @ \ links[asks[r].target]]
<1>1. /\ handler \in [Handlers -> HandlerRecords] /\ handler[h] \in HandlerRecords
      /\ issued \in SUBSET Requests /\ lost \in SUBSET Requests
      /\ AccessTypeOK /\ HandlerOK(h)
  BY DEF AccessIInv, AccessTypeOK
<1>2. handler[h].at = "grant" /\ r \in handler[h].ids
      /\ UNCHANGED <<classOf, links, asks, status, issued, lost>>
  BY DEF Grant
<1>3. handler' = [handler EXCEPT ![h] = w] /\ handler'[h] = w
  BY <1>1 DEF Grant
<1>4. /\ For(r, "ACCESS_REQUEST") /\ asks[r].target \in Collections
      /\ h \in stale \/ handler[h].classes = {classOf[asks[r].client]}
  BY <1>1, <1>2 DEF HandlerOK, ApprovalOK
<1>5. w \in HandlerRecords
  BY <1>1, <1>4 DEF HandlerRecords
<1>6. /\ w.at = "complete" /\ w.classes = handler[h].classes \ links[asks[r].target]
      /\ w.ids = handler[h].ids /\ w.gone = handler[h].gone
      /\ w.collection = asks[r].target /\ w.member = handler[h].member
  BY <1>1 DEF HandlerRecords
<1>7. handler[h].ids = {r} /\ handler[h].gone = {} /\ handler[h].member = Nobody
  BY <1>1, <1>2 DEF HandlerOK, RowsOK
<1>8. HandlerOK(h)'
  <2>1. status'[r] # "none" /\ r \in seen'[h]
    BY <1>1, <1>2, OwnStep DEF HandlerOK, RowsOK
  <2>2. RowsOK(h)'
    <3>1. /\ handler'[h].at = "complete" /\ handler'[h].ids = {r} /\ handler'[h].gone = {}
          /\ handler'[h].member = Nobody
      BY <1>3, <1>6, <1>7
    <3> QED
      BY <2>1, <3>1 DEF RowsOK
  <2>3. h \in stale => h \in stale'
    BY <1>1, <1>2, <1>3, <1>6, OwnStep DEF InTransaction
  <2>4. h \in stale' \/ classOf'[asks[r].client] \in links'[asks[r].target] \cup w.classes
    BY <1>2, <1>4, <1>6, <2>3
  <2>5. ~For(r, "MEMBERSHIP_UPGRADE")
    BY <1>4 DEF For
  <2>6. asks'[r] = asks[r] /\ For(r, "MEMBERSHIP_UPGRADE")' = For(r, "MEMBERSHIP_UPGRADE")
    BY <1>2 DEF For
  <2>7. handler'[h].ids = {r} /\ handler'[h].at = "complete"
        /\ handler'[h].collection = asks[r].target /\ handler'[h].classes = w.classes
    BY <1>3, <1>6, <1>7
  <2>8. ApprovalOK(h)'
    BY <2>4, <2>5, <2>6, <2>7 DEF ApprovalOK
  <2>9. EditOK(h)'
    BY <1>3, <1>6 DEF EditOK
  <2> QED
    BY <2>2, <2>8, <2>9 DEF HandlerOK
<1> HIDE DEF w
<1> QED
  BY <1>1, <1>2, <1>3, <1>5, <1>8, QuietStep

LEMMA WriteNothingStep ==
  ASSUME AccessIInv, NEW h \in Handlers, NEW r \in Requests,
         WriteNothing(h, r), Noting({h}, FALSE)
  PROVE  AccessIInv'
<1> DEFINE w == [handler[h] EXCEPT !.at = "complete"]
<1>1. /\ handler \in [Handlers -> HandlerRecords] /\ handler[h] \in HandlerRecords
      /\ issued \in SUBSET Requests /\ lost \in SUBSET Requests
      /\ AccessTypeOK /\ HandlerOK(h)
  BY DEF AccessIInv, AccessTypeOK
<1>2. handler[h].at = "approve" /\ r \in handler[h].ids
      /\ (asks[r].type = "KEY_ISSUANCE" \/ asks[r].target = Nothing)
      /\ UNCHANGED <<classOf, links, asks, status, issued, lost>>
  BY DEF WriteNothing
<1>3. handler' = [handler EXCEPT ![h] = w] /\ handler'[h] = w
  BY <1>1 DEF WriteNothing
<1>5. w \in HandlerRecords
  BY <1>1 DEF HandlerRecords
<1>6. /\ w.at = "complete" /\ w.classes = handler[h].classes
      /\ w.ids = handler[h].ids /\ w.gone = handler[h].gone
      /\ w.collection = handler[h].collection /\ w.member = handler[h].member
  BY <1>1 DEF HandlerRecords
<1>7. handler[h].ids = {r} /\ handler[h].gone = {} /\ handler[h].collection = Nothing
      /\ handler[h].member = Nobody
  BY <1>1, <1>2 DEF HandlerOK, RowsOK
<1>8. HandlerOK(h)'
  <2>1. status'[r] # "none" /\ r \in seen'[h]
    BY <1>1, <1>2, OwnStep DEF HandlerOK, RowsOK
  <2>2. RowsOK(h)'
    BY <1>2, <1>3, <1>6, <1>7, <2>1 DEF RowsOK
  <2>3. asks[r].type = "KEY_ISSUANCE" \/ asks[r].target \notin Classes \cup Collections
    BY <1>2, NothingAssumption
  <2>4. ApprovalOK(h)' /\ EditOK(h)'
    BY <1>2, <1>3, <1>6, <1>7, <2>3 DEF ApprovalOK, EditOK, For
  <2> QED
    BY <2>2, <2>4 DEF HandlerOK
<1> HIDE DEF w
<1> QED
  BY <1>1, <1>2, <1>3, <1>5, <1>8, QuietStep

\* A handler that stops says nothing.
LEMMA IdleStep ==
  ASSUME NEW h \in Handlers, handler'[h] = Idle
  PROVE  HandlerOK(h)'
<1>1. handler'[h].at = "idle" /\ handler'[h].ids = {} /\ handler'[h].member = Nobody
      /\ handler'[h].collection = Nothing
  BY DEF Idle
<1>2. RowsOK(h)' /\ ApprovalOK(h)' /\ EditOK(h)'
  BY <1>1 DEF RowsOK, ApprovalOK, EditOK
<1> QED
  BY <1>2 DEF HandlerOK

LEMMA RotateKeyStep ==
  ASSUME AccessIInv, NEW h \in Handlers, RotateKey(h), Noting({h}, FALSE)
  PROVE  AccessIInv'
<1>1. /\ handler \in [Handlers -> HandlerRecords] /\ handler[h] \in HandlerRecords
      /\ issued \in SUBSET Requests /\ lost \in SUBSET Requests
      /\ AccessTypeOK /\ HandlerOK(h)
  BY DEF AccessIInv, AccessTypeOK
<1>2. UNCHANGED <<classOf, links, asks, status, lost>>
      /\ handler' = [handler EXCEPT ![h] = Idle] /\ issued' = issued \cup handler[h].ids
  BY DEF RotateKey
<1>3. handler'[h] = Idle /\ handler[h].ids \in SUBSET Requests
  BY <1>1, <1>2 DEF HandlerRecords
<1>4. HandlerOK(h)'
  BY <1>3, IdleStep
<1> QED
  BY <1>1, <1>2, <1>3, <1>4, IdleIsARecord, QuietStep

LEMMA DiesStep ==
  ASSUME AccessIInv, NEW h \in Handlers, Dies(h), Noting({h}, FALSE)
  PROVE  AccessIInv'
<1>1. /\ handler \in [Handlers -> HandlerRecords] /\ handler[h] \in HandlerRecords
      /\ issued \in SUBSET Requests /\ lost \in SUBSET Requests
      /\ AccessTypeOK /\ HandlerOK(h)
  BY DEF AccessIInv, AccessTypeOK
<1>2. UNCHANGED <<classOf, links, asks, status, issued>>
      /\ handler' = [handler EXCEPT ![h] = Idle]
      /\ lost' = IF handler[h].at = "rotate" THEN lost \cup handler[h].ids ELSE lost
  BY DEF Dies
<1>3. handler'[h] = Idle /\ handler[h].ids \in SUBSET Requests
  BY <1>1, <1>2 DEF HandlerRecords
<1>4. HandlerOK(h)'
  BY <1>3, IdleStep
<1> QED
  BY <1>1, <1>2, <1>3, <1>4, IdleIsARecord, QuietStep

LEMMA UpdateClientStep ==
  ASSUME AccessIInv, NEW h \in Handlers, NEW m \in Members, NEW k \in Classes,
         UpdateClient(h, m, k), Noting({h}, FALSE)
  PROVE  AccessIInv'
<1> DEFINE w == [Idle EXCEPT !.at = "links", !.member = m, !.classes = {k}]
<1>1. /\ handler \in [Handlers -> HandlerRecords] /\ handler[h] \in HandlerRecords
      /\ issued \in SUBSET Requests /\ lost \in SUBSET Requests
      /\ AccessTypeOK /\ HandlerOK(h)
  BY DEF AccessIInv, AccessTypeOK
<1>2. UNCHANGED <<classOf, links, asks, status, issued, lost>>
      /\ handler' = [handler EXCEPT ![h] = w] /\ handler'[h] = w /\ handler[h].at = "idle"
  BY <1>1 DEF UpdateClient, Begin
<1>3. w \in HandlerRecords
  BY DEF Idle, HandlerRecords
<1>4. w.at = "links" /\ w.member = m /\ w.classes = {k} /\ w.collection = Nothing /\ w.ids = {}
  BY DEF Idle
<1>5. HandlerOK(h)'
  <2>1. RowsOK(h)'
    BY <1>2, <1>4, NothingAssumption DEF RowsOK
  <2>2. ApprovalOK(h)' /\ EditOK(h)'
    BY <1>2, <1>4 DEF ApprovalOK, EditOK
  <2> QED
    BY <2>1, <2>2 DEF HandlerOK
<1> HIDE DEF w
<1> QED
  BY <1>1, <1>2, <1>3, <1>5, QuietStep

LEMMA UpdateCollectionStep ==
  ASSUME AccessIInv, NEW h \in Handlers, NEW c \in Collections, NEW K \in SUBSET Classes,
         UpdateCollection(h, c, K), Noting({h}, FALSE)
  PROVE  AccessIInv'
<1> DEFINE w == [Idle EXCEPT !.at = "relink", !.collection = c, !.classes = K,
                             !.gone = links[c]]
<1>1. /\ handler \in [Handlers -> HandlerRecords] /\ handler[h] \in HandlerRecords
      /\ issued \in SUBSET Requests /\ lost \in SUBSET Requests
      /\ AccessTypeOK /\ HandlerOK(h)
  BY DEF AccessIInv, AccessTypeOK
<1>2. UNCHANGED <<classOf, links, asks, status, issued, lost>>
      /\ handler' = [handler EXCEPT ![h] = w] /\ handler'[h] = w /\ handler[h].at = "idle"
  BY <1>1 DEF UpdateCollection, Begin
<1>3. w \in HandlerRecords
  BY <1>1 DEF Idle, HandlerRecords, AccessTypeOK
<1>4. w.at = "relink" /\ w.member = Nobody /\ w.collection = c /\ w.ids = {}
  BY DEF Idle
<1>5. HandlerOK(h)'
  <2>1. RowsOK(h)'
    BY <1>2, <1>4, NothingAssumption DEF RowsOK
  <2>2. ApprovalOK(h)' /\ EditOK(h)'
    BY <1>2, <1>4 DEF ApprovalOK, EditOK
  <2> QED
    BY <2>1, <2>2 DEF HandlerOK
<1> HIDE DEF w
<1> QED
  BY <1>1, <1>2, <1>3, <1>5, QuietStep

LEMMA ReadLinksStep ==
  ASSUME AccessIInv, NEW h \in Handlers, ReadLinks(h), Noting({h}, FALSE)
  PROVE  AccessIInv'
<1> DEFINE w == [handler[h] EXCEPT !.at = "sync", !.visible = VisibleTo(h)]
<1>1. /\ handler \in [Handlers -> HandlerRecords] /\ handler[h] \in HandlerRecords
      /\ issued \in SUBSET Requests /\ lost \in SUBSET Requests
      /\ AccessTypeOK /\ HandlerOK(h)
  BY DEF AccessIInv, AccessTypeOK
<1>2. UNCHANGED <<classOf, links, asks, status, issued, lost>>
      /\ handler' = [handler EXCEPT ![h] = w] /\ handler'[h] = w /\ handler[h].at = "links"
  BY <1>1 DEF ReadLinks, VisibleTo
<1>3. w \in HandlerRecords
  BY <1>1 DEF HandlerRecords, VisibleTo
<1>4. /\ w.at = "sync" /\ w.visible = VisibleTo(h) /\ w.member = handler[h].member
      /\ w.collection = handler[h].collection /\ w.classes = handler[h].classes
      /\ w.ids = handler[h].ids
  BY <1>1 DEF HandlerRecords
<1>5. HandlerOK(h)'
  <2>1. \A r \in w.ids : status'[r] # "none" /\ r \in seen'[h]
    BY <1>1, <1>2, <1>4, OwnStep DEF HandlerOK, RowsOK, HandlerRecords
  <2>2. RowsOK(h)'
    BY <1>1, <1>2, <1>4, <2>1 DEF HandlerOK, RowsOK
  <2>3. VisibleTo(h)' = VisibleTo(h)
    BY <1>2, <1>4 DEF VisibleTo
  <2>4. ApprovalOK(h)'
    BY <1>2, <1>4 DEF ApprovalOK
  <2>5. EditOK(h)'
    BY <1>2, <1>4, <2>3 DEF EditOK
  <2> QED
    BY <2>2, <2>4, <2>5 DEF HandlerOK
<1> HIDE DEF w
<1> QED
  BY <1>1, <1>2, <1>3, <1>5, QuietStep

LEMMA FindOfMemberStep ==
  ASSUME AccessIInv, NEW h \in Handlers, FindOfMember(h), Noting({h}, FALSE)
  PROVE  AccessIInv'
<1> DEFINE w == [handler[h] EXCEPT !.at = "close", !.ids = OfMember(h)]
<1>1. /\ handler \in [Handlers -> HandlerRecords] /\ handler[h] \in HandlerRecords
      /\ issued \in SUBSET Requests /\ lost \in SUBSET Requests
      /\ AccessTypeOK /\ HandlerOK(h)
  BY DEF AccessIInv, AccessTypeOK
<1>2. UNCHANGED <<classOf, links, asks, status, issued, lost>>
      /\ handler' = [handler EXCEPT ![h] = w] /\ handler'[h] = w /\ handler[h].at = "sync"
  BY <1>1 DEF FindOfMember, OfMember
<1>3. w \in HandlerRecords
  BY <1>1 DEF HandlerRecords, OfMember
<1>4. /\ w.at = "close" /\ w.ids = OfMember(h) /\ w.member = handler[h].member
      /\ w.collection = handler[h].collection /\ w.classes = handler[h].classes
      /\ w.visible = handler[h].visible
  BY <1>1 DEF HandlerRecords
<1>5. HandlerOK(h)'
  <2>1. \A r \in w.ids : status'[r] # "none" /\ r \in seen'[h]
    BY <1>2, <1>4 DEF OfMember, IsOpen, Noting
  <2>2. RowsOK(h)'
    BY <1>1, <1>2, <1>4, <2>1 DEF HandlerOK, RowsOK
  <2>3. VisibleTo(h)' = VisibleTo(h) /\ OfMember(h)' = OfMember(h)
    BY <1>2, <1>4 DEF VisibleTo, OfMember, IsOpen, For
  <2>4. ApprovalOK(h)'
    BY <1>2, <1>4 DEF ApprovalOK
  <2>5. h \in stale => h \in stale'
    BY <1>1, <1>2, <1>4, OwnStep DEF InTransaction
  <2>6. w.member # Nobody
    BY <1>1, <1>2, <1>4 DEF HandlerOK, RowsOK
  <2>7. h \in stale' \/ w.visible = VisibleTo(h)'
    BY <1>1, <1>2, <1>4, <2>3, <2>5 DEF HandlerOK, EditOK
  <2>8. \A r \in w.ids : For(r, "ACCESS_REQUEST")' /\ asks'[r].client = w.member
                         /\ asks'[r].target \in w.visible
    BY <1>2, <1>4 DEF OfMember, For
  <2>9. EditOK(h)'
    BY <1>2, <1>4, <2>3, <2>6, <2>7, <2>8 DEF EditOK
  <2> QED
    BY <2>2, <2>4, <2>9 DEF HandlerOK
<1> HIDE DEF w
<1> QED
  BY <1>1, <1>2, <1>3, <1>5, QuietStep

LEMMA RelinkStep ==
  ASSUME AccessIInv, NEW h \in Handlers, Relink(h), Noting({h}, FALSE)
  PROVE  AccessIInv'
<1> DEFINE w == [handler[h] EXCEPT !.at = "find"]
<1>1. /\ handler \in [Handlers -> HandlerRecords] /\ handler[h] \in HandlerRecords
      /\ issued \in SUBSET Requests /\ lost \in SUBSET Requests
      /\ AccessTypeOK /\ HandlerOK(h)
  BY DEF AccessIInv, AccessTypeOK
<1>2. UNCHANGED <<classOf, links, asks, status, issued, lost>>
      /\ handler' = [handler EXCEPT ![h] = w] /\ handler'[h] = w /\ handler[h].at = "relink"
  BY <1>1 DEF Relink
<1>3. w \in HandlerRecords
  BY <1>1 DEF HandlerRecords
<1>4. /\ w.at = "find" /\ w.ids = handler[h].ids /\ w.member = handler[h].member
      /\ w.collection = handler[h].collection /\ w.classes = handler[h].classes
  BY <1>1 DEF HandlerRecords
<1>5. HandlerOK(h)'
  <2>1. \A r \in w.ids : status'[r] # "none" /\ r \in seen'[h]
    BY <1>1, <1>2, <1>4, OwnStep DEF HandlerOK, RowsOK, HandlerRecords
  <2>2. RowsOK(h)'
    BY <1>1, <1>2, <1>4, <2>1 DEF HandlerOK, RowsOK
  <2>3. ApprovalOK(h)' /\ EditOK(h)'
    BY <1>2, <1>4 DEF ApprovalOK, EditOK
  <2> QED
    BY <2>2, <2>3 DEF HandlerOK
<1> HIDE DEF w
<1> QED
  BY <1>1, <1>2, <1>3, <1>5, QuietStep

LEMMA FindOfCollectionStep ==
  ASSUME AccessIInv, NEW h \in Handlers, FindOfCollection(h), Noting({h}, FALSE)
  PROVE  AccessIInv'
<1> DEFINE w == [handler[h] EXCEPT !.at = "close", !.ids = OfCollection(h)]
<1>1. /\ handler \in [Handlers -> HandlerRecords] /\ handler[h] \in HandlerRecords
      /\ issued \in SUBSET Requests /\ lost \in SUBSET Requests
      /\ AccessTypeOK /\ HandlerOK(h)
  BY DEF AccessIInv, AccessTypeOK
<1>2. UNCHANGED <<classOf, links, asks, status, issued, lost>>
      /\ handler' = [handler EXCEPT ![h] = w] /\ handler'[h] = w /\ handler[h].at = "find"
  BY <1>1 DEF FindOfCollection, OfCollection
<1>3. w \in HandlerRecords
  BY <1>1 DEF HandlerRecords, OfCollection
<1>4. /\ w.at = "close" /\ w.ids = OfCollection(h) /\ w.member = handler[h].member
      /\ w.collection = handler[h].collection /\ w.classes = handler[h].classes
  BY <1>1 DEF HandlerRecords
<1>5. w.collection # Nothing /\ w.member = Nobody
  BY <1>1, <1>2, <1>4 DEF HandlerOK, RowsOK
<1>6. HandlerOK(h)'
  <2>1. \A r \in w.ids : status'[r] # "none" /\ r \in seen'[h]
    BY <1>2, <1>4 DEF OfCollection, IsOpen, Noting
  <2>2. RowsOK(h)'
    BY <1>2, <1>4, <1>5, <2>1 DEF RowsOK
  <2>3. OfCollection(h)' = OfCollection(h)
    BY <1>2, <1>4 DEF OfCollection, IsOpen, For
  <2>4. ApprovalOK(h)'
    BY <1>2, <1>4 DEF ApprovalOK
  <2>5. \A r \in w.ids : For(r, "ACCESS_REQUEST")' /\ asks'[r].target = w.collection
    BY <1>2, <1>4 DEF OfCollection, For
  <2>6. EditOK(h)'
    BY <1>2, <1>4, <1>5, <2>3, <2>5 DEF EditOK
  <2> QED
    BY <2>2, <2>4, <2>6 DEF HandlerOK
<1> HIDE DEF w
<1> QED
  BY <1>1, <1>2, <1>3, <1>6, QuietStep

-----------------------------------------------------------------------------
(* Steps that write rows. *)

LEMMA CreateStep ==
  ASSUME AccessIInv, NEW r \in Requests, NEW a \in Asks, Create(r, a), Noting({}, TRUE)
  PROVE  AccessIInv'
<1>1. AccessTypeOK
  BY DEF AccessIInv
<1>2. /\ status[r] = "none" /\ asks' = [asks EXCEPT ![r] = a]
      /\ status' = [status EXCEPT ![r] = "PENDING"]
      /\ UNCHANGED <<classOf, links, handler, issued, lost>>
  BY DEF Create
<1>3. AccessTypeOK'
  BY <1>1, <1>2 DEF AccessTypeOK, Noting
<1>4. status'[r] = "PENDING" /\ \A q \in Requests \ {r} : asks'[q] = asks[q] /\ status'[q] = status[q]
  BY <1>1, <1>2 DEF AccessTypeOK
<1>5. ASSUME NEW k \in Handlers PROVE HandlerOK(k)'
  <2>1. HandlerOK(k) /\ k \notin {}
    BY DEF AccessIInv
  <2>2. status' # status
    BY <1>2, <1>4
  <2>3. \A q \in Requests : status[q] # "none" => status'[q] # "none" /\ asks'[q] = asks[q]
    BY <1>2, <1>4
  <2>4. handler'[k] = handler[k]
    BY <1>2
  <2>5. handler'[k].gone \subseteq handler[k].gone
    BY <2>4
  <2>6. status' = status => asks' = asks
    BY <2>2
  <2>7. ASSUME NEW acting, NEW excuses, Noting(acting, excuses), k \notin acting
        PROVE  HandlerOK(k)'
    BY <1>1, <2>1, <2>3, <2>4, <2>5, <2>6, <2>7, Bystander
  <2> QED
    BY <2>1, <2>7
<1>6. SatisfiedAreClosed'
  BY DEF SatisfiedAreClosed, Noting
<1>7. CompletedKeysAreIssued'
  <2> SUFFICES ASSUME NEW q \in Requests, status'[q] = "COMPLETED", For(q, "KEY_ISSUANCE")'
               PROVE  \/ q \in issued' \cup lost'
                      \/ \E k \in Handlers : handler'[k].at = "rotate" /\ q \in handler'[k].ids
    BY DEF CompletedKeysAreIssued
  <2>1. status[q] = "COMPLETED" /\ asks'[q] = asks[q]
    BY <1>4
  <2>2. For(q, "KEY_ISSUANCE")
    BY <2>1 DEF For
  <2> QED
    BY <1>2, <2>1, <2>2 DEF AccessIInv, CompletedKeysAreIssued
<1> QED
  BY <1>3, <1>5, <1>6, <1>7 DEF AccessIInv

\* A commit that leaves no request satisfied and open without an excuse, and
\* completes no request for a key without going on to issue it.
LEMMA CommitStep ==
  ASSUME AccessIInv, NEW h \in Handlers, NEW excuses, Noting({h}, excuses),
         NEW s \in {"COMPLETED", "REJECTED"}, NEW next \in HandlerRecords,
         handler[h].at \in {"complete", "reject", "close"},
         CommitWrites(h, s, next), UNCHANGED <<asks, issued, lost>>,
         HandlerOK(h)',
         excuses \/ \A r \in Requests : Satisfied(r)' => Satisfied(r),
         s = "COMPLETED" => \A r \in handler[h].ids :
           For(r, "KEY_ISSUANCE") => next.at = "rotate" /\ r \in next.ids
  PROVE  AccessIInv'
<1> DEFINE w == handler[h]
<1>1. /\ handler \in [Handlers -> HandlerRecords] /\ handler[h] \in HandlerRecords
      /\ issued \in SUBSET Requests /\ lost \in SUBSET Requests
      /\ AccessTypeOK /\ HandlerOK(h)
  BY DEF AccessIInv, AccessTypeOK
<1>2. /\ w.at # "rotate" /\ w.ids \in SUBSET Requests
      /\ w.classes \in SUBSET Classes /\ w.gone \in SUBSET Classes
  BY <1>1 DEF HandlerRecords
<1>3. \A k \in Handlers \ {h} :
        /\ handler'[k] \in HandlerRecords
        /\ handler'[k].at = handler[k].at /\ handler'[k].member = handler[k].member
        /\ handler'[k].collection = handler[k].collection
        /\ handler'[k].classes = handler[k].classes /\ handler'[k].visible = handler[k].visible
        /\ handler'[k].ids = handler[k].ids /\ handler'[k].gone \subseteq handler[k].gone
  <2> SUFFICES ASSUME NEW k \in Handlers \ {h}
               PROVE  /\ handler'[k] \in HandlerRecords
                      /\ handler'[k].at = handler[k].at /\ handler'[k].member = handler[k].member
                      /\ handler'[k].collection = handler[k].collection
                      /\ handler'[k].classes = handler[k].classes
                      /\ handler'[k].visible = handler[k].visible
                      /\ handler'[k].ids = handler[k].ids
                      /\ handler'[k].gone \subseteq handler[k].gone
    OBVIOUS
  <2>1. handler[k] \in HandlerRecords
    BY <1>1
  <2>2. handler'[k] = handler[k] \/ handler'[k] = [handler[k] EXCEPT !.gone = @ \ w.gone]
    BY DEF CommitWrites
  <2> QED
    BY <2>1, <2>2 DEF HandlerRecords
<1>4. handler' \in [Handlers -> HandlerRecords] /\ handler'[h] = next
  BY <1>3 DEF CommitWrites
<1>5. classOf' \in [Members -> Classes]
  <2> SUFFICES ASSUME NEW m \in Members PROVE classOf'[m] \in Classes
    BY DEF CommitWrites
  <2>1. CASE m = w.member
    <3>1. w.member # Nobody
      BY <2>1, NothingAssumption
    <3>2. PICK k \in Classes : w.classes = {k}
      BY <1>1, <3>1 DEF HandlerOK, RowsOK
    <3>3. (CHOOSE j \in w.classes : TRUE) = k
      BY <3>2
    <3> QED
      BY <2>1, <3>3 DEF CommitWrites
  <2>2. CASE m # w.member
    BY <1>1, <2>2 DEF CommitWrites, AccessTypeOK
  <2> QED
    BY <2>1, <2>2
<1>6. links' \in [Collections -> SUBSET Classes]
  BY <1>1, <1>2 DEF CommitWrites, AccessTypeOK
<1>7. /\ status' \in [Requests -> {"none", "PENDING", "COMPLETED", "REJECTED"}]
      /\ \A r \in Requests : status'[r] = IF r \in w.ids THEN s ELSE status[r]
  BY <1>1 DEF CommitWrites, AccessTypeOK
<1>8. \A r \in w.ids : status[r] # "none"
  BY <1>1 DEF HandlerOK, RowsOK
<1>9. AccessTypeOK'
  <2>1. \A r \in Requests : status'[r] # "none" => asks'[r] \in Asks
    BY <1>1, <1>7, <1>8 DEF AccessTypeOK
  <2>2. stale' \in SUBSET Handlers /\ seen' \in [Handlers -> SUBSET Requests]
        /\ excused' \in SUBSET Requests
    BY DEF Noting
  <2> QED
    BY <1>1, <1>4, <1>5, <1>6, <1>7, <2>1, <2>2 DEF AccessTypeOK
<1>10. ASSUME NEW k \in Handlers PROVE HandlerOK(k)'
  <2>1. CASE k = h
    BY <2>1
  <2>2. CASE k # h
    <3>1. HandlerOK(k) /\ k \in Handlers \ {h} /\ k \notin {h}
      BY <2>2 DEF AccessIInv
    <3>2. \A q \in Requests : status[q] # "none" => status'[q] # "none" /\ asks'[q] = asks[q]
      BY <1>7
    <3> QED
      BY <1>1, <1>3, <3>1, <3>2, Bystander
  <2> QED
    BY <2>1, <2>2
<1>11. SatisfiedAreClosed'
  BY DEF AccessIInv, SatisfiedAreClosed, Noting
<1>12. CompletedKeysAreIssued'
  <2> SUFFICES ASSUME NEW r \in Requests, status'[r] = "COMPLETED", For(r, "KEY_ISSUANCE")'
               PROVE  \/ r \in issued' \cup lost'
                      \/ \E k \in Handlers : handler'[k].at = "rotate" /\ r \in handler'[k].ids
    BY DEF CompletedKeysAreIssued
  <2>1. For(r, "KEY_ISSUANCE")
    BY DEF For
  <2>2. CASE r \in w.ids
    BY <1>4, <1>7, <2>1, <2>2
  <2>3. CASE r \notin w.ids
    <3>1. status[r] = "COMPLETED"
      BY <1>7, <2>3
    <3>2. CASE r \in issued \cup lost
      BY <3>2
    <3>3. CASE \E k \in Handlers : handler[k].at = "rotate" /\ r \in handler[k].ids
      <4>1. PICK k \in Handlers : handler[k].at = "rotate" /\ r \in handler[k].ids
        BY <3>3
      <4>2. k \in Handlers \ {h}
        BY <1>2, <4>1
      <4> QED
        BY <1>3, <4>1, <4>2
    <3> QED
      BY <2>1, <3>1, <3>2, <3>3 DEF AccessIInv, CompletedKeysAreIssued
  <2> QED
    BY <2>2, <2>3
<1> QED
  BY <1>9, <1>10, <1>11, <1>12 DEF AccessIInv

LEMMA CompleteStep ==
  ASSUME AccessIInv, NEW h \in Handlers, Complete(h), Noting({h}, TRUE)
  PROVE  AccessIInv'
<1> DEFINE rotate == [Idle EXCEPT !.at = "rotate", !.ids = handler[h].ids]
           next == IF \E r \in handler[h].ids : For(r, "KEY_ISSUANCE") THEN rotate ELSE Idle
<1>1. /\ handler \in [Handlers -> HandlerRecords] /\ handler[h] \in HandlerRecords
      /\ issued \in SUBSET Requests /\ lost \in SUBSET Requests
      /\ AccessTypeOK /\ HandlerOK(h)
  BY DEF AccessIInv, AccessTypeOK
<1>2. handler[h].at = "complete" /\ CommitWrites(h, "COMPLETED", next)
      /\ UNCHANGED <<asks, issued, lost>>
  BY DEF Complete
<1>3. handler[h].ids \in SUBSET Requests
  BY <1>1 DEF HandlerRecords
<1>4. rotate \in HandlerRecords
  BY <1>3 DEF Idle, HandlerRecords
<1>5. rotate.at = "rotate" /\ rotate.ids = handler[h].ids /\ rotate.member = Nobody
      /\ rotate.collection = Nothing
  BY DEF Idle
<1>6. handler'[h] = next
  BY <1>2 DEF CommitWrites
<1>7. HandlerOK(h)'
  <2>1. CASE next = Idle
    BY <1>6, <2>1, IdleStep
  <2>2. CASE next = rotate
    <3>1. \A r \in handler[h].ids : status[r] # "none" /\ r \in seen'[h]
      BY <1>1, <1>2, <1>3, OwnStep DEF HandlerOK, RowsOK
    <3>2. \A r \in handler[h].ids : status'[r] # "none"
      BY <1>2, <1>3 DEF CommitWrites
    <3>3. RowsOK(h)'
      BY <1>5, <1>6, <2>2, <3>1, <3>2 DEF RowsOK
    <3>4. ApprovalOK(h)' /\ EditOK(h)'
      BY <1>5, <1>6, <2>2 DEF ApprovalOK, EditOK
    <3> QED
      BY <3>3, <3>4 DEF HandlerOK
  <2> QED
    BY <2>1, <2>2
<1>8. next \in HandlerRecords
  BY <1>4, IdleIsARecord
<1>9. \A r \in handler[h].ids : For(r, "KEY_ISSUANCE") => next.at = "rotate" /\ r \in next.ids
  BY <1>5
<1> HIDE DEF next, rotate
<1> QED
  BY <1>2, <1>7, <1>8, <1>9, CommitStep

LEMMA RejectUpdateStep ==
  ASSUME AccessIInv, NEW h \in Handlers, RejectUpdate(h), Noting({h}, FALSE)
  PROVE  AccessIInv'
<1>1. /\ handler \in [Handlers -> HandlerRecords] /\ handler[h] \in HandlerRecords
      /\ issued \in SUBSET Requests /\ lost \in SUBSET Requests
      /\ AccessTypeOK /\ HandlerOK(h)
  BY DEF AccessIInv, AccessTypeOK
<1>2. handler[h].at = "reject" /\ CommitWrites(h, "REJECTED", Idle)
      /\ UNCHANGED <<asks, issued, lost>>
  BY DEF RejectUpdate
<1>3. handler[h].member = Nobody /\ handler[h].collection = Nothing
  BY <1>1, <1>2 DEF HandlerOK, RowsOK
<1>4. handler'[h] = Idle
  BY <1>2 DEF CommitWrites
<1>5. HandlerOK(h)'
  BY <1>4, IdleStep
<1>6. ASSUME NEW r \in Requests, Satisfied(r)' PROVE Satisfied(r)
  <2>1. IsOpen(r) /\ For(r, "ACCESS_REQUEST") /\ asks[r].target \in Collections
    BY <1>2, <1>6 DEF Satisfied, IsOpen, For, CommitWrites
  <2>2. asks[r].client \in Members
    BY <1>1, <2>1 DEF AccessTypeOK, Asks, IsOpen
  <2>3. classOf'[asks[r].client] = classOf[asks[r].client]
        /\ links'[asks[r].target] = links[asks[r].target]
    BY <1>2, <1>3, <2>1, <2>2, NothingAssumption DEF CommitWrites
  <2> QED
    BY <1>2, <1>6, <2>1, <2>3 DEF Satisfied
<1> QED
  BY <1>2, <1>5, <1>6, IdleIsARecord, CommitStep

\* An edit that was not disturbed found every request that it satisfies.
LEMMA FoundAll ==
  ASSUME AccessIInv, NEW h \in Handlers, CloseFound(h), h \notin stale,
         NEW r \in Requests, Satisfied(r)'
  PROVE  Satisfied(r)
<1> DEFINE w == handler[h]
           m == asks[r].client
           c == asks[r].target
<1>1. /\ handler \in [Handlers -> HandlerRecords] /\ handler[h] \in HandlerRecords
      /\ issued \in SUBSET Requests /\ lost \in SUBSET Requests
      /\ AccessTypeOK /\ HandlerOK(h)
  BY DEF AccessIInv, AccessTypeOK
<1>2. w.at = "close" /\ CommitWrites(h, "COMPLETED", Idle) /\ asks' = asks
  BY DEF CloseFound
<1>3. r \notin w.ids /\ IsOpen(r) /\ For(r, "ACCESS_REQUEST") /\ c \in Collections
      /\ classOf'[m] \in links'[c]
  BY <1>2 DEF Satisfied, IsOpen, For, CommitWrites
<1>4. m \in Members
  BY <1>1, <1>3 DEF AccessTypeOK, Asks, IsOpen
<1>5. CASE w.member # Nobody
  <2>1. PICK k \in Classes : w.classes = {k}
    BY <1>1, <1>5 DEF HandlerOK, RowsOK
  <2>2. w.collection = Nothing
    BY <1>1, <1>5 DEF HandlerOK, RowsOK
  <2>3. links'[c] = links[c]
    BY <1>2, <1>3, <2>2, NothingAssumption DEF CommitWrites
  <2>4. CASE m = w.member
    <3>1. classOf'[m] = k
      BY <1>2, <1>4, <2>1, <2>4 DEF CommitWrites
    <3>2. c \in VisibleTo(h)
      BY <1>3, <2>1, <2>3, <3>1 DEF VisibleTo
    <3>3. w.visible = VisibleTo(h) /\ w.ids = OfMember(h)
      BY <1>1, <1>2, <1>5 DEF HandlerOK, EditOK
    <3>4. r \in OfMember(h)
      BY <1>3, <2>4, <3>2, <3>3 DEF OfMember
    <3> QED
      BY <1>3, <3>3, <3>4
  <2>5. CASE m # w.member
    <3>1. classOf'[m] = classOf[m]
      BY <1>2, <1>4, <2>5 DEF CommitWrites
    <3> QED
      BY <1>3, <2>3, <3>1 DEF Satisfied
  <2> QED
    BY <2>4, <2>5
<1>6. CASE w.member = Nobody
  <2>1. classOf'[m] = classOf[m]
    BY <1>2, <1>4, <1>6, NothingAssumption DEF CommitWrites
  <2>2. links'[c] = links[c] \/ (c = w.collection /\ links'[c] = (links[c] \ w.gone) \cup w.classes)
    BY <1>2, <1>3 DEF CommitWrites
  <2>3. CASE classOf[m] \in links[c]
    BY <1>3, <2>3 DEF Satisfied
  <2>4. CASE c = w.collection /\ classOf[m] \in w.classes
    <3>1. w.ids = OfCollection(h)
      BY <1>1, <1>2, <1>6 DEF HandlerOK, EditOK
    <3>2. r \in OfCollection(h)
      BY <1>3, <2>4 DEF OfCollection
    <3> QED
      BY <1>3, <3>1, <3>2
  <2> QED
    BY <1>3, <2>1, <2>2, <2>3, <2>4
<1> QED
  BY <1>5, <1>6

LEMMA CloseFoundStep ==
  ASSUME AccessIInv, NEW h \in Handlers, CloseFound(h), Noting({h}, h \in stale)
  PROVE  AccessIInv'
<1>1. /\ handler \in [Handlers -> HandlerRecords] /\ handler[h] \in HandlerRecords
      /\ issued \in SUBSET Requests /\ lost \in SUBSET Requests
      /\ AccessTypeOK /\ HandlerOK(h)
  BY DEF AccessIInv, AccessTypeOK
<1>2. handler[h].at = "close" /\ CommitWrites(h, "COMPLETED", Idle)
      /\ UNCHANGED <<asks, issued, lost>>
  BY DEF CloseFound
<1>3. handler'[h] = Idle
  BY <1>2 DEF CommitWrites
<1>4. HandlerOK(h)'
  BY <1>3, IdleStep
<1>5. h \in stale \/ \A r \in Requests : Satisfied(r)' => Satisfied(r)
  BY FoundAll
<1>6. \A r \in handler[h].ids : ~For(r, "KEY_ISSUANCE")
  BY <1>1, <1>2 DEF HandlerOK, EditOK, For
<1> QED
  BY <1>2, <1>4, <1>5, <1>6, IdleIsARecord, CommitStep

-----------------------------------------------------------------------------
(* The theorems. *)

LEMMA AccessStep == AccessIInv /\ [AccessNext]_accessVars => AccessIInv'
<1> SUFFICES ASSUME AccessIInv, [AccessNext]_accessVars PROVE AccessIInv'
  OBVIOUS
<1>1. ASSUME NEW h \in Handlers, ReviewStep(h), Noting({h}, FALSE) PROVE AccessIInv'
  <2>1. ASSUME NEW r \in Requests,
               \/ Approve(h, r) \/ Upgrade(h, r) \/ ReadClass(h, r)
               \/ Grant(h, r) \/ WriteNothing(h, r) \/ Reject(h, r)
        PROVE  AccessIInv'
    BY <1>1, <2>1, ApproveStep, UpgradeStep, ReadClassStep, GrantStep, WriteNothingStep
  <2>2. CASE RotateKey(h)
    BY <1>1, <2>2, RotateKeyStep
  <2>3. CASE RejectUpdate(h)
    BY <1>1, <2>3, RejectUpdateStep
  <2> QED
    BY <1>1, <2>1, <2>2, <2>3 DEF ReviewStep
<1>2. ASSUME NEW h \in Handlers, EditStep(h), Noting({h}, FALSE) PROVE AccessIInv'
  <2>1. ASSUME NEW m \in Members, NEW k \in Classes, UpdateClient(h, m, k) PROVE AccessIInv'
    BY <1>2, <2>1, UpdateClientStep
  <2>2. ASSUME NEW c \in Collections, NEW K \in SUBSET Classes, UpdateCollection(h, c, K)
        PROVE  AccessIInv'
    BY <1>2, <2>2, UpdateCollectionStep
  <2>3. CASE ReadLinks(h) \/ FindOfMember(h)
    BY <1>2, <2>3, ReadLinksStep, FindOfMemberStep
  <2>4. CASE Relink(h) \/ FindOfCollection(h)
    BY <1>2, <2>4, RelinkStep, FindOfCollectionStep
  <2>5. CASE Dies(h)
    BY <1>2, <2>5, DiesStep
  <2> QED
    BY <1>2, <2>1, <2>2, <2>3, <2>4, <2>5 DEF EditStep
<1>3. CASE UNCHANGED accessVars
  BY <1>3 DEF accessVars, AccessIInv, AccessTypeOK, HandlerOK, RowsOK, ApprovalOK, EditOK,
              VisibleTo, OfMember, OfCollection, SatisfiedAreClosed, Satisfied, IsOpen, For,
              CompletedKeysAreIssued
<1> QED
  BY <1>1, <1>2, <1>3, CompleteStep, CloseFoundStep, CreateStep DEF AccessNext

LEMMA AccessInvariant == AccessSpec => []AccessIInv
BY AccessInitial, AccessStep, PTL DEF AccessSpec

\* The rows and the handlers keep their types.
THEOREM AccessTypeCorrect == AccessSpec => []AccessTypeOK
<1>1. AccessIInv => AccessTypeOK
  BY DEF AccessIInv
<1> QED
  BY <1>1, AccessInvariant, PTL

\* An edit of a member or of a collection closes the requests for access that it
\* satisfies, whatever else is under way, unless another transaction commits beside
\* it (access-request-sync within updateClient and updateCollection).
THEOREM SatisfiedRequestsAreClosed == AccessSpec => []SatisfiedAreClosed
<1>1. AccessIInv => SatisfiedAreClosed
  BY DEF AccessIInv
<1> QED
  BY <1>1, AccessInvariant, PTL

\* A request for a key is completed by an approval only, which issues the key or
\* dies before it does.
THEOREM CompletedKeysHaveKeys == AccessSpec => []CompletedKeysAreIssued
<1>1. AccessIInv => CompletedKeysAreIssued
  BY DEF AccessIInv
<1> QED
  BY <1>1, AccessInvariant, PTL

-----------------------------------------------------------------------------
(* What a step may never do. *)

\* Only the handler that acts moves.
LEMMA Mover ==
  ASSUME AccessIInv, AccessNext, NEW h \in Handlers, handler'[h].at # handler[h].at
  PROVE  \/ ReviewStep(h) \/ EditStep(h)
         \/ Complete(h) \/ CloseFound(h)
<1>1. \A k \in Handlers : handler[k] \in HandlerRecords
  BY DEF AccessIInv, AccessTypeOK
<1>2. ASSUME NEW k \in Handlers, k # h,
             ReviewStep(k) \/ EditStep(k) \/ Complete(k) \/ CloseFound(k)
      PROVE  handler'[h].at = handler[h].at
  <2>1. CASE ReviewStep(k)
    <3>1. \/ \E w : handler' = [handler EXCEPT ![k] = w]
          \/ RejectUpdate(k)
      BY <2>1 DEF ReviewStep, Approve, Upgrade, ReadClass, Grant, WriteNothing, Reject,
                  RotateKey, Begin
    <3>2. CASE RejectUpdate(k)
      BY <1>1, <1>2, <3>2 DEF RejectUpdate, CommitWrites, HandlerRecords
    <3> QED
      BY <1>2, <3>1, <3>2 DEF AccessIInv, AccessTypeOK
  <2>2. CASE EditStep(k)
    <3>1. \E w : handler' = [handler EXCEPT ![k] = w]
      BY <2>2 DEF EditStep, UpdateClient, UpdateCollection, ReadLinks, FindOfMember, Relink,
                  FindOfCollection, Dies, Begin
    <3> QED
      BY <1>2, <3>1 DEF AccessIInv, AccessTypeOK
  <2>3. CASE Complete(k) \/ CloseFound(k)
    BY <1>1, <1>2, <2>3 DEF Complete, CloseFound, CommitWrites, HandlerRecords
  <2> QED
    BY <1>2, <2>1, <2>2, <2>3
<1>3. ASSUME NEW r \in Requests, NEW a \in Asks, Create(r, a) PROVE FALSE
  BY <1>3 DEF Create
<1> QED
  BY <1>2, <1>3 DEF AccessNext

\* Only a commit gives a request that was made another status.
LEMMA StatusWriter ==
  ASSUME AccessIInv, AccessNext, NEW r \in Requests,
         status[r] # "none", status'[r] # status[r]
  PROVE  \E h \in Handlers :
           /\ Complete(h) \/ RejectUpdate(h) \/ CloseFound(h)
           /\ r \in handler[h].ids
<1>1. ASSUME NEW h \in Handlers, ReviewStep(h) \/ EditStep(h), ~RejectUpdate(h)
      PROVE  status' = status
  BY <1>1 DEF ReviewStep, EditStep, Approve, Upgrade, ReadClass, Grant, WriteNothing, Reject,
              RotateKey, UpdateClient, UpdateCollection, ReadLinks, FindOfMember, Relink,
              FindOfCollection, Dies
<1>2. ASSUME NEW q \in Requests, NEW a \in Asks, Create(q, a) PROVE status'[r] = status[r]
  BY <1>2 DEF Create, AccessIInv, AccessTypeOK
<1>3. ASSUME NEW h \in Handlers, Complete(h) \/ RejectUpdate(h) \/ CloseFound(h)
      PROVE  r \in handler[h].ids
  BY <1>3 DEF Complete, RejectUpdate, CloseFound, CommitWrites
<1> QED
  BY <1>1, <1>2, <1>3 DEF AccessNext

LEMMA DecisionsStep ==
  ASSUME AccessIInv, [AccessNext]_accessVars, NEW r \in Requests,
         status[r] \in {"COMPLETED", "REJECTED"}, status'[r] # status[r]
  PROVE  /\ ~IsOpen(r)'
         /\ \E h \in Handlers :
              /\ handler[h].at # "idle" /\ handler'[h].at \in {"idle", "rotate"}
              /\ r \in seen[h] \cap handler[h].ids
<1>1. AccessNext
  BY DEF accessVars
<1>2. PICK h \in Handlers : /\ Complete(h) \/ RejectUpdate(h) \/ CloseFound(h)
                            /\ r \in handler[h].ids
  BY <1>1, StatusWriter
<1>3. status'[r] \in {"COMPLETED", "REJECTED"}
  BY <1>2 DEF Complete, RejectUpdate, CloseFound, CommitWrites
<1>4. handler[h].at # "idle" /\ handler'[h].at \in {"idle", "rotate"}
  <2>1. Idle.at = "idle" /\ [Idle EXCEPT !.at = "rotate", !.ids = handler[h].ids].at = "rotate"
    BY DEF Idle
  <2> QED
    BY <1>2, <2>1 DEF Complete, RejectUpdate, CloseFound, CommitWrites
<1>5. r \in seen[h]
  BY <1>2 DEF AccessIInv, HandlerOK, RowsOK
<1> QED
  BY <1>2, <1>3, <1>4, <1>5 DEF IsOpen

\* A decision stands against all who come later: what overwrites it had met the
\* request open, before its own update (approve and reject check the status
\* outside their transaction), and nothing opens the request again.
THEOREM ClosedRequestsStayClosed == AccessSpec => DecisionsStand
<1> DEFINE A == \A r \in Requests :
                  status[r] \in {"COMPLETED", "REJECTED"} /\ status'[r] # status[r] =>
                    /\ ~IsOpen(r)'
                    /\ \E h \in Handlers :
                         /\ handler[h].at # "idle" /\ handler'[h].at \in {"idle", "rotate"}
                         /\ r \in seen[h] \cap handler[h].ids
<1>1. AccessIInv /\ [AccessNext]_accessVars => [A]_accessVars
  BY DecisionsStep
<1> QED
  BY <1>1, AccessInvariant, PTL DEF AccessSpec, DecisionsStand

LEMMA GrantedByApproval ==
  ASSUME AccessIInv, NEW h \in Handlers, Complete(h), NEW r \in handler[h].ids
  PROVE  /\ For(r, "ACCESS_REQUEST") /\ asks[r].target \in Collections =>
              h \in stale \/ classOf'[asks[r].client] \in links'[asks[r].target]
         /\ For(r, "MEMBERSHIP_UPGRADE") /\ asks[r].target \in Classes =>
              classOf'[asks[r].client] = asks[r].target
<1> DEFINE w == handler[h]
           m == asks[r].client
           c == asks[r].target
<1>1. AccessTypeOK /\ HandlerOK(h) /\ w \in HandlerRecords /\ w.ids \in SUBSET Requests
  BY DEF AccessIInv, AccessTypeOK, HandlerRecords
<1>2. w.at = "complete" /\ \E next : CommitWrites(h, "COMPLETED", next)
  BY DEF Complete
<1>3. For(r, "ACCESS_REQUEST") \/ For(r, "MEMBERSHIP_UPGRADE") => m \in Members
  BY <1>1 DEF AccessTypeOK, For, Asks
<1>4. ASSUME For(r, "ACCESS_REQUEST"), c \in Collections, h \notin stale
      PROVE  classOf'[m] \in links'[c]
  <2>1. w.collection = c /\ w.gone = {} /\ classOf[m] \in links[c] \cup w.classes
    BY <1>1, <1>2, <1>4 DEF HandlerOK, ApprovalOK, RowsOK
  <2>2. w.member = Nobody
    BY <1>1, <1>4, <2>1, NothingAssumption DEF HandlerOK, RowsOK
  <2>3. classOf'[m] = classOf[m]
    BY <1>2, <1>3, <1>4, <2>2, NothingAssumption DEF CommitWrites
  <2>4. links'[c] = links[c] \cup w.classes
    BY <1>2, <1>4, <2>1 DEF CommitWrites
  <2> QED
    BY <2>1, <2>3, <2>4
<1>5. ASSUME For(r, "MEMBERSHIP_UPGRADE"), c \in Classes
      PROVE  classOf'[m] = c
  <2>1. w.member = m /\ w.classes = {c}
    BY <1>1, <1>2, <1>5 DEF HandlerOK, ApprovalOK
  <2>2. (CHOOSE k \in {c} : TRUE) = c
    OBVIOUS
  <2> QED
    BY <1>2, <1>3, <1>5, <2>1, <2>2 DEF CommitWrites
<1> QED
  BY <1>4, <1>5

LEMMA GrantedByEdit ==
  ASSUME AccessIInv, NEW h \in Handlers, CloseFound(h), NEW r \in handler[h].ids
  PROVE  /\ For(r, "ACCESS_REQUEST")
         /\ asks[r].target \in Collections =>
              h \in stale \/ classOf'[asks[r].client] \in links'[asks[r].target]
<1> DEFINE w == handler[h]
           m == asks[r].client
           c == asks[r].target
<1>1. AccessTypeOK /\ HandlerOK(h) /\ w \in HandlerRecords /\ w.ids \in SUBSET Requests
  BY DEF AccessIInv, AccessTypeOK, HandlerRecords
<1>2. w.at = "close" /\ CommitWrites(h, "COMPLETED", Idle)
  BY DEF CloseFound
<1>3. For(r, "ACCESS_REQUEST")
  BY <1>1, <1>2 DEF HandlerOK, EditOK
<1>4. m \in Members
  BY <1>1, <1>3 DEF AccessTypeOK, For, Asks
<1>5. ASSUME c \in Collections, h \notin stale PROVE classOf'[m] \in links'[c]
  <2>1. CASE w.member # Nobody
    <3>1. PICK k \in Classes : w.classes = {k}
      BY <1>1, <2>1 DEF HandlerOK, RowsOK
    <3>2. w.collection = Nothing
      BY <1>1, <2>1 DEF HandlerOK, RowsOK
    <3>3. m = w.member /\ c \in VisibleTo(h)
      BY <1>1, <1>2, <1>5, <2>1 DEF HandlerOK, EditOK
    <3>4. (CHOOSE j \in w.classes : TRUE) = k
      BY <3>1
    <3>5. classOf'[m] = k
      BY <1>2, <1>4, <3>3, <3>4 DEF CommitWrites
    <3>6. links'[c] = links[c]
      BY <1>2, <1>5, <3>2, NothingAssumption DEF CommitWrites
    <3> QED
      BY <3>1, <3>3, <3>5, <3>6 DEF VisibleTo
  <2>2. CASE w.member = Nobody
    <3>1. c = w.collection /\ classOf[m] \in w.classes
      BY <1>1, <1>2, <1>5, <2>2 DEF HandlerOK, EditOK, OfCollection
    <3>2. classOf'[m] = classOf[m]
      BY <1>2, <1>4, <2>2, NothingAssumption DEF CommitWrites
    <3>3. w.classes \subseteq links'[c]
      BY <1>2, <1>5, <3>1 DEF CommitWrites
    <3> QED
      BY <3>1, <3>2, <3>3
  <2> QED
    BY <2>1, <2>2
<1> QED
  BY <1>3, <1>5

LEMMA GrantedStep ==
  ASSUME AccessIInv, [AccessNext]_accessVars, NEW h \in Handlers, NEW r \in handler[h].ids,
         handler[h].at # handler'[h].at, status'[r] = "COMPLETED", status[r] # "COMPLETED"
  PROVE  /\ For(r, "ACCESS_REQUEST") /\ asks[r].target \in Collections =>
              h \in stale \/ classOf'[asks[r].client] \in links'[asks[r].target]
         /\ For(r, "MEMBERSHIP_UPGRADE") /\ asks[r].target \in Classes =>
              classOf'[asks[r].client] = asks[r].target
<1>1. AccessNext
  BY DEF accessVars
<1>2. ReviewStep(h) \/ EditStep(h) \/ Complete(h) \/ CloseFound(h)
  BY <1>1, Mover
<1>3. CASE ReviewStep(h) \/ EditStep(h)
  <2>1. r \in Requests
    BY DEF AccessIInv, AccessTypeOK, HandlerRecords
  <2>2. status' = status \/ RejectUpdate(h)
    BY <1>3 DEF ReviewStep, EditStep, Approve, Upgrade, ReadClass, Grant, WriteNothing, Reject,
                RotateKey, UpdateClient, UpdateCollection, ReadLinks, FindOfMember, Relink,
                FindOfCollection, Dies
  <2>3. RejectUpdate(h) => status'[r] = "REJECTED"
    BY <2>1 DEF RejectUpdate, CommitWrites
  <2> QED
    BY <2>2, <2>3
<1>4. CASE Complete(h)
  BY <1>4, GrantedByApproval
<1>5. CASE CloseFound(h)
  <2>1. For(r, "ACCESS_REQUEST") /\ ~For(r, "MEMBERSHIP_UPGRADE")
    BY <1>5, GrantedByEdit DEF For
  <2> QED
    BY <1>5, <2>1, GrantedByEdit
<1> QED
  BY <1>2, <1>3, <1>4, <1>5

\* A request is completed with what it asked for: approve wrote the class or the
\* link in the same transaction, and an edit closes what it satisfies.
THEOREM CompletedRequestsAreGranted == AccessSpec => CompletedIsGranted
<1> DEFINE A == \A h \in Handlers : \A r \in handler[h].ids :
                  handler[h].at # handler'[h].at /\ status'[r] = "COMPLETED"
                    /\ status[r] # "COMPLETED" =>
                    /\ For(r, "ACCESS_REQUEST") /\ asks[r].target \in Collections =>
                         h \in stale \/ classOf'[asks[r].client] \in links'[asks[r].target]
                    /\ For(r, "MEMBERSHIP_UPGRADE") /\ asks[r].target \in Classes =>
                         classOf'[asks[r].client] = asks[r].target
<1>1. AccessIInv /\ [AccessNext]_accessVars => [A]_accessVars
  BY GrantedStep
<1> QED
  BY <1>1, AccessInvariant, PTL DEF AccessSpec, CompletedIsGranted

===============================================================================
