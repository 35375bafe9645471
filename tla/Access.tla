-------------------------------- MODULE Access --------------------------------
(***************************************************************************)
(* What the staff are asked for on behalf of a member: access to a         *)
(* collection, a better class, a new house key.  A member sees the         *)
(* collections linked to their class, so a request for access may be       *)
(* granted by approving it, by editing the collection's classes or by      *)
(* moving the member; the last two close the requests that they find       *)
(* satisfied, in their own transaction.                                    *)
(*                                                                         *)
(* The transactions are PostgreSQL's READ COMMITTED: a statement sees what *)
(* was committed before it began, and what a transaction wrote is locked,  *)
(* and seen by nobody else, until it commits.  A transaction that is       *)
(* killed to break a deadlock, or meets a unique index, Dies.              *)
(***************************************************************************)
EXTENDS FiniteSets

CONSTANTS Members, Classes, Collections,
          Requests,  \* ids of staff requests
          Handlers,  \* requests to the API that may be under way together
          Nobody,    \* in place of a member
          Nothing,   \* in place of a class or collection
          NoAsk      \* what a request asks for that was not made yet

ASSUME NothingAssumption ==
  /\ Nobody \notin Members
  /\ Nothing \notin Classes \cup Collections
  /\ NoAsk \notin [type : {"ACCESS_REQUEST", "MEMBERSHIP_UPGRADE", "KEY_ISSUANCE"},
                   client : Members, target : Classes \cup Collections \cup {Nothing}]

VARIABLES classOf, \* Client.classId
          links,   \* CollectionClass, per collection
          asks,    \* StaffRequest: what is asked, for whom
          status,  \* StaffRequest.status; nothing sets UNDER_REVIEW
          handler, \* API requests under way
          issued,  \* history: requests upon which a key was issued
          lost,    \* history: requests whose approval died before it issued the key
          stale,   \* history: handlers that others wrote beside
          seen,    \* history: per handler, requests open at some time since it began
          excused  \* history: satisfied requests that no synchronisation came by

accessVars ==
  <<classOf, links, asks, status, handler, issued, lost, stale, seen, excused>>

-----------------------------------------------------------------------------
(* Rows. *)

Asks == [type : {"ACCESS_REQUEST", "MEMBERSHIP_UPGRADE", "KEY_ISSUANCE"},
         client : Members, target : Classes \cup Collections \cup {Nothing}]

\* What an API request keeps between its statements: the rows its transaction
\* writes (member or collection), the links it inserts and deletes (classes, gone),
\* the collections it found visible and the requests it closes.
HandlerRecords ==
  [at : {"idle", "approve", "grant", "complete", "rotate", "reject",
         "links", "sync", "relink", "find", "close"},
   member : Members \cup {Nobody}, collection : Collections \cup {Nothing},
   classes : SUBSET Classes, gone : SUBSET Classes,
   visible : SUBSET Collections, ids : SUBSET Requests]

AccessTypeOK ==
  /\ classOf \in [Members -> Classes]
  /\ links \in [Collections -> SUBSET Classes]
  /\ asks \in [Requests -> Asks \cup {NoAsk}]
  /\ status \in [Requests -> {"none", "PENDING", "COMPLETED", "REJECTED"}]
  /\ \A r \in Requests : status[r] # "none" => asks[r] \in Asks
  /\ handler \in [Handlers -> HandlerRecords]
  /\ issued \in SUBSET Requests
  /\ lost \in SUBSET Requests
  /\ stale \in SUBSET Handlers
  /\ seen \in [Handlers -> SUBSET Requests]
  /\ excused \in SUBSET Requests

IsOpen(r) == status[r] = "PENDING"

For(r, type) == asks[r] # NoAsk /\ asks[r].type = type

\* The member may see already what the request asks to see.
Satisfied(r) ==
  /\ IsOpen(r)
  /\ For(r, "ACCESS_REQUEST")
  /\ asks[r].target \in Collections
  /\ classOf[asks[r].client] \in links[asks[r].target]

-----------------------------------------------------------------------------
(* Handlers. *)

Idle ==
  [at |-> "idle", member |-> Nobody, collection |-> Nothing, classes |-> {},
   gone |-> {}, visible |-> {}, ids |-> {}]

Begin(h, doing) ==
  /\ handler[h].at = "idle"
  /\ handler' = [handler EXCEPT ![h] = doing]

InTransaction(h) ==
  handler[h].at \in {"grant", "complete", "links", "sync", "relink", "find", "close"}

LocksMember(h, m) == InTransaction(h) /\ handler[h].member = m

\* A deleted link, or an inserted one, is locked.
LocksLinks(h, c, K) ==
  /\ handler[h].at \in {"complete", "find", "close"}
  /\ handler[h].collection = c
  /\ (handler[h].classes \cup handler[h].gone) \cap K # {}

\* What handler h has written is seen from now on.  A statement that waited for
\* its locks does not delete again what h deleted.
CommitWrites(h, s, next) ==
  LET w == handler[h] IN
  /\ classOf' = [m \in Members |->
       IF m = w.member THEN CHOOSE k \in w.classes : TRUE ELSE classOf[m]]
  /\ links' = [c \in Collections |->
       IF c = w.collection THEN (links[c] \ w.gone) \cup w.classes ELSE links[c]]
  /\ status' = [r \in Requests |-> IF r \in w.ids THEN s ELSE status[r]]
  /\ handler' = [k \in Handlers |->
       IF k = h THEN next
       ELSE IF handler[k].collection = w.collection
            THEN [handler[k] EXCEPT !.gone = @ \ w.gone]
            ELSE handler[k]]

-----------------------------------------------------------------------------
(* Requests. *)

\* create inserts a request; an access request may come without a collection, and
\* an upgrade without a class.
Create(r, a) ==
  /\ status[r] = "none"
  /\ a.type = "ACCESS_REQUEST" => a.target \in Collections \cup {Nothing}
  /\ a.type = "MEMBERSHIP_UPGRADE" => a.target \in Classes \cup {Nothing}
  /\ a.type = "KEY_ISSUANCE" => a.target = Nothing
  /\ asks' = [asks EXCEPT ![r] = a]
  /\ status' = [status EXCEPT ![r] = "PENDING"]
  /\ UNCHANGED <<classOf, links, handler, issued, lost>>

\* approve reads the request before its transaction.
Approve(h, r) ==
  /\ IsOpen(r)
  /\ Begin(h, [Idle EXCEPT !.at = "approve", !.ids = {r}])
  /\ UNCHANGED <<classOf, links, asks, status, issued, lost>>

\* Mutant: an upgrade without a class is written too.
UpgradeUnchecked(h, r) ==
  /\ handler[h].at = "approve"
  /\ r \in handler[h].ids
  /\ For(r, "MEMBERSHIP_UPGRADE")
  /\ ~\E k \in Handlers \ {h} : LocksMember(k, asks[r].client)
  /\ handler' = [handler EXCEPT ![h].at = "complete", ![h].member = asks[r].client,
                                ![h].classes = {asks[r].target}]
  /\ UNCHANGED <<classOf, links, asks, status, issued, lost>>

\* An upgrade writes the member's class...
Upgrade(h, r) ==
  /\ handler[h].at = "approve"
  /\ r \in handler[h].ids
  /\ For(r, "MEMBERSHIP_UPGRADE")
  /\ asks[r].target \in Classes
  /\ ~\E k \in Handlers \ {h} : LocksMember(k, asks[r].client)
  /\ handler' = [handler EXCEPT ![h].at = "complete", ![h].member = asks[r].client,
                                ![h].classes = {asks[r].target}]
  /\ UNCHANGED <<classOf, links, asks, status, issued, lost>>

\* ...a request for access reads it...
ReadClass(h, r) ==
  /\ handler[h].at = "approve"
  /\ r \in handler[h].ids
  /\ For(r, "ACCESS_REQUEST")
  /\ asks[r].target \in Collections
  /\ handler' = [handler EXCEPT ![h].at = "grant",
                                ![h].classes = {classOf[asks[r].client]}]
  /\ UNCHANGED <<classOf, links, asks, status, issued, lost>>

\* ...to link the collection to it, if it is not...
Grant(h, r) ==
  LET c == asks[r].target IN
  /\ handler[h].at = "grant"
  /\ r \in handler[h].ids
  /\ ~\E k \in Handlers \ {h} : LocksLinks(k, c, handler[h].classes)
  /\ handler' = [handler EXCEPT ![h].at = "complete", ![h].collection = c,
                                ![h].classes = @ \ links[c]]
  /\ UNCHANGED <<classOf, links, asks, status, issued, lost>>

\* ...and another writes nothing...
WriteNothing(h, r) ==
  /\ handler[h].at = "approve"
  /\ r \in handler[h].ids
  /\ asks[r].type = "KEY_ISSUANCE" \/ asks[r].target = Nothing
  /\ handler' = [handler EXCEPT ![h].at = "complete"]
  /\ UNCHANGED <<classOf, links, asks, status, issued, lost>>

\* Mutant: no key for a request that was closed meanwhile.
CompleteOpen(h) ==
  /\ handler[h].at = "complete"
  /\ CommitWrites(h, "COMPLETED",
       IF \E r \in handler[h].ids : IsOpen(r) /\ For(r, "KEY_ISSUANCE")
       THEN [Idle EXCEPT !.at = "rotate", !.ids = handler[h].ids]
       ELSE Idle)
  /\ UNCHANGED <<asks, issued, lost>>

\* ...before the request is completed, whatever its status is by then.  A key is
\* issued after the commit.
Complete(h) ==
  /\ handler[h].at = "complete"
  /\ CommitWrites(h, "COMPLETED",
       IF \E r \in handler[h].ids : For(r, "KEY_ISSUANCE")
       THEN [Idle EXCEPT !.at = "rotate", !.ids = handler[h].ids]
       ELSE Idle)
  /\ UNCHANGED <<asks, issued, lost>>

\* rotateKey.
RotateKey(h) ==
  /\ handler[h].at = "rotate"
  /\ issued' = issued \cup handler[h].ids
  /\ handler' = [handler EXCEPT ![h] = Idle]
  /\ UNCHANGED <<classOf, links, asks, status, lost>>

Reject(h, r) ==
  /\ IsOpen(r)
  /\ Begin(h, [Idle EXCEPT !.at = "reject", !.ids = {r}])
  /\ UNCHANGED <<classOf, links, asks, status, issued, lost>>

RejectUpdate(h) ==
  /\ handler[h].at = "reject"
  /\ CommitWrites(h, "REJECTED", Idle)
  /\ UNCHANGED <<asks, issued, lost>>

-----------------------------------------------------------------------------
(* Members and their classes. *)

\* updateClient with a class: the member's row is written and locked...
UpdateClient(h, m, k) ==
  /\ ~\E j \in Handlers \ {h} : LocksMember(j, m)
  /\ Begin(h, [Idle EXCEPT !.at = "links", !.member = m, !.classes = {k}])
  /\ UNCHANGED <<classOf, links, asks, status, issued, lost>>

\* Mutant: what the class that is left sees.
ReadLinksBefore(h) ==
  /\ handler[h].at = "links"
  /\ handler' = [handler EXCEPT ![h].at = "sync",
       ![h].visible = {c \in Collections : classOf[handler[h].member] \in links[c]}]
  /\ UNCHANGED <<classOf, links, asks, status, issued, lost>>

\* ...syncForClientClass reads what the new class sees...
ReadLinks(h) ==
  /\ handler[h].at = "links"
  /\ handler' = [handler EXCEPT ![h].at = "sync",
       ![h].visible = {c \in Collections : handler[h].classes \cap links[c] # {}}]
  /\ UNCHANGED <<classOf, links, asks, status, issued, lost>>

\* Mutant: all of the member's requests for access are taken for satisfied.
FindAllOfMember(h) ==
  /\ handler[h].at = "sync"
  /\ handler' = [handler EXCEPT ![h].at = "close",
       ![h].ids = {r \in Requests : /\ IsOpen(r)
                                    /\ For(r, "ACCESS_REQUEST")
                                    /\ asks[r].client = handler[h].member}]
  /\ UNCHANGED <<classOf, links, asks, status, issued, lost>>

\* ...and finds the open requests for that.
FindOfMember(h) ==
  /\ handler[h].at = "sync"
  /\ handler' = [handler EXCEPT ![h].at = "close",
       ![h].ids = {r \in Requests : /\ IsOpen(r)
                                    /\ For(r, "ACCESS_REQUEST")
                                    /\ asks[r].client = handler[h].member
                                    /\ asks[r].target \in handler[h].visible}]
  /\ UNCHANGED <<classOf, links, asks, status, issued, lost>>

-----------------------------------------------------------------------------
(* Collections and their classes. *)

\* updateCollection with classes: deleteMany sees the links of the collection,
\* and may wait for them...
UpdateCollection(h, c, K) ==
  /\ Begin(h, [Idle EXCEPT !.at = "relink", !.collection = c, !.classes = K, !.gone = links[c]])
  /\ UNCHANGED <<classOf, links, asks, status, issued, lost>>

\* ...createMany fails for a link that is there...
Relink(h) ==
  LET w == handler[h] IN
  /\ w.at = "relink"
  /\ ~\E k \in Handlers \ {h} : LocksLinks(k, w.collection, w.classes \cup w.gone)
  /\ w.classes \cap (links[w.collection] \ w.gone) = {}
  /\ handler' = [handler EXCEPT ![h].at = "find"]
  /\ UNCHANGED <<classOf, links, asks, status, issued, lost>>

\* Mutant: the closed requests are found too.
FindClosedOfCollection(h) ==
  /\ handler[h].at = "find"
  /\ handler' = [handler EXCEPT ![h].at = "close",
       ![h].ids = {r \in Requests : /\ For(r, "ACCESS_REQUEST")
                                    /\ asks[r].target = handler[h].collection
                                    /\ classOf[asks[r].client] \in handler[h].classes}]
  /\ UNCHANGED <<classOf, links, asks, status, issued, lost>>

\* ...and syncForCollectionClasses finds the open requests of the members granted.
FindOfCollection(h) ==
  /\ handler[h].at = "find"
  /\ handler' = [handler EXCEPT ![h].at = "close",
       ![h].ids = {r \in Requests : /\ IsOpen(r)
                                    /\ For(r, "ACCESS_REQUEST")
                                    /\ asks[r].target = handler[h].collection
                                    /\ classOf[asks[r].client] \in handler[h].classes}]
  /\ UNCHANGED <<classOf, links, asks, status, issued, lost>>

\* What was found is closed, whatever its status is by then, and committed.
CloseFound(h) ==
  /\ handler[h].at = "close"
  /\ CommitWrites(h, "COMPLETED", Idle)
  /\ UNCHANGED <<asks, issued, lost>>

\* The process dies, or the transaction fails.
Dies(h) ==
  /\ handler[h].at # "idle"
  /\ handler' = [handler EXCEPT ![h] = Idle]
  /\ lost' = IF handler[h].at = "rotate" THEN lost \cup handler[h].ids ELSE lost
  /\ UNCHANGED <<classOf, links, asks, status, issued>>

-----------------------------------------------------------------------------
(* The specification. *)

\* A commit, or a request made, disturbs the other transactions under way.
Wrote == <<classOf, links, status>>' # <<classOf, links, status>>

Noting(acting, excuses) ==
  /\ stale' = {k \in Handlers : /\ InTransaction(k) /\ InTransaction(k)'
                                /\ k \in stale \/ (k \notin acting /\ Wrote)}
  /\ seen' = [k \in Handlers |->
       {r \in Requests : IsOpen(r)' \/ (r \in seen[k] /\ handler[k].at # "idle")}]
  /\ excused' = {r \in Requests : Satisfied(r)' /\ (r \in excused \/ excuses)}

AccessInit ==
  /\ classOf \in [Members -> Classes]
  /\ links \in [Collections -> SUBSET Classes]
  /\ asks = [r \in Requests |-> NoAsk]
  /\ status = [r \in Requests |-> "none"]
  /\ handler = [h \in Handlers |-> Idle]
  /\ issued = {}
  /\ lost = {}
  /\ stale = {}
  /\ seen = [h \in Handlers |-> {}]
  /\ excused = {}

ReviewStep(h) ==
  \/ \E r \in Requests : \/ Approve(h, r) \/ Upgrade(h, r) \/ ReadClass(h, r)
                         \/ Grant(h, r) \/ WriteNothing(h, r) \/ Reject(h, r)
  \/ RotateKey(h) \/ RejectUpdate(h)

EditStep(h) ==
  \/ \E m \in Members, k \in Classes : UpdateClient(h, m, k)
  \/ \E c \in Collections, K \in SUBSET Classes : UpdateCollection(h, c, K)
  \/ ReadLinks(h) \/ FindOfMember(h) \/ Relink(h) \/ FindOfCollection(h)
  \/ Dies(h)

AccessNext ==
  \/ \E h \in Handlers :
       \/ (ReviewStep(h) \/ EditStep(h)) /\ Noting({h}, FALSE)
       \/ Complete(h) /\ Noting({h}, TRUE)
       \/ CloseFound(h) /\ Noting({h}, h \in stale)
  \/ (\E r \in Requests, a \in Asks : Create(r, a)) /\ Noting({}, TRUE)

AccessSpec == AccessInit /\ [][AccessNext]_accessVars

-----------------------------------------------------------------------------
(* Properties. *)

\* An access request that its member's class satisfies is closed by the edit, of
\* the member or of the collection, that made it so: unless it was made so by
\* an approval, or was so when made, or another transaction wrote beside the
\* edit.  Whatever came before, no such request waits in vain.
SatisfiedAreClosed ==
  \A r \in Requests : Satisfied(r) => r \in excused

\* A request is completed with what it asked for: its member is in the class, or
\* in a class that sees the collection, when the transaction commits, unless for
\* access another transaction wrote beside it.
CompletedIsGranted ==
  [][\A h \in Handlers : \A r \in handler[h].ids :
       handler[h].at # handler'[h].at /\ status'[r] = "COMPLETED" /\ status[r] # "COMPLETED" =>
         /\ For(r, "ACCESS_REQUEST") /\ asks[r].target \in Collections =>
              h \in stale \/ classOf'[asks[r].client] \in links'[asks[r].target]
         /\ For(r, "MEMBERSHIP_UPGRADE") /\ asks[r].target \in Classes =>
              classOf'[asks[r].client] = asks[r].target]_accessVars

\* A closed request is closed for those who come later: only a handler that met
\* it open may overwrite the decision, and no one opens it again.
DecisionsStand ==
  [][\A r \in Requests :
       status[r] \in {"COMPLETED", "REJECTED"} /\ status'[r] # status[r] =>
         /\ ~IsOpen(r)'
         /\ \E h \in Handlers :
              /\ handler[h].at # "idle" /\ handler'[h].at \in {"idle", "rotate"}
              /\ r \in seen[h] \cap handler[h].ids]_accessVars

\* A completed request for a key has a key issued or about to be, or its approval
\* died between its commit and the key; it is not completed any other way.
CompletedKeysAreIssued ==
  \A r \in Requests :
    status[r] = "COMPLETED" /\ For(r, "KEY_ISSUANCE") =>
      \/ r \in issued \cup lost
      \/ \E h \in Handlers : handler[h].at = "rotate" /\ r \in handler[h].ids

===============================================================================
