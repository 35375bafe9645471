---------------------------- MODULE SessionsProofs ----------------------------
(***************************************************************************)
(* What holds of Sessions for any subjects, families, tokens and handlers: *)
(* every property that its run checks.                                     *)
(***************************************************************************)
EXTENDS Sessions, TLAPS

-----------------------------------------------------------------------------
(* The inductive invariant.                                                *)

\* Tokens that were issued belong to a family, and the family to a subject.
RowsOK ==
  /\ \A t \in Tokens : family[t] # NoFamily => subject[family[t]] \in Subjects
  /\ \A t \in live \cup held : family[t] # NoFamily
  /\ \A s \in Subjects : \A f \in families[s] : subject[f] = s

LoggingIn(h) == handler[h].at \in {"link", "index"}

\* What a handler works on: a token that no browser has yet, of a family of its
\* own; a token of a browser; or all families of a subject.
HandlerRows(h) ==
  /\ handler[h].at \in {"idle", "create", "all", "family", "revoked"} =>
       handler[h].token = NoToken
  /\ handler[h].at \in {"account", "resolve", "rotate", "reuse", "sibling", "unlink", "logout"} =>
       handler[h].token # NoToken
  /\ LoggingIn(h) =>
       /\ handler[h].token \in Tokens \ held
       /\ handler[h].family \in Families
       /\ handler[h].subject \in Subjects
       /\ subject[handler[h].family] = handler[h].subject
       /\ \A t \in Tokens : family[t] = handler[h].family <=> t = handler[h].token
  /\ ~LoggingIn(h) /\ handler[h].token # NoToken =>
       /\ handler[h].token \in held
       /\ handler[h].family = family[handler[h].token]
       /\ handler[h].subject = subject[handler[h].family]
  /\ handler[h].at \in {"create", "all", "family", "revoked"} => handler[h].subject \in Subjects
  /\ handler[h].at = "tokens" /\ handler[h].token = NoToken =>
       /\ handler[h].subject \in Subjects
       /\ handler[h].family \in Families \ handler[h].todo
       /\ handler[h].subject = subject[handler[h].family]
  /\ handler[h].at \in {"family", "tokens"} /\ handler[h].token = NoToken =>
       \A f \in handler[h].todo : subject[f] = handler[h].subject
  /\ \A t \in known[h] : family[t] # NoFamily

\* No two logins make the same token.
LoginsApart ==
  \A h, k \in Handlers :
    LoggingIn(h) /\ LoggingIn(k) /\ handler[h].token = handler[k].token => h = k

\* Of the siblings known to be live, those that remain so are yet to be looked at,
\* or not in the family's set any more.
SiblingsLeft(h) ==
  /\ handler[h].at = "sibling" =>
       known[h] \cap live \cap members[handler[h].family] \subseteq handler[h].rest
  /\ handler[h].at = "tokens" /\ handler[h].token # NoToken =>
       handler[h].rest \cap live \cap known[h] = {}

Overlapped == \A s \in Subjects : Overlap(s) => s \in unclean

SessionsOf(s) == {t \in live \cap held : SubjectOf(t) = s}

\* How far a login or a revocation has got, that nothing disturbed.
Progress(h) ==
  handler[h].subject \in Subjects \ unclean =>
    /\ handler[h].at = "index" /\ handler[h].token \in live =>
         handler[h].token \in members[handler[h].family]
    /\ handler[h].at = "family" =>
         \A t \in SessionsOf(handler[h].subject) : family[t] \in handler[h].todo
    /\ handler[h].at = "tokens" /\ handler[h].token = NoToken =>
         \A t \in SessionsOf(handler[h].subject) :
           family[t] \in handler[h].todo \/ (family[t] = handler[h].family /\ t \in handler[h].rest)
    /\ handler[h].at = "tokens" /\ handler[h].token # NoToken =>
         \A t \in SessionsOf(handler[h].subject) :
           family[t] = handler[h].family => t \in handler[h].rest
    /\ handler[h].at = "unlink" =>
         \A t \in SessionsOf(handler[h].subject) : family[t] # handler[h].family
    /\ handler[h].at = "revoked" => SessionsOf(handler[h].subject) = {}

HandlerOK(h) == HandlerRows(h) /\ SiblingsLeft(h) /\ Progress(h)

SessionsIInv ==
  /\ SessionsTypeOK
  /\ RowsOK
  /\ LoginsApart
  /\ OneLiveToken
  /\ Overlapped
  /\ SessionsFindable
  /\ \A h \in Handlers : HandlerOK(h)

-----------------------------------------------------------------------------
(* The initial states. *)

LEMMA IdleIsARecord == Idle \in HandlerRecords
BY DEF Idle, Doing, HandlerRecords

LEMMA IdleFields ==
  /\ Idle.at = "idle" /\ Idle.subject = NoSubject /\ Idle.family = NoFamily
  /\ Idle.token = NoToken /\ Idle.rest = {} /\ Idle.todo = {}
BY DEF Idle, Doing

LEMMA SessionsInitial == SessionsInit => SessionsIInv
<1> SUFFICES ASSUME SessionsInit PROVE SessionsIInv
  OBVIOUS
<1> USE DEF SessionsInit
<1>1. SessionsTypeOK
  BY IdleIsARecord DEF SessionsTypeOK
<1>2. RowsOK
  BY DEF RowsOK
<1>3. \A h \in Handlers : handler[h] = Idle
  OBVIOUS
<1>4. LoginsApart
  BY <1>3, IdleFields DEF LoginsApart, LoggingIn
<1>5. OneLiveToken
  BY DEF OneLiveToken
<1>6. Overlapped
  BY <1>3, IdleFields, NobodyAssumption DEF Overlapped, Overlap
<1>7. SessionsFindable
  BY DEF SessionsFindable
<1>8. ASSUME NEW h \in Handlers PROVE HandlerOK(h)
  <2>1. handler[h].at = "idle" /\ handler[h].token = NoToken /\ known[h] = {}
    BY <1>3, IdleFields
  <2> QED
    BY <2>1 DEF HandlerOK, HandlerRows, SiblingsLeft, Progress, LoggingIn
<1> QED
  BY <1>1, <1>2, <1>4, <1>5, <1>6, <1>7, <1>8 DEF SessionsIInv

-----------------------------------------------------------------------------
(* Steps that issue no token to anyone. *)

\* What is unclean stays so; what overlaps becomes so.
LEMMA Noted ==
  ASSUME NEW S, Noting(S)
  PROVE  unclean \subseteq unclean' /\ Overlapped'
BY DEF Noting, Overlapped

\* The handlers outside H stand still.
LEMMA Frame ==
  ASSUME SessionsIInv, NEW H \in SUBSET Handlers, NEW S, Noting(S),
         UNCHANGED tokenVars, live' \subseteq live,
         SessionsTypeOK', SessionsFindable',
         \A s \in Subjects : families'[s] \subseteq families[s],
         \A k \in Handlers \ H : handler'[k] = handler[k] /\ known'[k] = known[k],
         \A k \in Handlers \ H : handler[k].at = "sibling" =>
           members'[handler[k].family] \subseteq members[handler[k].family],
         \A k \in Handlers \ H :
           handler[k].at = "index" /\ handler[k].subject \in Subjects \ unclean' =>
             (handler[k].token \in members[handler[k].family] =>
                handler[k].token \in members'[handler[k].family]),
         \A h \in H : HandlerOK(h)',
         \A h \in H : LoggingIn(h)' => LoggingIn(h) /\ handler'[h].token = handler[h].token
  PROVE  SessionsIInv'
<1> USE DEF tokenVars
<1>1. RowsOK'
  BY DEF SessionsIInv, RowsOK
<1>2. LoginsApart'
  <2> SUFFICES ASSUME NEW h \in Handlers, NEW k \in Handlers, LoggingIn(h)', LoggingIn(k)',
                      handler'[h].token = handler'[k].token
               PROVE  h = k
    BY DEF LoginsApart
  <2>1. \A j \in {h, k} : LoggingIn(j) /\ handler'[j].token = handler[j].token
    BY DEF LoggingIn
  <2> QED
    BY <2>1 DEF SessionsIInv, LoginsApart
<1>3. OneLiveToken'
  BY DEF SessionsIInv, OneLiveToken
<1>4. Overlapped'
  BY Noted
<1>5. ASSUME NEW k \in Handlers \ H PROVE HandlerOK(k)'
  <2>1. HandlerOK(k) /\ handler'[k] = handler[k] /\ known'[k] = known[k]
    BY DEF SessionsIInv
  <2>2. HandlerRows(k)'
    BY <2>1 DEF HandlerOK, HandlerRows, LoggingIn
  <2>3. SiblingsLeft(k)'
    BY <2>1 DEF HandlerOK, SiblingsLeft
  <2>4. Progress(k)'
    <3> SUFFICES ASSUME handler[k].subject \in Subjects \ unclean' PROVE Progress(k)'
      BY <2>1 DEF Progress
    <3>1. SessionsOf(handler[k].subject)' \subseteq SessionsOf(handler[k].subject)
      BY <2>1 DEF SessionsOf, SubjectOf
    <3>2. handler[k].subject \notin unclean
      BY Noted
    <3> QED
      BY <2>1, <3>1, <3>2 DEF HandlerOK, Progress
  <2> QED
    BY <2>2, <2>3, <2>4 DEF HandlerOK
<1>6. \A h \in Handlers : HandlerOK(h)'
  BY <1>5
<1> QED
  BY <1>1, <1>2, <1>3, <1>4, <1>6 DEF SessionsIInv

\* The sets are as they were: what they led to is found.
LEMMA FindableStays ==
  ASSUME SessionsFindable, NEW S, Noting(S),
         UNCHANGED <<tokenVars, indexVars>>, live' \subseteq live
  PROVE  SessionsFindable'
<1>1. unclean \subseteq unclean'
  BY Noted
<1> QED
  BY <1>1 DEF SessionsFindable, SubjectOf, tokenVars, indexVars

\* Only a handler moves.
LEMMA QuietStep ==
  ASSUME SessionsIInv, NEW h \in Handlers, Noting({}),
         UNCHANGED <<tokenVars, live, spent, indexVars>>, active' \in SUBSET Subjects,
         NEW w \in HandlerRecords, handler' = [handler EXCEPT ![h] = w],
         NEW K \in SUBSET Tokens, known' = [known EXCEPT ![h] = K],
         HandlerOK(h)',
         w.at \in {"link", "index"} => LoggingIn(h) /\ w.token = handler[h].token
  PROVE  SessionsIInv'
<1>1. SessionsTypeOK
  BY DEF SessionsIInv
<1>2. SessionsTypeOK'
  <2>1. unclean' \in SUBSET Subjects
    BY <1>1 DEF SessionsTypeOK, Noting
  <2> QED
    BY <1>1, <2>1 DEF SessionsTypeOK, tokenVars, indexVars
<1>3. handler'[h] = w /\ \A k \in Handlers \ {h} : handler'[k] = handler[k] /\ known'[k] = known[k]
  BY <1>1 DEF SessionsTypeOK
<1>4. SessionsFindable'
  BY FindableStays DEF SessionsIInv
<1>5. LoggingIn(h)' => LoggingIn(h) /\ handler'[h].token = handler[h].token
  BY <1>3 DEF LoggingIn
<1>6. UNCHANGED <<tokenVars, live, members, families>>
  BY DEF indexVars
<1>7. \A k \in Handlers \ {h} : handler[k].at = "sibling" =>
        members'[handler[k].family] \subseteq members[handler[k].family]
  BY <1>6
<1>8. \A k \in Handlers \ {h} :
        handler[k].at = "index" /\ handler[k].subject \in Subjects \ unclean' =>
          (handler[k].token \in members[handler[k].family] =>
             handler[k].token \in members'[handler[k].family])
  BY <1>6
<1>9. /\ live' \subseteq live /\ {h} \in SUBSET Handlers
      /\ \A s \in Subjects : families'[s] \subseteq families[s]
      /\ \A g \in {h} : HandlerOK(g)'
      /\ \A g \in {h} : LoggingIn(g)' => LoggingIn(g) /\ handler'[g].token = handler[g].token
  BY <1>5, <1>6
<1> QED
  BY <1>2, <1>3, <1>4, <1>7, <1>8, <1>9, Frame

\* A handler that stops.
LEMMA IdleOK ==
  ASSUME SessionsIInv, NEW h \in Handlers, handler'[h] = Idle, known'[h] = known[h],
         family' = family
  PROVE  HandlerOK(h)'
<1>1. handler'[h].at = "idle" /\ handler'[h].token = NoToken
  BY IdleFields
<1>2. \A t \in known[h] : family[t] # NoFamily
  BY DEF SessionsIInv, HandlerOK, HandlerRows
<1> QED
  BY <1>1, <1>2 DEF HandlerOK, HandlerRows, SiblingsLeft, Progress, LoggingIn

LEMMA StopStep ==
  ASSUME SessionsIInv, NEW h \in Handlers, Noting({}), End(h),
         UNCHANGED <<active, tokenVars, live, spent, indexVars, known>>
  PROVE  SessionsIInv'
<1>1. SessionsTypeOK
  BY DEF SessionsIInv
<1>2. handler' = [handler EXCEPT ![h] = Idle] /\ handler'[h] = Idle
  BY <1>1 DEF End, SessionsTypeOK
<1>3. known' = [known EXCEPT ![h] = known[h]] /\ known'[h] = known[h] /\ known[h] \in SUBSET Tokens
  BY <1>1 DEF SessionsTypeOK
<1>4. HandlerOK(h)'
  BY <1>2, <1>3, IdleOK DEF tokenVars
<1>5. active' \in SUBSET Subjects
  BY <1>1 DEF SessionsTypeOK
<1> QED
  BY <1>2, <1>3, <1>4, <1>5, IdleIsARecord, IdleFields, QuietStep

\* A handler that goes on, about the same token or subject.
LEMMA GoStep ==
  ASSUME SessionsIInv, NEW h \in Handlers, Noting({}),
         UNCHANGED <<active, tokenVars, live, spent, indexVars, known>>,
         handler[h].at \in {"account", "resolve", "rotate"},
         NEW at \in {"resolve", "rotate", "reuse"}, Goto(h, at)
  PROVE  SessionsIInv'
<1> DEFINE w == [handler[h] EXCEPT !.at = at]
<1>1. SessionsTypeOK /\ handler[h] \in HandlerRecords /\ HandlerRows(h)
  BY DEF SessionsIInv, SessionsTypeOK, HandlerOK
<1>2. handler' = [handler EXCEPT ![h] = w] /\ handler'[h] = w
  BY <1>1 DEF Goto, SessionsTypeOK
<1>3. known' = [known EXCEPT ![h] = known[h]] /\ known'[h] = known[h] /\ known[h] \in SUBSET Tokens
      /\ active' \in SUBSET Subjects
  BY <1>1 DEF SessionsTypeOK
<1>4. /\ w \in HandlerRecords /\ w.at = at /\ w.subject = handler[h].subject
      /\ w.family = handler[h].family /\ w.token = handler[h].token
  BY <1>1 DEF HandlerRecords
<1>5. HandlerRows(h)'
  BY <1>1, <1>2, <1>3, <1>4 DEF HandlerRows, LoggingIn, tokenVars
<1>6. HandlerOK(h)'
  BY <1>2, <1>4, <1>5 DEF HandlerOK, SiblingsLeft, Progress
<1> HIDE DEF w
<1> QED
  BY <1>2, <1>3, <1>4, <1>6, QuietStep

\* A handler that begins, about a token of a browser.
LEMMA BeginWithToken ==
  ASSUME SessionsIInv, NEW h \in Handlers, NEW t \in Tokens, Noting({}),
         Refresh(h, t) \/ Logout(h, t)
  PROVE  SessionsIInv'
<1> PICK at \in {"account", "logout"} :
      handler' = [handler EXCEPT ![h] = Doing(at, SubjectOf(t), family[t], t)]
  BY DEF Refresh, Logout, Begin
<1> DEFINE w == Doing(at, SubjectOf(t), family[t], t)
<1>1. SessionsTypeOK /\ handler[h] \in HandlerRecords /\ HandlerOK(h) /\ RowsOK
  BY DEF SessionsIInv, SessionsTypeOK
<1>2. /\ t \in held \cap live /\ handler[h].at = "idle"
      /\ UNCHANGED <<active, tokenVars, live, spent, indexVars, known>>
  BY DEF Refresh, Logout, Begin
<1>3. known' = [known EXCEPT ![h] = known[h]] /\ known'[h] = known[h] /\ known[h] \in SUBSET Tokens
      /\ active' \in SUBSET Subjects
  BY <1>1, <1>2 DEF SessionsTypeOK
<1>4. family[t] \in Families /\ SubjectOf(t) \in Subjects
  BY <1>1, <1>2 DEF SessionsTypeOK, RowsOK, SubjectOf
<1>5. w \in HandlerRecords
  BY <1>4 DEF Doing, HandlerRecords
<1>6. w.at = at /\ w.subject = SubjectOf(t) /\ w.family = family[t] /\ w.token = t
  BY DEF Doing
<1>7. handler' = [handler EXCEPT ![h] = w] /\ handler'[h] = w
  BY <1>1 DEF SessionsTypeOK
<1>8. HandlerOK(h)'
  <2>1. t # NoToken
    BY NobodyAssumption
  <2>2. HandlerRows(h)'
    BY <1>1, <1>2, <1>3, <1>6, <1>7, <2>1 DEF HandlerOK, HandlerRows, LoggingIn, tokenVars, SubjectOf
  <2> QED
    BY <1>6, <1>7, <2>2 DEF HandlerOK, SiblingsLeft, Progress
<1> HIDE DEF w
<1> QED
  BY <1>2, <1>3, <1>5, <1>6, <1>7, <1>8, QuietStep

\* A handler that begins, about a subject.
LEMMA BeginWithSubject ==
  ASSUME SessionsIInv, NEW h \in Handlers, NEW s \in Subjects, Noting({}),
         Login(h, s) \/ RevokeAll(h, s)
  PROVE  SessionsIInv'
<1> PICK at \in {"create", "all"} :
      handler' = [handler EXCEPT ![h] = Doing(at, s, NoFamily, NoToken)]
  BY DEF Login, RevokeAll, Begin
<1> DEFINE w == Doing(at, s, NoFamily, NoToken)
<1>1. SessionsTypeOK /\ handler[h] \in HandlerRecords /\ HandlerOK(h) /\ RowsOK
  BY DEF SessionsIInv, SessionsTypeOK
<1>2. /\ handler[h].at = "idle"
      /\ UNCHANGED <<tokenVars, live, spent, indexVars, known>>
      /\ active' \in {active, active \ {s}}
  BY DEF Login, RevokeAll, Begin
<1>3. known' = [known EXCEPT ![h] = known[h]] /\ known'[h] = known[h] /\ known[h] \in SUBSET Tokens
      /\ active' \in SUBSET Subjects
  BY <1>1, <1>2 DEF SessionsTypeOK
<1>5. w \in HandlerRecords
  BY DEF Doing, HandlerRecords
<1>6. w.at = at /\ w.subject = s /\ w.family = NoFamily /\ w.token = NoToken
  BY DEF Doing
<1>7. handler' = [handler EXCEPT ![h] = w] /\ handler'[h] = w
  BY <1>1 DEF SessionsTypeOK
<1>8. HandlerOK(h)'
  <2>1. HandlerRows(h)'
    BY <1>1, <1>2, <1>3, <1>6, <1>7 DEF HandlerOK, HandlerRows, LoggingIn, tokenVars
  <2> QED
    BY <1>6, <1>7, <2>1 DEF HandlerOK, SiblingsLeft, Progress
<1> HIDE DEF w
<1> QED
  BY <1>2, <1>3, <1>5, <1>6, <1>7, <1>8, QuietStep

LEMMA CheckAccountStep ==
  ASSUME SessionsIInv, NEW h \in Handlers, CheckAccount(h), Noting({})
  PROVE  SessionsIInv'
<1>1. End(h) \/ Goto(h, "resolve")
  BY DEF CheckAccount
<1>2. /\ handler[h].at = "account"
      /\ UNCHANGED <<active, tokenVars, live, spent, indexVars, known>>
  BY DEF CheckAccount
<1> QED
  BY <1>1, <1>2, StopStep, GoStep

LEMMA ResolveStep ==
  ASSUME SessionsIInv, NEW h \in Handlers, Resolve(h), Noting({})
  PROVE  SessionsIInv'
<1>1. End(h) \/ Goto(h, "rotate") \/ Goto(h, "reuse")
  BY DEF Resolve
<1>2. /\ handler[h].at = "resolve"
      /\ UNCHANGED <<active, tokenVars, live, spent, indexVars, known>>
  BY DEF Resolve
<1> QED
  BY <1>1, <1>2, StopStep, GoStep

LEMMA RotateLateStep ==
  ASSUME SessionsIInv, NEW h \in Handlers, RotateLate(h), Noting({})
  PROVE  SessionsIInv'
<1>1. End(h) \/ Goto(h, "reuse")
  BY DEF RotateLate
<1>2. /\ handler[h].at = "rotate"
      /\ UNCHANGED <<active, tokenVars, live, spent, indexVars, known>>
  BY DEF RotateLate
<1> QED
  BY <1>1, <1>2, StopStep, GoStep

LEMMA StoppingStep ==
  ASSUME SessionsIInv, NEW h \in Handlers, Revoked(h) \/ Dies(h), Noting({})
  PROVE  SessionsIInv'
BY StopStep DEF Revoked, Dies

LEMMA NoticeReuseStep ==
  ASSUME SessionsIInv, NEW h \in Handlers, NoticeReuse(h), Noting({})
  PROVE  SessionsIInv'
<1> DEFINE f == handler[h].family
           w == [handler[h] EXCEPT !.at = "sibling", !.rest = members[f]]
           K == {t \in live : family[t] = f}
<1>1. SessionsTypeOK /\ handler[h] \in HandlerRecords /\ HandlerOK(h) /\ RowsOK
  BY DEF SessionsIInv, SessionsTypeOK
<1>2. /\ handler[h].at = "reuse" /\ handler' = [handler EXCEPT ![h] = w]
      /\ known' = [known EXCEPT ![h] = K]
      /\ UNCHANGED <<active, tokenVars, live, spent, indexVars>>
  BY <1>1 DEF NoticeReuse, SessionsTypeOK
<1>3. handler'[h] = w /\ known'[h] = K /\ K \in SUBSET Tokens /\ active' \in SUBSET Subjects
  BY <1>1, <1>2 DEF SessionsTypeOK
<1>4. /\ handler[h].token \in held /\ f = family[handler[h].token]
      /\ handler[h].subject = subject[f] /\ handler[h].token # NoToken
  BY <1>1, <1>2 DEF HandlerOK, HandlerRows, LoggingIn
<1>5. f \in Families
  BY <1>1, <1>4 DEF SessionsTypeOK, RowsOK
<1>6. members[f] \in SUBSET Tokens
  BY <1>1, <1>5 DEF SessionsTypeOK
<1>7. /\ w \in HandlerRecords /\ w.at = "sibling" /\ w.rest = members[f] /\ w.family = f
      /\ w.token = handler[h].token /\ w.subject = handler[h].subject
  BY <1>1, <1>6 DEF HandlerRecords
<1>8. HandlerOK(h)'
  <2>1. \A t \in K : family[t] # NoFamily
    BY <1>1 DEF RowsOK
  <2>2. HandlerRows(h)'
    BY <1>2, <1>3, <1>4, <1>7, <2>1 DEF HandlerRows, LoggingIn, tokenVars
  <2>3. SiblingsLeft(h)'
    BY <1>2, <1>3, <1>7 DEF SiblingsLeft, indexVars
  <2> QED
    BY <1>3, <1>7, <2>2, <2>3 DEF HandlerOK, Progress
<1> HIDE DEF w, K, f
<1> QED
  BY <1>2, <1>3, <1>7, <1>8, QuietStep

LEMMA CheckSiblingStep ==
  ASSUME SessionsIInv, NEW h \in Handlers, NEW t \in Tokens, CheckSibling(h, t), Noting({})
  PROVE  SessionsIInv'
<1> DEFINE w == [handler[h] EXCEPT !.rest = @ \ {t}]
<1>1. SessionsTypeOK /\ handler[h] \in HandlerRecords /\ HandlerOK(h) /\ RowsOK
  BY DEF SessionsIInv, SessionsTypeOK
<1>2. /\ handler[h].at = "sibling"
      /\ UNCHANGED <<active, tokenVars, live, spent, indexVars, known>>
      /\ End(h) \/ (t \notin live /\ handler' = [handler EXCEPT ![h] = w])
  BY <1>1 DEF CheckSibling, SessionsTypeOK
<1>3. known' = [known EXCEPT ![h] = known[h]] /\ known'[h] = known[h] /\ known[h] \in SUBSET Tokens
      /\ active' \in SUBSET Subjects
  BY <1>1, <1>2 DEF SessionsTypeOK
<1>4. CASE End(h)
  BY <1>2, <1>4, StopStep
<1>5. CASE t \notin live /\ handler' = [handler EXCEPT ![h] = w]
  <2>1. handler'[h] = w
    BY <1>1, <1>5 DEF SessionsTypeOK
  <2>2. /\ w \in HandlerRecords /\ w.at = "sibling" /\ w.rest = handler[h].rest \ {t}
        /\ w.family = handler[h].family /\ w.token = handler[h].token
        /\ w.subject = handler[h].subject
    BY <1>1, <1>2 DEF HandlerRecords
  <2>3. HandlerRows(h)'
    BY <1>1, <1>2, <1>3, <2>1, <2>2 DEF HandlerOK, HandlerRows, LoggingIn, tokenVars
  <2>4. SiblingsLeft(h)'
    BY <1>1, <1>2, <1>3, <1>5, <2>1, <2>2 DEF HandlerOK, SiblingsLeft, indexVars
  <2>5. HandlerOK(h)'
    BY <2>1, <2>2, <2>3, <2>4 DEF HandlerOK, Progress
  <2> HIDE DEF w
  <2> QED
    BY <1>2, <1>3, <1>5, <2>2, <2>5, QuietStep
<1> QED
  BY <1>2, <1>4, <1>5

LEMMA CondemnStep ==
  ASSUME SessionsIInv, NEW h \in Handlers, Condemn(h), Noting({})
  PROVE  SessionsIInv'
<1> DEFINE f == handler[h].family
           w == [handler[h] EXCEPT !.at = "tokens", !.rest = members[f]]
<1>1. SessionsTypeOK /\ handler[h] \in HandlerRecords /\ HandlerOK(h) /\ RowsOK
  BY DEF SessionsIInv, SessionsTypeOK
<1>2. /\ handler[h].at = "sibling" /\ handler[h].rest = {}
      /\ handler' = [handler EXCEPT ![h] = w]
      /\ UNCHANGED <<active, tokenVars, live, spent, indexVars, known>>
  BY <1>1 DEF Condemn, SessionsTypeOK
<1>3. known' = [known EXCEPT ![h] = known[h]] /\ known'[h] = known[h] /\ known[h] \in SUBSET Tokens
      /\ active' \in SUBSET Subjects
  BY <1>1, <1>2 DEF SessionsTypeOK
<1>4. /\ handler[h].token \in held /\ f = family[handler[h].token]
      /\ handler[h].subject = subject[f] /\ handler[h].token # NoToken
  BY <1>1, <1>2 DEF HandlerOK, HandlerRows, LoggingIn
<1>5. f \in Families
  BY <1>1, <1>4 DEF SessionsTypeOK, RowsOK
<1>6. members[f] \in SUBSET Tokens /\ handler'[h] = w
  BY <1>1, <1>2, <1>5 DEF SessionsTypeOK
<1>7. /\ w \in HandlerRecords /\ w.at = "tokens" /\ w.rest = members[f] /\ w.family = f
      /\ w.token = handler[h].token /\ w.subject = handler[h].subject
  BY <1>1, <1>6 DEF HandlerRecords
<1>8. HandlerOK(h)'
  <2>1. HandlerRows(h)'
    BY <1>1, <1>2, <1>3, <1>4, <1>6, <1>7 DEF HandlerOK, HandlerRows, LoggingIn, tokenVars
  <2>2. SiblingsLeft(h)'
    BY <1>1, <1>2, <1>3, <1>6, <1>7 DEF HandlerOK, SiblingsLeft, indexVars
  <2>3. Progress(h)'
    <3> SUFFICES ASSUME handler[h].subject \notin unclean',
                        NEW t \in SessionsOf(handler[h].subject), family[t] = f
                 PROVE  t \in members[f]
      <4>1. /\ handler'[h].at = "tokens" /\ handler'[h].rest = members[f]
            /\ handler'[h].family = f /\ handler'[h].token # NoToken
            /\ handler'[h].subject = handler[h].subject
        BY <1>4, <1>6, <1>7
      <4>2. SessionsOf(handler[h].subject)' = SessionsOf(handler[h].subject)
        BY <1>2, <4>1 DEF SessionsOf, SubjectOf, tokenVars
      <4>3. family' = family
        BY <1>2 DEF tokenVars
      <4> QED
        BY <4>1, <4>2, <4>3 DEF Progress
    <3>1. handler[h].subject \notin unclean
      BY Noted
    <3> QED
      BY <3>1 DEF SessionsIInv, SessionsFindable, SessionsOf
  <2> QED
    BY <2>1, <2>2, <2>3 DEF HandlerOK
<1> HIDE DEF w, f
<1> QED
  BY <1>2, <1>3, <1>6, <1>7, <1>8, QuietStep

LEMMA ReadFamiliesStep ==
  ASSUME SessionsIInv, NEW h \in Handlers, ReadFamilies(h), Noting({})
  PROVE  SessionsIInv'
<1> DEFINE s == handler[h].subject
           w == [handler[h] EXCEPT !.at = "family", !.todo = families[s]]
<1>1. SessionsTypeOK /\ handler[h] \in HandlerRecords /\ HandlerOK(h) /\ RowsOK
  BY DEF SessionsIInv, SessionsTypeOK
<1>2. /\ handler[h].at = "all" /\ handler' = [handler EXCEPT ![h] = w]
      /\ UNCHANGED <<active, tokenVars, live, spent, indexVars, known>>
  BY <1>1 DEF ReadFamilies, SessionsTypeOK
<1>3. known' = [known EXCEPT ![h] = known[h]] /\ known'[h] = known[h] /\ known[h] \in SUBSET Tokens
      /\ active' \in SUBSET Subjects
  BY <1>1, <1>2 DEF SessionsTypeOK
<1>4. s \in Subjects /\ handler[h].token = NoToken
  BY <1>1, <1>2 DEF HandlerOK, HandlerRows
<1>5. families[s] \in SUBSET Families /\ handler'[h] = w
  BY <1>1, <1>2, <1>4 DEF SessionsTypeOK
<1>6. /\ w \in HandlerRecords /\ w.at = "family" /\ w.todo = families[s]
      /\ w.token = NoToken /\ w.subject = s
  BY <1>1, <1>4, <1>5 DEF HandlerRecords
<1>7. HandlerOK(h)'
  <2>1. \A f \in families[s] : subject'[f] = s
    BY <1>1, <1>2, <1>4 DEF RowsOK, tokenVars
  <2>2. HandlerRows(h)'
    BY <1>1, <1>2, <1>3, <1>4, <1>5, <1>6, <2>1 DEF HandlerOK, HandlerRows, LoggingIn, tokenVars
  <2>3. Progress(h)'
    <3> SUFFICES ASSUME s \notin unclean', NEW t \in SessionsOf(s)
                 PROVE  family[t] \in families[s]
      BY <1>2, <1>4, <1>5, <1>6 DEF Progress, SessionsOf, SubjectOf, tokenVars
    <3>1. s \notin unclean
      BY Noted
    <3> QED
      BY <3>1 DEF SessionsIInv, SessionsFindable, SessionsOf
  <2> QED
    BY <1>5, <1>6, <2>2, <2>3 DEF HandlerOK, SiblingsLeft
<1> HIDE DEF w, s
<1> QED
  BY <1>2, <1>3, <1>6, <1>7, QuietStep

LEMMA RevokeFamilyStep ==
  ASSUME SessionsIInv, NEW h \in Handlers, NEW f \in Families, RevokeFamily(h, f), Noting({})
  PROVE  SessionsIInv'
<1> DEFINE s == handler[h].subject
           w == [handler[h] EXCEPT !.at = "tokens", !.family = f, !.rest = members[f],
                                   !.todo = @ \ {f}]
<1>1. SessionsTypeOK /\ handler[h] \in HandlerRecords /\ HandlerOK(h) /\ RowsOK
  BY DEF SessionsIInv, SessionsTypeOK
<1>2. /\ handler[h].at = "family" /\ f \in handler[h].todo
      /\ handler' = [handler EXCEPT ![h] = w]
      /\ UNCHANGED <<active, tokenVars, live, spent, indexVars, known>>
  BY <1>1 DEF RevokeFamily, SessionsTypeOK
<1>3. known' = [known EXCEPT ![h] = known[h]] /\ known'[h] = known[h] /\ known[h] \in SUBSET Tokens
      /\ active' \in SUBSET Subjects
  BY <1>1, <1>2 DEF SessionsTypeOK
<1>4. s \in Subjects /\ handler[h].token = NoToken
      /\ \A g \in handler[h].todo : subject[g] = s
  BY <1>1, <1>2 DEF HandlerOK, HandlerRows
<1>5. members[f] \in SUBSET Tokens /\ handler'[h] = w
  BY <1>1, <1>2 DEF SessionsTypeOK
<1>6. /\ w \in HandlerRecords /\ w.at = "tokens" /\ w.todo = handler[h].todo \ {f}
      /\ w.token = NoToken /\ w.subject = s /\ w.family = f /\ w.rest = members[f]
  BY <1>1, <1>4, <1>5 DEF HandlerRecords
<1>7. HandlerOK(h)'
  <2>1. HandlerRows(h)'
    BY <1>1, <1>2, <1>3, <1>4, <1>5, <1>6 DEF HandlerOK, HandlerRows, LoggingIn, tokenVars
  <2>2. Progress(h)'
    <3> SUFFICES ASSUME s \notin unclean', NEW t \in SessionsOf(s)
                 PROVE  family[t] \in w.todo \/ (family[t] = f /\ t \in members[f])
      BY <1>2, <1>4, <1>5, <1>6 DEF Progress, SessionsOf, SubjectOf, tokenVars
    <3>1. s \notin unclean
      BY Noted
    <3>2. family[t] \in handler[h].todo
      BY <1>1, <1>2, <1>4, <3>1 DEF HandlerOK, Progress
    <3>3. t \in members[family[t]]
      BY <3>1 DEF SessionsIInv, SessionsFindable, SessionsOf
    <3> QED
      BY <1>6, <3>2, <3>3
  <2> QED
    BY <1>5, <1>6, <2>1, <2>2 DEF HandlerOK, SiblingsLeft
<1> HIDE DEF w, s
<1> QED
  BY <1>2, <1>3, <1>6, <1>7, QuietStep

-----------------------------------------------------------------------------
(* Steps that write the indexes or end tokens. *)

\* While a revocation is under way undisturbed, no other handler has its subject.
LEMMA Alone ==
  ASSUME SessionsIInv, NEW h \in Handlers, NEW k \in Handlers \ {h},
         Revoking(h), handler[h].subject \in Subjects, handler[h].subject \notin unclean
  PROVE  handler[k].subject # handler[h].subject
BY DEF SessionsIInv, Overlapped, Overlap

LEMMA LinkTokenStep ==
  ASSUME SessionsIInv, NEW h \in Handlers, LinkToken(h), Noting({})
  PROVE  SessionsIInv'
<1> DEFINE f == handler[h].family
           t == handler[h].token
           w == [handler[h] EXCEPT !.at = "index"]
<1>1. SessionsTypeOK /\ handler[h] \in HandlerRecords /\ HandlerOK(h) /\ RowsOK
  BY DEF SessionsIInv, SessionsTypeOK
<1>2. /\ handler[h].at = "link" /\ handler' = [handler EXCEPT ![h] = w]
      /\ members' = [members EXCEPT ![f] = @ \cup {t}]
      /\ UNCHANGED <<active, tokenVars, live, spent, families, known>>
  BY <1>1 DEF LinkToken, Goto, SessionsTypeOK
<1>3. LoggingIn(h) /\ f \in Families /\ t \in Tokens /\ t \notin held
      /\ \A u \in Tokens : family[u] = f <=> u = t
  BY <1>1, <1>2 DEF HandlerOK, HandlerRows, LoggingIn
<1>4. handler'[h] = w /\ known'[h] = known[h] /\ \A k \in Handlers \ {h} : handler'[k] = handler[k] /\ known'[k] = known[k]
  BY <1>1, <1>2 DEF SessionsTypeOK
<1>5. /\ w \in HandlerRecords /\ w.at = "index" /\ w.token = t /\ w.subject = handler[h].subject
      /\ w.family = f
  BY <1>1 DEF HandlerRecords
<1>6. SessionsTypeOK'
  BY <1>1, <1>2, <1>3, <1>5 DEF SessionsTypeOK, tokenVars, Noting
<1>7. \A g \in Families : members[g] \subseteq members'[g] /\ (g # f => members'[g] = members[g])
      /\ t \in members'[f]
  BY <1>1, <1>2, <1>3 DEF SessionsTypeOK
<1>8. unclean \subseteq unclean'
  BY Noted
<1>9. SessionsFindable'
  <2> SUFFICES ASSUME NEW u \in live \cap held, SubjectOf(u) \notin unclean'
               PROVE  u \in members'[family[u]] /\ family[u] \in families[SubjectOf(u)]
    BY <1>2 DEF SessionsFindable, SubjectOf, tokenVars
  <2>1. u \in members[family[u]] /\ family[u] \in families[SubjectOf(u)]
    BY <1>8 DEF SessionsIInv, SessionsFindable
  <2>2. family[u] \in Families
    BY <1>1 DEF SessionsTypeOK, RowsOK
  <2> QED
    BY <1>7, <2>1, <2>2
<1>10. HandlerOK(h)'
  <2>1. HandlerRows(h)'
    BY <1>1, <1>2, <1>3, <1>4, <1>5 DEF HandlerOK, HandlerRows, LoggingIn, tokenVars
  <2> QED
    BY <1>3, <1>4, <1>5, <1>7, <2>1 DEF HandlerOK, SiblingsLeft, Progress
<1>11. ASSUME NEW k \in Handlers \ {h}, handler[k].at = "sibling"
       PROVE  members'[handler[k].family] \subseteq members[handler[k].family]
  <2>1. HandlerRows(k) /\ ~LoggingIn(k) /\ handler[k].token # NoToken
    BY <1>11 DEF SessionsIInv, HandlerOK, HandlerRows, LoggingIn
  <2>2. handler[k].token \in held /\ handler[k].family = family[handler[k].token]
    BY <2>1 DEF HandlerRows
  <2>3. handler[k].family \in Families /\ handler[k].family # f
    BY <1>1, <1>3, <2>2 DEF SessionsTypeOK, RowsOK
  <2> QED
    BY <1>7, <2>3
<1>12. ASSUME NEW k \in Handlers \ {h}, handler[k].at = "index",
              handler[k].token \in members[handler[k].family]
       PROVE  handler[k].token \in members'[handler[k].family]
  <2>1. handler[k].family \in Families
    BY <1>12 DEF SessionsIInv, HandlerOK, HandlerRows, LoggingIn
  <2> QED
    BY <1>7, <1>12, <2>1
<1>13. UNCHANGED tokenVars /\ live' \subseteq live /\ families' = families
  BY <1>2
<1>14. LoggingIn(h) /\ handler'[h].token = handler[h].token
  BY <1>3, <1>4, <1>5
<1> HIDE DEF w, f, t
<1> QED
  BY <1>4, <1>6, <1>9, <1>10, <1>11, <1>12, <1>13, <1>14, Frame

LEMMA UnlinkFamilyStep ==
  ASSUME SessionsIInv, NEW h \in Handlers, UnlinkFamily(h), Noting({})
  PROVE  SessionsIInv'
<1> DEFINE f == handler[h].family
           s == handler[h].subject
<1>1. SessionsTypeOK /\ handler[h] \in HandlerRecords /\ HandlerOK(h) /\ RowsOK
  BY DEF SessionsIInv, SessionsTypeOK
<1>2. /\ handler[h].at = "unlink" /\ handler' = [handler EXCEPT ![h] = Idle]
      /\ families' = [families EXCEPT ![s] = @ \ {f}] \/ families' = families
      /\ UNCHANGED <<active, tokenVars, live, spent, members, known>>
  BY DEF UnlinkFamily, End
<1>3. /\ handler[h].token \in held /\ f = family[handler[h].token] /\ s = subject[f]
  BY <1>1, <1>2 DEF HandlerOK, HandlerRows, LoggingIn
<1>4. f \in Families /\ s \in Subjects
  BY <1>1, <1>3 DEF SessionsTypeOK, RowsOK
<1>5. handler'[h] = Idle /\ known'[h] = known[h] /\ \A k \in Handlers \ {h} : handler'[k] = handler[k] /\ known'[k] = known[k]
  BY <1>1, <1>2 DEF SessionsTypeOK
<1>6. SessionsTypeOK'
  BY <1>1, <1>2, <1>4, IdleIsARecord DEF SessionsTypeOK, tokenVars, Noting
<1>7. \A r \in Subjects : families'[r] \subseteq families[r] /\ families[r] \ families'[r] \subseteq {f}
  BY <1>1, <1>2, <1>4 DEF SessionsTypeOK
<1>8. unclean \subseteq unclean'
  BY Noted
<1>9. SessionsFindable'
  <2> SUFFICES ASSUME NEW u \in live \cap held, SubjectOf(u) \notin unclean'
               PROVE  u \in members[family[u]] /\ family[u] \in families'[SubjectOf(u)]
    BY <1>2 DEF SessionsFindable, SubjectOf, tokenVars
  <2>1. u \in members[family[u]] /\ family[u] \in families[SubjectOf(u)]
    BY <1>8 DEF SessionsIInv, SessionsFindable
  <2>2. SubjectOf(u) \in Subjects
    BY <1>1 DEF SessionsTypeOK, RowsOK, SubjectOf
  <2>3. family[u] # f
    <3>1. SUFFICES ASSUME family[u] = f PROVE FALSE
      OBVIOUS
    <3>2. SubjectOf(u) = s /\ u \in SessionsOf(s) /\ s \notin unclean
      BY <1>3, <1>8, <3>1 DEF SubjectOf, SessionsOf
    <3> QED
      BY <1>1, <1>2, <1>4, <3>1, <3>2 DEF HandlerOK, Progress
  <2> QED
    BY <1>7, <2>1, <2>2, <2>3
<1>10. HandlerOK(h)'
  BY <1>2, <1>5, IdleOK DEF tokenVars
<1>11. ~LoggingIn(h)'
  BY <1>5, IdleFields DEF LoggingIn
<1>12. UNCHANGED <<tokenVars, live, members>>
  BY <1>2
<1> HIDE DEF f, s
<1> QED
  BY <1>5, <1>6, <1>7, <1>9, <1>10, <1>11, <1>12, Frame

LEMMA RevokeTokenStep ==
  ASSUME SessionsIInv, NEW h \in Handlers, RevokeToken(h), Noting({})
  PROVE  SessionsIInv'
<1> DEFINE t == handler[h].token
           f == family[t]
<1>1. SessionsTypeOK /\ handler[h] \in HandlerRecords /\ HandlerOK(h) /\ RowsOK
  BY DEF SessionsIInv, SessionsTypeOK
<1>2. /\ handler[h].at = "logout" /\ handler' = [handler EXCEPT ![h] = Idle]
      /\ live' = live \ {t} /\ spent' = spent \cup {t}
      /\ members' = [members EXCEPT ![f] = @ \ {t}]
      /\ UNCHANGED <<active, tokenVars, families, known>>
  BY DEF RevokeToken, End, Revoke
<1>3. /\ t \in held /\ handler[h].family = f /\ handler[h].subject = subject[f]
  BY <1>1, <1>2 DEF HandlerOK, HandlerRows, LoggingIn
<1>4. f \in Families /\ handler[h].subject \in Subjects /\ t \in Tokens
  BY <1>1, <1>3 DEF SessionsTypeOK, RowsOK
<1>5. handler'[h] = Idle /\ known'[h] = known[h] /\ \A k \in Handlers \ {h} : handler'[k] = handler[k] /\ known'[k] = known[k]
  BY <1>1, <1>2 DEF SessionsTypeOK
<1>6. SessionsTypeOK'
  BY <1>1, <1>2, <1>4, IdleIsARecord DEF SessionsTypeOK, tokenVars, Noting
<1>7. \A g \in Families : members'[g] \subseteq members[g] /\ members[g] \ members'[g] \subseteq {t}
      /\ (g # f => members'[g] = members[g])
  BY <1>1, <1>2, <1>4 DEF SessionsTypeOK
<1>8. unclean \subseteq unclean'
  BY Noted
<1>9. SessionsFindable'
  <2> SUFFICES ASSUME NEW u \in live' \cap held, SubjectOf(u) \notin unclean'
               PROVE  u \in members'[family[u]] /\ family[u] \in families[SubjectOf(u)]
    BY <1>2 DEF SessionsFindable, SubjectOf, tokenVars
  <2>1. u \in live /\ u # t
    BY <1>2
  <2>2. u \in members[family[u]] /\ family[u] \in families[SubjectOf(u)]
    BY <1>8, <2>1 DEF SessionsIInv, SessionsFindable
  <2>3. family[u] \in Families
    BY <1>1 DEF SessionsTypeOK, RowsOK
  <2> QED
    BY <1>7, <2>1, <2>2, <2>3
<1>10. HandlerOK(h)'
  BY <1>2, <1>5, IdleOK DEF tokenVars
<1>11. ~LoggingIn(h)'
  BY <1>5, IdleFields DEF LoggingIn
<1>12. ASSUME NEW k \in Handlers \ {h}, handler[k].at = "sibling"
       PROVE  members'[handler[k].family] \subseteq members[handler[k].family]
  <2>1. HandlerRows(k) /\ ~LoggingIn(k) /\ handler[k].token # NoToken
    BY <1>12 DEF SessionsIInv, HandlerOK, HandlerRows, LoggingIn
  <2>2. handler[k].token \in held /\ handler[k].family = family[handler[k].token]
    BY <2>1 DEF HandlerRows
  <2>3. handler[k].family \in Families
    BY <1>1, <2>2 DEF SessionsTypeOK, RowsOK
  <2> QED
    BY <1>7, <2>3
<1>13. ASSUME NEW k \in Handlers \ {h}, handler[k].at = "index",
              handler[k].token \in members[handler[k].family]
       PROVE  handler[k].token \in members'[handler[k].family]
  <2>1. handler[k].family \in Families /\ handler[k].token \notin held
    BY <1>13 DEF SessionsIInv, HandlerOK, HandlerRows, LoggingIn
  <2> QED
    BY <1>3, <1>7, <1>13, <2>1
<1>14. UNCHANGED tokenVars /\ live' \subseteq live /\ families' = families
  BY <1>2
<1> HIDE DEF f, t
<1> QED
  BY <1>5, <1>6, <1>9, <1>10, <1>11, <1>12, <1>13, <1>14, Frame

LEMMA RevokeMemberStep ==
  ASSUME SessionsIInv, NEW h \in Handlers, NEW t \in Tokens, RevokeMember(h, t), Noting({})
  PROVE  SessionsIInv'
<1> DEFINE w == [handler[h] EXCEPT !.rest = @ \ {t}]
<1>1. SessionsTypeOK /\ handler[h] \in HandlerRecords /\ HandlerOK(h) /\ RowsOK
  BY DEF SessionsIInv, SessionsTypeOK
<1>2. /\ handler[h].at = "tokens" /\ handler' = [handler EXCEPT ![h] = w]
      /\ live' = live \ {t} /\ spent' = spent \cup {t}
      /\ UNCHANGED <<active, tokenVars, indexVars, known>>
  BY <1>1 DEF RevokeMember, Revoke, SessionsTypeOK
<1>3. handler'[h] = w /\ known'[h] = known[h] /\ \A k \in Handlers \ {h} : handler'[k] = handler[k] /\ known'[k] = known[k]
  BY <1>1, <1>2 DEF SessionsTypeOK
<1>4. /\ w \in HandlerRecords /\ w.at = "tokens" /\ w.rest = handler[h].rest \ {t}
      /\ w.family = handler[h].family /\ w.token = handler[h].token
      /\ w.subject = handler[h].subject /\ w.todo = handler[h].todo
  BY <1>1, <1>2 DEF HandlerRecords
<1>5. SessionsTypeOK'
  BY <1>1, <1>2, <1>4 DEF SessionsTypeOK, tokenVars, indexVars, Noting
<1>6. SessionsFindable'
  BY <1>2, FindableStays DEF SessionsIInv
<1>7. HandlerOK(h)'
  <2>1. HandlerRows(h)'
    BY <1>1, <1>2, <1>3, <1>4 DEF HandlerOK, HandlerRows, LoggingIn, tokenVars
  <2>2. SiblingsLeft(h)'
    BY <1>1, <1>2, <1>3, <1>4 DEF HandlerOK, SiblingsLeft
  <2>3. Progress(h)'
    <3> SUFFICES ASSUME handler[h].subject \in Subjects \ unclean' PROVE Progress(h)'
      BY <1>3, <1>4 DEF Progress
    <3>1. handler[h].subject \notin unclean
      BY Noted
    <3>2. SessionsOf(handler[h].subject)' \subseteq SessionsOf(handler[h].subject) \ {t}
      BY <1>2, <1>3, <1>4 DEF SessionsOf, SubjectOf, tokenVars
    <3> QED
      BY <1>1, <1>2, <1>3, <1>4, <3>1, <3>2 DEF HandlerOK, Progress, tokenVars
  <2> QED
    BY <2>1, <2>2, <2>3 DEF HandlerOK
<1>8. UNCHANGED <<tokenVars, members, families>> /\ live' \subseteq live
  BY <1>2 DEF indexVars
<1>9. ~LoggingIn(h)'
  BY <1>3, <1>4 DEF LoggingIn
<1> HIDE DEF w
<1> QED
  BY <1>3, <1>5, <1>6, <1>7, <1>8, <1>9, Frame

LEMMA DropFamilyStep ==
  ASSUME SessionsIInv, NEW h \in Handlers, DropFamily(h), Noting({})
  PROVE  SessionsIInv'
<1> DEFINE f == handler[h].family
           s == handler[h].subject
           at == IF handler[h].token = NoToken THEN "family" ELSE "unlink"
           w == [handler[h] EXCEPT !.at = at]
<1>1. SessionsTypeOK /\ handler[h] \in HandlerRecords /\ HandlerOK(h) /\ RowsOK
  BY DEF SessionsIInv, SessionsTypeOK
<1>2. /\ handler[h].at = "tokens" /\ handler[h].rest = {}
      /\ handler' = [handler EXCEPT ![h] = w]
      /\ members' = [members EXCEPT ![f] = {}]
      /\ UNCHANGED <<active, tokenVars, live, spent, families, known>>
  BY <1>1 DEF DropFamily, Goto, SessionsTypeOK
<1>3. f \in Families /\ s \in Subjects /\ s = subject[f]
  BY <1>1, <1>2 DEF SessionsTypeOK, RowsOK, HandlerOK, HandlerRows, LoggingIn
<1>4. handler'[h] = w /\ known'[h] = known[h] /\ \A k \in Handlers \ {h} : handler'[k] = handler[k] /\ known'[k] = known[k]
  BY <1>1, <1>2 DEF SessionsTypeOK
<1>5. /\ w \in HandlerRecords /\ w.at = at /\ w.rest = handler[h].rest
      /\ w.family = handler[h].family /\ w.token = handler[h].token
      /\ w.subject = handler[h].subject /\ w.todo = handler[h].todo
  BY <1>1 DEF HandlerRecords
<1>6. SessionsTypeOK'
  BY <1>1, <1>2, <1>3, <1>5 DEF SessionsTypeOK, tokenVars, Noting
<1>7. \A g \in Families : members'[g] \subseteq members[g] /\ (g # f => members'[g] = members[g])
  BY <1>1, <1>2, <1>3 DEF SessionsTypeOK
<1>8. unclean \subseteq unclean'
  BY Noted
<1>9. s \notin unclean => \A u \in SessionsOf(s) :
        /\ family[u] # f
        /\ handler[h].token = NoToken => family[u] \in handler[h].todo
  BY <1>1, <1>2, <1>3 DEF HandlerOK, HandlerRows, Progress
<1>10. SessionsFindable'
  <2> SUFFICES ASSUME NEW u \in live \cap held, SubjectOf(u) \notin unclean'
               PROVE  u \in members'[family[u]] /\ family[u] \in families[SubjectOf(u)]
    BY <1>2 DEF SessionsFindable, SubjectOf, tokenVars
  <2>1. u \in members[family[u]] /\ family[u] \in families[SubjectOf(u)]
    BY <1>8 DEF SessionsIInv, SessionsFindable
  <2>2. family[u] \in Families
    BY <1>1 DEF SessionsTypeOK, RowsOK
  <2>3. family[u] # f
    BY <1>3, <1>8, <1>9 DEF SessionsOf, SubjectOf
  <2> QED
    BY <1>7, <2>1, <2>2, <2>3
<1>11. HandlerOK(h)'
  <2>1. HandlerRows(h)'
    BY <1>1, <1>2, <1>3, <1>4, <1>5 DEF HandlerOK, HandlerRows, LoggingIn, tokenVars
  <2>2. Progress(h)'
    <3> SUFFICES ASSUME s \notin unclean'
                 PROVE  \A u \in SessionsOf(s) : IF at = "family" THEN family[u] \in handler[h].todo
                                                                  ELSE family[u] # f
      BY <1>2, <1>3, <1>4, <1>5 DEF Progress, SessionsOf, SubjectOf, tokenVars
    <3> QED
      BY <1>8, <1>9
  <2> QED
    BY <1>4, <1>5, <2>1, <2>2 DEF HandlerOK, SiblingsLeft
<1>12. ASSUME NEW k \in Handlers \ {h}, handler[k].at = "sibling"
       PROVE  members'[handler[k].family] \subseteq members[handler[k].family]
  <2>1. HandlerRows(k) /\ ~LoggingIn(k) /\ handler[k].token # NoToken
    BY <1>12 DEF SessionsIInv, HandlerOK, HandlerRows, LoggingIn
  <2>2. handler[k].token \in held /\ handler[k].family = family[handler[k].token]
    BY <2>1 DEF HandlerRows
  <2>3. handler[k].family \in Families
    BY <1>1, <2>2 DEF SessionsTypeOK, RowsOK
  <2> QED
    BY <1>7, <2>3
<1>13. ASSUME NEW k \in Handlers \ {h}, handler[k].at = "index",
              handler[k].subject \in Subjects \ unclean',
              handler[k].token \in members[handler[k].family]
       PROVE  handler[k].token \in members'[handler[k].family]
  <2>1. handler[k].family \in Families /\ handler[k].subject = subject[handler[k].family]
    BY <1>13 DEF SessionsIInv, HandlerOK, HandlerRows, LoggingIn
  <2>2. ASSUME handler[k].family = f PROVE FALSE
    <3>1. handler[k].subject = s /\ s \notin unclean
      BY <1>3, <1>8, <1>13, <2>1, <2>2
    <3>2. Revoking(h)
      BY <1>2 DEF Revoking
    <3> QED
      BY <1>3, <3>1, <3>2, Alone
  <2> QED
    BY <1>7, <1>13, <2>1, <2>2
<1>14. UNCHANGED tokenVars /\ live' \subseteq live /\ families' = families
  BY <1>2
<1>15. ~LoggingIn(h)'
  BY <1>4, <1>5 DEF LoggingIn
<1> HIDE DEF f, s, at, w
<1> QED
  BY <1>4, <1>6, <1>10, <1>11, <1>12, <1>13, <1>14, <1>15, Frame

LEMMA DropFamiliesStep ==
  ASSUME SessionsIInv, NEW h \in Handlers, DropFamilies(h), Noting({})
  PROVE  SessionsIInv'
<1> DEFINE s == handler[h].subject
           w == [handler[h] EXCEPT !.at = "revoked"]
<1>1. SessionsTypeOK /\ handler[h] \in HandlerRecords /\ HandlerOK(h) /\ RowsOK
  BY DEF SessionsIInv, SessionsTypeOK
<1>2. /\ handler[h].at = "family" /\ handler[h].todo = {}
      /\ handler' = [handler EXCEPT ![h] = w]
      /\ families' = [families EXCEPT ![s] = {}]
      /\ UNCHANGED <<active, tokenVars, live, spent, members, known>>
  BY <1>1 DEF DropFamilies, Goto, SessionsTypeOK
<1>3. s \in Subjects
  BY <1>1, <1>2 DEF HandlerOK, HandlerRows
<1>4. handler'[h] = w /\ known'[h] = known[h] /\ \A k \in Handlers \ {h} : handler'[k] = handler[k] /\ known'[k] = known[k]
  BY <1>1, <1>2 DEF SessionsTypeOK
<1>5. /\ w \in HandlerRecords /\ w.at = "revoked"
      /\ w.family = handler[h].family /\ w.token = handler[h].token
      /\ w.subject = handler[h].subject
  BY <1>1 DEF HandlerRecords
<1>6. SessionsTypeOK'
  BY <1>1, <1>2, <1>3, <1>5 DEF SessionsTypeOK, tokenVars, Noting
<1>7. \A r \in Subjects : families'[r] \subseteq families[r] /\ (r # s => families'[r] = families[r])
  BY <1>1, <1>2, <1>3 DEF SessionsTypeOK
<1>8. unclean \subseteq unclean'
  BY Noted
<1>9. s \notin unclean => SessionsOf(s) = {}
  BY <1>1, <1>2, <1>3 DEF HandlerOK, Progress
<1>10. SessionsFindable'
  <2> SUFFICES ASSUME NEW u \in live \cap held, SubjectOf(u) \notin unclean'
               PROVE  u \in members[family[u]] /\ family[u] \in families'[SubjectOf(u)]
    BY <1>2 DEF SessionsFindable, SubjectOf, tokenVars
  <2>1. u \in members[family[u]] /\ family[u] \in families[SubjectOf(u)]
    BY <1>8 DEF SessionsIInv, SessionsFindable
  <2>2. SubjectOf(u) \in Subjects
    BY <1>1 DEF SessionsTypeOK, RowsOK, SubjectOf
  <2>3. SubjectOf(u) # s
    BY <1>8, <1>9 DEF SessionsOf
  <2> QED
    BY <1>7, <2>1, <2>2, <2>3
<1>11. HandlerOK(h)'
  <2>1. HandlerRows(h)'
    BY <1>1, <1>2, <1>3, <1>4, <1>5 DEF HandlerOK, HandlerRows, LoggingIn, tokenVars
  <2>2. Progress(h)'
    BY <1>2, <1>3, <1>4, <1>5, <1>8, <1>9 DEF Progress, SessionsOf, SubjectOf, tokenVars
  <2> QED
    BY <1>4, <1>5, <2>1, <2>2 DEF HandlerOK, SiblingsLeft
<1>12. UNCHANGED <<tokenVars, live, members>>
  BY <1>2
<1>13. ~LoggingIn(h)'
  BY <1>4, <1>5 DEF LoggingIn
<1> HIDE DEF s, w
<1> QED
  BY <1>4, <1>6, <1>7, <1>10, <1>11, <1>12, <1>13, Frame

-----------------------------------------------------------------------------
(* Steps of no handler. *)

LEMMA ActivateStep ==
  ASSUME SessionsIInv, NEW s \in Subjects, Activate(s), Noting({})
  PROVE  SessionsIInv'
<1>1. UNCHANGED <<tokenVars, live, spent, indexVars, handler, known>> /\ active' = active \cup {s}
  BY DEF Activate
<1>2. SessionsTypeOK'
  BY <1>1 DEF SessionsIInv, SessionsTypeOK, tokenVars, indexVars, Noting
<1>3. SessionsFindable'
  BY <1>1, FindableStays DEF SessionsIInv
<1>4. {} \in SUBSET Handlers /\ UNCHANGED <<tokenVars, live, members, families, handler, known>>
  BY <1>1 DEF indexVars
<1> QED
  BY <1>2, <1>3, <1>4, Frame

LEMMA TokenExpiresStep ==
  ASSUME SessionsIInv, NEW t \in Tokens, TokenExpires(t), Noting({})
  PROVE  SessionsIInv'
<1>1. UNCHANGED <<active, tokenVars, spent, indexVars, handler, known>> /\ live' = live \ {t}
  BY DEF TokenExpires
<1>2. SessionsTypeOK'
  BY <1>1 DEF SessionsIInv, SessionsTypeOK, tokenVars, indexVars, Noting
<1>3. SessionsFindable'
  BY <1>1, FindableStays DEF SessionsIInv
<1>4. /\ {} \in SUBSET Handlers /\ UNCHANGED <<tokenVars, members, families, handler, known>>
      /\ live' \subseteq live
  BY <1>1 DEF indexVars
<1> QED
  BY <1>2, <1>3, <1>4, Frame

LEMMA FamiliesExpireStep ==
  ASSUME SessionsIInv, NEW s \in Subjects, FamiliesExpire(s), Noting({s})
  PROVE  SessionsIInv'
<1>1. /\ UNCHANGED <<active, tokenVars, live, spent, members, handler, known>>
      /\ families' = [families EXCEPT ![s] = {}]
  BY DEF FamiliesExpire
<1>2. SessionsTypeOK /\ RowsOK
  BY DEF SessionsIInv
<1>3. SessionsTypeOK'
  BY <1>1, <1>2 DEF SessionsTypeOK, tokenVars, Noting
<1>4. unclean \cup {s} \subseteq unclean'
  BY DEF Noting
<1>5. \A r \in Subjects : families'[r] \subseteq families[r] /\ (r # s => families'[r] = families[r])
  BY <1>1, <1>2 DEF SessionsTypeOK
<1>6. SessionsFindable'
  <2> SUFFICES ASSUME NEW u \in live \cap held, SubjectOf(u) \notin unclean'
               PROVE  u \in members[family[u]] /\ family[u] \in families'[SubjectOf(u)]
    BY <1>1 DEF SessionsFindable, SubjectOf, tokenVars
  <2>1. u \in members[family[u]] /\ family[u] \in families[SubjectOf(u)]
    BY <1>4 DEF SessionsIInv, SessionsFindable
  <2>2. SubjectOf(u) \in Subjects /\ SubjectOf(u) # s
    BY <1>2, <1>4 DEF SessionsTypeOK, RowsOK, SubjectOf
  <2> QED
    BY <1>5, <2>1, <2>2
<1>7. {} \in SUBSET Handlers
  OBVIOUS
<1> QED
  BY <1>1, <1>3, <1>5, <1>6, <1>7, Frame

-----------------------------------------------------------------------------
(* Steps that issue a token. *)

\* What k knows, when h issues a token of its own subject.
LEMMA Beside ==
  ASSUME SessionsIInv, NEW h \in Handlers, NEW k \in Handlers \ {h}, Noting({}),
         handler'[k] = handler[k], known'[k] = known[k],
         \A t \in Tokens : family[t] # NoFamily => family'[t] = family[t],
         \A f \in Families : subject[f] \in Subjects => subject'[f] = subject[f],
         held \subseteq held', held' \in SUBSET Tokens, live' \in SUBSET Tokens,
         \A t \in live' : family[t] # NoFamily => t \in live,
         \A t \in live' \cap held' :
           t \in live \cap held \/ subject'[family'[t]] = handler[h].subject,
         LoggingIn(k) =>
           /\ handler[k].token \notin held'
           /\ \A t \in Tokens : family'[t] = handler[k].family => family[t] = handler[k].family,
         handler[k].at = "sibling" =>
           known[k] \cap members'[handler[k].family] \subseteq members[handler[k].family],
         handler[k].at = "index" =>
           (handler[k].token \in members[handler[k].family] =>
              handler[k].token \in members'[handler[k].family])
  PROVE  HandlerOK(k)'
<1>1. SessionsTypeOK /\ RowsOK /\ HandlerOK(k) /\ handler[k] \in HandlerRecords
  BY DEF SessionsIInv, SessionsTypeOK
<1>2. HandlerRows(k)
  BY <1>1 DEF HandlerOK
<1>3. known[k] \in SUBSET Tokens /\ handler[k].todo \in SUBSET Families
  BY <1>1 DEF SessionsTypeOK, HandlerRecords
<1>4. NoSubject \notin Subjects /\ NoFamily \notin Families
  BY NobodyAssumption
<1>5. HandlerRows(k)'
  <2>1. handler[k].at \in {"idle", "create", "all", "family", "revoked"} =>
          handler[k].token = NoToken
    BY <1>2 DEF HandlerRows
  <2>2. handler[k].at \in {"account", "resolve", "rotate", "reuse", "sibling", "unlink", "logout"} =>
          handler[k].token # NoToken
    BY <1>2 DEF HandlerRows
  <2>3. LoggingIn(k) =>
          /\ handler[k].token \in Tokens \ held'
          /\ handler[k].family \in Families
          /\ handler[k].subject \in Subjects
          /\ subject'[handler[k].family] = handler[k].subject
          /\ \A t \in Tokens : family'[t] = handler[k].family <=> t = handler[k].token
    BY <1>2, <1>4 DEF HandlerRows
  <2>4. ~LoggingIn(k) /\ handler[k].token # NoToken =>
          /\ handler[k].token \in held'
          /\ handler[k].family = family'[handler[k].token]
          /\ handler[k].subject = subject'[handler[k].family]
    <3> SUFFICES ASSUME ~LoggingIn(k), handler[k].token # NoToken
                 PROVE  /\ handler[k].token \in held'
                        /\ handler[k].family = family'[handler[k].token]
                        /\ handler[k].subject = subject'[handler[k].family]
      OBVIOUS
    <3>1. /\ handler[k].token \in held
          /\ handler[k].family = family[handler[k].token]
          /\ handler[k].subject = subject[handler[k].family]
      BY <1>2 DEF HandlerRows
    <3>2. family[handler[k].token] # NoFamily /\ handler[k].subject \in Subjects
          /\ handler[k].family \in Families /\ handler[k].token \in Tokens
      BY <1>1, <3>1 DEF RowsOK, SessionsTypeOK
    <3> QED
      BY <3>1, <3>2
  <2>5. handler[k].at \in {"create", "all", "family", "revoked"} => handler[k].subject \in Subjects
    BY <1>2 DEF HandlerRows
  <2>6. handler[k].at = "tokens" /\ handler[k].token = NoToken =>
          /\ handler[k].subject \in Subjects
          /\ handler[k].family \in Families \ handler[k].todo
          /\ handler[k].subject = subject'[handler[k].family]
    BY <1>2 DEF HandlerRows
  <2>7. handler[k].at \in {"family", "tokens"} /\ handler[k].token = NoToken =>
          \A f \in handler[k].todo : subject'[f] = handler[k].subject
    BY <1>2, <1>3 DEF HandlerRows
  <2>8. \A t \in known[k] : family'[t] # NoFamily
    BY <1>2, <1>3 DEF HandlerRows
  <2> QED
    BY <2>1, <2>2, <2>3, <2>4, <2>5, <2>6, <2>7, <2>8 DEF HandlerRows, LoggingIn
<1>6. SiblingsLeft(k)'
  <2>1. known[k] \cap live' \subseteq live
    BY <1>2, <1>3 DEF HandlerRows
  <2> QED
    BY <1>1, <2>1 DEF HandlerOK, SiblingsLeft
<1>7. Progress(k)'
  <2> SUFFICES ASSUME handler[k].subject \in Subjects, handler[k].subject \notin unclean'
               PROVE  Progress(k)'
    BY DEF Progress
  <2>1. handler[k].subject \notin unclean
    BY Noted
  <2>2. CASE handler[k].at = "index"
    <3>1. handler[k].token \in Tokens /\ family[handler[k].token] # NoFamily
      BY <1>2, <1>4, <2>2 DEF HandlerRows, LoggingIn
    <3> QED
      BY <1>1, <2>1, <2>2, <3>1 DEF HandlerOK, Progress
  <2>3. CASE Revoking(k)
    <3>1. handler[h].subject # handler[k].subject
      BY <2>1, <2>3, Alone
    <3>2. ASSUME NEW t \in SessionsOf(handler[k].subject)'
          PROVE  t \in SessionsOf(handler[k].subject) /\ family'[t] = family[t]
      <4>1. t \in live' \cap held' /\ subject'[family'[t]] = handler[k].subject
        BY DEF SessionsOf, SubjectOf
      <4>2. t \in live \cap held
        BY <3>1, <4>1
      <4>3. family[t] # NoFamily /\ family[t] \in Families /\ subject[family[t]] \in Subjects
        BY <1>1, <4>2 DEF RowsOK, SessionsTypeOK
      <4>4. family'[t] = family[t] /\ subject'[family[t]] = subject[family[t]]
        BY <4>1, <4>3
      <4> QED
        BY <4>1, <4>2, <4>4 DEF SessionsOf, SubjectOf
    <3> QED
      BY <1>1, <2>1, <2>3, <3>2 DEF HandlerOK, Progress, Revoking
  <2>4. CASE handler[k].at # "index" /\ ~Revoking(k)
    BY <2>4 DEF Progress, Revoking
  <2> QED
    BY <2>2, <2>3, <2>4
<1> QED
  BY <1>5, <1>6, <1>7 DEF HandlerOK

LEMMA CreateTokenStep ==
  ASSUME SessionsIInv, NEW h \in Handlers, NEW f \in Families, NEW t \in Tokens,
         CreateToken(h, f, t), Noting({})
  PROVE  SessionsIInv'
<1> DEFINE s == handler[h].subject
           w == Doing("link", s, f, t)
<1>1. SessionsTypeOK /\ handler[h] \in HandlerRecords /\ HandlerOK(h) /\ RowsOK
  BY DEF SessionsIInv, SessionsTypeOK
<1>2. /\ handler[h].at = "create" /\ subject[f] = NoSubject /\ family[t] = NoFamily
      /\ subject' = [subject EXCEPT ![f] = s] /\ family' = [family EXCEPT ![t] = f]
      /\ live' = live \cup {t} /\ roots' = roots \cup {t}
      /\ handler' = [handler EXCEPT ![h] = w]
      /\ UNCHANGED <<active, held, spent, indexVars, known>>
  BY DEF CreateToken
<1>3. s \in Subjects /\ NoSubject \notin Subjects /\ NoFamily \notin Families
  BY <1>1, <1>2, NobodyAssumption DEF HandlerOK, HandlerRows
<1>4. /\ w \in HandlerRecords /\ w.at = "link" /\ w.subject = s /\ w.family = f /\ w.token = t
  BY <1>3 DEF Doing, HandlerRecords
<1>5. handler'[h] = w /\ known'[h] = known[h] /\ \A k \in Handlers \ {h} : handler'[k] = handler[k] /\ known'[k] = known[k]
  BY <1>1, <1>2 DEF SessionsTypeOK
<1>6. SessionsTypeOK'
  BY <1>1, <1>2, <1>3, <1>4 DEF SessionsTypeOK, indexVars, Noting
<1>7. t \notin held /\ t \notin live
  BY <1>1, <1>2 DEF RowsOK
<1>8. /\ family'[t] = f /\ subject'[f] = s
      /\ \A u \in Tokens \ {t} : family'[u] = family[u] /\ family[u] # f
      /\ \A g \in Families \ {f} : subject'[g] = subject[g]
  BY <1>1, <1>2, <1>3 DEF SessionsTypeOK, RowsOK
<1>9. RowsOK'
  <2>1. \A u \in Tokens : family'[u] # NoFamily => subject'[family'[u]] \in Subjects
    BY <1>1, <1>3, <1>8 DEF RowsOK, SessionsTypeOK
  <2>2. \A u \in live' \cup held' : family'[u] # NoFamily
    BY <1>1, <1>2, <1>3, <1>8 DEF RowsOK, SessionsTypeOK
  <2>3. \A r \in Subjects : \A g \in families'[r] : subject'[g] = r
    BY <1>1, <1>2, <1>3, <1>8 DEF RowsOK, SessionsTypeOK, indexVars
  <2> QED
    BY <2>1, <2>2, <2>3 DEF RowsOK
<1>10. LoginsApart'
  <2>1. ASSUME NEW k \in Handlers \ {h}, LoggingIn(k)' PROVE handler'[k].token # t
    <3>1. HandlerRows(k) /\ LoggingIn(k) /\ handler'[k].token = handler[k].token
      BY <1>5, <2>1 DEF SessionsIInv, HandlerOK, LoggingIn
    <3>2. family[handler[k].token] \in Families
      BY <3>1 DEF HandlerRows
    <3> QED
      BY <1>2, <1>3, <3>1, <3>2
  <2>2. handler'[h].token = t
    BY <1>4, <1>5
  <2>3. ASSUME NEW j \in Handlers \ {h}, NEW k \in Handlers \ {h}, LoggingIn(j)', LoggingIn(k)',
               handler'[j].token = handler'[k].token
        PROVE  j = k
    BY <1>5, <2>3 DEF SessionsIInv, LoginsApart, LoggingIn
  <2> QED
    BY <2>1, <2>2, <2>3 DEF LoginsApart
<1>11. OneLiveToken'
  <2> SUFFICES ASSUME NEW u \in live', NEW v \in live', family'[u] = family'[v]
               PROVE  u = v
    BY DEF OneLiveToken
  <2>1. u \in Tokens /\ v \in Tokens
    BY <1>6 DEF SessionsTypeOK
  <2> QED
    BY <1>2, <1>8, <2>1 DEF SessionsIInv, OneLiveToken
<1>12. SessionsFindable'
  <2> SUFFICES ASSUME NEW u \in live' \cap held', SubjectOf(u)' \notin unclean'
               PROVE  u \in members'[family'[u]] /\ family'[u] \in families'[SubjectOf(u)']
    BY DEF SessionsFindable
  <2>1. u \in live \cap held /\ u # t /\ u \in Tokens
    BY <1>1, <1>2, <1>7 DEF SessionsTypeOK
  <2>2. family'[u] = family[u] /\ family[u] # f /\ family[u] \in Families
    BY <1>1, <1>8, <2>1 DEF RowsOK, SessionsTypeOK
  <2>3. SubjectOf(u)' = SubjectOf(u)
    BY <1>8, <2>2 DEF SubjectOf
  <2>4. unclean \subseteq unclean'
    BY Noted
  <2> QED
    BY <1>2, <2>1, <2>2, <2>3, <2>4 DEF SessionsIInv, SessionsFindable, indexVars
<1>13. ASSUME NEW k \in Handlers \ {h} PROVE HandlerOK(k)'
  <2>1. HandlerRows(k)
    BY DEF SessionsIInv, HandlerOK
  <2>2. \A u \in Tokens : family[u] # NoFamily => family'[u] = family[u]
    BY <1>2, <1>8
  <2>3. \A g \in Families : subject[g] \in Subjects => subject'[g] = subject[g]
    BY <1>2, <1>3, <1>8
  <2>4. /\ held' = held /\ held \in SUBSET Tokens /\ live' \in SUBSET Tokens
        /\ members' = members
    BY <1>1, <1>2 DEF SessionsTypeOK, indexVars
  <2>5. \A u \in live' : family[u] # NoFamily => u \in live
    BY <1>2
  <2>6. \A u \in live' \cap held' : u \in live \cap held
    BY <1>2, <1>7
  <2>7. LoggingIn(k) =>
          /\ handler[k].token \notin held
          /\ \A u \in Tokens : family'[u] = handler[k].family => family[u] = handler[k].family
    <3> SUFFICES ASSUME LoggingIn(k)
                 PROVE  /\ handler[k].token \notin held
                        /\ handler[k].family # f
      BY <1>8
    <3> QED
      BY <1>2, <1>3, <2>1 DEF HandlerRows
  <2> QED
    BY <1>5, <2>2, <2>3, <2>4, <2>5, <2>6, <2>7, Beside
<1>14. HandlerOK(h)'
  <2>1. \A u \in known[h] : family'[u] # NoFamily
    BY <1>1, <1>2, <1>8 DEF HandlerOK, HandlerRows, SessionsTypeOK
  <2>2. HandlerRows(h)'
    BY <1>2, <1>3, <1>4, <1>5, <1>7, <1>8, <2>1 DEF HandlerRows, LoggingIn
  <2> QED
    BY <1>4, <1>5, <2>2 DEF HandlerOK, SiblingsLeft, Progress
<1>15. Overlapped'
  BY Noted
<1> QED
  BY <1>6, <1>9, <1>10, <1>11, <1>12, <1>13, <1>14, <1>15 DEF SessionsIInv

LEMMA LinkFamilyStep ==
  ASSUME SessionsIInv, NEW h \in Handlers, LinkFamily(h), Noting({})
  PROVE  SessionsIInv'
<1> DEFINE s == handler[h].subject
           f == handler[h].family
           t == handler[h].token
<1>1. SessionsTypeOK /\ handler[h] \in HandlerRecords /\ HandlerOK(h) /\ RowsOK
  BY DEF SessionsIInv, SessionsTypeOK
<1>2. /\ handler[h].at = "index"
      /\ families' = [families EXCEPT ![s] = @ \cup {f}]
      /\ held' = held \cup {t}
      /\ handler' = [handler EXCEPT ![h] = Idle]
      /\ UNCHANGED <<active, subject, family, roots, live, spent, members, known>>
  BY DEF LinkFamily, End
<1>3. /\ LoggingIn(h) /\ t \in Tokens \ held /\ f \in Families /\ s \in Subjects
      /\ subject[f] = s /\ \A u \in Tokens : family[u] = f <=> u = t
  BY <1>1, <1>2 DEF HandlerOK, HandlerRows, LoggingIn
<1>4. family[t] = f /\ f # NoFamily
  BY <1>3, NobodyAssumption
<1>5. handler'[h] = Idle /\ known'[h] = known[h] /\ \A k \in Handlers \ {h} : handler'[k] = handler[k] /\ known'[k] = known[k]
  BY <1>1, <1>2 DEF SessionsTypeOK
<1>6. SessionsTypeOK'
  BY <1>1, <1>2, <1>3, IdleIsARecord DEF SessionsTypeOK, Noting
<1>7. \A r \in Subjects : families[r] \subseteq families'[r] /\ (r # s => families'[r] = families[r])
      /\ families'[s] = families[s] \cup {f}
  BY <1>1, <1>2, <1>3 DEF SessionsTypeOK
<1>8. RowsOK'
  <2>1. \A u \in live' \cup held' : family'[u] # NoFamily
    BY <1>1, <1>2, <1>4 DEF RowsOK
  <2>2. \A r \in Subjects : \A g \in families'[r] : subject'[g] = r
    BY <1>1, <1>2, <1>3, <1>7 DEF RowsOK
  <2> QED
    BY <1>1, <1>2, <2>1, <2>2 DEF RowsOK
<1>9. LoginsApart'
  <2>1. ~LoggingIn(h)'
    BY <1>5, IdleFields DEF LoggingIn
  <2> QED
    BY <1>5, <2>1 DEF SessionsIInv, LoginsApart, LoggingIn
<1>10. OneLiveToken'
  BY <1>2 DEF SessionsIInv, OneLiveToken
<1>11. SessionsFindable'
  <2> SUFFICES ASSUME NEW u \in live \cap held', SubjectOf(u) \notin unclean'
               PROVE  u \in members[family[u]] /\ family[u] \in families'[SubjectOf(u)]
    BY <1>2 DEF SessionsFindable, SubjectOf
  <2>1. unclean \subseteq unclean'
    BY Noted
  <2>2. CASE u = t
    <3>1. SubjectOf(u) = s
      BY <1>3, <1>4, <2>2 DEF SubjectOf
    <3>2. t \in members[f]
      BY <1>1, <1>2, <1>3, <2>1, <2>2, <3>1 DEF HandlerOK, Progress
    <3> QED
      BY <1>3, <1>4, <1>7, <2>2, <3>1, <3>2
  <2>3. CASE u # t
    <3>1. u \in live \cap held
      BY <1>2, <2>3
    <3>2. SubjectOf(u) \in Subjects
      BY <1>1, <3>1 DEF RowsOK, SessionsTypeOK, SubjectOf
    <3>3. u \in members[family[u]] /\ family[u] \in families[SubjectOf(u)]
      BY <2>1, <3>1 DEF SessionsIInv, SessionsFindable
    <3>4. families[SubjectOf(u)] \subseteq families'[SubjectOf(u)]
      BY <1>7, <3>2
    <3> QED
      BY <3>3, <3>4
  <2> QED
    BY <2>2, <2>3
<1>12. ASSUME NEW k \in Handlers \ {h} PROVE HandlerOK(k)'
  <2>1. LoggingIn(k) => handler[k].token # t
    BY <1>3 DEF SessionsIInv, LoginsApart
  <2>2. LoggingIn(k) => handler[k].token \notin held'
    BY <1>2, <2>1 DEF SessionsIInv, HandlerOK, HandlerRows
  <2>3. held \subseteq held' /\ held' \in SUBSET Tokens /\ live' \in SUBSET Tokens
    BY <1>2, <1>6 DEF SessionsTypeOK
  <2>4. \A u \in live' \cap held' : u \in live \cap held \/ subject'[family'[u]] = handler[h].subject
    BY <1>2, <1>3, <1>4
  <2> QED
    BY <1>2, <1>5, <2>2, <2>3, <2>4, Beside
<1>13. HandlerOK(h)'
  BY <1>2, <1>5, IdleOK
<1>14. Overlapped'
  BY Noted
<1> QED
  BY <1>6, <1>8, <1>9, <1>10, <1>11, <1>12, <1>13, <1>14 DEF SessionsIInv

LEMMA RotateStep ==
  ASSUME SessionsIInv, NEW h \in Handlers, NEW n \in Tokens, Rotate(h, n), Noting({})
  PROVE  SessionsIInv'
<1> DEFINE s == handler[h].subject
           f == handler[h].family
           t == handler[h].token
<1>1. SessionsTypeOK /\ handler[h] \in HandlerRecords /\ HandlerOK(h) /\ RowsOK
  BY DEF SessionsIInv, SessionsTypeOK
<1>2. /\ handler[h].at = "rotate" /\ t \in live /\ family[n] = NoFamily
      /\ family' = [family EXCEPT ![n] = f]
      /\ live' = (live \ {t}) \cup {n} /\ spent' = spent \cup {t}
      /\ members' = [members EXCEPT ![f] = (@ \ {t}) \cup {n}]
      /\ held' = held \cup {n}
      /\ handler' = [handler EXCEPT ![h] = Idle]
      /\ UNCHANGED <<active, subject, roots, families, known>>
  BY DEF Rotate, Replace, End
<1>3. t \in held /\ f = family[t] /\ s = subject[f]
  BY <1>1, <1>2 DEF HandlerOK, HandlerRows, LoggingIn
<1>4. /\ t \in Tokens /\ f \in Families /\ s \in Subjects /\ NoFamily \notin Families
      /\ n \notin live /\ n \notin held
  BY <1>1, <1>2, <1>3, NobodyAssumption DEF RowsOK, SessionsTypeOK
<1>5. handler'[h] = Idle /\ known'[h] = known[h] /\ \A k \in Handlers \ {h} : handler'[k] = handler[k] /\ known'[k] = known[k]
  BY <1>1, <1>2 DEF SessionsTypeOK
<1>6. SessionsTypeOK'
  BY <1>1, <1>2, <1>4, IdleIsARecord DEF SessionsTypeOK, Noting
<1>7. /\ family'[n] = f /\ \A u \in Tokens \ {n} : family'[u] = family[u]
      /\ members'[f] = (members[f] \ {t}) \cup {n}
      /\ \A g \in Families \ {f} : members'[g] = members[g]
  BY <1>1, <1>2, <1>4 DEF SessionsTypeOK
<1>8. RowsOK'
  <2>1. \A u \in Tokens : family'[u] # NoFamily => subject'[family'[u]] \in Subjects
    BY <1>1, <1>2, <1>3, <1>4, <1>7 DEF RowsOK
  <2>2. \A u \in live' \cup held' : family'[u] # NoFamily
    BY <1>1, <1>2, <1>4, <1>7 DEF RowsOK, SessionsTypeOK
  <2> QED
    BY <1>1, <1>2, <2>1, <2>2 DEF RowsOK
<1>9. LoginsApart'
  <2>1. ~LoggingIn(h)'
    BY <1>5, IdleFields DEF LoggingIn
  <2> QED
    BY <1>5, <2>1 DEF SessionsIInv, LoginsApart, LoggingIn
<1>10. OneLiveToken'
  <2> SUFFICES ASSUME NEW u \in live', NEW v \in live', family'[u] = family'[v]
               PROVE  u = v
    BY DEF OneLiveToken
  <2>1. u \in Tokens /\ v \in Tokens
    BY <1>6 DEF SessionsTypeOK
  <2>2. \A x \in live' : x # n => x \in live /\ x # t
    BY <1>2
  <2>3. \A x \in live : family[x] = f => x = t
    BY <1>2, <1>3 DEF SessionsIInv, OneLiveToken
  <2>4. CASE u # n /\ v # n
    BY <1>7, <2>1, <2>2, <2>4 DEF SessionsIInv, OneLiveToken
  <2>5. CASE u = n \/ v = n
    BY <1>7, <2>1, <2>2, <2>3, <2>5
  <2> QED
    BY <2>4, <2>5
<1>11. SessionsFindable'
  <2> SUFFICES ASSUME NEW u \in live' \cap held', SubjectOf(u)' \notin unclean'
               PROVE  u \in members'[family'[u]] /\ family'[u] \in families'[SubjectOf(u)']
    BY DEF SessionsFindable
  <2>1. unclean \subseteq unclean'
    BY Noted
  <2>2. CASE u = n
    <3>1. SubjectOf(u)' = s /\ SubjectOf(t) = s
      BY <1>2, <1>3, <1>7, <2>2 DEF SubjectOf
    <3>2. f \in families[s]
      BY <1>2, <1>3, <2>1, <3>1 DEF SessionsIInv, SessionsFindable
    <3> QED
      BY <1>2, <1>7, <2>2, <3>1, <3>2
  <2>3. CASE u # n
    <3>1. u \in live \cap held /\ u # t /\ u \in Tokens
      BY <1>1, <1>2, <2>3 DEF SessionsTypeOK
    <3>2. family'[u] = family[u] /\ family[u] \in Families
      BY <1>1, <1>7, <2>3, <3>1 DEF RowsOK, SessionsTypeOK
    <3>3. SubjectOf(u)' = SubjectOf(u)
      BY <1>2, <3>2 DEF SubjectOf
    <3>4. u \in members[family[u]] /\ family[u] \in families[SubjectOf(u)]
      BY <2>1, <3>1, <3>3 DEF SessionsIInv, SessionsFindable
    <3> QED
      BY <1>2, <1>7, <3>1, <3>2, <3>3, <3>4
  <2> QED
    BY <2>2, <2>3
<1>12. ASSUME NEW k \in Handlers \ {h} PROVE HandlerOK(k)'
  <2>1. HandlerRows(k)
    BY DEF SessionsIInv, HandlerOK
  <2>2. \A u \in Tokens : family[u] # NoFamily => family'[u] = family[u]
    BY <1>2, <1>7
  <2>3. held \subseteq held' /\ held' \in SUBSET Tokens /\ live' \in SUBSET Tokens
    BY <1>2, <1>6 DEF SessionsTypeOK
  <2>4. \A u \in live' : family[u] # NoFamily => u \in live
    BY <1>2
  <2>5. \A u \in live' \cap held' : u \in live \cap held \/ subject'[family'[u]] = handler[h].subject
    BY <1>2, <1>3, <1>7
  <2>6. LoggingIn(k) => handler[k].family # f /\ handler[k].token # n /\ handler[k].token \notin held
                        /\ handler[k].family \in Families
    BY <1>2, <1>3, <1>4, <2>1 DEF HandlerRows
  <2>7. LoggingIn(k) =>
          /\ handler[k].token \notin held'
          /\ \A u \in Tokens : family'[u] = handler[k].family => family[u] = handler[k].family
    BY <1>2, <1>7, <2>6
  <2>8. n \notin known[k]
    BY <1>2, <2>1 DEF HandlerRows
  <2>9. handler[k].at = "sibling" =>
          known[k] \cap members'[handler[k].family] \subseteq members[handler[k].family]
    <3> SUFFICES ASSUME handler[k].at = "sibling"
                 PROVE  known[k] \cap members'[handler[k].family] \subseteq members[handler[k].family]
      OBVIOUS
    <3>1. handler[k].token \in held /\ handler[k].family = family[handler[k].token]
      BY <2>1 DEF HandlerRows, LoggingIn
    <3>2. handler[k].family \in Families
      BY <1>1, <3>1 DEF RowsOK, SessionsTypeOK
    <3> QED
      BY <1>7, <2>8, <3>2
  <2>10. handler[k].at = "index" =>
           (handler[k].token \in members[handler[k].family] =>
              handler[k].token \in members'[handler[k].family])
    BY <1>7, <2>6 DEF LoggingIn
  <2>11. subject' = subject
    BY <1>2
  <2> QED
    BY <1>5, <2>2, <2>3, <2>4, <2>5, <2>7, <2>9, <2>10, <2>11, Beside
<1>13. HandlerOK(h)'
  <2>1. handler'[h].at = "idle" /\ handler'[h].token = NoToken
    BY <1>5, IdleFields
  <2>2. \A u \in known[h] : family'[u] # NoFamily
    BY <1>1, <1>2, <1>7 DEF HandlerOK, HandlerRows, SessionsTypeOK
  <2> QED
    BY <1>5, <2>1, <2>2 DEF HandlerOK, HandlerRows, SiblingsLeft, Progress, LoggingIn
<1>14. Overlapped'
  BY Noted
<1> QED
  BY <1>6, <1>8, <1>9, <1>10, <1>11, <1>12, <1>13, <1>14 DEF SessionsIInv

-----------------------------------------------------------------------------
(* The theorems. *)

LEMMA SessionsStep == SessionsIInv /\ [SessionsNext]_sessionVars => SessionsIInv'
<1> SUFFICES ASSUME SessionsIInv, [SessionsNext]_sessionVars PROVE SessionsIInv'
  OBVIOUS
<1>1. ASSUME NEW h \in Handlers, LoginStep(h), Noting({}) PROVE SessionsIInv'
  BY <1>1, BeginWithSubject, CreateTokenStep, LinkTokenStep, LinkFamilyStep DEF LoginStep
<1>2. ASSUME NEW h \in Handlers, RefreshStep(h), Noting({}) PROVE SessionsIInv'
  <2>1. ASSUME NEW t \in Tokens, Refresh(h, t) \/ Rotate(h, t) \/ CheckSibling(h, t)
        PROVE  SessionsIInv'
    BY <1>2, <2>1, BeginWithToken, RotateStep, CheckSiblingStep
  <2>2. CASE CheckAccount(h) \/ Resolve(h) \/ RotateLate(h)
    BY <1>2, <2>2, CheckAccountStep, ResolveStep, RotateLateStep
  <2>3. CASE NoticeReuse(h) \/ Condemn(h) \/ UnlinkFamily(h)
    BY <1>2, <2>3, NoticeReuseStep, CondemnStep, UnlinkFamilyStep
  <2> QED
    BY <1>2, <2>1, <2>2, <2>3 DEF RefreshStep
<1>3. ASSUME NEW h \in Handlers, RevokeStep(h), Noting({}) PROVE SessionsIInv'
  <2>1. ASSUME NEW t \in Tokens, Logout(h, t) \/ RevokeMember(h, t) PROVE SessionsIInv'
    BY <1>3, <2>1, BeginWithToken, RevokeMemberStep
  <2>2. ASSUME NEW s \in Subjects, RevokeAll(h, s) PROVE SessionsIInv'
    BY <1>3, <2>2, BeginWithSubject
  <2>3. ASSUME NEW f \in Families, RevokeFamily(h, f) PROVE SessionsIInv'
    BY <1>3, <2>3, RevokeFamilyStep
  <2>4. CASE RevokeToken(h) \/ ReadFamilies(h)
    BY <1>3, <2>4, RevokeTokenStep, ReadFamiliesStep
  <2>5. CASE DropFamily(h) \/ DropFamilies(h)
    BY <1>3, <2>5, DropFamilyStep, DropFamiliesStep
  <2>6. CASE Revoked(h) \/ Dies(h)
    BY <1>3, <2>6, StoppingStep
  <2> QED
    BY <1>3, <2>1, <2>2, <2>3, <2>4, <2>5, <2>6 DEF RevokeStep
<1>4. CASE UNCHANGED sessionVars
  BY <1>4 DEF sessionVars, tokenVars, indexVars, SessionsIInv, SessionsTypeOK, RowsOK, LoginsApart,
              LoggingIn, OneLiveToken, Overlapped, Overlap, Revoking, SessionsFindable, SubjectOf,
              HandlerOK, HandlerRows, SiblingsLeft, Progress, SessionsOf
<1> QED
  BY <1>1, <1>2, <1>3, <1>4, ActivateStep, TokenExpiresStep, FamiliesExpireStep DEF SessionsNext

LEMMA SessionsInvariant == SessionsSpec => []SessionsIInv
BY SessionsInitial, SessionsStep, PTL DEF SessionsSpec

\* Records, marks, sets and handlers keep their types.
THEOREM SessionsTypeCorrect == SessionsSpec => []SessionsTypeOK
<1>1. SessionsIInv => SessionsTypeOK
  BY DEF SessionsIInv
<1> QED
  BY <1>1, SessionsInvariant, PTL

\* A family never has two live tokens: the rotation script tests and replaces in
\* one step what the requests before it only read.
THEOREM FamiliesHaveOneToken == SessionsSpec => []OneLiveToken
<1>1. SessionsIInv => OneLiveToken
  BY DEF SessionsIInv
<1> QED
  BY <1>1, SessionsInvariant, PTL

\* The sets that revocations read lead to every live token that a browser holds,
\* unless a revocation met another request of its subject or the subject's set
\* ran out.
THEOREM RevocationsCanFind == SessionsSpec => []SessionsFindable
<1>1. SessionsIInv => SessionsFindable
  BY DEF SessionsIInv
<1> QED
  BY <1>1, SessionsInvariant, PTL

\* revokeAllForSubject leaves no token live, on the same terms.
THEOREM RevocationsAreComplete == SessionsSpec => []UndisturbedRevocationIsComplete
<1>1. SessionsIInv => UndisturbedRevocationIsComplete
  <2> SUFFICES ASSUME SessionsIInv, NEW h \in Handlers, handler[h].at = "revoked",
                      handler[h].subject \notin unclean
               PROVE  ~\E t \in live \cap held : SubjectOf(t) = handler[h].subject
    BY DEF UndisturbedRevocationIsComplete
  <2>1. HandlerRows(h) /\ Progress(h)
    BY DEF SessionsIInv, HandlerOK
  <2>2. SessionsOf(handler[h].subject) = {}
    BY <2>1 DEF HandlerRows, Progress
  <2> QED
    BY <2>2 DEF SessionsOf
<1> QED
  BY <1>1, SessionsInvariant, PTL

\* handleReuse revokes no token that was live when the reuse was noticed.
THEOREM ReusesSpareSessions == SessionsSpec => []ReuseSparesSession
<1>1. SessionsIInv => ReuseSparesSession
  BY DEF SessionsIInv, HandlerOK, SiblingsLeft, ReuseSparesSession
<1> QED
  BY <1>1, SessionsInvariant, PTL

-----------------------------------------------------------------------------
(* Sessions are lineages. *)

Issued == [f \in Families |-> TokensOf(f)]
Good == [f \in Families |-> live \cap TokensOf(f)]

\* Logins and rotations issue tokens; all else takes one from the live, or none.
LEMMA TokensMove ==
  ASSUME [SessionsNext]_sessionVars
  PROVE  \/ \E h \in Handlers, f \in Families, t \in Tokens : CreateToken(h, f, t)
         \/ \E h \in Handlers, n \in Tokens : Rotate(h, n)
         \/ UNCHANGED family /\ \E t : live' = live \ {t}
         \/ UNCHANGED <<family, live>>
<1> DEFINE Goal == \/ \E h \in Handlers, f \in Families, t \in Tokens : CreateToken(h, f, t)
                   \/ \E h \in Handlers, n \in Tokens : Rotate(h, n)
                   \/ UNCHANGED family /\ \E t : live' = live \ {t}
                   \/ UNCHANGED <<family, live>>
<1> USE DEF tokenVars, indexVars
<1>1. ASSUME NEW h \in Handlers, LoginStep(h) PROVE Goal
  BY <1>1 DEF LoginStep, Login, LinkToken, LinkFamily
<1>2. ASSUME NEW h \in Handlers, RefreshStep(h) PROVE Goal
  BY <1>2 DEF RefreshStep, Refresh, CheckSibling, CheckAccount, Resolve, RotateLate, NoticeReuse,
              Condemn, UnlinkFamily
<1>3. ASSUME NEW h \in Handlers, RevokeStep(h) PROVE Goal
  <2>1. CASE RevokeToken(h)
    BY <2>1 DEF RevokeToken, Revoke
  <2>2. ASSUME NEW t \in Tokens, RevokeMember(h, t) PROVE Goal
    BY <2>2 DEF RevokeMember, Revoke
  <2> QED
    BY <1>3, <2>1, <2>2
       DEF RevokeStep, Logout, RevokeAll, RevokeFamily, ReadFamilies, DropFamily, DropFamilies,
           Revoked, Dies
<1>4. ASSUME NEW s \in Subjects, Activate(s) \/ FamiliesExpire(s) PROVE Goal
  BY <1>4 DEF Activate, FamiliesExpire
<1>5. ASSUME NEW t \in Tokens, TokenExpires(t) PROVE Goal
  BY <1>5 DEF TokenExpires
<1>6. CASE UNCHANGED sessionVars
  BY <1>6 DEF sessionVars
<1> QED
  BY <1>1, <1>2, <1>3, <1>4, <1>5, <1>6 DEF SessionsNext

\* A token that joins a family, alone live there, is issued to it.
LEMMA JoiningIsIssuing ==
  ASSUME SessionsTypeOK, NEW f \in Families, NEW t \in Tokens, family[t] = NoFamily,
         family' = [family EXCEPT ![t] = f],
         \A u \in Tokens : u \in live' /\ family'[u] = f <=> u = t,
         \A u \in Tokens : family[u] \notin {f, NoFamily} => (u \in live' <=> u \in live)
  PROVE  Promised!Issue(f, t)
<1>1. family \in [Tokens -> Families \cup {NoFamily}]
  BY DEF SessionsTypeOK
<1>2. \A g \in Families \ {f} : TokensOf(g)' = TokensOf(g)
  BY <1>1, NobodyAssumption DEF TokensOf
<1>3. TokensOf(f)' = TokensOf(f) \cup {t}
  BY <1>1, NobodyAssumption DEF TokensOf
<1>4. Issued' = [Issued EXCEPT ![f] = @ \cup {t}]
  BY <1>2, <1>3 DEF Issued
<1>5. \A g \in Families \ {f} : (live \cap TokensOf(g))' = live \cap TokensOf(g)
  BY <1>1, <1>2, NobodyAssumption DEF TokensOf
<1>6. (live \cap TokensOf(f))' = {t}
  BY DEF TokensOf
<1>7. Good' = [Good EXCEPT ![f] = {t}]
  BY <1>5, <1>6 DEF Good
<1>8. Promised!Fresh(t)
  BY NobodyAssumption DEF Promised!Fresh, TokensOf
<1> QED
  BY <1>4, <1>7, <1>8 DEF Promised!Issue, Issued, Good

\* A login starts a lineage.
LEMMA LoginIsStart ==
  ASSUME SessionsIInv, NEW h \in Handlers, NEW f \in Families, NEW t \in Tokens,
         CreateToken(h, f, t)
  PROVE  Promised!Next
<1>1. SessionsTypeOK /\ RowsOK
  BY DEF SessionsIInv
<1>2. \A u \in Tokens : family[u] # f
  BY <1>1, NobodyAssumption DEF CreateToken, RowsOK
<1>3. Promised!Issue(f, t)
  <2>1. \A u \in Tokens : family'[u] = IF u = t THEN f ELSE family[u]
    BY <1>1 DEF CreateToken, SessionsTypeOK
  <2>2. live' = live \cup {t} /\ family[t] = NoFamily /\ family' = [family EXCEPT ![t] = f]
    BY DEF CreateToken
  <2>3. \A u \in Tokens : u \in live' /\ family'[u] = f <=> u = t
    BY <1>2, <2>1, <2>2
  <2>4. \A u \in Tokens : family[u] \notin {f, NoFamily} => (u \in live' <=> u \in live)
    BY <2>2
  <2> QED
    BY <1>1, <2>2, <2>3, <2>4, JoiningIsIssuing
<1>4. Issued[f] = {}
  BY <1>2 DEF Issued, TokensOf
<1>5. Promised!Start(f, t)
  BY <1>3, <1>4 DEF Promised!Start, Issued
<1> QED
  BY <1>5 DEF Promised!Next

\* The rotation script renews one: what it consumes was all there was.
LEMMA RotationIsRenewal ==
  ASSUME SessionsIInv, NEW h \in Handlers, NEW n \in Tokens, Rotate(h, n)
  PROVE  Promised!Next
<1> DEFINE t == handler[h].token
           f == handler[h].family
<1>1. SessionsTypeOK /\ RowsOK /\ OneLiveToken /\ HandlerRows(h)
  BY DEF SessionsIInv, HandlerOK
<1>2. t \in live /\ t \in Tokens /\ f = family[t] /\ f \in Families
  BY <1>1 DEF Rotate, HandlerRows, LoggingIn, RowsOK, SessionsTypeOK
<1>3. \A u \in live : family[u] = f => u = t
  BY <1>1, <1>2 DEF OneLiveToken
<1>4. /\ family[n] = NoFamily
      /\ family' = [family EXCEPT ![n] = f]
      /\ live' = (live \ {t}) \cup {n}
  BY DEF Rotate, Replace
<1> HIDE DEF t, f
<1>5. \A u \in Tokens : family'[u] = IF u = n THEN f ELSE family[u]
  BY <1>1, <1>4 DEF SessionsTypeOK
<1>6. Promised!Issue(f, n)
  <2>1. \A u \in Tokens : u \in live' /\ family'[u] = f <=> u = n
    BY <1>2, <1>3, <1>4, <1>5
  <2>2. \A u \in Tokens : family[u] \notin {f, NoFamily} => (u \in live' <=> u \in live)
    BY <1>2, <1>4
  <2> QED
    BY <1>1, <1>2, <1>4, <2>1, <2>2, JoiningIsIssuing
<1>7. Good[f] # {}
  BY <1>2 DEF Good, TokensOf
<1>8. Promised!Renew(f, n)
  BY <1>6, <1>7 DEF Promised!Renew, Good
<1> QED
  BY <1>2, <1>8 DEF Promised!Next

\* A live token that goes, revoked or expired, ends the lineage of its family.
LEMMA LossIsEnd ==
  ASSUME SessionsIInv, UNCHANGED family, NEW t, live' = live \ {t}
  PROVE  Promised!Next \/ UNCHANGED Promised!lineageVars
<1>1. SessionsTypeOK /\ RowsOK /\ OneLiveToken
  BY DEF SessionsIInv
<1>2. \A f \in Families : TokensOf(f)' = TokensOf(f)
  BY DEF TokensOf
<1>3. CASE t \notin live
  BY <1>2, <1>3 DEF Promised!lineageVars
<1>4. CASE t \in live
  <2>1. t \in Tokens /\ family[t] \in Families
    BY <1>1, <1>4 DEF SessionsTypeOK, RowsOK
  <2>f. PICK f \in Families : f = family[t]
    BY <2>1
  <2>2. \A u \in live : family[u] = f => u = t
    BY <1>1, <1>4, <2>f DEF OneLiveToken
  <2>3. (live \cap TokensOf(f))' = {}
    BY <2>2 DEF TokensOf
  <2>4. \A g \in Families \ {f} : (live \cap TokensOf(g))' = live \cap TokensOf(g)
    BY <2>f DEF TokensOf
  <2>5. Good' = [Good EXCEPT ![f] = {}]
    BY <2>3, <2>4 DEF Good
  <2>6. Issued' = Issued
    BY <1>2 DEF Issued
  <2>7. Promised!End(f)
    BY <2>5, <2>6 DEF Promised!End, Good, Issued
  <2> QED
    BY <2>7 DEF Promised!Next
<1> QED
  BY <1>3, <1>4

\* Whatever overlaps, a session is a line of tokens of which the last alone is
\* good, and that does not go on once it has ended.
THEOREM SessionsImplementLineage == SessionsSpec => ImplementsLineage
<1>1. SessionsInit => Promised!Init
  BY NobodyAssumption DEF SessionsInit, Promised!Init, TokensOf
<1>2. SessionsIInv /\ [SessionsNext]_sessionVars => [Promised!Next]_Promised!lineageVars
  <2>1. UNCHANGED <<family, live>> => UNCHANGED Promised!lineageVars
    BY DEF Promised!lineageVars, TokensOf
  <2> QED
    BY <2>1, TokensMove, LoginIsStart, RotationIsRenewal, LossIsEnd
<1> QED
  BY <1>1, <1>2, SessionsInvariant, PTL DEF SessionsSpec, ImplementsLineage, Promised!Spec

\* A session that was ended, by a logout, a revocation, a reuse or its expiry,
\* is never live again, although rotations that began before go on.
COROLLARY EndedSessionsStayEnded ==
  SessionsSpec =>
    [][\A f \in Families : TokensOf(f) # {} /\ live \cap TokensOf(f) = {} =>
         (live \cap TokensOf(f))' = {}]_sessionVars
<1> DEFINE Stays == \A f \in Families : TokensOf(f) # {} /\ live \cap TokensOf(f) = {} =>
                      (live \cap TokensOf(f))' = {}
<1>1. [Promised!Next]_Promised!lineageVars => [Stays]_sessionVars
  <2> SUFFICES ASSUME [Promised!Next]_Promised!lineageVars, NEW f \in Families,
                      TokensOf(f) # {}, live \cap TokensOf(f) = {}
               PROVE  (live \cap TokensOf(f))' = {}
    OBVIOUS
  <2>1. Issued[f] # {} /\ Good[f] = {} /\ Good'[f] = (live \cap TokensOf(f))'
    BY DEF Issued, Good
  <2>2. CASE UNCHANGED Promised!lineageVars
    BY <2>1, <2>2 DEF Promised!lineageVars, Good
  <2>3. ASSUME NEW g \in Families, Promised!End(g) PROVE Good'[f] = {}
    BY <2>1, <2>3 DEF Promised!End, Good
  <2>4. ASSUME NEW g \in Families, NEW t \in Tokens, Promised!Start(g, t) \/ Promised!Renew(g, t)
        PROVE  Good'[f] = {}
    <3>1. g # f
      BY <2>1, <2>4 DEF Promised!Start, Promised!Renew, Issued, Good
    <3> QED
      BY <2>1, <2>4, <3>1 DEF Promised!Start, Promised!Renew, Promised!Issue, Good
  <2> QED
    BY <2>1, <2>2, <2>3, <2>4 DEF Promised!Next
<1> QED
  BY <1>1, SessionsImplementLineage, PTL DEF ImplementsLineage, Promised!Spec

===============================================================================
