------------------------------- MODULE Sessions -------------------------------
(***************************************************************************)
(* The sessions of members and of staff.  A login starts a family of       *)
(* refresh tokens, of which each refresh consumes one and issues the next. *)
(* Redis keeps a record per live token, a mark per spent one, the set of a *)
(* family's tokens and the set of a subject's families.  Rotation is one   *)
(* Lua script; all else is a command at a time, with other requests        *)
(* between any two.  The two sets are indexes: a revocation finds a token  *)
(* through them or not at all.                                             *)
(*                                                                         *)
(* Access tokens are left out: the guards read the account on each request *)
(* and a short-lived token bears nothing that a refresh does not renew.    *)
(***************************************************************************)
CONSTANTS Subjects,  \* members, or staff: the two audiences do not meet
          Families,  \* ids of token families, one for each login
          Tokens,    \* refresh tokens
          Handlers,  \* requests that may be under way together
          NoSubject, \* whose a family is that no login has started yet
          NoFamily,  \* where a token belongs that was not issued yet
          NoToken    \* what a handler without a token has

ASSUME NobodyAssumption ==
  NoSubject \notin Subjects /\ NoFamily \notin Families /\ NoToken \notin Tokens

VARIABLES active,   \* Client or AdminUser: those with isActive
          subject,  \* per family, the sub in its tokens' records
          family,   \* per token, the familyId in its record
          live,     \* tokens with a record, auth:refresh:hash
          spent,    \* tokens with a mark, auth:refresh:revoked
          members,  \* auth:refresh:family
          families, \* auth:refresh:subject
          held,     \* tokens that a browser was sent
          handler,  \* requests under way
          known,    \* history: live siblings when a reuse was noticed, per handler
          roots,    \* history: tokens that came from a login
          unclean   \* history: subjects that met an overlap or an early expiry

tokenVars == <<subject, family, held, roots>>
indexVars == <<members, families>>
sessionVars ==
  <<active, tokenVars, live, spent, indexVars, handler, known, unclean>>

-----------------------------------------------------------------------------
(* Requests. *)

Doing(at, s, f, t) ==
  [at |-> at, subject |-> s, family |-> f, token |-> t, rest |-> {}, todo |-> {}]

Idle == Doing("idle", NoSubject, NoFamily, NoToken)

\* rest and todo are the tokens and the families left of what a request has read.
HandlerRecords ==
  [at : {"idle", "create", "link", "index", "account", "resolve", "rotate", "reuse",
         "sibling", "unlink", "logout", "all", "family", "tokens", "revoked"},
   subject : Subjects \cup {NoSubject}, family : Families \cup {NoFamily},
   token : Tokens \cup {NoToken}, rest : SUBSET Tokens, todo : SUBSET Families]

SessionsTypeOK ==
  /\ active \in SUBSET Subjects
  /\ subject \in [Families -> Subjects \cup {NoSubject}]
  /\ family \in [Tokens -> Families \cup {NoFamily}]
  /\ live \in SUBSET Tokens
  /\ spent \in SUBSET Tokens
  /\ members \in [Families -> SUBSET Tokens]
  /\ families \in [Subjects -> SUBSET Families]
  /\ held \in SUBSET Tokens
  /\ roots \in SUBSET Tokens
  /\ handler \in [Handlers -> HandlerRecords]
  /\ known \in [Handlers -> SUBSET Tokens]
  /\ unclean \in SUBSET Subjects

SubjectOf(t) == subject[family[t]]

Begin(h, s, f, t, at) ==
  /\ handler[h].at = "idle"
  /\ handler' = [handler EXCEPT ![h] = Doing(at, s, f, t)]

Goto(h, at) == handler' = [handler EXCEPT ![h].at = at]

End(h) == handler' = [handler EXCEPT ![h] = Idle]

\* Mutant: the token is marked, and its record left to expire.
RevokeMarking(t) ==
  /\ live' = live
  /\ spent' = spent \cup {t}

\* Record and mark of a token that is revoked.
Revoke(t) ==
  /\ live' = live \ {t}
  /\ spent' = spent \cup {t}

-----------------------------------------------------------------------------
(* Logins. *)

\* validateKey, or the staff's login, has found the account and checked the key.
Login(h, s) ==
  /\ s \in active
  /\ Begin(h, s, NoFamily, NoToken, "create")
  /\ UNCHANGED <<active, tokenVars, live, spent, indexVars, known>>

\* createToken sets the record of a new token of a new family...
CreateToken(h, f, t) ==
  LET s == handler[h].subject IN
  /\ handler[h].at = "create"
  /\ subject[f] = NoSubject
  /\ family[t] = NoFamily
  /\ subject' = [subject EXCEPT ![f] = s]
  /\ family' = [family EXCEPT ![t] = f]
  /\ live' = live \cup {t}
  /\ roots' = roots \cup {t}
  /\ handler' = [handler EXCEPT ![h] = Doing("link", s, f, t)]
  /\ UNCHANGED <<active, held, spent, indexVars, known>>

\* ...adds it to its family...
LinkToken(h) ==
  /\ handler[h].at = "link"
  /\ members' = [members EXCEPT ![handler[h].family] = @ \cup {handler[h].token}]
  /\ Goto(h, "index")
  /\ UNCHANGED <<active, tokenVars, live, spent, families, known>>

\* ...and the family to its subject's.  The browser is sent the token.
LinkFamily(h) ==
  /\ handler[h].at = "index"
  /\ families' = [families EXCEPT ![handler[h].subject] = @ \cup {handler[h].family}]
  /\ held' = held \cup {handler[h].token}
  /\ End(h)
  /\ UNCHANGED <<active, subject, family, roots, live, spent, members, known>>

-----------------------------------------------------------------------------
(* Refreshes. *)

\* refreshSession resolves the token of a browser, which may be one that another
\* tab has refreshed since.
Refresh(h, t) ==
  /\ t \in held \cap live
  /\ Begin(h, SubjectOf(t), family[t], t, "account")
  /\ UNCHANGED <<active, tokenVars, live, spent, indexVars, known>>

\* The account is read.
CheckAccount(h) ==
  /\ handler[h].at = "account"
  /\ IF handler[h].subject \in active THEN Goto(h, "resolve") ELSE End(h)
  /\ UNCHANGED <<active, tokenVars, live, spent, indexVars, known>>

\* rotateRefreshToken resolves it again; handleMissingOrReuse looks for a mark.
\* A token that is no longer live never is again, so the two reads are one.
Resolve(h) ==
  LET t == handler[h].token IN
  /\ handler[h].at = "resolve"
  /\ CASE t \in live -> Goto(h, "rotate")
       [] t \in spent \ live -> Goto(h, "reuse")
       [] OTHER -> End(h)
  /\ UNCHANGED <<active, tokenVars, live, spent, indexVars, known>>

\* Mutants: the new token is not added to its family; its record has the
\* fields swapped.
ReplaceUnlisted(h, t, n) ==
  /\ family[n] = NoFamily
  /\ family' = [family EXCEPT ![n] = handler[h].family]
  /\ live' = (live \ {t}) \cup {n}
  /\ spent' = spent \cup {t}
  /\ members' = [members EXCEPT ![handler[h].family] = @ \ {t}]
  /\ held' = held \cup {n}

ReplaceSwapped(h, t, n) ==
  /\ family[n] = NoFamily
  /\ family' = [family EXCEPT ![n] = handler[h].subject]
  /\ live' = (live \ {t}) \cup {n}
  /\ spent' = spent \cup {t}
  /\ members' = [members EXCEPT ![handler[h].family] = (@ \ {t}) \cup {n}]
  /\ held' = held \cup {n}

\* The new token n takes the place of t in the family.
Replace(h, t, n) ==
  /\ family[n] = NoFamily
  /\ family' = [family EXCEPT ![n] = handler[h].family]
  /\ live' = (live \ {t}) \cup {n}
  /\ spent' = spent \cup {t}
  /\ members' = [members EXCEPT ![handler[h].family] = (@ \ {t}) \cup {n}]
  /\ held' = held \cup {n}

\* Mutant: what was resolved is rotated, without a script.
RotateResolved(h, n) ==
  /\ handler[h].at = "rotate"
  /\ Replace(h, handler[h].token, n)
  /\ End(h)
  /\ UNCHANGED <<active, subject, roots, families, known>>

\* ROTATE_REFRESH_SCRIPT finds the record.
Rotate(h, n) ==
  /\ handler[h].at = "rotate"
  /\ handler[h].token \in live
  /\ Replace(h, handler[h].token, n)
  /\ End(h)
  /\ UNCHANGED <<active, subject, roots, families, known>>

\* The script finds none: the token was rotated or revoked since, or expired.
RotateLate(h) ==
  LET t == handler[h].token IN
  /\ handler[h].at = "rotate"
  /\ t \notin live
  /\ IF t \in spent THEN Goto(h, "reuse") ELSE End(h)
  /\ UNCHANGED <<active, tokenVars, live, spent, indexVars, known>>

\* handleReuse reads the family, to look for a sibling that is live.
NoticeReuse(h) ==
  LET f == handler[h].family IN
  /\ handler[h].at = "reuse"
  /\ handler' = [handler EXCEPT ![h].at = "sibling", ![h].rest = members[f]]
  /\ known' = [known EXCEPT ![h] = {t \in live : family[t] = f}]
  /\ UNCHANGED <<active, tokenVars, live, spent, indexVars>>

\* Mutant: the siblings are counted as gone.
CheckSiblingBlindly(h, t) ==
  /\ handler[h].at = "sibling"
  /\ t \in handler[h].rest
  /\ handler' = [handler EXCEPT ![h].rest = @ \ {t}]
  /\ UNCHANGED <<active, tokenVars, live, spent, indexVars, known>>

\* With one, another tab has rotated, and this request is just refused.
CheckSibling(h, t) ==
  /\ handler[h].at = "sibling"
  /\ t \in handler[h].rest
  /\ IF t \in live THEN End(h) ELSE handler' = [handler EXCEPT ![h].rest = @ \ {t}]
  /\ UNCHANGED <<active, tokenVars, live, spent, indexVars, known>>

\* Without, revokeFamily reads the family again to revoke it.
Condemn(h) ==
  /\ handler[h].at = "sibling"
  /\ handler[h].rest = {}
  /\ handler' = [handler EXCEPT ![h].at = "tokens", ![h].rest = members[handler[h].family]]
  /\ UNCHANGED <<active, tokenVars, live, spent, indexVars, known>>

\* removeSubjectFamily; a mark that was left for an expired token names no
\* subject and removes nothing.
UnlinkFamily(h) ==
  /\ handler[h].at = "unlink"
  /\ \/ families' = [families EXCEPT ![handler[h].subject] = @ \ {handler[h].family}]
     \/ UNCHANGED families
  /\ End(h)
  /\ UNCHANGED <<active, tokenVars, live, spent, members, known>>

-----------------------------------------------------------------------------
(* Revocations. *)

\* logout, with the token's record read.
Logout(h, t) ==
  /\ t \in held \cap live
  /\ Begin(h, SubjectOf(t), family[t], t, "logout")
  /\ UNCHANGED <<active, tokenVars, live, spent, indexVars, known>>

\* revokeRefreshToken marks and deletes what it read.
RevokeToken(h) ==
  LET t == handler[h].token IN
  /\ handler[h].at = "logout"
  /\ Revoke(t)
  /\ members' = [members EXCEPT ![family[t]] = @ \ {t}]
  /\ End(h)
  /\ UNCHANGED <<active, tokenVars, families, known>>

\* logoutAll; and rotateKey, changePassword and the updates of a member or of
\* staff that write the account first.
RevokeAll(h, s) ==
  /\ Begin(h, s, NoFamily, NoToken, "all")
  /\ active' \in {active, active \ {s}}
  /\ UNCHANGED <<tokenVars, live, spent, indexVars, known>>

\* An update that activates the account revokes nothing.
Activate(s) ==
  /\ s \notin active
  /\ active' = active \cup {s}
  /\ UNCHANGED <<tokenVars, live, spent, indexVars, handler, known>>

\* revokeAllForSubject reads the families...
ReadFamilies(h) ==
  /\ handler[h].at = "all"
  /\ handler' = [handler EXCEPT ![h].at = "family", ![h].todo = families[handler[h].subject]]
  /\ UNCHANGED <<active, tokenVars, live, spent, indexVars, known>>

\* ...for each, revokeFamily reads the tokens...
RevokeFamily(h, f) ==
  /\ handler[h].at = "family"
  /\ f \in handler[h].todo
  /\ handler' = [handler EXCEPT ![h].at = "tokens", ![h].family = f, ![h].rest = members[f],
                                ![h].todo = @ \ {f}]
  /\ UNCHANGED <<active, tokenVars, live, spent, indexVars, known>>

\* ...marks each and deletes its record.  A rotation between the two commands
\* leaves what one before them does...
RevokeMember(h, t) ==
  /\ handler[h].at = "tokens"
  /\ t \in handler[h].rest
  /\ Revoke(t)
  /\ handler' = [handler EXCEPT ![h].rest = @ \ {t}]
  /\ UNCHANGED <<active, tokenVars, indexVars, known>>

\* ...and deletes the family's set, with whatever was added since.
DropFamily(h) ==
  /\ handler[h].at = "tokens"
  /\ handler[h].rest = {}
  /\ members' = [members EXCEPT ![handler[h].family] = {}]
  /\ Goto(h, IF handler[h].token = NoToken THEN "family" ELSE "unlink")
  /\ UNCHANGED <<active, tokenVars, live, spent, families, known>>

\* In the end the subject's set goes, likewise.
DropFamilies(h) ==
  /\ handler[h].at = "family"
  /\ handler[h].todo = {}
  /\ families' = [families EXCEPT ![handler[h].subject] = {}]
  /\ Goto(h, "revoked")
  /\ UNCHANGED <<active, tokenVars, live, spent, members, known>>

Revoked(h) ==
  /\ handler[h].at = "revoked"
  /\ End(h)
  /\ UNCHANGED <<active, tokenVars, live, spent, indexVars, known>>

\* The process dies, or Redis does not answer.
Dies(h) ==
  /\ handler[h].at # "idle"
  /\ End(h)
  /\ UNCHANGED <<active, tokenVars, live, spent, indexVars, known>>

-----------------------------------------------------------------------------
(* Time. *)

\* A record expires.  A mark is taken to stay as long as the mark matters, and
\* a set that outlasts what it leads to leads nowhere.
TokenExpires(t) ==
  /\ t \in live
  /\ live' = live \ {t}
  /\ UNCHANGED <<active, tokenVars, spent, indexVars, handler, known>>

\* A subject's set expires as long after the last login as a token that was not
\* refreshed; refreshes renew the records and the family's set only.
FamiliesExpire(s) ==
  /\ families[s] # {}
  /\ ~\E t \in live \cap roots : SubjectOf(t) = s
  /\ families' = [families EXCEPT ![s] = {}]
  /\ UNCHANGED <<active, tokenVars, live, spent, members, handler, known>>

-----------------------------------------------------------------------------
(* The specification. *)

Revoking(h) == handler[h].at \in {"logout", "tokens", "unlink", "all", "family", "revoked"}

\* A revocation and another request of the same subject are under way.
Overlap(s) ==
  \E h, k \in Handlers :
    h # k /\ handler[h].subject = s /\ handler[k].subject = s /\ Revoking(h)

Noting(S) == unclean' = unclean \cup S \cup {s \in Subjects : Overlap(s)'}

SessionsInit ==
  /\ active = Subjects
  /\ subject = [f \in Families |-> NoSubject]
  /\ family = [t \in Tokens |-> NoFamily]
  /\ live = {}
  /\ spent = {}
  /\ members = [f \in Families |-> {}]
  /\ families = [s \in Subjects |-> {}]
  /\ held = {}
  /\ roots = {}
  /\ handler = [h \in Handlers |-> Idle]
  /\ known = [h \in Handlers |-> {}]
  /\ unclean = {}

LoginStep(h) ==
  \/ \E s \in Subjects : Login(h, s)
  \/ \E f \in Families, t \in Tokens : CreateToken(h, f, t)
  \/ LinkToken(h) \/ LinkFamily(h)

RefreshStep(h) ==
  \/ \E t \in Tokens : Refresh(h, t) \/ Rotate(h, t) \/ CheckSibling(h, t)
  \/ CheckAccount(h) \/ Resolve(h) \/ RotateLate(h) \/ NoticeReuse(h) \/ Condemn(h)
  \/ UnlinkFamily(h)

RevokeStep(h) ==
  \/ \E t \in Tokens : Logout(h, t) \/ RevokeMember(h, t)
  \/ \E s \in Subjects : RevokeAll(h, s)
  \/ \E f \in Families : RevokeFamily(h, f)
  \/ RevokeToken(h) \/ ReadFamilies(h) \/ DropFamily(h) \/ DropFamilies(h) \/ Revoked(h)
  \/ Dies(h)

SessionsNext ==
  \/ /\ \/ \E h \in Handlers : LoginStep(h) \/ RefreshStep(h) \/ RevokeStep(h)
        \/ \E s \in Subjects : Activate(s)
        \/ \E t \in Tokens : TokenExpires(t)
     /\ Noting({})
  \/ \E s \in Subjects : FamiliesExpire(s) /\ Noting({s})

SessionsSpec == SessionsInit /\ [][SessionsNext]_sessionVars

-----------------------------------------------------------------------------
(* What it implements. *)

TokensOf(f) == {t \in Tokens : family[t] = f}

Promised == INSTANCE Lineage
  WITH issued <- [f \in Families |-> TokensOf(f)],
       good <- [f \in Families |-> live \cap TokensOf(f)]

-----------------------------------------------------------------------------
(* Properties. *)

\* However logins, tabs, reuses, revocations and expiries overlap, a session is
\* a line of tokens of which the last alone is good, and one that ended is
\* not revived: not by a rotation that a revocation has overtaken, either.
ImplementsLineage == Promised!Spec

\* However many tabs present one token, and whatever revocations run, a family
\* has one live token at most: a token is accepted once.
OneLiveToken ==
  \A t, u \in live : family[t] = family[u] => t = u

\* The indexes lead to every live token that a browser has, so that a revocation
\* finds it: refreshes, reuses, logins and logouts keep them so as long as
\* no revocation overlaps another request of its subject and the subject's set
\* does not expire before its tokens.
SessionsFindable ==
  \A t \in live \cap held :
    SubjectOf(t) \notin unclean =>
      t \in members[family[t]] /\ family[t] \in families[SubjectOf(t)]

\* When a revocation of all sessions is over, no token of the subject is live:
\* on the same terms.
UndisturbedRevocationIsComplete ==
  \A h \in Handlers :
    handler[h].at = "revoked" /\ handler[h].subject \notin unclean =>
      ~\E t \in live \cap held : SubjectOf(t) = handler[h].subject

\* The reuse of a token ends no session that was live when it was noticed: a
\* second tab is refused and the first goes on, unless that one is refreshed
\* again while its tokens are looked at.
ReuseSparesSession ==
  \A h \in Handlers :
    handler[h].at = "tokens" /\ handler[h].token # NoToken =>
      handler[h].rest \cap live \cap known[h] = {}

===============================================================================
