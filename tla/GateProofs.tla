------------------------------ MODULE GateProofs ------------------------------
(***************************************************************************)
(* Proofs, for any users, workspaces, tokens, durations and any number of  *)
(* concurrent requests, that RequestGate maintains GateInv, that the       *)
(* properties of GateProperties follow, and that RequestGate implements    *)
(* AccessPolicy under the mapping given there.                             *)
(***************************************************************************)
EXTENDS GateProperties, AccountsProofs

-------------------------------------------------------------------------------
(* One handler moves, and nothing else changes *)

\* The records the handlers put in a slot are handlers.
LEMMA IdleType == Idle \in Handler
BY GateAssumption DEF Idle, Handler, Kinds, Steps, Cookies, Answers

\* When only slot r changes, the invariant has to be checked for its new
\* content alone: what it needs of the other slots and tables is unchanged.
LEMMA HandlerStep ==
    ASSUME GateInv, NEW r \in Requests, NEW q \in Handler,
           req' = [req EXCEPT ![r] = q], OnlyReq,
           OnCourse(q), SentByBrowser(q), Stopped(q),
           SigningIn(q) => \/ SigningIn(req[r]) /\ q.cookie = req[r].cookie
                           \/ q.cookie \in FreshTokens
    PROVE  GateInv'
<1> USE DEF GateInv, OnlyReq
<1>1. /\ req' \in [Requests -> Handler]
      /\ req'[r] = q
      /\ \A s \in Requests \ {r} : req'[s] = req[s]
  BY DEF TypeOK
<1>2. TypeOK'
  BY <1>1 DEF TypeOK, AccountsTypeOK, accounts
<1>3. HandlersAreOnCourse'
  BY <1>1 DEF HandlersAreOnCourse, OnCourse
<1>4. TokensAreUnused'
  BY <1>1 DEF TokensAreUnused, SigningIn, FreshTokens, TypeOK
<1>5. IssuedTokensHaveRows'
  BY <1>1 DEF IssuedTokensHaveRows, SentByBrowser
<1>6. ConfirmedLogoutsAreStored'
  BY DEF ConfirmedLogoutsAreStored
<1>7. LateRequestsAreStopped'
  BY <1>1 DEF LateRequestsAreStopped, Stopped
<1>8. ReferentialIntegrity'
  BY IntegrityStays
<1> QED
  BY <1>2, <1>3, <1>4, <1>5, <1>6, <1>7, <1>8

\* Denying drops what the handler held, whatever that was.
LEMMA Denial ==
    ASSUME NEW a \in Answers
    PROVE  LET q == [Idle EXCEPT !.pc = "done", !.answer = a] IN
           /\ q \in Handler
           /\ OnCourse(q) /\ SentByBrowser(q) /\ Stopped(q) /\ ~SigningIn(q)
           /\ q.kind = "none"
<1> DEFINE q == [Idle EXCEPT !.pc = "done", !.answer = a]
<1>1. q \in Handler
  BY DEF Idle, Handler, Kinds, Steps, Cookies
<1>2. OnCourse(q) /\ SentByBrowser(q) /\ Stopped(q) /\ ~SigningIn(q) /\ q.kind = "none"
  BY DEF Idle, OnCourse, StepsOf, SentByBrowser, Stopped, SigningIn
<1> QED
  BY <1>1, <1>2

LEMMA DenyStep ==
    ASSUME GateInv, NEW r \in Requests, NEW a \in Answers, Deny(r, a), OnlyReq
    PROVE  GateInv'
<1> DEFINE q == [Idle EXCEPT !.pc = "done", !.answer = a]
<1>1. /\ q \in Handler
      /\ OnCourse(q) /\ SentByBrowser(q) /\ Stopped(q) /\ ~SigningIn(q)
  BY Denial
<1>2. req' = [req EXCEPT ![r] = q]
  BY DEF Deny
<1> HIDE DEF q
<1> QED
  BY <1>1, <1>2, HandlerStep

\* Arriving: a new handler, with a cookie the browser may send or, for a
\* callback, a fresh token.
LEMMA ArriveStep ==
    ASSUME GateInv, NEW r \in Requests, NEW kind \in Kinds, NEW pc \in Steps,
           NEW cookie \in Cookies, NEW target \in Workspaces \cup Identities \cup {None},
           Arrive(r, kind, pc, cookie, target), OnlyReq,
           pc \in {"findSession", "revoke", "findIdentity"} \cap StepsOf(kind),
           kind = "dashboard" => target \in Workspaces \cup {None},
           kind \in {"session", "logout"} => target = None,
           kind = "callback" => target \in Identities /\ cookie \in FreshTokens,
           kind # "callback" => cookie \in Sendable
    PROVE  GateInv'
<1> DEFINE q == [Idle EXCEPT !.kind = kind, !.pc = pc, !.cookie = cookie,
                             !.target = target, !.late = cookie \in loggedOut]
<1>1. q \in Handler
  <2>1. (cookie \in loggedOut) \in BOOLEAN
    OBVIOUS
  <2> QED
    BY <2>1 DEF Idle, Handler, Kinds, Steps, Cookies, Answers
<1>2. OnCourse(q)
  BY DEF Idle, OnCourse, Kinds, StepsOf
<1>3. SentByBrowser(q)
  BY GateAssumption DEF Idle, SentByBrowser, Sendable
<1>4. Stopped(q)
  <2>1. kind = "callback" => cookie \notin loggedOut
    BY DEF FreshTokens, GateInv, ConfirmedLogoutsAreStored
  <2> QED
    BY <2>1, GateAssumption DEF Idle, Stopped, Answers, StepsOf, Kinds
<1>5. SigningIn(q) => q.cookie \in FreshTokens
  BY DEF Idle, SigningIn
<1>6. req' = [req EXCEPT ![r] = q]
  BY DEF Arrive
<1> HIDE DEF q
<1> QED
  BY <1>1, <1>2, <1>3, <1>4, <1>5, <1>6, HandlerStep

LEMMA ReceivePreserves ==
    ASSUME GateInv, NEW r \in Requests, Receive(r)
    PROVE  GateInv'
<1>1. Sendable \subseteq Cookies /\ FreshTokens \subseteq Cookies
  BY DEF GateInv, TypeOK, Sendable, FreshTokens, Cookies
<1>2. CASE ReceiveDashboard(r)
  <2>1. PICK c \in Sendable, w \in Workspaces \cup {None} :
          \/ Arrive(r, "dashboard", "findSession", c, w)
          \/ Deny(r, "unauthenticated")
    BY <1>2 DEF ReceiveDashboard
  <2>2. OnlyReq
    BY <1>2 DEF ReceiveDashboard
  <2> QED
    BY <1>1, <2>1, <2>2, ArriveStep, DenyStep DEF Kinds, Steps, DatabaseSteps, StepsOf, Answers
<1>3. CASE ReceiveSession(r)
  <2>1. PICK c \in Sendable : \/ Arrive(r, "session", "findSession", c, None)
                              \/ Deny(r, "unauthenticated")
    BY <1>3 DEF ReceiveSession
  <2>2. OnlyReq
    BY <1>3 DEF ReceiveSession
  <2> QED
    BY <1>1, <2>1, <2>2, ArriveStep, DenyStep DEF Kinds, Steps, DatabaseSteps, StepsOf, Answers
<1>4. CASE ReceiveLogout(r)
  <2>1. PICK c \in Sendable : \/ \E a \in Answers : Deny(r, a)
                              \/ Arrive(r, "logout", "revoke", c, None)
    BY <1>4 DEF ReceiveLogout, Answers
  <2>2. OnlyReq
    BY <1>4 DEF ReceiveLogout
  <2> QED
    BY <1>1, <2>1, <2>2, ArriveStep, DenyStep DEF Kinds, Steps, DatabaseSteps, StepsOf
<1>5. CASE ReceiveCallback(r)
  <2>1. PICK i \in Identities, t \in FreshTokens :
          Arrive(r, "callback", "findIdentity", t, i)
    BY <1>5 DEF ReceiveCallback
  <2>2. OnlyReq
    BY <1>5 DEF ReceiveCallback
  <2> QED
    BY <1>1, <2>1, <2>2, ArriveStep DEF Kinds, Steps, DatabaseSteps, StepsOf
<1> QED
  BY <1>2, <1>3, <1>4, <1>5 DEF Receive

-------------------------------------------------------------------------------
(* The awaits of a handler that only read *)

LEMMA StepNames ==
    /\ \A pc \in {"checkSession", "hasAccess", "listWorkspaces", "readNotion",
                  "readSettings", "findUser", "insertSession", "done"} : pc \in Steps
    /\ \A a \in {"workspaces", "dashboard", "loggedIn", "loggedOut"} : a \in Answers
BY DEF Steps, DatabaseSteps, Answers

\* What GateInv says of the handler in slot r.
LEMMA Invariants ==
    ASSUME GateInv, NEW r \in Requests
    PROVE  /\ req[r] \in Handler
           /\ OnCourse(req[r]) /\ SentByBrowser(req[r]) /\ Stopped(req[r])
           /\ users \in [Users -> UserStatus]
           /\ identities \in [Identities -> Users \cup {None}]
           /\ sessions \in [Tokens -> Row \cup {None}]
           /\ req \in [Requests -> Handler]
           /\ now \in Nat
BY GateAssumption DEF GateInv, TypeOK, AccountsTypeOK, HandlersAreOnCourse,
   IssuedTokensHaveRows, LateRequestsAreStopped

LEMMA FindSessionPreserves ==
    ASSUME GateInv, NEW r \in Requests, FindSession(r)
    PROVE  GateInv'
<1> USE Invariants
<1> DEFINE row == FindByTokenHash(req[r].cookie)
           q == [req[r] EXCEPT !.pc = "checkSession", !.found = row,
                               !.owner = OwnerOf(row)]
<1>1. row \in Row \cup {None} /\ OwnerOf(row) \in UserStatus \cup {None}
  BY DEF FindByTokenHash, OwnerOf, Row
<1>2. q \in Handler
  BY <1>1 DEF Handler, Steps
<1>3. OnCourse(q) /\ SentByBrowser(q) /\ (SigningIn(q) => SigningIn(req[r]))
  BY DEF FindSession, At, OnCourse, StepsOf, SentByBrowser, SigningIn, Handler, Kinds
<1>4. Stopped(q)
  BY GateAssumption DEF FindSession, At, Stopped, FindByTokenHash, GateInv,
     ConfirmedLogoutsAreStored, TypeOK, Handler
<1>5. req' = [req EXCEPT ![r] = q] /\ OnlyReq
  BY DEF FindSession
<1>6. q.cookie = req[r].cookie
  BY DEF Handler
<1> HIDE DEF q, row
<1> QED
  BY <1>2, <1>3, <1>4, <1>5, <1>6, HandlerStep

LEMMA CheckSessionPreserves ==
    ASSUME GateInv, NEW r \in Requests, CheckSession(r)
    PROVE  GateInv'
<1> USE Invariants
<1> DEFINE next == IF req[r].kind = "session" THEN "listWorkspaces" ELSE "hasAccess"
           q == [req[r] EXCEPT !.pc = next, !.user = req[r].found.user]
<1>1. OnlyReq /\ req[r].pc = "checkSession"
  BY DEF CheckSession, At
<1>2. CASE Deny(r, "unauthenticated") \/ Deny(r, "invalidWorkspaceId")
  BY <1>1, <1>2, DenyStep DEF Answers
<1>3. CASE /\ Accepted(req[r].found, req[r].owner)
           /\ req[r].kind = "dashboard" => req[r].target # None
           /\ req' = [req EXCEPT ![r].pc = next, ![r].user = req[r].found.user]
  <2>1. req[r].found \in Row /\ ~req[r].found.revoked
    BY <1>3 DEF Accepted, Live, Handler
  <2>2. req[r].kind \in {"dashboard", "session"}
    BY <1>1 DEF OnCourse, StepsOf, Handler, Kinds
  <2>3. q \in Handler
    <3>1. next \in Steps /\ req[r].found.user \in Users
      BY <2>1 DEF Steps, DatabaseSteps, Row
    <3> HIDE DEF next
    <3> QED
      BY <3>1 DEF Handler
  <2>4. OnCourse(q)
    BY <1>1, <1>3, <2>1, <2>2 DEF OnCourse, StepsOf, Handler, Row
  <2>5. SentByBrowser(q) /\ Stopped(q)
    BY <1>1, <2>1 DEF SentByBrowser, Stopped, Handler
  <2>6. ~SigningIn(q)
    BY <2>2 DEF SigningIn, Handler
  <2>7. req' = [req EXCEPT ![r] = q]
    BY <1>3
  <2> HIDE DEF q
  <2> QED
    BY <1>1, <2>3, <2>4, <2>5, <2>6, <2>7, HandlerStep
<1> QED
  BY <1>2, <1>3 DEF CheckSession

LEMMA ListWorkspacesPreserves ==
    ASSUME GateInv, NEW r \in Requests, ListWorkspaces(r)
    PROVE  GateInv'
<1> USE Invariants
<1> DEFINE listed == ListActiveForUser(req[r].user)
           q == [req[r] EXCEPT !.pc = "done", !.answer = "workspaces", !.scope = listed]
<1>1. OnlyReq /\ req[r].pc = "listWorkspaces" /\ req' = [req EXCEPT ![r] = q]
  BY DEF ListWorkspaces, At
<1>2. listed \in SUBSET Workspaces
  BY DEF ListActiveForUser
<1> HIDE DEF listed
<1>3. q \in Handler
  BY <1>2, StepNames DEF Handler
<1>4. OnCourse(q)
  BY <1>1 DEF OnCourse, StepsOf, Handler, Kinds
<1>5. SentByBrowser(q) /\ Stopped(q) /\ ~SigningIn(q)
  BY <1>1 DEF SentByBrowser, Stopped, SigningIn, Handler
<1> HIDE DEF q
<1> QED
  BY <1>1, <1>3, <1>4, <1>5, HandlerStep

LEMMA DashboardPreserves ==
    ASSUME GateInv, NEW r \in Requests,
           HasAccess(r) \/ ReadNotion(r) \/ ReadSettings(r)
    PROVE  GateInv'
<1> USE Invariants
<1> DEFINE
      access == [req[r] EXCEPT !.pc = "readNotion", !.scope = {req[r].target}]
      notion == [req[r] EXCEPT !.pc = "readSettings"]
      answer == [req[r] EXCEPT !.pc = "done", !.answer = "dashboard"]
<1>1. OnlyReq
  BY DEF HasAccess, ReadNotion, ReadSettings
<1>2. CASE \E a \in Answers : Deny(r, a)
  BY <1>1, <1>2, DenyStep
<1>3. CASE req[r].pc = "hasAccess" /\ req' = [req EXCEPT ![r] = access]
  <2>1. access \in Handler
    <3>1. {req[r].target} \in SUBSET Workspaces
      BY <1>3 DEF OnCourse
    <3> QED
      BY <3>1, StepNames DEF Handler
  <2>2. OnCourse(access)
    BY <1>3 DEF OnCourse, StepsOf, Handler, Kinds
  <2>3. SentByBrowser(access) /\ Stopped(access) /\ ~SigningIn(access)
    BY <1>3 DEF SentByBrowser, Stopped, SigningIn, OnCourse, StepsOf, Handler, Kinds
  <2> HIDE DEF access
  <2> QED
    BY <1>1, <1>3, <2>1, <2>2, <2>3, HandlerStep
<1>4. CASE req[r].pc = "readNotion" /\ req' = [req EXCEPT ![r] = notion]
  <2>1. notion \in Handler
    BY StepNames DEF Handler
  <2>2. OnCourse(notion)
    BY <1>4 DEF OnCourse, StepsOf, Handler, Kinds
  <2>3. SentByBrowser(notion) /\ Stopped(notion) /\ ~SigningIn(notion)
    BY <1>4 DEF SentByBrowser, Stopped, SigningIn, OnCourse, StepsOf, Handler, Kinds
  <2> HIDE DEF notion
  <2> QED
    BY <1>1, <1>4, <2>1, <2>2, <2>3, HandlerStep
<1>5. CASE req[r].pc = "readSettings" /\ req' = [req EXCEPT ![r] = answer]
  <2>1. answer \in Handler
    BY StepNames DEF Handler
  <2>2. OnCourse(answer)
    BY <1>5 DEF OnCourse, StepsOf, Handler, Kinds
  <2>3. SentByBrowser(answer) /\ Stopped(answer) /\ ~SigningIn(answer)
    BY <1>5 DEF SentByBrowser, Stopped, SigningIn, OnCourse, StepsOf, Handler, Kinds
  <2> HIDE DEF answer
  <2> QED
    BY <1>1, <1>5, <2>1, <2>2, <2>3, HandlerStep
<1>6. HasAccess(r) => \/ \E a \in Answers : Deny(r, a)
                      \/ req[r].pc = "hasAccess" /\ req' = [req EXCEPT ![r] = access]
  BY DEF HasAccess, At, Answers
<1>7. ReadNotion(r) => \/ \E a \in Answers : Deny(r, a)
                       \/ req[r].pc = "readNotion" /\ req' = [req EXCEPT ![r] = notion]
  BY DEF ReadNotion, At, Answers
<1>8. ReadSettings(r) => \/ \E a \in Answers : Deny(r, a)
                         \/ req[r].pc = "readSettings" /\ req' = [req EXCEPT ![r] = answer]
  BY DEF ReadSettings, At, Answers, Answer
<1> QED
  BY <1>2, <1>3, <1>4, <1>5, <1>6, <1>7, <1>8

LEMMA SignInReadsPreserve ==
    ASSUME GateInv, NEW r \in Requests, FindIdentity(r) \/ FindUser(r)
    PROVE  GateInv'
<1> USE Invariants
<1> DEFINE
      u == FindUserByIdentity(req[r].target)
      identified == [req[r] EXCEPT !.pc = "findUser", !.user = u]
      prepared == [req[r] EXCEPT !.pc = "insertSession",
                                 !.found = NewSession(req[r].user)]
<1>1. OnlyReq
  BY DEF FindIdentity, FindUser
<1>2. CASE Deny(r, "notAuthorized")
  BY <1>1, <1>2, DenyStep DEF Answers
<1>3. CASE /\ req[r].pc = "findIdentity" /\ u \in Users
           /\ req' = [req EXCEPT ![r] = identified]
  <2>1. identified \in Handler
    BY <1>3, StepNames DEF Handler
  <2>2. OnCourse(identified)
    BY <1>3 DEF OnCourse, StepsOf, Handler, Kinds
  <2>3. /\ SentByBrowser(identified) /\ Stopped(identified)
        /\ SigningIn(req[r]) /\ identified.cookie = req[r].cookie
    BY <1>3 DEF SentByBrowser, Stopped, SigningIn, OnCourse, StepsOf, Handler, Kinds
  <2> HIDE DEF identified
  <2> QED
    BY <1>1, <1>3, <2>1, <2>2, <2>3, HandlerStep
<1>4. CASE /\ req[r].pc = "findUser" /\ req[r].user \in Users
           /\ req' = [req EXCEPT ![r] = prepared]
  <2>1. /\ NewSession(req[r].user) \in Row
        /\ NewSession(req[r].user).user = req[r].user
        /\ ~NewSession(req[r].user).revoked
    BY <1>4, GateAssumption DEF NewSession, Row
  <2>2. prepared \in Handler
    BY <2>1, StepNames DEF Handler
  <2>3. OnCourse(prepared)
    BY <1>4, <2>1 DEF OnCourse, StepsOf, Handler, Kinds
  <2>4. /\ SentByBrowser(prepared) /\ Stopped(prepared)
        /\ SigningIn(req[r]) /\ prepared.cookie = req[r].cookie
    BY <1>4 DEF SentByBrowser, Stopped, SigningIn, OnCourse, StepsOf, Handler, Kinds
  <2> HIDE DEF prepared
  <2> QED
    BY <1>1, <1>4, <2>2, <2>3, <2>4, HandlerStep
<1>5. FindIdentity(r) => \/ Deny(r, "notAuthorized")
                         \/ /\ req[r].pc = "findIdentity" /\ u \in Users
                            /\ req' = [req EXCEPT ![r] = identified]
  BY DEF FindIdentity, At, MaySignIn
<1>6. FindUser(r) => \/ Deny(r, "notAuthorized")
                     \/ /\ req[r].pc = "findUser" /\ req[r].user \in Users
                        /\ req' = [req EXCEPT ![r] = prepared]
  BY DEF FindUser, At, MaySignIn
<1> QED
  BY <1>2, <1>3, <1>4, <1>5, <1>6

LEMMA Outage == \A q : OutageAnswer(q) \in Answers
BY DEF OutageAnswer, Answers

LEMMA DatabaseFailsPreserves ==
    ASSUME GateInv, NEW r \in Requests, DatabaseFails(r)
    PROVE  GateInv'
BY Outage, DenyStep DEF DatabaseFails

-------------------------------------------------------------------------------
(* The two writes *)

\* A logout revokes the row of its cookie, and no callback in flight has it.
LEMMA RevokeSessionPreserves ==
    ASSUME GateInv, NEW r \in Requests, RevokeSession(r)
    PROVE  GateInv'
<1> USE Invariants
<1> DEFINE c == req[r].cookie
           denied == [Idle EXCEPT !.pc = "done", !.answer = OutageAnswer(req[r])]
           answered == [req[r] EXCEPT !.pc = "done", !.answer = "loggedOut"]
<1>1. /\ req[r].pc = "revoke" /\ req[r].kind = "logout"
      /\ sessions' = Revoked(c)
      /\ UNCHANGED <<accounts, now, issued>>
  BY DEF RevokeSession, At, OnCourse, StepsOf, Handler, Kinds
<1>2. /\ sessions' \in [Tokens -> Row \cup {None}]
      /\ \A t \in Tokens : sessions'[t] = None <=> sessions[t] = None
      /\ \A t \in Tokens \ {c} : sessions'[t] = sessions[t]
      /\ c \in Tokens /\ sessions[c] # None => sessions'[c].revoked
  BY <1>1, GateAssumption DEF Revoked, Row
<1>3. \E q \in Handler :
        /\ req' = [req EXCEPT ![r] = q]
        /\ OnCourse(q) /\ SentByBrowser(q) /\ Stopped(q) /\ ~SigningIn(q)
        /\ \/ loggedOut' = loggedOut
           \/ loggedOut' = loggedOut \cup ({c} \cap Tokens)
  <2>1. CASE Deny(r, OutageAnswer(req[r])) /\ loggedOut' = loggedOut
    <3>1. /\ denied \in Handler
          /\ OnCourse(denied) /\ SentByBrowser(denied) /\ Stopped(denied)
          /\ ~SigningIn(denied) /\ denied.kind = "none"
      BY Outage, Denial
    <3>2. req' = [req EXCEPT ![r] = denied]
      BY <2>1 DEF Deny
    <3> HIDE DEF denied
    <3> QED
      BY <2>1, <3>1, <3>2
  <2>2. CASE /\ Answer(r, "loggedOut")
             /\ loggedOut' = loggedOut \cup ({c} \cap Tokens)
    <3>1. answered \in Handler
      BY StepNames DEF Handler
    <3>2. OnCourse(answered)
      BY <1>1 DEF OnCourse, StepsOf, Handler
    <3>3. SentByBrowser(answered) /\ Stopped(answered) /\ ~SigningIn(answered)
      BY <1>1 DEF SentByBrowser, Stopped, SigningIn, Handler
    <3>4. req' = [req EXCEPT ![r] = answered]
      BY <2>2 DEF Answer
    <3> HIDE DEF answered
    <3> QED
      BY <2>2, <3>1, <3>2, <3>3, <3>4
  <2> QED
    BY <2>1, <2>2 DEF RevokeSession
<1>4. PICK q \in Handler :
        /\ req' = [req EXCEPT ![r] = q]
        /\ OnCourse(q) /\ SentByBrowser(q) /\ Stopped(q) /\ ~SigningIn(q)
        /\ \/ loggedOut' = loggedOut
           \/ loggedOut' = loggedOut \cup ({c} \cap Tokens)
  BY <1>3
<1> HIDE DEF denied, answered
<1>5. /\ req' \in [Requests -> Handler] /\ req'[r] = q
      /\ \A s \in Requests \ {r} : req'[s] = req[s]
  BY <1>4
<1>6. TypeOK'
  BY <1>1, <1>2, <1>4, <1>5 DEF GateInv, TypeOK, AccountsTypeOK, accounts
<1>7. HandlersAreOnCourse'
  BY <1>4, <1>5 DEF GateInv, HandlersAreOnCourse, OnCourse
<1>8. TokensAreUnused'
  BY <1>2, <1>4, <1>5 DEF GateInv, TokensAreUnused, SigningIn
<1>9. IssuedTokensHaveRows'
  BY <1>1, <1>2, <1>4, <1>5 DEF GateInv, TypeOK, IssuedTokensHaveRows, SentByBrowser
<1>10. ConfirmedLogoutsAreStored'
  <2>1. c \in Tokens => sessions[c] # None
    BY <1>1 DEF GateInv, IssuedTokensHaveRows, SentByBrowser
  <2> QED
    BY <1>2, <1>4, <2>1 DEF GateInv, TypeOK, ConfirmedLogoutsAreStored
<1>11. LateRequestsAreStopped'
  BY <1>4, <1>5 DEF GateInv, LateRequestsAreStopped, Stopped
<1> QED
  BY <1>1, <1>6, <1>7, <1>8, <1>9, <1>10, <1>11, IntegrityStays DEF GateInv

\* A callback stores its session under a token no row has: nobody else's
\* session, and no logout, is overwritten.
LEMMA InsertSessionPreserves ==
    ASSUME GateInv, NEW r \in Requests, InsertSession(r)
    PROVE  GateInv'
<1> USE Invariants
<1> DEFINE c == req[r].cookie
           denied == [Idle EXCEPT !.pc = "done", !.answer = OutageAnswer(req[r])]
           answered == [req[r] EXCEPT !.pc = "done", !.answer = "loggedIn"]
<1>1. /\ req[r].pc = "insertSession" /\ req[r].kind = "callback"
      /\ req[r].found \in Row
      /\ sessions' = [sessions EXCEPT ![c] = req[r].found]
      /\ UNCHANGED <<accounts, now, loggedOut>>
  BY DEF InsertSession, At, OnCourse, StepsOf, Handler, Kinds
<1>2. SigningIn(req[r]) /\ c \in Tokens /\ sessions[c] = None
  BY <1>1 DEF SigningIn, GateInv, TokensAreUnused
<1>3. /\ sessions' \in [Tokens -> Row \cup {None}]
      /\ sessions'[c] # None
      /\ \A t \in Tokens \ {c} : sessions'[t] = sessions[t]
  BY <1>1, <1>2, GateAssumption
<1>4. \E q \in Handler :
        /\ req' = [req EXCEPT ![r] = q]
        /\ OnCourse(q) /\ Stopped(q) /\ ~SigningIn(q)
        /\ q.kind \in {"none", "callback"}
        /\ issued' = issued \/ issued' = issued \cup {c}
  <2>1. CASE Deny(r, OutageAnswer(req[r])) /\ issued' = issued
    <3>1. /\ denied \in Handler
          /\ OnCourse(denied) /\ SentByBrowser(denied) /\ Stopped(denied)
          /\ ~SigningIn(denied) /\ denied.kind = "none"
      BY Outage, Denial
    <3>2. req' = [req EXCEPT ![r] = denied]
      BY <2>1 DEF Deny
    <3> HIDE DEF denied
    <3> QED
      BY <2>1, <3>1, <3>2
  <2>2. CASE Answer(r, "loggedIn") /\ issued' = issued \cup {c}
    <3>1. answered \in Handler
      BY StepNames DEF Handler
    <3>2. OnCourse(answered)
      BY <1>1 DEF OnCourse, StepsOf, Handler
    <3>3. answered.kind = "callback" /\ Stopped(answered) /\ ~SigningIn(answered)
      BY <1>1 DEF Stopped, SigningIn, Handler
    <3>4. req' = [req EXCEPT ![r] = answered]
      BY <2>2 DEF Answer
    <3> HIDE DEF answered
    <3> QED
      BY <2>2, <3>1, <3>2, <3>3, <3>4
  <2> QED
    BY <2>1, <2>2 DEF InsertSession
<1>5. PICK q \in Handler :
        /\ req' = [req EXCEPT ![r] = q]
        /\ OnCourse(q) /\ Stopped(q) /\ ~SigningIn(q)
        /\ q.kind \in {"none", "callback"}
        /\ issued' = issued \/ issued' = issued \cup {c}
  BY <1>4
<1>6. /\ req' \in [Requests -> Handler] /\ req'[r] = q
      /\ \A s \in Requests \ {r} : req'[s] = req[s]
  BY <1>5
<1>7. TypeOK'
  BY <1>1, <1>2, <1>3, <1>5, <1>6 DEF GateInv, TypeOK, AccountsTypeOK, accounts
<1>8. HandlersAreOnCourse'
  BY <1>5, <1>6 DEF GateInv, HandlersAreOnCourse, OnCourse
<1>9. TokensAreUnused'
  BY <1>2, <1>3, <1>5, <1>6 DEF GateInv, TokensAreUnused, SigningIn
<1>10. IssuedTokensHaveRows'
  BY <1>3, <1>5, <1>6 DEF GateInv, TypeOK, IssuedTokensHaveRows, SentByBrowser
<1>11. ConfirmedLogoutsAreStored'
  BY <1>1, <1>2, <1>3 DEF GateInv, TypeOK, ConfirmedLogoutsAreStored
<1>12. LateRequestsAreStopped'
  BY <1>1, <1>5, <1>6 DEF GateInv, LateRequestsAreStopped, Stopped
<1> QED
  BY <1>1, <1>7, <1>8, <1>9, <1>10, <1>11, <1>12, IntegrityStays DEF GateInv

-------------------------------------------------------------------------------
(* The invariant *)

LEMMA HandlePreserves ==
    ASSUME GateInv, NEW r \in Requests, Handle(r)
    PROVE  GateInv'
BY FindSessionPreserves, CheckSessionPreserves, ListWorkspacesPreserves,
   DashboardPreserves, SignInReadsPreserve, DatabaseFailsPreserves,
   RevokeSessionPreserves, InsertSessionPreserves DEF Handle

\* The clock and the account tables appear in GateInv only through their types
\* and the foreign keys.
LEMMA SurroundingsPreserve ==
    ASSUME GateInv, UNCHANGED <<sessions, issued, loggedOut, req>>,
           TypeOK', ReferentialIntegrity'
    PROVE  GateInv'
BY DEF GateInv, HandlersAreOnCourse, OnCourse, TokensAreUnused, SigningIn,
   IssuedTokensHaveRows, SentByBrowser, ConfirmedLogoutsAreStored,
   LateRequestsAreStopped, Stopped

LEMMA GateInvInitially == Init => GateInv
<1> SUFFICES ASSUME Init PROVE GateInv
  OBVIOUS
<1>1. TypeOK /\ ReferentialIntegrity
  <2>1. AccountsTypeOK /\ ReferentialIntegrity
    BY AccountsInitially DEF Init
  <2> QED
    BY <2>1, IdleType, GateAssumption DEF Init, TypeOK
<1>2. OnCourse(Idle) /\ SentByBrowser(Idle) /\ Stopped(Idle) /\ ~SigningIn(Idle)
  BY DEF Idle, OnCourse, StepsOf, SentByBrowser, Stopped, SigningIn
<1>3. HandlersAreOnCourse /\ TokensAreUnused /\ IssuedTokensHaveRows
  BY <1>2 DEF Init, HandlersAreOnCourse, TokensAreUnused, IssuedTokensHaveRows
<1>4. ConfirmedLogoutsAreStored /\ LateRequestsAreStopped
  BY <1>2 DEF Init, ConfirmedLogoutsAreStored, LateRequestsAreStopped
<1> QED
  BY <1>1, <1>3, <1>4 DEF GateInv

LEMMA GateInvPreserved == GateInv /\ [Next]_vars => GateInv'
<1> SUFFICES ASSUME GateInv, [Next]_vars PROVE GateInv'
  OBVIOUS
<1>1. ASSUME NEW r \in Requests, Receive(r) \/ Handle(r)
      PROVE  GateInv'
  BY <1>1, ReceivePreserves, HandlePreserves
<1>2. CASE Tick
  <2>1. TypeOK'
    BY <1>2, GateAssumption DEF Tick, GateInv, TypeOK, AccountsTypeOK, accounts
  <2> QED
    BY <1>2, <2>1, SurroundingsPreserve, IntegrityStays DEF Tick, GateInv
<1>3. CASE AccountsNext /\ UNCHANGED gate
  <2>1. TypeOK' /\ ReferentialIntegrity'
    BY <1>3, AccountsTypePreserved, AccountsIntegrityPreserved DEF gate, GateInv, TypeOK
  <2> QED
    BY <1>3, <2>1, SurroundingsPreserve DEF gate
<1>4. CASE UNCHANGED vars
  <2>1. TypeOK'
    BY <1>4 DEF vars, gate, accounts, GateInv, TypeOK, AccountsTypeOK
  <2> QED
    BY <1>4, <2>1, SurroundingsPreserve, IntegrityStays DEF vars, gate, GateInv
<1> QED
  BY <1>1, <1>2, <1>3, <1>4 DEF Next

\* GateInv holds in every reachable state, for any number of requests.
THEOREM GateInvariant == Spec => []GateInv
BY GateInvInitially, GateInvPreserved, PTL DEF Spec

\* Every variable keeps its type.
THEOREM GateTypes == Spec => []TypeOK
<1>1. GateInv => TypeOK
  BY DEF GateInv
<1> QED
  BY <1>1, GateInvariant, PTL

\* A request that arrives after the confirmed logout of its session gets no
\* data, however many requests, logouts and logins overlap.
THEOREM LogoutIsFinal == Spec => []LoggedOutStaysOut
<1>1. GateInv => LoggedOutStaysOut
  BY DEF GateInv, LateRequestsAreStopped, Stopped, LoggedOutStaysOut
<1> QED
  BY <1>1, GateInvariant, PTL

\* A session row is never given to another user, prolonged, or un-revoked.
THEOREM SessionRowsOnlyClose == Spec => SessionsOnlyClose
<1> DEFINE Closes(t) ==
      sessions[t] # None =>
          /\ sessions'[t] # None
          /\ sessions'[t].user = sessions[t].user
          /\ sessions'[t].expiresAt = sessions[t].expiresAt
          /\ sessions[t].revoked => sessions'[t].revoked
<1>1. GateInv /\ [Next]_vars => [\A t \in Tokens : Closes(t)]_vars
  <2> SUFFICES ASSUME GateInv, [Next]_vars, NEW t \in Tokens PROVE Closes(t)
    OBVIOUS
  <2>1. ASSUME NEW r \in Requests, RevokeSession(r) PROVE Closes(t)
    BY <2>1, GateAssumption DEF RevokeSession, Revoked, GateInv, TypeOK, Row
  <2>2. ASSUME NEW r \in Requests, InsertSession(r) PROVE Closes(t)
    <3>1. SigningIn(req[r]) /\ sessions[req[r].cookie] = None
      BY <2>2, Invariants DEF InsertSession, At, SigningIn, OnCourse, StepsOf,
         Handler, Kinds, GateInv, TokensAreUnused
    <3>2. t # req[r].cookie \/ sessions[t] = None
      BY <3>1
    <3> QED
      BY <2>2, <3>2 DEF InsertSession, GateInv, TypeOK
  <2>3. ASSUME UNCHANGED sessions PROVE Closes(t)
    BY <2>3
  <2>4. ASSUME NEW r \in Requests, Receive(r) PROVE UNCHANGED sessions
    BY <2>4 DEF Receive, ReceiveDashboard, ReceiveSession, ReceiveLogout,
       ReceiveCallback, OnlyReq
  <2>5. ASSUME NEW r \in Requests, Handle(r), ~RevokeSession(r), ~InsertSession(r)
        PROVE UNCHANGED sessions
    BY <2>5 DEF Handle, FindSession, CheckSession, ListWorkspaces, HasAccess,
       ReadNotion, ReadSettings, FindIdentity, FindUser, DatabaseFails, OnlyReq
  <2> HIDE DEF Closes
  <2> QED
    BY <2>1, <2>2, <2>3, <2>4, <2>5 DEF Next, Tick, gate, vars
<1> QED
  BY <1>1, GateInvariant, PTL DEF Spec, SessionsOnlyClose

-------------------------------------------------------------------------------
(* The handlers implement AccessPolicy: how the mapping moves *)

\* While the clock stands, slot r's verdict is that of its new content, and
\* every other verdict stays.
LEMMA VerdictStep ==
    ASSUME GateInv, NEW r \in Requests, NEW q, now' = now,
           req' = [req EXCEPT ![r] = q]
    PROVE  PolicyVerdict' = [PolicyVerdict EXCEPT ![r] = VerdictOf(q)]
<1>1. req'[r] = q /\ \A s \in Requests \ {r} : req'[s] = req[s]
  BY DEF GateInv, TypeOK
<1>2. \A s \in Requests : VerdictOf(req[s])' = VerdictOf(req'[s])
  BY DEF VerdictOf, Stage, MayEnter, InForce, Via, Target, Principal
<1>3. PolicyVerdict' = [s \in Requests |-> VerdictOf(req[s])']
  BY DEF PolicyVerdict
<1>4. PolicyVerdict' = [s \in Requests |-> VerdictOf(req'[s])]
  BY <1>2, <1>3
<1>5. [s \in Requests |-> VerdictOf(req'[s])]
        = [PolicyVerdict EXCEPT ![r] = VerdictOf(q)]
  <2>1. VerdictOf(req'[r]) = VerdictOf(q)
    BY <1>1
  <2>2. \A s \in Requests \ {r} : VerdictOf(req'[s]) = VerdictOf(req[s])
    BY <1>1
  <2>3. \A s \in Requests \ {r} : VerdictOf(req'[s]) = PolicyVerdict[s]
    BY <2>2 DEF PolicyVerdict
  <2>4. DOMAIN PolicyVerdict = Requests /\ PolicyVerdict = [s \in Requests |-> PolicyVerdict[s]]
    BY DEF PolicyVerdict
  <2> QED
    BY <2>1, <2>3, <2>4
<1> QED
  BY <1>4, <1>5

\* The sessions of the policy move only with the rows and the clock.
LEMMA SessionStep ==
    ASSUME UNCHANGED <<sessions, now>>
    PROVE  PolicySession' = PolicySession
BY DEF PolicySession, InForce

\* An answer that gives nothing is a refusal.
LEMMA DenyVerdict ==
    ASSUME GateInv, NEW r \in Requests, NEW a \in Answers, Deny(r, a), now' = now,
           a \notin {"dashboard", "workspaces", "loggedIn"}
    PROVE  PolicyVerdict' = [PolicyVerdict EXCEPT ![r] = Policy!Refusal]
<1> DEFINE q == [Idle EXCEPT !.pc = "done", !.answer = a]
<1>1. PolicyVerdict' = [PolicyVerdict EXCEPT ![r] = VerdictOf(q)]
  BY VerdictStep DEF Deny
<1>2. VerdictOf(q) = Policy!Refusal
  <2>1. Stage(q) = "refused"
    BY GateAssumption DEF Idle, Stage
  <2> QED
    BY <2>1 DEF VerdictOf, Policy!Refusal, Policy!Nothing
<1> QED
  BY <1>1, <1>2

LEMMA DenyRefuses ==
    ASSUME GateInv, NEW r \in Requests, NEW a \in Answers, Deny(r, a), OnlyReq,
           a \notin {"dashboard", "workspaces", "loggedIn"}
    PROVE  Policy!Refuse(r)
BY DenyVerdict, SessionStep DEF Policy!Refuse, OnlyReq, Policy!accounts, accounts

-------------------------------------------------------------------------------
(* Each await maps to a step of the policy or to none *)

\* The policy's variables as the mapping gives them.
PolicyStep == [Policy!PolicyNext]_Policy!policyVars

\* A slot whose verdict does not change is a stutter of the policy.
LEMMA SameVerdict ==
    ASSUME GateInv, NEW r \in Requests, NEW q, req' = [req EXCEPT ![r] = q], OnlyReq,
           VerdictOf(q) = VerdictOf(req[r])
    PROVE  PolicyStep
<1>1. PolicyVerdict' = [PolicyVerdict EXCEPT ![r] = VerdictOf(q)]
  BY VerdictStep DEF OnlyReq
<1>2. PolicyVerdict' = PolicyVerdict
  BY <1>1 DEF PolicyVerdict
<1> QED
  BY <1>2, SessionStep DEF PolicyStep, OnlyReq, accounts, Policy!policyVars, Policy!accounts

\* A slot's step of the policy is a step of the policy.
LEMMA SlotStep ==
    ASSUME NEW r \in Requests,
           \/ Policy!Identify(r) \/ Policy!Grant(r) \/ Policy!Refuse(r)
           \/ Policy!CloseSession(r) \/ \E t \in Tokens : Policy!OpenSession(r, t)
    PROVE  PolicyStep
BY DEF PolicyStep, Policy!PolicyNext

LEMMA ArriveAsks ==
    ASSUME GateInv, NEW r \in Requests, Free(r),
           NEW kind \in Kinds, NEW pc \in {"findSession", "revoke", "findIdentity"},
           NEW cookie \in Cookies, NEW target \in Workspaces \cup Identities \cup {None},
           Arrive(r, kind, pc, cookie, target), OnlyReq,
           kind = "callback" => target \in Identities,
           kind # "callback" => target \in Workspaces \cup {None}
    PROVE  PolicyStep
<1> DEFINE
      q == [Idle EXCEPT !.kind = kind, !.pc = pc, !.cookie = cookie,
                        !.target = target, !.late = cookie \in loggedOut]
      via == IF kind = "callback" THEN target
             ELSE IF cookie \in Tokens THEN cookie ELSE None
      wanted == IF kind = "callback" THEN None ELSE target
<1>1. PolicyVerdict' = [PolicyVerdict EXCEPT ![r] = VerdictOf(q)]
  BY VerdictStep DEF Arrive, OnlyReq
<1>2. VerdictOf(q) = Policy!Question(kind, via, wanted)
  <2>1. /\ q.kind = kind /\ q.pc = pc /\ q.cookie = cookie /\ q.target = target
        /\ q.user = None /\ q.scope = {}
    BY DEF Idle
  <2> HIDE DEF q
  <2>2. Stage(q) = "asked"
    BY <2>1 DEF Stage
  <2>3. Via(q) = via /\ Target(q) = wanted /\ Principal(q) = None
    BY <2>1 DEF Via, Target, Principal
  <2> HIDE DEF via, wanted
  <2>4. VerdictOf(q) = [stage |-> "asked", kind |-> kind, via |-> via,
                        target |-> wanted, user |-> None, scope |-> {}]
    BY <2>1, <2>2, <2>3 DEF VerdictOf
  <2> QED
    BY <2>4 DEF Policy!Question
<1>3. PolicyVerdict[r].stage \in {"none", "granted", "refused"}
  BY DEF Free, PolicyVerdict, VerdictOf, Stage
<1>4. Policy!Ask(r, kind, via, wanted)
  BY <1>1, <1>2, <1>3, SessionStep DEF Policy!Ask, OnlyReq, accounts, Policy!accounts
<1>5. CASE kind = "callback"
  BY <1>4, <1>5 DEF PolicyStep, Policy!PolicyNext
<1>6. CASE kind # "callback"
  <2>1. kind \in {"dashboard", "session", "logout"} /\ via \in Tokens \cup {None}
        /\ wanted \in Workspaces \cup {None}
    BY <1>6 DEF Kinds
  <2> HIDE DEF via, wanted
  <2> QED
    BY <1>4, <2>1 DEF PolicyStep, Policy!PolicyNext
<1> QED
  BY <1>5, <1>6

LEMMA ReceiveRefines ==
    ASSUME GateInv, NEW r \in Requests, Receive(r)
    PROVE  PolicyStep
<1>1. Sendable \subseteq Cookies /\ FreshTokens \subseteq Cookies
  BY DEF GateInv, TypeOK, Sendable, FreshTokens, Cookies
<1>2. Free(r) /\ OnlyReq
  BY DEF Receive, ReceiveDashboard, ReceiveSession, ReceiveLogout, ReceiveCallback
<1>3. \/ \E a \in Answers \ {"dashboard", "workspaces", "loggedIn"} : Deny(r, a)
      \/ \E c \in Sendable, w \in Workspaces \cup {None} :
           Arrive(r, "dashboard", "findSession", c, w)
      \/ \E c \in Sendable : Arrive(r, "session", "findSession", c, None)
      \/ \E c \in Sendable : Arrive(r, "logout", "revoke", c, None)
      \/ \E i \in Identities, t \in FreshTokens :
           Arrive(r, "callback", "findIdentity", t, i)
  BY DEF Receive, ReceiveDashboard, ReceiveSession, ReceiveLogout, ReceiveCallback, Answers
<1> QED
  BY <1>1, <1>2, <1>3, ArriveAsks, DenyRefuses, SlotStep DEF Kinds

LEMMA FindSessionRefines ==
    ASSUME GateInv, NEW r \in Requests, FindSession(r)
    PROVE  PolicyStep
<1> USE Invariants
<1> DEFINE row == FindByTokenHash(req[r].cookie)
           q == [req[r] EXCEPT !.pc = "checkSession", !.found = row,
                               !.owner = OwnerOf(row)]
<1>1. /\ PolicyVerdict' = [PolicyVerdict EXCEPT ![r] = VerdictOf(q)]
      /\ req[r].pc = "findSession" /\ OnlyReq
  BY VerdictStep DEF FindSession, At, OnlyReq
<1>2. req[r].kind \in {"dashboard", "session"}
  BY <1>1 DEF OnCourse, StepsOf, Handler, Kinds
<1>3. /\ q.pc = "checkSession" /\ q.found = row /\ q.owner = OwnerOf(row)
      /\ q.kind = req[r].kind /\ q.cookie = req[r].cookie
      /\ q.target = req[r].target /\ q.scope = {}
  BY <1>1 DEF Handler, OnCourse
<1>4. PolicyVerdict[r] = VerdictOf(req[r]) /\ Stage(req[r]) = "asked"
  BY <1>1 DEF PolicyVerdict, Stage
<1> HIDE DEF q
<1>5. CASE MayEnter(row, OwnerOf(row))
  <2>1. /\ req[r].cookie \in Tokens /\ row = sessions[req[r].cookie] /\ row \in Row
        /\ users[row.user] = "enabled" /\ row.user \in Users
    BY <1>5 DEF MayEnter, FindByTokenHash, OwnerOf, Row
  <2>2. PolicySession[req[r].cookie] = [owner |-> row.user, open |-> TRUE]
    BY <1>5, <2>1, GateAssumption DEF PolicySession, MayEnter
  <2>3. VerdictOf(q) = Policy!Decide(PolicyVerdict[r], "identified", row.user, {})
    <3>1. Stage(q) = "identified"
      BY <1>3, <1>5 DEF Stage
    <3>2. req[r].pc # "checkSession" /\ req[r].user = None /\ req[r].scope = {}
      BY <1>1 DEF OnCourse
    <3>3. /\ Via(q) = Via(req[r]) /\ Target(q) = Target(req[r])
          /\ Principal(q) = row.user
      BY <1>3 DEF Via, Target, Principal
    <3>4. VerdictOf(q) = [stage |-> "identified", kind |-> req[r].kind,
                          via |-> Via(req[r]), target |-> Target(req[r]),
                          user |-> row.user, scope |-> {}]
      BY <1>3, <3>1, <3>3 DEF VerdictOf
    <3>5. PolicyVerdict[r] = [stage |-> "asked", kind |-> req[r].kind,
                              via |-> Via(req[r]), target |-> Target(req[r]),
                              user |-> Principal(req[r]), scope |-> {}]
      BY <1>4, <3>2 DEF VerdictOf
    <3> QED
      BY <3>4, <3>5 DEF Policy!Decide
  <2>4. /\ PolicyVerdict[r].stage = "asked" /\ PolicyVerdict[r].via = req[r].cookie
        /\ PolicyVerdict[r].kind = req[r].kind
    BY <1>2, <1>4, <2>1 DEF VerdictOf, Via
  <2>5. Policy!Names(PolicyVerdict[r], row.user)
    BY <1>2, <2>1, <2>2, <2>4 DEF Policy!Names
  <2>6. PolicyVerdict' = [PolicyVerdict EXCEPT
                           ![r] = Policy!Decide(@, "identified", row.user, {})]
    BY <1>1, <2>3
  <2>7. Policy!Identify(r)
    BY <1>1, <2>1, <2>4, <2>5, <2>6, SessionStep
    DEF Policy!Identify, OnlyReq, accounts, Policy!accounts
  <2> QED
    BY <2>7, SlotStep
<1>6. CASE ~MayEnter(row, OwnerOf(row))
  <2>1. VerdictOf(q) = Policy!Refusal
    <3>1. Stage(q) = "refused"
      BY <1>3, <1>6 DEF Stage
    <3> QED
      BY <3>1 DEF VerdictOf, Policy!Refusal, Policy!Nothing
  <2>2. Policy!Refuse(r)
    BY <1>1, <2>1, SessionStep DEF Policy!Refuse, OnlyReq, accounts, Policy!accounts
  <2> QED
    BY <2>2, SlotStep
<1> QED
  BY <1>5, <1>6

\* A decided slot's verdict, spelt out.
LEMMA Decided ==
    ASSUME NEW q, Stage(q) \notin {"none", "refused"}
    PROVE  VerdictOf(q) = [stage |-> Stage(q), kind |-> q.kind, via |-> Via(q),
                           target |-> Target(q), user |-> Principal(q),
                           scope |-> q.scope]
BY DEF VerdictOf

\* authenticate's test of a row is the one of the mapping: the handler lets in
\* whom a session in force belongs to, and nobody else.
LEMMA AcceptedMayEnter ==
    ASSUME NEW row \in Row \cup {None}, NEW owner, now \in Nat
    PROVE  Accepted(row, owner) <=> MayEnter(row, owner)
BY DEF Accepted, Live, MayEnter, InForce, Row

LEMMA CheckSessionRefines ==
    ASSUME GateInv, NEW r \in Requests, CheckSession(r)
    PROVE  PolicyStep
<1> USE Invariants
<1> DEFINE next == IF req[r].kind = "session" THEN "listWorkspaces" ELSE "hasAccess"
           q == [req[r] EXCEPT !.pc = next, !.user = req[r].found.user]
<1>1. req[r].pc = "checkSession" /\ OnlyReq
  BY DEF CheckSession, At
<1>2. CASE \E a \in {"unauthenticated", "invalidWorkspaceId"} : Deny(r, a)
  BY <1>1, <1>2, DenyRefuses, SlotStep DEF Answers
<1>3. CASE Accepted(req[r].found, req[r].owner) /\ req' = [req EXCEPT ![r] = q]
  <2>0. MayEnter(req[r].found, req[r].owner)
    BY <1>3, AcceptedMayEnter, GateAssumption DEF TypeOK, Handler
  <2>1. /\ q.pc \in {"listWorkspaces", "hasAccess"} /\ q.user = req[r].found.user
        /\ q.kind = req[r].kind /\ q.cookie = req[r].cookie
        /\ q.target = req[r].target /\ q.scope = req[r].scope
    BY DEF Handler
  <2> HIDE DEF q
  <2>2. Stage(req[r]) = "identified" /\ Stage(q) = "identified"
    BY <1>1, <2>0, <2>1 DEF Stage
  <2>3. Via(q) = Via(req[r]) /\ Target(q) = Target(req[r]) /\ Principal(q) = Principal(req[r])
    BY <1>1, <2>1 DEF Via, Target, Principal
  <2>4. VerdictOf(q) = VerdictOf(req[r])
    BY <2>1, <2>2, <2>3 DEF VerdictOf
  <2> QED
    BY <1>1, <1>3, <2>4, SameVerdict
<1> QED
  BY <1>2, <1>3 DEF CheckSession

\* Giving an identified request its data is a Grant, if what it is given is
\* what its user holds at this instant.
LEMMA GrantStep ==
    ASSUME GateInv, NEW r \in Requests, NEW q, req' = [req EXCEPT ![r] = q], OnlyReq,
           req[r].pc \in {"hasAccess", "listWorkspaces"}, Stage(q) = "granted",
           q.pc # "checkSession", q.kind = req[r].kind, q.cookie = req[r].cookie,
           q.target = req[r].target, q.user = req[r].user,
           q.scope = {w \in (IF q.kind = "dashboard" THEN {q.target} ELSE Workspaces)
                              \cap workspaces :
                        memberships[<<q.user, w>>] = "active"},
           q.kind = "dashboard" => q.scope # {}
    PROVE  PolicyStep
<1> DEFINE v == PolicyVerdict[r]
<1>1. /\ PolicyVerdict' = [PolicyVerdict EXCEPT ![r] = VerdictOf(q)]
      /\ v = VerdictOf(req[r])
  BY VerdictStep DEF OnlyReq, PolicyVerdict
<1>2. Stage(req[r]) = "identified" /\ req[r].kind \in {"dashboard", "session"}
  BY Invariants DEF Stage, OnCourse, StepsOf, Handler, Kinds
<1>3. v = [stage |-> "identified", kind |-> req[r].kind, via |-> Via(req[r]),
           target |-> Target(req[r]), user |-> req[r].user, scope |-> req[r].scope]
  BY <1>1, <1>2, Decided DEF Principal
<1>4. Via(q) = Via(req[r]) /\ Target(q) = Target(req[r]) /\ Principal(q) = req[r].user
  BY DEF Via, Target, Principal
<1>5. VerdictOf(q) = [stage |-> "granted", kind |-> req[r].kind, via |-> Via(req[r]),
                      target |-> Target(req[r]), user |-> req[r].user,
                      scope |-> q.scope]
  BY <1>4, Decided
<1>6. VerdictOf(q) = Policy!Decide(v, "granted", v.user, q.scope)
  BY <1>3, <1>5 DEF Policy!Decide
<1>7. /\ v.stage = "identified" /\ v.kind = q.kind /\ v.user = q.user
      /\ q.kind \in {"dashboard", "session"}
      /\ v.target = q.target
  BY <1>2, <1>3 DEF Target
<1> HIDE DEF v
<1>8. Policy!Grant(r)
  BY <1>1, <1>6, <1>7, SessionStep
  DEF Policy!Grant, OnlyReq, accounts, Policy!accounts, v
<1> QED
  BY <1>8, SlotStep

LEMMA ListWorkspacesRefines ==
    ASSUME GateInv, NEW r \in Requests, ListWorkspaces(r)
    PROVE  PolicyStep
<1> USE Invariants
<1> DEFINE q == [req[r] EXCEPT !.pc = "done", !.answer = "workspaces",
                               !.scope = ListActiveForUser(req[r].user)]
<1>1. /\ q.pc = "done" /\ q.answer = "workspaces" /\ q.kind = req[r].kind
      /\ q.cookie = req[r].cookie /\ q.target = req[r].target /\ q.user = req[r].user
      /\ q.scope = ListActiveForUser(req[r].user)
  BY DEF Handler
<1>2. req[r].pc = "listWorkspaces" /\ OnlyReq /\ req' = [req EXCEPT ![r] = q]
  BY DEF ListWorkspaces, At
<1>3. req[r].kind = "session"
  BY <1>2 DEF OnCourse, StepsOf, Handler, Kinds
<1> HIDE DEF q
<1>4. Stage(q) = "granted"
  BY <1>1 DEF Stage
<1>5. q.scope = {w \in (IF q.kind = "dashboard" THEN {q.target} ELSE Workspaces)
                         \cap workspaces : memberships[<<q.user, w>>] = "active"}
  BY <1>1, <1>3 DEF ListActiveForUser, HasActiveMembership
<1> QED
  BY <1>1, <1>2, <1>3, <1>4, <1>5, GrantStep

\* A membership row implies its workspace: the foreign key of the table.
LEMMA HasAccessRefines ==
    ASSUME GateInv, NEW r \in Requests, HasAccess(r)
    PROVE  PolicyStep
<1> USE Invariants
<1> DEFINE q == [req[r] EXCEPT !.pc = "readNotion", !.scope = {req[r].target}]
<1>1. req[r].pc = "hasAccess" /\ OnlyReq
  BY DEF HasAccess, At
<1>2. CASE Deny(r, "forbidden")
  BY <1>1, <1>2, DenyRefuses, SlotStep DEF Answers
<1>3. CASE HasActiveMembership(req[r].user, req[r].target) /\ req' = [req EXCEPT ![r] = q]
  <2>1. /\ q.pc = "readNotion" /\ q.kind = req[r].kind
        /\ q.cookie = req[r].cookie /\ q.target = req[r].target /\ q.user = req[r].user
        /\ q.scope = {req[r].target}
    BY DEF Handler
  <2>2. req[r].kind = "dashboard" /\ req[r].target \in Workspaces /\ req[r].user \in Users
    BY <1>1 DEF OnCourse, StepsOf, Handler, Kinds
  <2>3. req[r].target \in workspaces
    BY <1>3, <2>2 DEF HasActiveMembership, GateInv, ReferentialIntegrity
  <2> HIDE DEF q
  <2>4. Stage(q) = "granted"
    BY <2>1 DEF Stage
  <2>5. q.scope = {w \in (IF q.kind = "dashboard" THEN {q.target} ELSE Workspaces)
                           \cap workspaces : memberships[<<q.user, w>>] = "active"}
    BY <1>3, <2>1, <2>2, <2>3 DEF HasActiveMembership
  <2> QED
    BY <1>1, <1>3, <2>1, <2>2, <2>4, <2>5, GrantStep
<1> QED
  BY <1>2, <1>3 DEF HasAccess

LEMMA DashboardReadsRefine ==
    ASSUME GateInv, NEW r \in Requests, ReadNotion(r) \/ ReadSettings(r)
    PROVE  PolicyStep
<1> USE Invariants
<1>1. req[r].pc \in {"readNotion", "readSettings"} /\ OnlyReq
  BY DEF ReadNotion, ReadSettings, At
<1>2. CASE \E a \in {"notionUnavailable", "internalError"} : Deny(r, a)
  BY <1>1, <1>2, DenyRefuses, SlotStep DEF Answers
<1>3. ASSUME NEW q, req' = [req EXCEPT ![r] = q],
             q.pc = "readSettings" \/ (q.pc = "done" /\ q.answer = "dashboard"),
             q.kind = req[r].kind, q.cookie = req[r].cookie,
             q.target = req[r].target, q.user = req[r].user, q.scope = req[r].scope
      PROVE  PolicyStep
  <2>1. Stage(q) = "granted" /\ Stage(req[r]) = "granted"
    BY <1>1, <1>3 DEF Stage
  <2>2. Via(q) = Via(req[r]) /\ Target(q) = Target(req[r]) /\ Principal(q) = Principal(req[r])
    BY <1>1, <1>3 DEF Via, Target, Principal
  <2>3. VerdictOf(q) = VerdictOf(req[r])
    BY <1>3, <2>1, <2>2 DEF VerdictOf
  <2> QED
    BY <1>1, <1>3, <2>3, SameVerdict
<1>4. CASE req' = [req EXCEPT ![r].pc = "readSettings"]
  <2> DEFINE q == [req[r] EXCEPT !.pc = "readSettings"]
  <2>1. /\ q.pc = "readSettings" /\ q.kind = req[r].kind /\ q.cookie = req[r].cookie
        /\ q.target = req[r].target /\ q.user = req[r].user /\ q.scope = req[r].scope
    BY DEF Handler
  <2>2. req' = [req EXCEPT ![r] = q]
    BY <1>4
  <2> HIDE DEF q
  <2> QED
    BY <1>3, <2>1, <2>2
<1>5. CASE Answer(r, "dashboard")
  <2> DEFINE q == [req[r] EXCEPT !.pc = "done", !.answer = "dashboard"]
  <2>1. /\ q.pc = "done" /\ q.answer = "dashboard"
        /\ q.kind = req[r].kind /\ q.cookie = req[r].cookie
        /\ q.target = req[r].target /\ q.user = req[r].user /\ q.scope = req[r].scope
    BY DEF Handler
  <2>2. req' = [req EXCEPT ![r] = q]
    BY <1>5 DEF Answer
  <2> HIDE DEF q
  <2> QED
    BY <1>3, <2>1, <2>2
<1> QED
  BY <1>2, <1>4, <1>5 DEF ReadNotion, ReadSettings

LEMMA DatabaseFailsRefines ==
    ASSUME GateInv, NEW r \in Requests, DatabaseFails(r)
    PROVE  PolicyStep
BY DenyRefuses, SlotStep DEF DatabaseFails, OutageAnswer, Answers

-------------------------------------------------------------------------------
(* Signing in *)

LEMMA FindIdentityRefines ==
    ASSUME GateInv, NEW r \in Requests, FindIdentity(r)
    PROVE  PolicyStep
<1> USE Invariants
<1> DEFINE u == identities[req[r].target]
           q == [req[r] EXCEPT !.pc = "findUser", !.user = u]
           v == PolicyVerdict[r]
<1>1. req[r].pc = "findIdentity" /\ OnlyReq
  BY DEF FindIdentity, At
<1>2. CASE Deny(r, "notAuthorized")
  BY <1>1, <1>2, DenyRefuses, SlotStep DEF Answers
<1>3. CASE MaySignIn(u) /\ req' = [req EXCEPT ![r] = q]
  <2>1. /\ q.pc = "findUser" /\ q.user = u /\ q.kind = req[r].kind
        /\ q.cookie = req[r].cookie /\ q.target = req[r].target
        /\ q.scope = req[r].scope
    BY DEF Handler
  <2>2. /\ req[r].kind = "callback" /\ req[r].target \in Identities
        /\ req[r].user = None /\ req[r].scope = {}
    BY <1>1 DEF OnCourse, StepsOf, Handler, Kinds
  <2>3. u \in Users /\ users[u] = "enabled"
    BY <1>3 DEF MaySignIn
  <2> HIDE DEF q
  <2>4. PolicyVerdict' = [PolicyVerdict EXCEPT ![r] = VerdictOf(q)]
    BY <1>1, <1>3, VerdictStep DEF OnlyReq
  <2>5. v = [stage |-> "asked", kind |-> "callback", via |-> req[r].target,
             target |-> None, user |-> None, scope |-> {}]
    <3>1. Stage(req[r]) = "asked"
      BY <1>1 DEF Stage
    <3> QED
      BY <1>1, <2>2, <3>1, Decided DEF PolicyVerdict, Via, Target, Principal
  <2>6. VerdictOf(q) = [stage |-> "identified", kind |-> "callback",
                        via |-> req[r].target, target |-> None, user |-> u,
                        scope |-> {}]
    <3>1. Stage(q) = "identified"
      BY <2>1 DEF Stage
    <3> QED
      BY <2>1, <2>2, <3>1, Decided DEF Via, Target, Principal
  <2>7. VerdictOf(q) = Policy!Decide(v, "identified", u, {})
    BY <2>5, <2>6 DEF Policy!Decide
  <2>8. v.stage = "asked" /\ Policy!Names(v, u)
    BY <2>5 DEF Policy!Names
  <2> HIDE DEF v, u
  <2>9. Policy!Identify(r)
    BY <1>1, <2>3, <2>4, <2>7, <2>8, SessionStep
    DEF Policy!Identify, OnlyReq, accounts, Policy!accounts, v
  <2> QED
    BY <2>9, SlotStep
<1> QED
  BY <1>2, <1>3 DEF FindIdentity, FindUserByIdentity

LEMMA FindUserRefines ==
    ASSUME GateInv, NEW r \in Requests, FindUser(r)
    PROVE  PolicyStep
<1> USE Invariants
<1> DEFINE q == [req[r] EXCEPT !.pc = "insertSession",
                               !.found = NewSession(req[r].user)]
<1>1. req[r].pc = "findUser" /\ OnlyReq
  BY DEF FindUser, At
<1>2. CASE Deny(r, "notAuthorized")
  BY <1>1, <1>2, DenyRefuses, SlotStep DEF Answers
<1>3. CASE req' = [req EXCEPT ![r] = q]
  <2>1. /\ q.pc = "insertSession" /\ q.user = req[r].user /\ q.kind = req[r].kind
        /\ q.cookie = req[r].cookie /\ q.target = req[r].target
        /\ q.scope = req[r].scope
    BY DEF Handler
  <2> HIDE DEF q
  <2>2. Stage(req[r]) = "identified" /\ Stage(q) = "identified"
    BY <1>1, <2>1 DEF Stage
  <2>3. Via(q) = Via(req[r]) /\ Target(q) = Target(req[r]) /\ Principal(q) = Principal(req[r])
    BY <1>1, <2>1 DEF Via, Target, Principal
  <2>4. VerdictOf(q) = VerdictOf(req[r])
    BY <2>1, <2>2, <2>3 DEF VerdictOf
  <2> QED
    BY <1>1, <1>3, <2>4, SameVerdict
<1> QED
  BY <1>2, <1>3 DEF FindUser

\* Storing the row opens the session, whether or not the browser hears of it.
LEMMA InsertSessionRefines ==
    ASSUME GateInv, NEW r \in Requests, InsertSession(r)
    PROVE  PolicyStep
<1> USE Invariants
<1> DEFINE c == req[r].cookie
           row == req[r].found
           q == [req[r] EXCEPT !.pc = "done", !.answer = "loggedIn"]
           v == PolicyVerdict[r]
<1>1. /\ req[r].pc = "insertSession" /\ req[r].kind = "callback"
      /\ row \in Row /\ row.user = req[r].user /\ req[r].scope = {}
      /\ sessions' = [sessions EXCEPT ![c] = row]
      /\ UNCHANGED <<accounts, now>>
  BY DEF InsertSession, At, OnCourse, StepsOf, Handler, Kinds
<1>2. c \in Tokens /\ sessions[c] = None
  BY <1>1 DEF SigningIn, GateInv, TokensAreUnused
<1>3. v = [stage |-> "identified", kind |-> "callback", via |-> req[r].target,
           target |-> None, user |-> req[r].user, scope |-> {}]
  <2>1. Stage(req[r]) = "identified"
    BY <1>1 DEF Stage
  <2> QED
    BY <1>1, <2>1, Decided DEF PolicyVerdict, Via, Target, Principal
<1>4. PolicySession' =
        [PolicySession EXCEPT ![c] = [owner |-> row.user, open |-> InForce(row)]]
  <2>1. row # None
    BY <1>1, GateAssumption
  <2> QED
    BY <1>1, <1>2, <2>1 DEF PolicySession, InForce
<1>5. \E w \in {Policy!Decide(v, "granted", v.user, {}), Policy!Refusal} :
        PolicyVerdict' = [PolicyVerdict EXCEPT ![r] = w]
  <2>1. CASE Deny(r, OutageAnswer(req[r]))
    BY <1>1, <2>1, DenyVerdict, Outage DEF OutageAnswer
  <2>2. CASE Answer(r, "loggedIn")
    <3>1. /\ q.pc = "done" /\ q.answer = "loggedIn" /\ q.kind = req[r].kind
          /\ q.target = req[r].target /\ q.user = req[r].user
          /\ q.scope = req[r].scope
      BY DEF Handler
    <3>2. req' = [req EXCEPT ![r] = q]
      BY <2>2 DEF Answer
    <3> HIDE DEF q
    <3>3. Stage(q) = "granted"
      BY <3>1 DEF Stage
    <3>4. VerdictOf(q) = [stage |-> "granted", kind |-> "callback",
                          via |-> req[r].target, target |-> None,
                          user |-> req[r].user, scope |-> {}]
      BY <1>1, <3>1, <3>3, Decided DEF Via, Target, Principal
    <3>5. VerdictOf(q) = Policy!Decide(v, "granted", v.user, {})
      BY <1>3, <3>4 DEF Policy!Decide
    <3> QED
      BY <1>1, <3>2, <3>5, VerdictStep
  <2> QED
    BY <2>1, <2>2 DEF InsertSession
<1>6. PolicySession[c].owner = None
  BY <1>2 DEF PolicySession
<1>7. InForce(row) \in BOOLEAN
  BY DEF InForce
<1>8. v.stage = "identified" /\ v.kind = "callback" /\ v.user = row.user
  BY <1>1, <1>3
<1> HIDE DEF c, row
<1>9. Policy!OpenSession(r, c)
  BY <1>1, <1>4, <1>5, <1>6, <1>7, <1>8
  DEF Policy!OpenSession, accounts, Policy!accounts
<1> QED
  BY <1>2, <1>9, SlotStep

-------------------------------------------------------------------------------
(* Logging out *)

\* Revoking the row closes the session the request names; a well-formed
\* token without a row changes nothing and counts as a refusal.
LEMMA RevokeSessionRefines ==
    ASSUME GateInv, NEW r \in Requests, RevokeSession(r)
    PROVE  PolicyStep
<1> USE Invariants
<1> DEFINE c == req[r].cookie
           q == [req[r] EXCEPT !.pc = "done", !.answer = "loggedOut"]
           v == PolicyVerdict[r]
<1>1. /\ req[r].pc = "revoke" /\ req[r].kind = "logout" /\ req[r].target = None
      /\ req[r].user = None /\ req[r].scope = {}
      /\ sessions' = Revoked(c)
      /\ UNCHANGED <<accounts, now>>
  BY DEF RevokeSession, At, OnCourse, StepsOf, Handler, Kinds
<1>2. /\ q.pc = "done" /\ q.answer = "loggedOut" /\ q.kind = "logout"
      /\ q.target = None /\ q.user = None /\ q.scope = {} /\ q.cookie = c
  BY <1>1 DEF Handler
<1>3. Answer(r, "loggedOut") => req' = [req EXCEPT ![r] = q]
  BY DEF Answer
<1> HIDE DEF q
<1>4. \/ PolicyVerdict' = [PolicyVerdict EXCEPT ![r] = Policy!Refusal]
      \/ PolicyVerdict' = [PolicyVerdict EXCEPT ![r] = VerdictOf(q)]
  <2>1. CASE Deny(r, OutageAnswer(req[r]))
    BY <1>1, <2>1, DenyVerdict, Outage DEF OutageAnswer
  <2>2. CASE Answer(r, "loggedOut")
    BY <1>1, <1>3, <2>2, VerdictStep
  <2> QED
    BY <2>1, <2>2 DEF RevokeSession
<1>5. CASE c \notin Tokens
  <2>1. sessions' = sessions
    <3>1. sessions = [t \in Tokens |-> sessions[t]]
      OBVIOUS
    <3> QED
      BY <1>1, <1>5, <3>1 DEF Revoked
  <2>2. VerdictOf(q) = Policy!Refusal
    <3>1. Stage(q) = "refused"
      BY <1>2, <1>5 DEF Stage
    <3> QED
      BY <3>1 DEF VerdictOf, Policy!Refusal, Policy!Nothing
  <2>3. Policy!Refuse(r)
    BY <1>1, <1>4, <2>1, <2>2, SessionStep DEF Policy!Refuse, accounts, Policy!accounts
  <2> QED
    BY <2>3, SlotStep
<1>6. CASE c \in Tokens
  <2>1. sessions[c] # None /\ sessions[c] \in Row
    BY <1>1, <1>6 DEF SentByBrowser, GateInv, IssuedTokensHaveRows
  <2>2. v = [stage |-> "asked", kind |-> "logout", via |-> c,
             target |-> None, user |-> None, scope |-> {}]
    <3>1. Stage(req[r]) = "asked"
      BY <1>1 DEF Stage
    <3> QED
      BY <1>1, <1>6, <3>1, Decided DEF PolicyVerdict, Via, Target, Principal
  <2>3. VerdictOf(q) = Policy!Decide(v, "granted", None, {})
    <3>1. Stage(q) = "granted"
      BY <1>2, <1>6 DEF Stage
    <3>2. VerdictOf(q) = [stage |-> "granted", kind |-> "logout", via |-> c,
                          target |-> None, user |-> None, scope |-> {}]
      BY <1>2, <1>6, <3>1, Decided DEF Via, Target, Principal
    <3> QED
      BY <2>2, <3>2 DEF Policy!Decide
  <2>4. PolicySession' = [PolicySession EXCEPT ![c] = Policy!Closed(@)]
    <3>1. sessions'[c] = [sessions[c] EXCEPT !.revoked = TRUE]
      BY <1>1, <1>6, <2>1 DEF Revoked
    <3>2. /\ sessions'[c] # None /\ sessions'[c].user = sessions[c].user
          /\ sessions'[c].revoked
      BY <2>1, <3>1, GateAssumption DEF Row
    <3>3. \A t \in Tokens \ {c} : sessions'[t] = sessions[t]
      BY <1>1 DEF Revoked
    <3>4. /\ PolicySession'[c] = [owner |-> sessions[c].user, open |-> FALSE]
          /\ PolicySession[c] = [owner |-> sessions[c].user, open |-> InForce(sessions[c])]
      BY <1>6, <2>1, <3>2 DEF PolicySession, InForce
    <3>5. \A t \in Tokens \ {c} : PolicySession'[t] = PolicySession[t]
      BY <1>1, <3>3 DEF PolicySession, InForce
    <3>6. PolicySession'[c] = Policy!Closed(PolicySession[c])
      BY <3>4 DEF Policy!Closed
    <3>7. /\ PolicySession' = [t \in Tokens |-> PolicySession'[t]]
          /\ DOMAIN PolicySession = Tokens
      BY DEF PolicySession
    <3> QED
      BY <1>6, <3>5, <3>6, <3>7
  <2>5. v.stage = "asked" /\ v.kind = "logout" /\ v.via = c
    BY <2>2
  <2> HIDE DEF c
  <2>6. Policy!CloseSession(r)
    BY <1>1, <1>4, <1>6, <2>3, <2>4, <2>5
    DEF Policy!CloseSession, accounts, Policy!accounts
  <2> QED
    BY <2>6, SlotStep
<1> QED
  BY <1>5, <1>6

LEMMA HandleRefines ==
    ASSUME GateInv, NEW r \in Requests, Handle(r)
    PROVE  PolicyStep
BY FindSessionRefines, CheckSessionRefines, ListWorkspacesRefines, HasAccessRefines,
   DashboardReadsRefine, RevokeSessionRefines, FindIdentityRefines, FindUserRefines,
   InsertSessionRefines, DatabaseFailsRefines DEF Handle

-------------------------------------------------------------------------------
(* Time, the account tables, and the specification *)

\* A tick closes the sessions that expire, and drops the requests whose row
\* was accepted up to now and has not been looked at yet.
LEMMA TickRefines ==
    ASSUME GateInv, Tick
    PROVE  PolicyStep
<1> DEFINE ended == {t \in Tokens : ~PolicySession'[t].open}
           dropped == {r \in Requests : Stage(req[r]) = "identified"
                                          /\ Stage(req[r])' = "refused"}
<1>1. UNCHANGED <<accounts, sessions, req>> /\ now' = now + 1 /\ now \in Nat
  BY GateAssumption DEF Tick, GateInv, TypeOK
<1>2. ASSUME NEW row \in Row PROVE InForce(row)' => InForce(row)
  BY <1>1, <1>2 DEF InForce, Row
<1>3. \A t \in Tokens :
        PolicySession'[t] = IF t \in ended THEN Policy!Closed(PolicySession[t])
                                           ELSE PolicySession[t]
  <2> SUFFICES ASSUME NEW t \in Tokens
      PROVE PolicySession'[t] = IF t \in ended
                                THEN Policy!Closed(PolicySession[t])
                                ELSE PolicySession[t]
    OBVIOUS
  <2>1. CASE sessions[t] = None
    BY <1>1, <2>1 DEF PolicySession, Policy!Closed
  <2>2. CASE sessions[t] # None
    <3>1. sessions[t] \in Row
      BY <2>2 DEF GateInv, TypeOK
    <3>2. /\ PolicySession[t] = [owner |-> sessions[t].user, open |-> InForce(sessions[t])]
          /\ PolicySession'[t] = [owner |-> sessions[t].user, open |-> InForce(sessions[t])']
      BY <1>1, <2>2 DEF PolicySession, InForce
    <3>3. InForce(sessions[t])' => InForce(sessions[t])
      BY <1>1, <1>2, <3>1 DEF InForce
    <3>4. InForce(sessions[t]) \in BOOLEAN /\ InForce(sessions[t])' \in BOOLEAN
      BY DEF InForce
    <3>5. /\ PolicySession[t].open = InForce(sessions[t])
          /\ PolicySession'[t].open = InForce(sessions[t])'
      BY <3>2
    <3>6. CASE t \in ended
      <4>1. InForce(sessions[t])' = FALSE
        BY <3>4, <3>5, <3>6
      <4>2. PolicySession[t].owner = sessions[t].user
        BY <3>2
      <4>3. PolicySession'[t] = [owner |-> PolicySession[t].owner, open |-> FALSE]
        BY <3>2, <4>1, <4>2
      <4> QED
        BY <3>6, <4>3 DEF Policy!Closed
    <3>7. CASE t \notin ended
      BY <3>2, <3>3, <3>4, <3>5, <3>7
    <3> QED
      BY <3>6, <3>7
  <2> QED
    BY <2>1, <2>2
<1>4. PolicySession' = [t \in Tokens |-> IF t \in ended
                                         THEN Policy!Closed(PolicySession[t])
                                         ELSE PolicySession[t]]
  <2>1. PolicySession' = [t \in Tokens |-> PolicySession'[t]]
    BY DEF PolicySession
  <2> HIDE DEF ended
  <2> QED
    BY <1>3, <2>1
<1>5. \A r \in Requests :
        PolicyVerdict'[r] = IF r \in dropped THEN Policy!Refusal ELSE PolicyVerdict[r]
  <2> SUFFICES ASSUME NEW r \in Requests
      PROVE PolicyVerdict'[r] = IF r \in dropped THEN Policy!Refusal
                                                 ELSE PolicyVerdict[r]
    OBVIOUS
  <2>1. /\ PolicyVerdict[r] = VerdictOf(req[r])
        /\ PolicyVerdict'[r] = VerdictOf(req[r])'
    BY DEF PolicyVerdict
  <2>2. CASE Stage(req[r])' = Stage(req[r])
    <3>1. VerdictOf(req[r])' = VerdictOf(req[r])
      BY <1>1, <2>2 DEF VerdictOf, Via, Target, Principal
    <3> QED
      BY <2>1, <2>2, <3>1
  <2>3. CASE Stage(req[r])' # Stage(req[r])
    <3>1. /\ req[r].pc = "checkSession"
          /\ MayEnter(req[r].found, req[r].owner) # MayEnter(req[r].found, req[r].owner)'
      BY <1>1, <2>3 DEF Stage
    <3>2. req[r].found \in Row \cup {None}
      BY DEF GateInv, TypeOK, Handler
    <3>3. MayEnter(req[r].found, req[r].owner)' => MayEnter(req[r].found, req[r].owner)
      BY <1>1, <1>2, <3>2 DEF MayEnter, InForce
    <3>4. Stage(req[r]) = "identified" /\ Stage(req[r])' = "refused"
      BY <1>1, <3>1, <3>3 DEF Stage, MayEnter, InForce
    <3>5. VerdictOf(req[r])' = Policy!Refusal
      BY <3>4 DEF VerdictOf, Policy!Refusal, Policy!Nothing
    <3> QED
      BY <2>1, <3>4, <3>5
  <2> QED
    BY <2>2, <2>3
<1>6. PolicyVerdict' = [r \in Requests |-> IF r \in dropped THEN Policy!Refusal
                                                            ELSE PolicyVerdict[r]]
  <2>1. PolicyVerdict' = [r \in Requests |-> PolicyVerdict'[r]]
    BY DEF PolicyVerdict
  <2> HIDE DEF dropped
  <2> QED
    BY <1>5, <2>1
<1>7. dropped \in SUBSET {r \in Requests : PolicyVerdict[r].stage = "identified"}
  BY DEF PolicyVerdict, VerdictOf
<1>8. ended \in SUBSET Tokens
  OBVIOUS
<1> HIDE DEF ended, dropped
<1>9. Policy!Lapse
  BY <1>1, <1>4, <1>6, <1>7, <1>8 DEF Policy!Lapse, accounts, Policy!accounts
<1> QED
  BY <1>9 DEF PolicyStep, Policy!PolicyNext

\* The rows of the accounts are the policy's own: no verdict depends on them.
LEMMA AccountsRefine ==
    ASSUME UNCHANGED gate, AccountsNext \/ UNCHANGED accounts
    PROVE  PolicyStep
<1>1. UNCHANGED <<PolicySession, PolicyVerdict>>
  BY DEF gate, PolicySession, PolicyVerdict, VerdictOf, Stage, MayEnter, InForce, Via,
     Target, Principal
<1>2. CASE UNCHANGED accounts
  BY <1>1, <1>2 DEF PolicyStep, Policy!policyVars, Policy!accounts, accounts
<1>3. CASE AccountsNext
  <2>1. Policy!AccountsNext
    BY <1>3 DEF AccountsNext, OperatorSql, Provision, DisableUser, EnableUser,
       LinkIdentity, RevokeMembership, RestoreMembership, DeleteWorkspace,
       Policy!AccountsNext, Policy!OperatorSql, Policy!Provision, Policy!DisableUser,
       Policy!EnableUser, Policy!LinkIdentity, Policy!RevokeMembership,
       Policy!RestoreMembership, Policy!DeleteWorkspace
  <2> QED
    BY <1>1, <2>1 DEF PolicyStep, Policy!PolicyNext
<1> QED
  BY <1>2, <1>3

LEMMA StepRefines ==
    ASSUME GateInv, [Next]_vars
    PROVE  PolicyStep
BY ReceiveRefines, HandleRefines, TickRefines, AccountsRefine DEF Next, vars

LEMMA InitRefines == Init => Policy!PolicyInit
<1> SUFFICES ASSUME Init PROVE Policy!PolicyInit
  OBVIOUS
<1>1. Policy!AccountsInit
  BY DEF Init, AccountsInit, Policy!AccountsInit
<1>2. PolicySession = [t \in Tokens |-> [owner |-> None, open |-> FALSE]]
  BY DEF Init, PolicySession
<1>3. VerdictOf(Idle) = Policy!Undecided
  <2>1. Stage(Idle) = "none"
    BY DEF Stage, Idle
  <2> QED
    BY <2>1 DEF VerdictOf, Policy!Undecided, Policy!Nothing
<1>4. PolicyVerdict = [r \in Requests |-> Policy!Undecided]
  BY <1>3 DEF Init, PolicyVerdict
<1> QED
  BY <1>1, <1>2, <1>4 DEF Policy!PolicyInit

\* The request handlers implement AccessPolicy: whatever interleaving of
\* requests, logins, logouts, operators, expiry and failed statements, a
\* request is given data only after an instant of its own at which its
\* session was open and the owner enabled, and a later one at which the owner
\* held the workspaces concerned.
THEOREM GateImplementsPolicy == Spec => ImplementsPolicy
<1>1. GateInv /\ [Next]_vars => [Policy!PolicyNext]_Policy!policyVars
  BY StepRefines DEF PolicyStep
<1> QED
  BY <1>1, InitRefines, GateInvariant, PTL DEF Spec, ImplementsPolicy, Policy!PolicySpec
===============================================================================
