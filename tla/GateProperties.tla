---------------------------- MODULE GateProperties ----------------------------
(***************************************************************************)
(* What the request handlers of RequestGate guarantee, and the refinement  *)
(* mapping under which they implement AccessPolicy.                        *)
(***************************************************************************)
EXTENDS RequestGate

\* A request that arrives after the logout of its session was answered 204 is
\* never answered with data, whatever was in flight when the logout ran
\* (session-service.ts authenticate and revoke, auth-lifecycle.ts logout).
LoggedOutStaysOut ==
    \A r \in Requests :
        req[r].late => req[r].answer \notin {"dashboard", "workspaces"}

\* A session row keeps its user and its expiry for good, and once revoked
\* stays revoked: concurrent logins and logouts neither reuse a token nor
\* undo a logout (session-repository.ts create and revoke).
SessionsOnlyClose ==
    [][\A t \in Tokens :
         sessions[t] # None =>
             /\ sessions'[t] # None
             /\ sessions'[t].user = sessions[t].user
             /\ sessions'[t].expiresAt = sessions[t].expiresAt
             /\ sessions[t].revoked => sessions'[t].revoked]_vars

\* Every request a handler has accepted is answered.
EveryRequestIsAnswered ==
    \A r \in Requests : req[r].pc # "done" /\ req[r].pc # "idle" ~> req[r].pc = "done"

-------------------------------------------------------------------------------
(* The inductive invariant behind these properties *)

SigningIn(q) == q.kind = "callback" /\ q.pc # "done"

\* The awaits of each kind of request.
StepsOf(kind) ==
    CASE kind = "none" -> {"idle", "done"}
      [] kind = "dashboard" -> {"findSession", "checkSession", "hasAccess",
                                "readNotion", "readSettings", "done"}
      [] kind = "session" -> {"findSession", "checkSession", "listWorkspaces", "done"}
      [] kind = "logout" -> {"revoke", "done"}
      [] kind = "callback" -> {"findIdentity", "findUser", "insertSession", "done"}

\* What a handler holds at each await is what its later steps rely on.
OnCourse(q) ==
    /\ q.pc \in StepsOf(q.kind)
    /\ q.pc \in {"hasAccess", "listWorkspaces", "findUser", "insertSession"} =>
         q.user \in Users /\ q.scope = {}
    /\ q.pc \in {"findSession", "checkSession", "revoke", "findIdentity"} =>
         q.user = None /\ q.scope = {}
    /\ q.pc = "hasAccess" => q.target \in Workspaces
    /\ q.kind = "dashboard" => q.target \in Workspaces \cup {None}
    /\ q.kind \in {"session", "logout"} => q.target = None
    /\ q.kind = "callback" => q.target \in Identities
    /\ q.pc = "insertSession" =>
         q.found \in Row /\ q.found.user = q.user /\ ~q.found.revoked

HandlersAreOnCourse == \A r \in Requests : OnCourse(req[r])

\* A callback's token is its own: no row has it, and no other callback in
\* flight; so the insert never meets the unique index on token_hash.
TokensAreUnused ==
    /\ \A r \in Requests : SigningIn(req[r]) =>
         req[r].cookie \in Tokens /\ sessions[req[r].cookie] = None
    /\ \A r, s \in Requests :
         SigningIn(req[r]) /\ SigningIn(req[s]) /\ req[r].cookie = req[s].cookie
            => r = s

\* A token in a browser, or on its way from one, has a row.
SentByBrowser(q) ==
    q.kind \in {"dashboard", "session", "logout"} /\ q.cookie \in Tokens
        => q.cookie \in issued

IssuedTokensHaveRows ==
    /\ \A t \in issued : sessions[t] # None
    /\ \A r \in Requests : SentByBrowser(req[r])

\* Once a logout is answered 204 the row is revoked, and stays so.
ConfirmedLogoutsAreStored ==
    \A t \in loggedOut : sessions[t] # None /\ sessions[t].revoked

\* A late request gets no further than the row that rules it out.
Stopped(q) ==
    q.late =>
        /\ q.cookie \in loggedOut
        /\ q.pc \in {"findSession", "checkSession", "revoke", "done"}
        /\ q.pc = "checkSession" => q.found # None /\ q.found.revoked
        /\ q.answer \notin {"dashboard", "workspaces"}

LateRequestsAreStopped == \A r \in Requests : Stopped(req[r])

\* The inductive invariant: what RequestGate maintains and its proofs rest on.
GateInv ==
    /\ TypeOK
    /\ ReferentialIntegrity
    /\ HandlersAreOnCourse
    /\ TokensAreUnused
    /\ IssuedTokensHaveRows
    /\ ConfirmedLogoutsAreStored
    /\ LateRequestsAreStopped

-------------------------------------------------------------------------------
(* The refinement mapping *)

\* A session is in force until it is logged out or its time is over, and the
\* millisecond of expiresAt is no longer part of it.  The handlers' own test
\* is Live: this one is stated apart from it, so that Live can be wrong.
InForce(row) == ~row.revoked /\ now < row.expiresAt
MayEnter(row, owner) == row # None /\ owner = "enabled" /\ InForce(row)

\* A token's session is open while its row is in force.
PolicySession ==
    [t \in Tokens |->
        IF sessions[t] = None THEN [owner |-> None, open |-> FALSE]
        ELSE [owner |-> sessions[t].user, open |-> InForce(sessions[t])]]

\* A row on its way back to the handler already decides: refused if it is no
\* longer in force, and time only takes more rows out of force.
Stage(q) ==
    CASE q.pc = "idle" -> "none"
      [] q.pc \in {"findSession", "revoke", "findIdentity"} -> "asked"
      [] q.pc = "checkSession" ->
           IF MayEnter(q.found, q.owner) THEN "identified" ELSE "refused"
      [] q.pc \in {"hasAccess", "listWorkspaces", "findUser", "insertSession"} ->
           "identified"
      [] q.pc \in {"readNotion", "readSettings"} -> "granted"
      [] q.pc = "done" ->
           IF \/ q.answer \in {"dashboard", "workspaces", "loggedIn"}
              \/ q.answer = "loggedOut" /\ q.cookie \in Tokens
           THEN "granted" ELSE "refused"

Via(q) == IF q.kind = "callback" THEN q.target
          ELSE IF q.cookie \in Tokens THEN q.cookie ELSE None
Target(q) == IF q.kind = "callback" THEN None ELSE q.target
Principal(q) == IF q.pc = "checkSession" THEN q.found.user ELSE q.user

VerdictOf(q) ==
    IF Stage(q) \in {"none", "refused"}
    THEN [stage |-> Stage(q), kind |-> "none", via |-> None, target |-> None,
          user |-> None, scope |-> {}]
    ELSE [stage |-> Stage(q), kind |-> q.kind, via |-> Via(q), target |-> Target(q),
          user |-> Principal(q), scope |-> q.scope]

PolicyVerdict == [r \in Requests |-> VerdictOf(req[r])]

Policy == INSTANCE AccessPolicy WITH session <- PolicySession,
                                     verdict <- PolicyVerdict

\* The handlers implement AccessPolicy: data is only ever sent after an
\* instant of the request at which its session was open and the owner
\* enabled, and a later one at which the membership was active; a session is
\* opened only for the enabled user of an identity and never reopens.
ImplementsPolicy == Policy!PolicySpec
===============================================================================
