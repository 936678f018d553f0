------------------------------ MODULE RequestGate ------------------------------
(***************************************************************************)
(* The API's request handlers between the session cookie and the answer:   *)
(* GET /api/workspaces/:id/dashboard, GET /api/auth/session, POST          *)
(* /api/auth/logout and the part of GET /api/auth/callback that follows    *)
(* the provider's validation.  Each action is one await of a handler: the  *)
(* statement runs against the tables at one instant, and handlers of other *)
(* requests, the clock and the operators run between two awaits.  Any      *)
(* statement may fail (statement_timeout, lost connection); a write may    *)
(* commit and still be reported as failed.                                 *)
(***************************************************************************)
EXTENDS Accounts, Integers

CONSTANTS Tokens,           \* session tokens that may be generated: bounds logins
          Requests,         \* slots for concurrent requests
          SessionDuration,  \* 8 hours, in ticks
          MaxTime,          \* bound on the clock
          Ambiguous,        \* a Cookie header with two nwa_session cookies
          Unknown           \* a well-formed token no row has

\* A row of the sessions table; created_at is never read.
Row == [user : Users, expiresAt : Nat, revoked : BOOLEAN]

Answers == {"unauthenticated", "invalidWorkspaceId", "forbidden", "dashboard",
            "workspaces", "loggedOut", "ambiguousCookie", "invalidOrigin",
            "loggedIn", "notAuthorized", "authUnavailable",
            "notionUnavailable", "serviceUnavailable", "internalError"}

ASSUME GateAssumption ==
    /\ SessionDuration \in Nat \ {0}
    /\ MaxTime \in Nat
    /\ None \notin Tokens \cup Row \cup Answers
    /\ {Ambiguous, Unknown} \cap (Tokens \cup {None}) = {}
    /\ Ambiguous # Unknown

VARIABLES now,        \* the clock of the API process
          sessions,   \* [Tokens -> row of the sessions table, or None]
          issued,     \* tokens some browser has been sent
          loggedOut,  \* history: tokens whose logout has been answered 204
          req         \* [Requests -> state of the handler in the slot]

gate == <<now, sessions, issued, loggedOut, req>>
vars == <<accounts, gate>>

Kinds == {"dashboard", "session", "logout", "callback"}
Cookies == Tokens \cup {None, Ambiguous, Unknown}
DatabaseSteps == {"findSession", "hasAccess", "listWorkspaces", "readSettings",
                  "revoke", "findIdentity", "findUser", "insertSession"}
Steps == DatabaseSteps \cup {"idle", "checkSession", "readNotion", "done"}

\* One handler: what it was asked, and what it holds across its awaits.
Handler ==
    [kind : Kinds \cup {"none"},
     pc : Steps,
     cookie : Cookies,                    \* callback: the token it will generate
     target : Workspaces \cup Identities \cup {None},  \* None: not a UUID
     late : BOOLEAN,                      \* history: cookie already logged out
     found : Row \cup {None},             \* row read, or about to be inserted
     owner : UserStatus \cup {None},      \* status of the row's user, as joined
     user : Users \cup {None},            \* the principal
     scope : SUBSET Workspaces,           \* workspaces the answer is about
     answer : Answers \cup {None}]

Idle == [kind |-> "none", pc |-> "idle", cookie |-> None, target |-> None,
         late |-> FALSE, found |-> None, owner |-> None, user |-> None,
         scope |-> {}, answer |-> None]

TypeOK ==
    /\ AccountsTypeOK
    /\ now \in 0 .. MaxTime
    /\ sessions \in [Tokens -> Row \cup {None}]
    /\ issued \in SUBSET Tokens
    /\ loggedOut \in SUBSET Tokens
    /\ req \in [Requests -> Handler]

Init ==
    /\ AccountsInit
    /\ now = 0
    /\ sessions = [t \in Tokens |-> None]
    /\ issued = {}
    /\ loggedOut = {}
    /\ req = [r \in Requests |-> Idle]

-------------------------------------------------------------------------------
(* Sessions *)

\* Mutants, here and below, are wrong versions of the definition that follows
\* them: they show that the properties notice the mistake.
\* Mutant: authenticate forgets revoked_at.
LiveUntilExpiry(row) == row.expiresAt > now
\* Mutant: authenticate forgets the disabled_at of the joined user.
AcceptedAnyOwner(row, owner) == row # None /\ ~row.revoked /\ row.expiresAt > now

\* authenticate's test of the joined row, against the clock of that moment.
Live(row) == ~row.revoked /\ row.expiresAt > now
Accepted(row, owner) == row # None /\ owner = "enabled" /\ Live(row)

\* isValidSessionToken, after hasDuplicateCookie: no lookup without a token.
WellFormed(cookie) == cookie \notin {None, Ambiguous}

FindByTokenHash(cookie) == IF cookie \in Tokens THEN sessions[cookie] ELSE None
\* Mutant: the join selects the user's id for its status.
OwnerId(row) == IF row = None THEN None ELSE row.user
OwnerOf(row) == IF row = None THEN None ELSE users[row.user]

\* The row ApplicationSessionService.create inserts.
NewSession(u) == [user |-> u, expiresAt |-> now + SessionDuration, revoked |-> FALSE]

\* Mutant: logging out deletes the row.
Deleted(cookie) == [t \in Tokens |-> IF t = cookie THEN None ELSE sessions[t]]

\* UPDATE ... SET revoked_at WHERE token_hash: no row, no change.
Revoked(cookie) ==
    [t \in Tokens |-> IF t = cookie /\ sessions[t] # None
                      THEN [sessions[t] EXCEPT !.revoked = TRUE]
                      ELSE sessions[t]]

\* Mutant: a token another callback may be about to store.
UnstoredTokens == {t \in Tokens : sessions[t] = None}

\* 32 random bytes: never a token that has a row or is about to get one.
FreshTokens ==
    {t \in Tokens :
        /\ sessions[t] = None
        /\ \A r \in Requests :
             ~(req[r].kind = "callback" /\ req[r].pc # "done" /\ req[r].cookie = t)}

-------------------------------------------------------------------------------
(* Handler plumbing *)

Free(r) == req[r].pc \in {"idle", "done"}
At(r, pc) == req[r].pc = pc

Arrive(r, kind, pc, cookie, target) ==
    req' = [req EXCEPT ![r] =
        [Idle EXCEPT !.kind = kind, !.pc = pc, !.cookie = cookie,
                     !.target = target, !.late = cookie \in loggedOut]]

Answer(r, answer) == req' = [req EXCEPT ![r].pc = "done", ![r].answer = answer]

\* An answer that gives nothing: all the handler held is dropped.
Deny(r, answer) ==
    req' = [req EXCEPT ![r] = [Idle EXCEPT !.pc = "done", !.answer = answer]]

OnlyReq == UNCHANGED <<accounts, now, sessions, issued, loggedOut>>

\* What a browser may send: a token it was given, none or a malformed one,
\* two of them, or one the server never made.
Sendable == issued \cup {None, Ambiguous, Unknown}

\* The error answer when the statement in flight fails.
OutageAnswer(q) ==
    IF q.pc = "readSettings" THEN "internalError"
    ELSE IF q.kind = "callback" THEN "serviceUnavailable"
    ELSE "authUnavailable"

DatabaseFails(r) ==
    /\ req[r].pc \in DatabaseSteps
    /\ Deny(r, OutageAnswer(req[r]))
    /\ OnlyReq

-------------------------------------------------------------------------------
(* Authentication, shared by the dashboard and the session route *)

ReceiveDashboard(r) ==
    /\ Free(r)
    /\ \E c \in Sendable, w \in Workspaces \cup {None} :
         \/ WellFormed(c) /\ Arrive(r, "dashboard", "findSession", c, w)
         \/ ~WellFormed(c) /\ Deny(r, "unauthenticated")
    /\ OnlyReq

ReceiveSession(r) ==
    /\ Free(r)
    /\ \E c \in Sendable :
         \/ WellFormed(c) /\ Arrive(r, "session", "findSession", c, None)
         \/ ~WellFormed(c) /\ Deny(r, "unauthenticated")
    /\ OnlyReq

FindSession(r) ==
    /\ At(r, "findSession")
    /\ LET row == FindByTokenHash(req[r].cookie) IN
         req' = [req EXCEPT ![r].pc = "checkSession", ![r].found = row,
                            ![r].owner = OwnerOf(row)]
    /\ OnlyReq

\* The handler resumes with the row: only the clock is read anew.
CheckSession(r) ==
    /\ At(r, "checkSession")
    /\ LET q == req[r]
           next == IF q.kind = "session" THEN "listWorkspaces" ELSE "hasAccess"
       IN  \/ /\ ~Accepted(q.found, q.owner)
              /\ Deny(r, "unauthenticated")
           \/ /\ Accepted(q.found, q.owner)
              /\ q.kind = "dashboard" /\ q.target = None
              /\ Deny(r, "invalidWorkspaceId")
           \/ /\ Accepted(q.found, q.owner)
              /\ q.kind = "dashboard" => q.target # None
              /\ req' = [req EXCEPT ![r].pc = next, ![r].user = q.found.user]
    /\ OnlyReq

ListWorkspaces(r) ==
    /\ At(r, "listWorkspaces")
    /\ req' = [req EXCEPT ![r].pc = "done", ![r].answer = "workspaces",
                          ![r].scope = ListActiveForUser(req[r].user)]
    /\ OnlyReq

-------------------------------------------------------------------------------
(* Dashboard *)

HasAccess(r) ==
    /\ At(r, "hasAccess")
    /\ \/ /\ HasActiveMembership(req[r].user, req[r].target)
          /\ req' = [req EXCEPT ![r].pc = "readNotion", ![r].scope = {req[r].target}]
       \/ /\ ~HasActiveMembership(req[r].user, req[r].target)
          /\ Deny(r, "forbidden")
    /\ OnlyReq

\* Mutant: a failed read is retried, from the membership check on, for ever.
ReadNotionRetrying(r) ==
    /\ At(r, "readNotion")
    /\ \/ req' = [req EXCEPT ![r].pc = "readSettings"]
       \/ req' = [req EXCEPT ![r].pc = "hasAccess"]
    /\ OnlyReq

\* fetchSnapshot: many HTTP requests, any of which may fail; an error that is
\* not the adapter's own goes on unchanged.
ReadNotion(r) ==
    /\ At(r, "readNotion")
    /\ \/ req' = [req EXCEPT ![r].pc = "readSettings"]
       \/ Deny(r, "notionUnavailable") \/ Deny(r, "internalError")
    /\ OnlyReq

\* findByWorkspaceId, then buildDashboard, which throws on an unusable date.
ReadSettings(r) ==
    /\ At(r, "readSettings")
    /\ Answer(r, "dashboard") \/ Deny(r, "internalError")
    /\ OnlyReq

-------------------------------------------------------------------------------
(* Logout *)

ReceiveLogout(r) ==
    /\ Free(r)
    /\ \E c \in Sendable :
         \/ Deny(r, "invalidOrigin")
         \/ c = Ambiguous /\ Deny(r, "ambiguousCookie")
         \/ c = None /\ Deny(r, "loggedOut")
         \/ WellFormed(c) /\ Arrive(r, "logout", "revoke", c, None)
    /\ OnlyReq

RevokeSession(r) ==
    /\ At(r, "revoke")
    /\ sessions' = Revoked(req[r].cookie)
    /\ \/ /\ Answer(r, "loggedOut")
          /\ loggedOut' = loggedOut \cup ({req[r].cookie} \cap Tokens)
       \/ /\ Deny(r, OutageAnswer(req[r]))
          /\ UNCHANGED loggedOut
    /\ UNCHANGED <<accounts, now, issued>>

-------------------------------------------------------------------------------
(* Callback, from createSessionForIdentity on *)

ReceiveCallback(r) ==
    /\ Free(r)
    /\ \E i \in Identities, t \in FreshTokens :
         Arrive(r, "callback", "findIdentity", t, i)
    /\ OnlyReq

\* The test of both lookups: a row, and not disabled.
MaySignIn(u) == u \in Users /\ users[u] = "enabled"

FindIdentity(r) ==
    /\ At(r, "findIdentity")
    /\ LET u == FindUserByIdentity(req[r].target) IN
         \/ /\ ~MaySignIn(u)
            /\ Deny(r, "notAuthorized")
         \/ /\ MaySignIn(u)
            /\ req' = [req EXCEPT ![r].pc = "findUser", ![r].user = u]
    /\ OnlyReq

FindUser(r) ==
    /\ At(r, "findUser")
    /\ \/ /\ ~MaySignIn(req[r].user)
          /\ Deny(r, "notAuthorized")
       \/ /\ MaySignIn(req[r].user)
          /\ req' = [req EXCEPT ![r].pc = "insertSession",
                                ![r].found = NewSession(req[r].user)]
    /\ OnlyReq

InsertSession(r) ==
    /\ At(r, "insertSession")
    /\ sessions' = [sessions EXCEPT ![req[r].cookie] = req[r].found]
    /\ \/ /\ Answer(r, "loggedIn")
          /\ issued' = issued \cup {req[r].cookie}
       \/ /\ Deny(r, OutageAnswer(req[r]))
          /\ UNCHANGED issued
    /\ UNCHANGED <<accounts, now, loggedOut>>

-------------------------------------------------------------------------------
Tick ==
    /\ now < MaxTime
    /\ now' = now + 1
    /\ UNCHANGED <<accounts, sessions, issued, loggedOut, req>>

Receive(r) ==
    ReceiveDashboard(r) \/ ReceiveSession(r) \/ ReceiveLogout(r) \/ ReceiveCallback(r)

Handle(r) ==
    \/ FindSession(r) \/ CheckSession(r) \/ ListWorkspaces(r)
    \/ HasAccess(r) \/ ReadNotion(r) \/ ReadSettings(r)
    \/ RevokeSession(r)
    \/ FindIdentity(r) \/ FindUser(r) \/ InsertSession(r)
    \/ DatabaseFails(r)

Next ==
    \/ \E r \in Requests : Receive(r) \/ Handle(r)
    \/ Tick
    \/ AccountsNext /\ UNCHANGED gate

Spec == Init /\ [][Next]_vars

\* Every await settles: Notion calls by the SDK's timeout, statements by
\* statement_timeout, which takes a database that has not fallen silent.
\* Nothing is assumed of browsers, operators or the clock.
FairSpec == Spec /\ \A r \in Requests : WF_vars(Handle(r))
===============================================================================
