----------------------------- MODULE AccessPolicy -----------------------------
(***************************************************************************)
(* What the API promises about access, with no queries, rows or cookies in *)
(* it: a session is opened only for the enabled user behind an identity,   *)
(* is closed only by its own logout or by time, and never opens again; a   *)
(* request is granted data only after an instant of its own at which its   *)
(* session was open and the owner enabled, and then an instant at which    *)
(* the owner held the workspaces concerned.  A request may be refused at   *)
(* any time, for any reason.  RequestGate is shown to implement it.        *)
(***************************************************************************)
EXTENDS Accounts

CONSTANTS Requests,   \* concurrent requests
          Tokens      \* session tokens

VARIABLES session,    \* [Tokens -> owner (None: never opened) and open]
          verdict     \* [Requests -> what has been decided about it]

policyVars == <<accounts, session, verdict>>

Nothing(stage) == [stage |-> stage, kind |-> "none", via |-> None,
                   target |-> None, user |-> None, scope |-> {}]
Undecided == Nothing("none")
Refusal == Nothing("refused")
Question(kind, via, target) == [stage |-> "asked", kind |-> kind, via |-> via,
                                target |-> target, user |-> None, scope |-> {}]
Decide(v, stage, user, scope) ==
    [stage |-> stage, kind |-> v.kind, via |-> v.via, target |-> v.target,
     user |-> user, scope |-> scope]

Closed(s) == [owner |-> s.owner, open |-> FALSE]

PolicyInit ==
    /\ AccountsInit
    /\ session = [t \in Tokens |-> [owner |-> None, open |-> FALSE]]
    /\ verdict = [r \in Requests |-> Undecided]

\* A request names a session (or, signing in, an identity) and perhaps a
\* workspace.  It takes a slot no unfinished request holds.
Ask(r, kind, via, target) ==
    /\ verdict[r].stage \in {"none", "granted", "refused"}
    /\ verdict' = [verdict EXCEPT ![r] = Question(kind, via, target)]
    /\ UNCHANGED <<accounts, session>>

\* Refused or forgotten: whatever was decided, the slot no longer holds it.
Refuse(r) ==
    /\ verdict' = [verdict EXCEPT ![r] = Refusal]
    /\ UNCHANGED <<accounts, session>>

Names(v, u) ==
    IF v.kind = "callback"
    THEN identities[v.via] = u
    ELSE /\ v.kind \in {"dashboard", "session"}
         /\ v.via \in Tokens
         /\ session[v.via] = [owner |-> u, open |-> TRUE]

Identify(r) ==
    /\ verdict[r].stage = "asked"
    /\ \E u \in Users :
         /\ Names(verdict[r], u)
         /\ users[u] = "enabled"
         /\ verdict' = [verdict EXCEPT ![r] = Decide(@, "identified", u, {})]
    /\ UNCHANGED <<accounts, session>>

Grant(r) ==
    LET v == verdict[r]
        asked == IF v.kind = "dashboard" THEN {v.target} ELSE Workspaces
        held == {w \in asked \cap workspaces : memberships[<<v.user, w>>] = "active"}
    IN  /\ v.stage = "identified"
        /\ v.kind \in {"dashboard", "session"}
        /\ v.kind = "dashboard" => held # {}
        /\ verdict' = [verdict EXCEPT ![r] = Decide(v, "granted", v.user, held)]
        /\ UNCHANGED <<accounts, session>>

\* Signing in opens a session that has never been open (or, when storing it
\* took longer than it lasts, records one already over).  The browser may not
\* learn of it: then the request counts as refused.
OpenSession(r, t) ==
    /\ verdict[r].stage = "identified"
    /\ verdict[r].kind = "callback"
    /\ session[t].owner = None
    /\ \E open \in BOOLEAN :
         session' = [session EXCEPT ![t] = [owner |-> verdict[r].user, open |-> open]]
    /\ \E v \in {Decide(verdict[r], "granted", verdict[r].user, {}), Refusal} :
         verdict' = [verdict EXCEPT ![r] = v]
    /\ UNCHANGED accounts

\* Logging out closes the session of the request and no other.
CloseSession(r) ==
    /\ verdict[r].stage = "asked"
    /\ verdict[r].kind = "logout"
    /\ verdict[r].via \in Tokens
    /\ session' = [session EXCEPT ![verdict[r].via] = Closed(@)]
    /\ \E v \in {Decide(verdict[r], "granted", None, {}), Refusal} :
         verdict' = [verdict EXCEPT ![r] = v]
    /\ UNCHANGED accounts

\* Time closes sessions, and may cost requests that were identified by one.
Lapse ==
    /\ \E ended \in SUBSET Tokens :
         session' = [t \in Tokens |-> IF t \in ended THEN Closed(session[t])
                                                     ELSE session[t]]
    /\ \E dropped \in SUBSET {r \in Requests : verdict[r].stage = "identified"} :
         verdict' = [r \in Requests |-> IF r \in dropped THEN Refusal
                                                         ELSE verdict[r]]
    /\ UNCHANGED accounts

PolicyNext ==
    \/ \E r \in Requests :
         \/ Refuse(r) \/ Identify(r) \/ Grant(r) \/ CloseSession(r)
         \/ \E t \in Tokens : OpenSession(r, t)
         \/ \E kind \in {"dashboard", "session", "logout"},
               via \in Tokens \cup {None}, target \in Workspaces \cup {None} :
              Ask(r, kind, via, target)
         \/ \E i \in Identities : Ask(r, "callback", i, None)
    \/ Lapse
    \/ AccountsNext /\ UNCHANGED <<session, verdict>>

PolicySpec == PolicyInit /\ [][PolicyNext]_policyVars
===============================================================================
