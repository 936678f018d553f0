----------------------------- MODULE ServerProcess -----------------------------
(***************************************************************************)
(* One API process (server.ts, app.ts) from start to exit: the readiness   *)
(* probe that all its requests share (readiness.ts), the statements of     *)
(* other requests, signals, and the end of the connection pool             *)
(* (client.ts).  Of Fastify's close() it takes: no request is accepted any *)
(* more, the onClose hook runs once, after the last open request has been  *)
(* answered, and a second close() joins the first (app.test.ts 158).       *)
(* A signal before listen() has settled is left out.                       *)
(***************************************************************************)
EXTENDS Naturals

CONSTANTS Requests,    \* slots for requests under way at once
          MaxQueries   \* bound on "select 1" queries under way

ASSUME ServerAssumption == MaxQueries \in Nat \ {0}

VARIABLES process,  \* the life cycle and what the operating system sees of it
          request,  \* the requests
          probe,    \* pendingProbe
          queries,  \* "select 1" queries the database has not answered
          pool      \* the connection pool

vars == <<process, request, probe, queries, pool>>

Signals == {"SIGINT", "SIGTERM"}

\* What the process can do, by the variables it was started with.
Services == {"database", "sessionCookies", "signIn", "dashboard"}

Process ==
    [state : {"loading", "starting", "listening", "draining", "ending", "closed", "exited", "killed"},
     services : SUBSET Services,
     handlers : SUBSET Signals,    \* process.once: not yet used
     exitCode : {0, 1},
     listened : BOOLEAN]           \* history

Request ==
    [pc : {"none", "probing", "querying", "answered"},
     answer : {"none", "ready", "not_ready", "anonymous", "principal", "unavailable"},
     proved : BOOLEAN]             \* history: the database has answered it

NoRequest == [pc |-> "none", answer |-> "none", proved |-> FALSE]

ServerTypeOK ==
    /\ process \in Process
    /\ request \in [Requests -> Request]
    /\ probe \in {"none", "pending", "true", "false"}
    /\ queries \in 0 .. MaxQueries
    /\ pool \in [state : {"open", "ending", "ended"}, ends : Nat]

ServerInit ==
    /\ process = [state |-> "loading", services |-> {}, handlers |-> Signals, exitCode |-> 0,
                  listened |-> FALSE]
    /\ request = [r \in Requests |-> NoRequest]
    /\ probe = "none"
    /\ queries = 0
    /\ pool = [state |-> "open", ends |-> 0]

HasDatabase == "database" \in process.services
UnderWay(r) == request[r].pc \in {"probing", "querying"}
Running == process.state \in {"listening", "draining"}

Answer(r, answer, proved) ==
    request' = [request EXCEPT ![r] = [pc |-> "answered", answer |-> answer, proved |-> proved]]

-------------------------------------------------------------------------------
(* GET /health/ready *)

Waiting == {r \in Requests : request[r].pc = "probing"}

\* Joins the pending probe or starts one; unavailableReadiness without a
\* database.
AskReadiness(r) ==
    /\ process.state = "listening"
    /\ ~UnderWay(r)
    /\ \/ /\ ~HasDatabase
          /\ Answer(r, "not_ready", FALSE)
          /\ UNCHANGED <<probe, queries>>
       \/ /\ HasDatabase
          /\ probe = "none" /\ queries < MaxQueries
          /\ probe' = "pending"
          /\ queries' = queries + 1
          /\ request' = [request EXCEPT ![r] = [NoRequest EXCEPT !.pc = "probing"]]
       \/ /\ HasDatabase
          /\ probe # "none"
          /\ IF probe = "pending"
             THEN request' = [request EXCEPT ![r] = [NoRequest EXCEPT !.pc = "probing"]]
             ELSE Answer(r, IF probe = "true" THEN "ready" ELSE "not_ready", FALSE)
          /\ UNCHANGED <<probe, queries>>
    /\ UNCHANGED <<process, pool>>

\* Mutant: finally does not clear pendingProbe.
Kept(ok) == IF ok THEN "true" ELSE "false"
Cleared(ok) == "none"

\* The query is answered, or fails, with the pool still there; every request
\* that still waits is answered before anything else runs.
SettleProbe ==
    /\ Running
    /\ queries > 0
    /\ \E ok \in BOOLEAN :
         /\ queries' = queries - 1
         /\ probe' = Cleared(ok)
         /\ request' = [r \in Requests |->
                          IF r \notin Waiting THEN request[r]
                          ELSE [pc |-> "answered", answer |-> IF ok THEN "ready" ELSE "not_ready",
                                proved |-> ok]]
    /\ UNCHANGED <<process, pool>>

\* Mutant: a probe that is late is given up.
DeadlineGivingUp(r) ==
    /\ Running
    /\ r \in Waiting
    /\ Answer(r, "not_ready", FALSE)
    /\ probe' = "none"
    /\ UNCHANGED <<process, queries, pool>>

\* Mutant: the probe is awaited without the race.
NoDeadline(r) == FALSE

\* The two seconds of one request are over; the probe goes on.
Deadline(r) ==
    /\ Running
    /\ r \in Waiting
    /\ Answer(r, "not_ready", FALSE)
    /\ UNCHANGED <<process, probe, queries, pool>>

-------------------------------------------------------------------------------
(* A request with a session cookie, as far as the assembly decides *)

\* Without a database a malformed cookie is still nobody's, and a well-formed
\* one cannot be judged (unavailableAuthentication).
AskSession(r) ==
    /\ process.state = "listening"
    /\ ~UnderWay(r)
    /\ \/ Answer(r, "anonymous", FALSE)
       \/ ~HasDatabase /\ Answer(r, "unavailable", FALSE)
       \/ HasDatabase
            /\ request' = [request EXCEPT ![r] = [NoRequest EXCEPT !.pc = "querying"]]
    /\ UNCHANGED <<process, probe, queries, pool>>

\* The answer, or an error.  statement_timeout (client.ts 20) is a setting of
\* the database's side: a database that has fallen silent keeps it neither for
\* these statements nor for the probe's.
StatementEnds(r) ==
    /\ Running
    /\ request[r].pc = "querying"
    /\ \/ \E answer \in {"anonymous", "principal"} : Answer(r, answer, TRUE)
       \/ Answer(r, "unavailable", FALSE)
    /\ UNCHANGED <<process, probe, queries, pool>>

-------------------------------------------------------------------------------
(* Start and shutdown *)

\* The environment, by what the parsers make of it: a group of variables is
\* unset, is one they accept, or is incomplete or refused.
Environments ==
    [database : {"unset", "usable", "refused"},
     origin : {"unset", "usable", "refused"},
     oidc : {"unset", "usable", "refused"},
     notion : {"unset", "usable", "refused"}]

\* postgres(), parseApplicationSessionConfiguration and
\* parseOidcConfiguration throw: a set variable is never ignored.
RefusedConfiguration(env) ==
    \/ env.database = "refused"
    \/ env.origin = "refused"
    \/ env.oidc = "refused"
    \/ env.oidc = "usable" /\ env.origin = "unset"

\* Mutant: sign-in is switched on by its own variables alone.
ProvidedAlone(env) ==
    {service \in Services :
        \/ service = "database" /\ env.database = "usable"
        \/ service = "sessionCookies" /\ env.origin = "usable"
        \/ service = "signIn" /\ env.oidc = "usable"
        \/ service = "dashboard" /\ env.database = "usable" /\ env.notion = "usable"}

\* A refused Notion configuration only costs the dashboard.
Provided(env) ==
    {service \in Services :
        \/ service = "database" /\ env.database = "usable"
        \/ service = "sessionCookies" /\ env.origin = "usable"
        \/ service = "signIn" /\ env.database = "usable" /\ env.oidc = "usable"
        \/ service = "dashboard" /\ env.database = "usable" /\ env.notion = "usable"}

Load ==
    /\ process.state = "loading"
    /\ \E env \in Environments :
         process' = IF RefusedConfiguration(env)
                    THEN [process EXCEPT !.state = "exited", !.exitCode = 1]
                    ELSE [process EXCEPT !.state = "starting", !.services = Provided(env)]
    /\ UNCHANGED <<request, probe, queries, pool>>

Listen ==
    /\ process.state = "starting"
    /\ process' = [process EXCEPT !.state = "listening", !.listened = TRUE]
    /\ UNCHANGED <<request, probe, queries, pool>>

ListenFails ==
    /\ process.state = "starting"
    /\ process' = [process EXCEPT !.state = "draining", !.exitCode = 1]
    /\ UNCHANGED <<request, probe, queries, pool>>

\* PORT is checked when everything else is set up; the RangeError ends it.
BadPort ==
    /\ process.state = "starting"
    /\ process' = [process EXCEPT !.state = "exited", !.exitCode = 1]
    /\ UNCHANGED <<request, probe, queries, pool>>

Closing == process.state \in {"draining", "ending", "closed"}

\* Mutant: every shutdown() runs the closing from the start.
SignalRestarting(s) ==
    /\ s \in process.handlers
    /\ process.state = "listening" \/ Closing
    /\ process' = [process EXCEPT !.handlers = @ \ {s}, !.state = "draining"]
    /\ UNCHANGED <<request, probe, queries, pool>>

\* shutdown(): the first closes, another waits for the same close().
Signal(s) ==
    /\ s \in process.handlers
    /\ process.state = "listening" \/ Closing
    /\ process' = [process EXCEPT !.handlers = @ \ {s},
                                  !.state = IF @ = "listening" THEN "draining" ELSE @]
    /\ UNCHANGED <<request, probe, queries, pool>>

\* The handler was there once: the second signal of a kind kills.
SignalAgain(s) ==
    /\ s \notin process.handlers
    /\ Closing
    /\ process' = [process EXCEPT !.state = "killed"]
    /\ UNCHANGED <<request, probe, queries, pool>>

\* The onClose hook starts client.end({ timeout: 5 }).
EndPool ==
    IF HasDatabase
    THEN /\ process' = [process EXCEPT !.state = "ending"]
         /\ pool' = [state |-> "ending", ends |-> pool.ends + 1]
    ELSE /\ process' = [process EXCEPT !.state = "closed"]
         /\ UNCHANGED pool

\* Mutant: the pool is ended before the requests are answered.
CloseAtOnce ==
    /\ process.state = "draining"
    /\ EndPool
    /\ UNCHANGED <<request, probe, queries>>

Drained ==
    /\ process.state = "draining"
    /\ \A r \in Requests : ~UnderWay(r)
    /\ EndPool
    /\ UNCHANGED <<request, probe, queries>>

\* Mutant: client.end() without a timeout.
PoolEndsInTime ==
    /\ process.state = "ending"
    /\ queries = 0
    /\ process' = [process EXCEPT !.state = "closed"]
    /\ pool' = [pool EXCEPT !.state = "ended"]
    /\ UNCHANGED <<request, probe, queries>>

\* All queries are over, or the five seconds are and they are cut off.
PoolEnds ==
    /\ process.state = "ending"
    /\ process' = [process EXCEPT !.state = "closed"]
    /\ pool' = [pool EXCEPT !.state = "ended"]
    /\ queries' = 0
    /\ probe' = "none"
    /\ UNCHANGED request

\* Mutant: the catch of shutdown() only writes its line.
PoolEndFailsQuietly ==
    /\ process.state = "ending"
    /\ process' = [process EXCEPT !.state = "closed"]
    /\ UNCHANGED <<request, probe, queries, pool>>

PoolEndFails ==
    /\ process.state = "ending"
    /\ process' = [process EXCEPT !.state = "closed", !.exitCode = 1]
    /\ UNCHANGED <<request, probe, queries, pool>>

\* Nothing keeps the event loop alive but a query that was left.
Exit ==
    /\ process.state = "closed"
    /\ queries = 0
    /\ process' = [process EXCEPT !.state = "exited"]
    /\ UNCHANGED <<request, probe, queries, pool>>

-------------------------------------------------------------------------------
Shutdown == Drained \/ PoolEnds \/ Exit

ServerNext ==
    \/ \E r \in Requests :
         AskReadiness(r) \/ Deadline(r) \/ AskSession(r) \/ StatementEnds(r)
    \/ SettleProbe
    \/ Load \/ Listen \/ ListenFails \/ BadPort
    \/ \E s \in Signals : Signal(s) \/ SignalAgain(s)
    \/ Shutdown \/ PoolEndFails

ServerSpec == ServerInit /\ [][ServerNext]_vars

\* The process runs on and its timers fire.  Nothing is assumed of the
\* database: a query of the probe or of a request may never be answered.
FairServer ==
    /\ ServerSpec
    /\ \A r \in Requests : WF_vars(Deadline(r))
    /\ WF_vars(Shutdown)
-------------------------------------------------------------------------------
(* Properties *)

\* Types, and closeDatabase runs at most once, on the way from the last
\* request to the exit, however many signals arrive (server.ts 101-120,
\* app.test.ts 158).
ServerInv ==
    /\ ServerTypeOK
    /\ pool.ends <= 1
    /\ pool.state = "open" <=> pool.ends = 0
    /\ process.state \in {"loading", "starting", "listening", "draining"} => pool.state = "open"
    /\ process.state = "ending" => pool.state = "ending"
    /\ ~HasDatabase => pool.state = "open" /\ queries = 0

\* However long a query stalls and however many requests give up on it, it
\* is never joined by a second one (readiness.ts 28-40, database.test.ts 86).
OneProbeAtATime == queries <= 1 /\ (probe = "pending" <=> queries = 1)

\* No request loses the pool under its statements: it is ended when the last
\* one has been answered.
PoolOutlivesRequests == pool.state # "open" => \A r \in Requests : ~UnderWay(r)

\* An answer that says the database works rests on one it gave after the
\* request had arrived: a probe's result is shared, never remembered, and
\* the stand-ins of app.ts (39-76) make nothing up.
AnswersAreFresh ==
    \A r \in Requests :
        request[r].answer \in {"ready", "principal"} => request[r].proved /\ HasDatabase

\* Exit code 0 means that the server had been up, owes nobody an answer, and
\* has closed its connections.
CleanExitsAreClean ==
    process.state = "exited" /\ process.exitCode = 0 =>
        /\ process.listened
        /\ \A r \in Requests : ~UnderWay(r)
        /\ queries = 0
        /\ HasDatabase => pool.state = "ended"

\* A process that signs people in can sign them out: it has the sessions'
\* rows and the origin that POST /api/auth/logout insists on (server.ts
\* 46-63, auth-lifecycle.ts 183-219), however the environment was set.
SignedInCanSignOut ==
    process.listened /\ "signIn" \in process.services =>
        {"database", "sessionCookies"} \subseteq process.services

\* A readiness request is answered although the database never is, also
\* during the shutdown and whatever the other askers do: the deadline is the
\* process's own (readiness.ts 28-40).
EveryReadinessRequestEnds ==
    \A r \in Requests :
        request[r].pc = "probing" ~> (request[r].pc # "probing" \/ process.state = "killed")

\* A shutdown comes to its end although a probe's query is never answered,
\* unless client.end() itself fails: a query it leaves behind then holds the
\* process.  The statements of the other requests must end, since no limit of
\* the process's own ends them: while one is not answered, app.close() waits
\* for its request and does not come to client.end({ timeout: 5 }).
StatementsEnd == \A r \in Requests : []<>(request[r].pc # "querying")
PoolEndFailed == process.state = "closed" /\ pool.state = "ending"
EveryShutdownEnds ==
    StatementsEnd => (process.state = "draining" ~>
                        (process.state \in {"exited", "killed"} \/ PoolEndFailed))
===============================================================================
