----------------------------- MODULE ServerProofs -----------------------------
(***************************************************************************)
(* The safety of one API process, for any number of requests and for every *)
(* configuration it may be started with.                                   *)
(***************************************************************************)
EXTENDS ServerProcess, TLAPS

\* What the properties leave open between two steps: where requests may
\* still be, what the services were chosen from, and what a run that will
\* end with code 0 has behind it.
RequestsAreServed ==
    \A r \in Requests :
        UnderWay(r) => HasDatabase /\ process.state \in {"listening", "draining", "killed"}

ServicesAreLoaded ==
    /\ process.state = "loading" => process.services = {}
    /\ "signIn" \in process.services => {"database", "sessionCookies"} \subseteq process.services

GoodRunsCloseThePool ==
    process.exitCode = 0 =>
        /\ process.state \in {"listening", "draining", "ending", "closed"} => process.listened
        /\ process.state = "closed" /\ HasDatabase => pool.state = "ended"

\* The inductive invariant.
ServerIInv ==
    /\ ServerInv
    /\ OneProbeAtATime
    /\ probe \in {"none", "pending"}
    /\ PoolOutlivesRequests
    /\ AnswersAreFresh
    /\ RequestsAreServed
    /\ ServicesAreLoaded
    /\ GoodRunsCloseThePool
    /\ CleanExitsAreClean

-------------------------------------------------------------------------------
(* One step lemma per action.  An action that leaves the process alone keeps *)
(* what is said of it; what remains is what it does to requests and probe.   *)

LEMMA ServerInitially == ServerInit => ServerIInv
BY ServerAssumption
   DEF ServerInit, ServerIInv, ServerInv, ServerTypeOK, OneProbeAtATime, PoolOutlivesRequests,
       AnswersAreFresh, RequestsAreServed, ServicesAreLoaded, GoodRunsCloseThePool,
       CleanExitsAreClean, Process, Request, NoRequest, Services, Signals, UnderWay, HasDatabase

\* What a step that only answers or accepts one request must show.
LEMMA OneRequestChanges ==
    ASSUME ServerIInv, NEW r \in Requests, NEW q \in Request,
           request' = [request EXCEPT ![r] = q],
           UNCHANGED <<process, pool>>,
           process.state \in {"listening", "draining"},
           q.pc \in {"probing", "querying"} => HasDatabase /\ process.state = "listening",
           q.answer \in {"ready", "principal"} => q.proved /\ HasDatabase,
           queries' \in 0 .. MaxQueries, OneProbeAtATime', probe' \in {"none", "pending"},
           queries' # 0 => HasDatabase
    PROVE  ServerIInv'
<1>1. ServerInv'
  BY DEF ServerIInv, ServerInv, ServerTypeOK, OneProbeAtATime, HasDatabase
<1>2. PoolOutlivesRequests'
  BY DEF ServerIInv, ServerInv, PoolOutlivesRequests
<1>3. AnswersAreFresh' /\ RequestsAreServed'
  BY DEF ServerIInv, ServerInv, ServerTypeOK, AnswersAreFresh, RequestsAreServed, HasDatabase,
         UnderWay
<1>4. ServicesAreLoaded' /\ GoodRunsCloseThePool' /\ CleanExitsAreClean'
  BY DEF ServerIInv, ServicesAreLoaded, GoodRunsCloseThePool, CleanExitsAreClean, HasDatabase
<1> QED
  BY <1>1, <1>2, <1>3, <1>4 DEF ServerIInv

LEMMA AskReadinessStep ==
    ASSUME ServerIInv, NEW r \in Requests, AskReadiness(r)
    PROVE  ServerIInv'
<1> DEFINE probing == [NoRequest EXCEPT !.pc = "probing"]
           notReady == [pc |-> "answered", answer |-> "not_ready", proved |-> FALSE]
<1>1. probing \in Request /\ notReady \in Request
  BY DEF NoRequest, Request
<1>2. probing.answer = "none" /\ probing.pc = "probing"
  BY DEF NoRequest
<1>3. /\ process.state = "listening" /\ UNCHANGED <<process, pool>>
      /\ queries \in 0 .. MaxQueries /\ queries <= 1 /\ (probe = "pending" <=> queries = 1)
      /\ probe \in {"none", "pending"} /\ (queries # 0 => HasDatabase) /\ MaxQueries \in Nat
  BY ServerAssumption
     DEF AskReadiness, ServerIInv, ServerInv, ServerTypeOK, OneProbeAtATime
<1>4. CASE /\ ~HasDatabase /\ request' = [request EXCEPT ![r] = notReady]
           /\ UNCHANGED <<probe, queries>>
  <2>1. OneProbeAtATime'
    BY <1>3, <1>4 DEF OneProbeAtATime
  <2> QED
    BY <1>1, <1>3, <1>4, <2>1, OneRequestChanges
<1>5. CASE /\ HasDatabase /\ probe = "none" /\ queries < MaxQueries
           /\ probe' = "pending" /\ queries' = queries + 1
           /\ request' = [request EXCEPT ![r] = probing]
  <2>1. OneProbeAtATime' /\ queries' \in 0 .. MaxQueries /\ probe' \in {"none", "pending"}
    BY <1>3, <1>5 DEF OneProbeAtATime
  <2> QED
    BY <1>1, <1>2, <1>3, <1>5, <2>1, OneRequestChanges
<1>6. CASE /\ HasDatabase /\ probe = "pending" /\ UNCHANGED <<probe, queries>>
           /\ request' = [request EXCEPT ![r] = probing]
  <2>1. OneProbeAtATime'
    BY <1>3, <1>6 DEF OneProbeAtATime
  <2> QED
    BY <1>1, <1>2, <1>3, <1>6, <2>1, OneRequestChanges
<1> QED
  BY <1>3, <1>4, <1>5, <1>6 DEF AskReadiness, Answer

\* The shared answer: fresh for all that still wait, since the database has
\* only now given it.
LEMMA SettleProbeStep ==
    ASSUME ServerIInv, SettleProbe
    PROVE  ServerIInv'
<1>1. PICK ok \in BOOLEAN :
        /\ queries' = queries - 1
        /\ probe' = "none"
        /\ request' = [r \in Requests |->
                         IF r \notin Waiting THEN request[r]
                         ELSE [pc |-> "answered", answer |-> IF ok THEN "ready" ELSE "not_ready",
                               proved |-> ok]]
  BY DEF SettleProbe, Cleared
<1>2. Running /\ queries > 0 /\ UNCHANGED <<process, pool>>
  BY DEF SettleProbe
<1>3. queries = 1 /\ queries' = 0 /\ HasDatabase
  BY <1>1, <1>2 DEF ServerIInv, ServerInv, ServerTypeOK, OneProbeAtATime
<1>4. OneProbeAtATime' /\ queries' \in 0 .. MaxQueries
  BY <1>1, <1>3, ServerAssumption DEF OneProbeAtATime
<1>5. request' \in [Requests -> Request]
  BY <1>1 DEF ServerIInv, ServerInv, ServerTypeOK, Request
<1>6. ServerInv'
  BY <1>1, <1>2, <1>3, <1>4, <1>5 DEF ServerIInv, ServerInv, ServerTypeOK, HasDatabase
<1>7. \A r \in Requests : UnderWay(r)' => UnderWay(r)
  BY <1>1 DEF UnderWay
<1>8. PoolOutlivesRequests' /\ RequestsAreServed'
  BY <1>2, <1>7 DEF ServerIInv, PoolOutlivesRequests, RequestsAreServed, HasDatabase
<1>9. AnswersAreFresh'
  BY <1>1, <1>2, <1>3 DEF ServerIInv, AnswersAreFresh, HasDatabase
<1>10. ServicesAreLoaded' /\ GoodRunsCloseThePool'
  BY <1>2 DEF ServerIInv, ServicesAreLoaded, GoodRunsCloseThePool, HasDatabase
<1>11. CleanExitsAreClean'
  BY <1>2 DEF CleanExitsAreClean, Running
<1> QED
  BY <1>1, <1>4, <1>6, <1>8, <1>9, <1>10, <1>11 DEF ServerIInv

LEMMA DeadlineStep ==
    ASSUME ServerIInv, NEW r \in Requests, Deadline(r)
    PROVE  ServerIInv'
<1> DEFINE late == [pc |-> "answered", answer |-> "not_ready", proved |-> FALSE]
<1>1. late \in Request
  BY DEF Request
<1>2. OneProbeAtATime'
  BY DEF Deadline, ServerIInv, OneProbeAtATime
<1>3. queries' \in 0 .. MaxQueries /\ probe' \in {"none", "pending"} /\ (queries' # 0 => HasDatabase)
  BY DEF Deadline, ServerIInv, ServerInv, ServerTypeOK
<1> QED
  BY <1>1, <1>2, <1>3, OneRequestChanges DEF Deadline, Answer, Running

LEMMA AskSessionStep ==
    ASSUME ServerIInv, NEW r \in Requests, AskSession(r)
    PROVE  ServerIInv'
<1> DEFINE querying == [NoRequest EXCEPT !.pc = "querying"]
<1>1. querying \in Request /\ querying.answer = "none" /\ querying.pc = "querying"
  BY DEF NoRequest, Request
<1>2. OneProbeAtATime'
  BY DEF AskSession, ServerIInv, OneProbeAtATime
<1>3. queries' \in 0 .. MaxQueries /\ probe' \in {"none", "pending"} /\ (queries' # 0 => HasDatabase)
  BY DEF AskSession, ServerIInv, ServerInv, ServerTypeOK
<1>4. CASE HasDatabase /\ request' = [request EXCEPT ![r] = querying]
  BY <1>1, <1>2, <1>3, <1>4, OneRequestChanges DEF AskSession
<1>5. ASSUME NEW answer \in {"anonymous", "unavailable"}, Answer(r, answer, FALSE)
      PROVE  ServerIInv'
  <2> DEFINE q == [pc |-> "answered", answer |-> answer, proved |-> FALSE]
  <2>1. q \in Request
    BY DEF Request
  <2> QED
    BY <1>2, <1>3, <1>5, <2>1, OneRequestChanges DEF AskSession, Answer
<1> QED
  BY <1>4, <1>5 DEF AskSession

LEMMA StatementEndsStep ==
    ASSUME ServerIInv, NEW r \in Requests, StatementEnds(r)
    PROVE  ServerIInv'
<1>1. OneProbeAtATime'
  BY DEF StatementEnds, ServerIInv, OneProbeAtATime
<1>2. queries' \in 0 .. MaxQueries /\ probe' \in {"none", "pending"} /\ (queries' # 0 => HasDatabase)
  BY DEF StatementEnds, ServerIInv, ServerInv, ServerTypeOK
<1>3. HasDatabase
  BY DEF StatementEnds, ServerIInv, RequestsAreServed, UnderWay
<1>4. ASSUME NEW answer \in {"anonymous", "principal", "unavailable"}, NEW proved \in BOOLEAN,
             answer = "principal" => proved, Answer(r, answer, proved)
      PROVE  ServerIInv'
  <2> DEFINE q == [pc |-> "answered", answer |-> answer, proved |-> proved]
  <2>1. q \in Request
    BY DEF Request
  <2> QED
    BY <1>1, <1>2, <1>3, <1>4, <2>1, OneRequestChanges DEF StatementEnds, Answer, Running
<1> QED
  BY <1>4 DEF StatementEnds

-------------------------------------------------------------------------------
(* Start and shutdown: no step of these touches a request.                   *)

\* Whatever the environment, what is switched on fits together.
LEMMA ServicesFit ==
    ASSUME NEW env \in Environments, ~RefusedConfiguration(env)
    PROVE  /\ Provided(env) \subseteq Services
           /\ "signIn" \in Provided(env) => {"database", "sessionCookies"} \subseteq Provided(env)
BY DEF Environments, RefusedConfiguration, Provided, Services

LEMMA LoadStep ==
    ASSUME ServerIInv, Load
    PROVE  ServerIInv'
<1>1. PICK env \in Environments :
        process' = IF RefusedConfiguration(env)
                   THEN [process EXCEPT !.state = "exited", !.exitCode = 1]
                   ELSE [process EXCEPT !.state = "starting", !.services = Provided(env)]
  BY DEF Load
<1>2. process.state = "loading" /\ ~HasDatabase /\ UNCHANGED <<request, probe, queries, pool>>
  BY DEF Load, ServerIInv, ServicesAreLoaded, HasDatabase
<1>3. \A r \in Requests : ~UnderWay(r) /\ ~UnderWay(r)'
  BY <1>2 DEF ServerIInv, RequestsAreServed, UnderWay
<1>4. pool.state = "open" /\ queries = 0
  BY <1>2 DEF ServerIInv, ServerInv
<1>5. process' \in Process /\ process'.state \in {"exited", "starting"}
  BY <1>1, ServicesFit DEF ServerIInv, ServerInv, ServerTypeOK, Process
<1>6. ServerInv'
  BY <1>2, <1>4, <1>5 DEF ServerIInv, ServerInv, ServerTypeOK
<1>7. PoolOutlivesRequests' /\ RequestsAreServed'
  BY <1>3 DEF PoolOutlivesRequests, RequestsAreServed
<1>8. AnswersAreFresh'
  BY <1>2 DEF ServerIInv, AnswersAreFresh
<1>9. ServicesAreLoaded'
  BY <1>1, <1>2, <1>5, ServicesFit DEF ServerIInv, ServerInv, ServerTypeOK, Process,
     ServicesAreLoaded
<1>10. GoodRunsCloseThePool' /\ CleanExitsAreClean'
  BY <1>1, <1>2, <1>5
     DEF ServerIInv, ServerInv, ServerTypeOK, Process, GoodRunsCloseThePool, CleanExitsAreClean
<1> QED
  BY <1>2, <1>6, <1>7, <1>8, <1>9, <1>10 DEF ServerIInv, OneProbeAtATime

\* A step of the process that leaves the services, the probe and the pool.
LEMMA LifeCycleStep ==
    ASSUME ServerIInv,
           \/ Listen \/ ListenFails \/ BadPort \/ Exit
           \/ \E s \in Signals : Signal(s) \/ SignalAgain(s)
    PROVE  ServerIInv'
<1> DEFINE Same == process'.exitCode = process.exitCode /\ process'.listened = process.listened
<1>1. UNCHANGED <<request, probe, queries, pool>> /\ process \in Process
  BY DEF Listen, ListenFails, BadPort, Exit, Signal, SignalAgain, ServerIInv, ServerInv, ServerTypeOK
<1>2. process' \in Process /\ process'.services = process.services
  <2>1. CASE Listen \/ ListenFails \/ BadPort \/ Exit
    BY <1>1, <2>1 DEF Listen, ListenFails, BadPort, Exit, Process
  <2>2. ASSUME NEW s \in Signals, Signal(s)
        PROVE  process' \in Process /\ process'.services = process.services
    <3>1. process.handlers \ {s} \subseteq Signals
      BY <1>1 DEF Process
    <3>2. (IF process.state = "listening" THEN "draining" ELSE process.state)
            \in {"draining", "ending", "closed"}
      BY <2>2 DEF Signal, Closing
    <3> QED
      BY <1>1, <2>2, <3>1, <3>2 DEF Signal, Process
  <2>3. ASSUME NEW s \in Signals, SignalAgain(s)
        PROVE  process' \in Process /\ process'.services = process.services
    BY <1>1, <2>3 DEF SignalAgain, Process
  <2> QED
    BY <2>1, <2>2, <2>3
<1>3. \/ process.state = "starting" /\ process'.state = "listening" /\ process'.listened
      \/ process.state = "starting" /\ process'.state \in {"draining", "exited"}
           /\ process'.exitCode = 1
      \/ process.state = "listening" /\ process'.state = "draining" /\ Same
      \/ Closing /\ process'.state = process.state /\ Same
      \/ Closing /\ process'.state = "killed"
      \/ process.state = "closed" /\ process'.state = "exited" /\ queries = 0 /\ Same
  <2>1. ASSUME NEW s \in Signals, Signal(s)
        PROVE  \/ process.state = "listening" /\ process'.state = "draining" /\ Same
               \/ Closing /\ process'.state = process.state /\ Same
    BY <1>1, <2>1 DEF Signal, Process, Closing
  <2>2. ASSUME NEW s \in Signals, SignalAgain(s)
        PROVE  Closing /\ process'.state = "killed"
    BY <1>1, <2>2 DEF SignalAgain, Process
  <2>3. CASE Listen
    BY <1>1, <2>3 DEF Listen, Process
  <2>4. CASE ListenFails \/ BadPort
    BY <1>1, <2>4 DEF ListenFails, BadPort, Process
  <2>5. CASE Exit
    BY <1>1, <2>5 DEF Exit, Process
  <2> QED
    BY <2>1, <2>2, <2>3, <2>4, <2>5
<1> HIDE DEF Same
<1>4. ServerInv'
  BY <1>1, <1>2, <1>3 DEF ServerIInv, ServerInv, ServerTypeOK, HasDatabase, Closing
<1>5. \A r \in Requests : UnderWay(r)' <=> UnderWay(r)
  BY <1>1 DEF UnderWay
<1>6. OneProbeAtATime' /\ PoolOutlivesRequests' /\ AnswersAreFresh'
  BY <1>1, <1>2, <1>5
     DEF ServerIInv, OneProbeAtATime, PoolOutlivesRequests, AnswersAreFresh, HasDatabase
<1>7. RequestsAreServed'
  BY <1>2, <1>3, <1>5 DEF ServerIInv, RequestsAreServed, HasDatabase, Closing
<1>8. ServicesAreLoaded'
  BY <1>2, <1>3 DEF ServerIInv, ServicesAreLoaded, Closing
<1>9. GoodRunsCloseThePool'
  BY <1>1, <1>2, <1>3 DEF ServerIInv, GoodRunsCloseThePool, HasDatabase, Closing, Same
<1>10. CleanExitsAreClean'
  BY <1>1, <1>2, <1>3, <1>5
     DEF ServerIInv, GoodRunsCloseThePool, HasDatabase, CleanExitsAreClean, RequestsAreServed,
         Closing, Same
<1> QED
  BY <1>1, <1>4, <1>6, <1>7, <1>8, <1>9, <1>10 DEF ServerIInv

\* Every request has been answered, now and for good.
LEMMA DrainedStep ==
    ASSUME ServerIInv, Drained
    PROVE  ServerIInv'
<1>1. /\ process.state = "draining" /\ pool.state = "open" /\ pool.ends = 0
      /\ process \in Process /\ UNCHANGED <<request, probe, queries>>
      /\ \A r \in Requests : ~UnderWay(r) /\ ~UnderWay(r)'
  BY DEF Drained, ServerIInv, ServerInv, ServerTypeOK, UnderWay
<1>2. process' \in Process /\ UNCHANGED <<process.services, process.exitCode, process.listened>>
  BY <1>1 DEF Drained, EndPool, Process
<1>3. \/ HasDatabase /\ process'.state = "ending" /\ pool' = [state |-> "ending", ends |-> 1]
      \/ ~HasDatabase /\ process'.state = "closed" /\ pool' = pool
  BY <1>1 DEF Drained, EndPool, Process
<1>4. ServerInv'
  BY <1>1, <1>2, <1>3 DEF ServerIInv, ServerInv, ServerTypeOK, HasDatabase
<1>5. PoolOutlivesRequests' /\ RequestsAreServed'
  BY <1>1 DEF PoolOutlivesRequests, RequestsAreServed
<1>6. AnswersAreFresh' /\ OneProbeAtATime'
  BY <1>1, <1>2 DEF ServerIInv, AnswersAreFresh, OneProbeAtATime, HasDatabase
<1>7. ServicesAreLoaded' /\ GoodRunsCloseThePool' /\ CleanExitsAreClean'
  BY <1>1, <1>2, <1>3
     DEF ServerIInv, ServicesAreLoaded, GoodRunsCloseThePool, CleanExitsAreClean, HasDatabase
<1> QED
  BY <1>1, <1>4, <1>5, <1>6, <1>7 DEF ServerIInv

\* client.end() returns, with the queries cut off, or fails.
LEMMA PoolStep ==
    ASSUME ServerIInv, PoolEnds \/ PoolEndFails
    PROVE  ServerIInv'
<1>1. /\ process.state = "ending" /\ pool.state = "ending"
      /\ process \in Process /\ UNCHANGED request
      /\ \A r \in Requests : ~UnderWay(r) /\ ~UnderWay(r)'
  BY DEF PoolEnds, PoolEndFails, ServerIInv, ServerInv, ServerTypeOK, UnderWay, RequestsAreServed
<1>2. /\ process' \in Process /\ process'.state = "closed"
      /\ UNCHANGED <<process.services, process.listened>>
  BY <1>1 DEF PoolEnds, PoolEndFails, Process
<1>3. \/ /\ process'.exitCode = process.exitCode /\ pool' = [pool EXCEPT !.state = "ended"]
         /\ queries' = 0 /\ probe' = "none"
      \/ process'.exitCode = 1 /\ UNCHANGED <<probe, queries, pool>>
  BY <1>1 DEF PoolEnds, PoolEndFails, Process
<1>4. OneProbeAtATime' /\ queries' \in 0 .. MaxQueries /\ probe' \in {"none", "pending"}
  BY <1>3, ServerAssumption DEF ServerIInv, ServerInv, ServerTypeOK, OneProbeAtATime
<1>5. ServerInv'
  BY <1>1, <1>2, <1>3, <1>4 DEF ServerIInv, ServerInv, ServerTypeOK, HasDatabase
<1>6. PoolOutlivesRequests' /\ RequestsAreServed'
  BY <1>1 DEF PoolOutlivesRequests, RequestsAreServed
<1>7. AnswersAreFresh' /\ ServicesAreLoaded'
  BY <1>1, <1>2 DEF ServerIInv, AnswersAreFresh, ServicesAreLoaded, HasDatabase
<1>8. GoodRunsCloseThePool' /\ CleanExitsAreClean'
  BY <1>1, <1>2, <1>3
     DEF ServerIInv, ServerInv, ServerTypeOK, GoodRunsCloseThePool, CleanExitsAreClean, HasDatabase
<1> QED
  BY <1>4, <1>5, <1>6, <1>7, <1>8 DEF ServerIInv

-------------------------------------------------------------------------------
LEMMA ServerStutters ==
    ASSUME ServerIInv, UNCHANGED vars
    PROVE  ServerIInv'
BY DEF vars, ServerIInv, ServerInv, ServerTypeOK, OneProbeAtATime, PoolOutlivesRequests,
       AnswersAreFresh, RequestsAreServed, ServicesAreLoaded, GoodRunsCloseThePool,
       CleanExitsAreClean, UnderWay, HasDatabase

\* The invariant of one process holds at every step of its life.
THEOREM ServerIsSound == ServerSpec => []ServerIInv
<1>1. ASSUME ServerIInv, [ServerNext]_vars
      PROVE  ServerIInv'
  <2>1. CASE \E r \in Requests :
               AskReadiness(r) \/ Deadline(r) \/ AskSession(r) \/ StatementEnds(r)
    BY <1>1, <2>1, AskReadinessStep, DeadlineStep, AskSessionStep, StatementEndsStep
  <2>2. CASE SettleProbe
    BY <1>1, <2>2, SettleProbeStep
  <2>3. CASE Load
    BY <1>1, <2>3, LoadStep
  <2>4. CASE \/ Listen \/ ListenFails \/ BadPort \/ Exit
             \/ \E s \in Signals : Signal(s) \/ SignalAgain(s)
    BY <1>1, <2>4, LifeCycleStep
  <2>5. CASE Drained
    BY <1>1, <2>5, DrainedStep
  <2>6. CASE PoolEnds \/ PoolEndFails
    BY <1>1, <2>6, PoolStep
  <2>7. CASE UNCHANGED vars
    BY <1>1, <2>7, ServerStutters
  <2> QED
    BY <1>1, <2>1, <2>2, <2>3, <2>4, <2>5, <2>6, <2>7 DEF ServerNext, Shutdown
<1> QED
  BY <1>1, ServerInitially, PTL DEF ServerSpec

\* However many signals arrive, the pool is ended at most once, on the way
\* from the last request to the exit (server.ts 101-120).
THEOREM ServerInvHolds == ServerSpec => []ServerInv
<1>1. ServerIInv => ServerInv
  BY DEF ServerIInv
<1> QED
  BY <1>1, ServerIsSound, PTL

\* However many readiness requests give up on a stalled query, no second one
\* is sent beside it (readiness.ts 28-40).
THEOREM OneProbe == ServerSpec => []OneProbeAtATime
<1>1. ServerIInv => OneProbeAtATime
  BY DEF ServerIInv
<1> QED
  BY <1>1, ServerIsSound, PTL

\* No request loses the pool under its statements.
THEOREM PoolIsKept == ServerSpec => []PoolOutlivesRequests
<1>1. ServerIInv => PoolOutlivesRequests
  BY DEF ServerIInv
<1> QED
  BY <1>1, ServerIsSound, PTL

\* A positive answer rests on one the database gave after the request had
\* arrived, although requests share a probe.
THEOREM FreshAnswers == ServerSpec => []AnswersAreFresh
<1>1. ServerIInv => AnswersAreFresh
  BY DEF ServerIInv
<1> QED
  BY <1>1, ServerIsSound, PTL

\* Exit code 0 means an orderly end (server.ts 101-128).
THEOREM CleanExits == ServerSpec => []CleanExitsAreClean
<1>1. ServerIInv => CleanExitsAreClean
  BY DEF ServerIInv
<1> QED
  BY <1>1, ServerIsSound, PTL

\* A process that signs people in can sign them out (server.ts 46-63).
THEOREM SignOutIsThere == ServerSpec => []SignedInCanSignOut
<1>1. ServerIInv => SignedInCanSignOut
  BY DEF ServerIInv, ServicesAreLoaded, SignedInCanSignOut
<1> QED
  BY <1>1, ServerIsSound, PTL
===============================================================================
