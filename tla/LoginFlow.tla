------------------------------- MODULE LoginFlow -------------------------------
(***************************************************************************)
(* Signing in from the tabs of several browsers: GET /api/auth/login, the  *)
(* identity provider, and GET /api/auth/callback.  A tab shows one         *)
(* navigation at a time; the tabs of a browser share its cookie jar, which *)
(* is read when a request is sent and written when its answer arrives, so  *)
(* answers of different tabs overtake each other.  Everything after the    *)
(* provider's validation is one step here and RequestGate in detail.       *)
(***************************************************************************)
EXTENDS Integers, FiniteSets

CONSTANTS Browsers, Tabs,
          BrowserOf,        \* [Tabs -> Browsers]
          Attempts,         \* login attempts (state, nonce, verifier): bounds logins
          Tokens,           \* session tokens
          AttemptDuration,  \* 10 minutes, in ticks
          MaxTime,          \* bound on the clock
          None,             \* no cookie, no row, no value
          Keep              \* an answer without a Set-Cookie for that name

ASSUME LoginAssumption ==
    /\ BrowserOf \in [Tabs -> Browsers]
    /\ AttemptDuration \in Nat \ {0} /\ MaxTime \in Nat
    /\ None \notin Browsers \cup Attempts \cup Tokens \cup Nat
    /\ Keep \notin Attempts \cup Tokens \cup {None} /\ None # "authorize"

VARIABLES now,        \* the clock of the API process
          jar,        \* [Browsers -> cookies nwa_oidc_attempt and nwa_session]
          tab,        \* [Tabs -> the navigation in the tab, and its handler]
          attempts,   \* [Attempts -> expiry, authorization code, first browser]
          sessions,   \* [Tokens -> the attempt the stored session came from]
          discovery,  \* configurationPromise of the provider client
          latest      \* history: [Browsers -> attempt cookie it was last given]

login == <<now, jar, tab, attempts, sessions, discovery, latest>>

Serving == {"authenticate", "discover", "authorize",
            "callback", "exchange", "createSession"}
Failures == {"access_denied", "authentication_failed", "not_authorized",
             "service_unavailable"}
Answers == Failures \cup {"alreadySignedIn", "oidcUnavailable", "authorize", "signedIn"}

Tab ==
    [pc : Serving \cup {"home", "provider", "answer"},
     kind : {"none", "login", "callback"},
     attempt : Attempts \cup {None},   \* state of the authorization or callback URL
     cookie : Attempts \cup {None},    \* attempt cookie sent with the callback
     session : Tokens \cup {None},     \* session cookie sent with the login
     denied : BOOLEAN,                 \* error=access_denied instead of a code
     stale : BOOLEAN,                  \* history: sent after a newer attempt cookie
     setAttempt : Attempts \cup {None, Keep},  \* Set-Cookie headers; None clears
     setSession : Tokens \cup {None, Keep},
     answer : Answers \cup {None}]

Home == [pc |-> "home", kind |-> "none", attempt |-> None, cookie |-> None,
         session |-> None, denied |-> FALSE, stale |-> FALSE,
         setAttempt |-> Keep, setSession |-> Keep, answer |-> None]

LoginTypeOK ==
    /\ now \in 0 .. MaxTime
    /\ jar \in [Browsers -> [attempt : Attempts \cup {None}, session : Tokens \cup {None}]]
    /\ tab \in [Tabs -> Tab]
    /\ attempts \in [Attempts -> [expires : Nat \cup {None},
                                  code : {"none", "issued", "used"},
                                  browser : Browsers \cup {None}]]
    /\ sessions \in [Tokens -> Attempts \cup {None}]
    /\ discovery \in {"none", "pending", "ready"}
    /\ latest \in [Browsers -> Attempts \cup {None}]

LoginInit ==
    /\ now = 0
    /\ jar = [b \in Browsers |-> [attempt |-> None, session |-> None]]
    /\ tab = [t \in Tabs |-> Home]
    /\ attempts = [a \in Attempts |-> [expires |-> None, code |-> "none", browser |-> None]]
    /\ sessions = [k \in Tokens |-> None]
    /\ discovery = "none"
    /\ latest = [b \in Browsers |-> None]

-------------------------------------------------------------------------------
At(t, pc) == tab[t].pc = pc
Cookies(t) == jar[BrowserOf[t]]
Unused == {a \in Attempts : attempts[a].expires = None}

\* What the request brought is forgotten when the answer is sent.
Answered(q, answer) == [q EXCEPT !.pc = "answer", !.answer = answer, !.cookie = None,
                                 !.session = None]
Answer(t, answer) == tab' = [tab EXCEPT ![t] = Answered(@, answer)]

\* What the handler does once the provider's configuration is there.
Configured(kind) == IF kind = "login" THEN "authorize" ELSE "exchange"

\* The handler at the await of getConfiguration, with the cookies set so far.
Waiting(q, pc, setAttempt, setSession) ==
    [q EXCEPT !.pc = pc, !.setAttempt = setAttempt, !.setSession = setSession,
              !.session = None]

\* getConfiguration: the promise is shared; the first caller starts it.
GetConfiguration(t, setAttempt, setSession) ==
    /\ LET pc == IF discovery = "ready" THEN Configured(tab[t].kind) ELSE "discover"
       IN  tab' = [tab EXCEPT ![t] = Waiting(@, pc, setAttempt, setSession)]
    /\ discovery' = IF discovery = "none" THEN "pending" ELSE discovery

\* Mutant (see RequestGate): a failure is forgotten, and with it those who wait.
DiscoverySettlesForNobody ==
    /\ discovery = "pending"
    /\ \/ /\ discovery' = "ready"
          /\ tab' = [t \in Tabs |->
               IF At(t, "discover") THEN [tab[t] EXCEPT !.pc = Configured(tab[t].kind)]
                                    ELSE tab[t]]
       \/ discovery' = "none" /\ UNCHANGED tab
    /\ UNCHANGED <<now, jar, attempts, sessions, latest>>

\* discover settles for everyone who waits; a failure is forgotten.
DiscoverySettles ==
    /\ discovery = "pending"
    /\ \/ /\ discovery' = "ready"
          /\ tab' = [t \in Tabs |->
               IF At(t, "discover") THEN [tab[t] EXCEPT !.pc = Configured(tab[t].kind)]
                                    ELSE tab[t]]
       \/ /\ discovery' = "none"
          /\ tab' = [t \in Tabs |->
               IF At(t, "discover")
               THEN Answered(tab[t], IF tab[t].kind = "login" THEN "oidcUnavailable"
                                                              ELSE "service_unavailable")
               ELSE tab[t]]
    /\ UNCHANGED <<now, jar, attempts, sessions, latest>>

-------------------------------------------------------------------------------
(* Login *)

\* The bound on logins: there is an attempt left for every one under way.
SignIn(t) ==
    /\ At(t, "home")
    /\ Cardinality({u \in Tabs : tab[u].kind = "login" /\ tab[u].pc \in Serving})
         < Cardinality(Unused)
    /\ tab' = [tab EXCEPT ![t] = [Home EXCEPT !.pc = "authenticate", !.kind = "login",
                                              !.session = Cookies(t).session]]
    /\ UNCHANGED <<now, jar, attempts, sessions, discovery, latest>>

\* Whether authenticate accepts the session is for RequestGate to say.
Authenticate(t) ==
    /\ At(t, "authenticate")
    /\ \/ /\ tab[t].session # None
          /\ Answer(t, "alreadySignedIn") \/ Answer(t, "oidcUnavailable")
          /\ UNCHANGED discovery
       \/ /\ tab[t].session # None
          /\ GetConfiguration(t, Keep, None)
       \/ /\ tab[t].session = None
          /\ GetConfiguration(t, Keep, Keep)
    /\ UNCHANGED <<now, jar, attempts, sessions, latest>>

\* What seal puts into the attempt cookie; the browser is history.
Sealed(b) == [expires |-> now + AttemptDuration, code |-> "none", browser |-> b]

\* createAuthorizationRequest: fresh state, nonce and verifier.
Authorize(t) ==
    /\ At(t, "authorize")
    /\ \E a \in Unused :
         /\ attempts' = [attempts EXCEPT ![a] = Sealed(BrowserOf[t])]
         /\ tab' = [tab EXCEPT ![t] = [@ EXCEPT !.pc = "answer", !.answer = "authorize",
                                                !.attempt = a, !.setAttempt = a]]
    /\ UNCHANGED <<now, jar, sessions, discovery, latest>>

-------------------------------------------------------------------------------
(* The provider, and the browser's way back from it *)

\* Mutant: the API keeps the attempts and finds them by the state of the URL.
AttemptByState(t, a) == a
SentAttempt(t, a) == Cookies(t).attempt

\* The navigation to the callback URL, with the cookie as it is now.
ToCallback(t, a, denied) ==
    [Home EXCEPT !.pc = "callback", !.kind = "callback", !.attempt = a,
                 !.cookie = SentAttempt(t, a), !.denied = denied,
                 !.stale = a # latest[BrowserOf[t]]]

Consent(t) ==
    /\ At(t, "provider")
    /\ attempts' = [attempts EXCEPT ![tab[t].attempt].code = "issued"]
    /\ tab' = [tab EXCEPT ![t] = ToCallback(t, @.attempt, FALSE)]
    /\ UNCHANGED <<now, jar, sessions, discovery, latest>>

Decline(t) ==
    /\ At(t, "provider")
    /\ tab' = [tab EXCEPT ![t] = ToCallback(t, @.attempt, TRUE)]
    /\ UNCHANGED <<now, jar, attempts, sessions, discovery, latest>>

Leave(t) ==
    /\ At(t, "provider")
    /\ tab' = [tab EXCEPT ![t] = Home]
    /\ UNCHANGED <<now, jar, attempts, sessions, discovery, latest>>

\* The callback URL is opened again before it is answered: reloaded, restored
\* or copied, in any browser.
Reopen(t, u) ==
    /\ tab[t].kind = "callback"
    /\ At(u, "home")
    /\ tab' = [tab EXCEPT ![u] = ToCallback(u, tab[t].attempt, tab[t].denied)]
    /\ UNCHANGED <<now, jar, attempts, sessions, discovery, latest>>

-------------------------------------------------------------------------------
(* Callback *)

\* Mutant: unseal does not look at expiresAt.
UnsealedAnytime(a) == TRUE
\* unseal: authentic by the encryption, and in time.
Unsealed(a) == attempts[a].expires > now

\* Mutant: the state of the URL is not compared.
StateUnchecked(t) == TRUE
\* The state of the callback URL is the one sealed in the cookie.
StateMatches(t) == tab[t].cookie = tab[t].attempt

\* Every answer of the callback clears the attempt cookie.
Callback(t) ==
    LET valid == /\ tab[t].cookie # None
                 /\ Unsealed(tab[t].cookie)
                 /\ StateMatches(t)
    IN  /\ At(t, "callback")
        /\ \/ /\ valid
              /\ GetConfiguration(t, None, Keep)
           \/ /\ ~valid
              /\ tab' = [tab EXCEPT ![t] = [Answered(@, "authentication_failed")
                                              EXCEPT !.setAttempt = None]]
              /\ UNCHANGED discovery
        /\ UNCHANGED <<now, jar, attempts, sessions, latest>>

\* authorizationCodeGrant: the provider takes a code once, with the verifier
\* it was asked for; the exchange may fail on either side of that, or return
\* claims that are refused.
Exchange(t) ==
    LET a == tab[t].attempt
        redeemable == attempts[a].code = "issued" /\ tab[t].cookie = a
    IN  /\ At(t, "exchange")
        /\ \/ /\ tab[t].denied
              /\ Answer(t, "access_denied")
              /\ UNCHANGED attempts
           \/ /\ ~tab[t].denied
              /\ Answer(t, "service_unavailable")
              /\ UNCHANGED attempts
           \/ /\ ~tab[t].denied /\ ~redeemable
              /\ Answer(t, "authentication_failed")
              /\ UNCHANGED attempts
           \/ /\ ~tab[t].denied /\ redeemable
              /\ attempts' = [attempts EXCEPT ![a].code = "used"]
              /\ \/ tab' = [tab EXCEPT ![t] = [@ EXCEPT !.pc = "createSession",
                                                        !.cookie = None]]
                 \/ Answer(t, "authentication_failed")
                 \/ Answer(t, "service_unavailable")
        /\ UNCHANGED <<now, jar, sessions, discovery, latest>>

\* createSessionForIdentity: RequestGate, from FindIdentity on.  The row may
\* be stored although the answer says otherwise.
CreateSession(t) ==
    /\ At(t, "createSession")
    /\ \/ /\ Answer(t, "not_authorized") \/ Answer(t, "service_unavailable")
          /\ UNCHANGED sessions
       \/ \E k \in Tokens :
            /\ sessions[k] = None
            /\ sessions' = [sessions EXCEPT ![k] = tab[t].attempt]
            /\ \/ tab' = [tab EXCEPT ![t] = [Answered(@, "signedIn")
                                               EXCEPT !.setSession = k]]
               \/ Answer(t, "service_unavailable")
    /\ UNCHANGED <<now, jar, attempts, discovery, latest>>

-------------------------------------------------------------------------------
(* Answers *)

Stored(value, old) == IF value = Keep THEN old ELSE value

\* The answer reaches the browser, which applies its Set-Cookie headers and
\* follows the redirect.
Deliver(t) ==
    LET b == BrowserOf[t] IN
    /\ At(t, "answer")
    /\ jar' = [jar EXCEPT ![b] = [attempt |-> Stored(tab[t].setAttempt, @.attempt),
                                  session |-> Stored(tab[t].setSession, @.session)]]
    /\ latest' = IF tab[t].answer = "authorize"
                 THEN [latest EXCEPT ![b] = tab[t].attempt] ELSE latest
    /\ tab' = [tab EXCEPT ![t] =
                 IF @.answer = "authorize"
                 THEN [Home EXCEPT !.pc = "provider", !.attempt = tab[t].attempt]
                 ELSE Home]
    /\ UNCHANGED <<now, attempts, sessions, discovery>>

\* The connection is lost, or the tab closed.
Lose(t) ==
    /\ At(t, "answer")
    /\ tab' = [tab EXCEPT ![t] = Home]
    /\ UNCHANGED <<now, jar, attempts, sessions, discovery, latest>>

\* The session cookie goes: a logout was answered, or Max-Age is over.  The
\* attempt cookie's Max-Age makes no difference: without it the callback
\* fails as it does with an expired one.
ForgetSession(b) ==
    /\ jar' = [jar EXCEPT ![b].session = None]
    /\ UNCHANGED <<now, tab, attempts, sessions, discovery, latest>>

\* The process is restarted: the promise and the handlers are gone, with the
\* connections of their requests; what the browsers, the provider and the
\* database hold stays, and requests not yet taken up reach the new process.
Restart ==
    /\ discovery' = "none"
    /\ tab' = [t \in Tabs |->
         IF tab[t].pc \in {"discover", "authorize", "exchange", "createSession"}
         THEN Home ELSE tab[t]]
    /\ UNCHANGED <<now, jar, attempts, sessions, latest>>

Tick ==
    /\ now < MaxTime
    /\ now' = now + 1
    /\ UNCHANGED <<jar, tab, attempts, sessions, discovery, latest>>

-------------------------------------------------------------------------------
Serve(t) ==
    \/ Authenticate(t) \/ Authorize(t)
    \/ Callback(t) \/ Exchange(t) \/ CreateSession(t)
Arrive(t) == Deliver(t) \/ Lose(t)
Browse(t) ==
    \/ SignIn(t) \/ Consent(t) \/ Decline(t) \/ Leave(t)
    \/ \E u \in Tabs : Reopen(t, u)

LoginNext ==
    \/ \E t \in Tabs : Serve(t) \/ Arrive(t) \/ Browse(t)
    \/ \E b \in Browsers : ForgetSession(b)
    \/ DiscoverySettles \/ Restart
    \/ Tick

LoginSpec == LoginInit /\ [][LoginNext]_login

\* Provider calls and browser requests have timeouts of their own, statements
\* one of the database's, which takes a database that has not fallen silent.
FairLogin ==
    /\ LoginSpec
    /\ WF_login(DiscoverySettles)
    /\ \A t \in Tabs : WF_login(Serve(t)) /\ WF_login(Arrive(t))

-------------------------------------------------------------------------------
(* Properties *)

\* A callback with a code has passed the checks of cookie and state; its code
\* has been redeemed.
Presents(q) == q.kind = "callback" /\ ~q.denied /\ q.pc \in {"discover", "exchange"}
Redeems(q) == q.pc = "createSession"

Presented(a) == \E t \in Tabs : Presents(tab[t]) /\ tab[t].attempt = a
Redeeming(a) == \E t \in Tabs : Redeems(tab[t]) /\ tab[t].attempt = a

StageOf(a) ==
    CASE attempts[a].expires = None -> "unused"
      [] attempts[a].code = "used" -> IF Redeeming(a) THEN "redeemed" ELSE "spent"
      [] attempts[a].expires # None /\ attempts[a].code # "used" ->
           IF Presented(a) THEN "presented"
           ELSE IF attempts[a].expires <= now THEN "lapsed"
           ELSE IF attempts[a].code = "issued" THEN "consented"
           ELSE "begun"

PolicyStage == [a \in Attempts |-> StageOf(a)]
PolicyBegunIn == [a \in Attempts |-> attempts[a].browser]
PolicyHeld == [b \in Browsers |-> jar[b].session]

Policy == INSTANCE SignInPolicy
            WITH stage <- PolicyStage, begunIn <- PolicyBegunIn,
                 opened <- sessions, held <- PolicyHeld

\* Whatever tabs, reloads and lost answers do, an attempt opens at most one
\* session, only if it was presented in time, and only the browser that began
\* it gets the cookie (auth-lifecycle.ts login and callback).
ImplementsSignIn == Policy!SignInSpec

\* Every navigation to the API ends: no handler waits for a discovery that is
\* not under way (oidc-provider.ts getConfiguration).
EveryNavigationEnds ==
    \A t \in Tabs : tab[t].pc \in Serving \cup {"answer"} ~> tab[t].pc \in {"home", "provider"}

\* "invalidates the first callback after a second login replaces its attempt"
\* (auth-lifecycle.test.ts): a callback sent when its browser has been given
\* the cookie of another attempt gets no further than a refusal, whatever
\* answers overtake each other or clear cookies meanwhile, and in whichever
\* browser its URL is opened (auth-lifecycle.ts, the test of the state).
ReplacedAttemptsAreRefused ==
    \A t \in Tabs : tab[t].stale =>
        \/ tab[t].pc = "callback"
        \/ tab[t].pc = "answer" /\ tab[t].answer = "authentication_failed"

-------------------------------------------------------------------------------
(* The inductive invariant *)

Begun(a) == a \in Attempts /\ attempts[a].expires # None
BegunIn(a, b) == Begun(a) /\ attempts[a].browser = b

\* An attempt that has not been begun leaves no trace.
UnusedAreBlank ==
    \A a \in Attempts :
        attempts[a].expires = None => attempts[a].code = "none" /\ attempts[a].browser = None

\* The cookies of a browser come from attempts it began itself, the attempt
\* cookie from the last one it was given.
JarsAreOwn ==
    \A b \in Browsers :
        /\ jar[b].attempt # None =>
             BegunIn(jar[b].attempt, b) /\ jar[b].attempt = latest[b]
        /\ jar[b].session # None =>
             sessions[jar[b].session] # None /\ BegunIn(sessions[jar[b].session], b)

\* A session comes from a redeemed attempt, and each from another.
SessionsAreRedeemed ==
    /\ \A k \in Tokens :
         sessions[k] # None => Begun(sessions[k]) /\ attempts[sessions[k]].code = "used"
    /\ \A k, l \in Tokens :
         sessions[k] # None /\ sessions[k] = sessions[l] => k = l

\* The tab is on its way to the provider, or there.
Awaits(q) == q.answer = "authorize" \/ q.pc = "provider"

\* What a tab shows, or its handler holds, at each step.
Sound(t) ==
    LET q == tab[t] IN
    /\ q.pc \in {"home", "provider"} => q.kind = "none"
    /\ q.pc \in {"authenticate", "authorize"} => q.kind = "login"
    /\ q.pc \in {"callback", "exchange", "createSession"} => q.kind = "callback"
    /\ q.pc \in {"discover", "answer"} => q.kind # "none"
    /\ q.attempt # None => Begun(q.attempt)
    /\ q.kind = "login" /\ q.pc # "answer" => q.attempt = None
    /\ q.pc = "discover" => discovery = "pending"
    /\ q.cookie # None => q.kind = "callback" /\ BegunIn(q.cookie, BrowserOf[t])
    /\ q.kind = "callback" =>
         /\ q.attempt # None /\ q.answer # "authorize"
         /\ q.setAttempt \notin Attempts
         /\ q.denied \/ attempts[q.attempt].code # "none"
    /\ q.kind = "callback" /\ q.pc \in {"discover", "exchange"} => q.cookie = q.attempt
    /\ q.stale =>
         /\ q.kind = "callback" /\ q.pc \in {"callback", "answer"}
         /\ q.pc = "callback" => q.cookie # q.attempt
         /\ q.pc = "answer" => q.answer = "authentication_failed"
    /\ Redeems(q) =>
         /\ BegunIn(q.attempt, BrowserOf[t]) /\ attempts[q.attempt].code = "used"
         /\ \A k \in Tokens : sessions[k] # q.attempt
    /\ q.session \in Tokens => q.pc = "authenticate"
    /\ q.setAttempt \in Attempts => q.answer = "authorize"
    /\ q.setSession \in Tokens =>
         /\ q.pc = "answer" /\ sessions[q.setSession] # None
         /\ BegunIn(sessions[q.setSession], BrowserOf[t])
    /\ Awaits(q) => BegunIn(q.attempt, BrowserOf[t]) /\ attempts[q.attempt].code = "none"
    /\ q.answer = "authorize" => q.pc = "answer" /\ q.setAttempt = q.attempt

TabsAreSound == \A t \in Tabs : Sound(t)

\* An attempt is on its way to the provider in one tab and no other has its
\* URL; its code is redeemed for one callback.
TabsAreApart ==
    \A t, u \in Tabs :
        tab[t].attempt = tab[u].attempt /\ t # u =>
            ~Awaits(tab[t]) /\ ~(Redeems(tab[t]) /\ Redeems(tab[u]))

\* The inductive invariant of signing in: cookies, codes and sessions stay
\* with the attempt and the browser they came from, however answers overtake
\* each other.
LoginInv ==
    /\ LoginTypeOK
    /\ UnusedAreBlank
    /\ JarsAreOwn
    /\ SessionsAreRedeemed
    /\ TabsAreSound
    /\ TabsAreApart
===============================================================================
