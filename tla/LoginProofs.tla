------------------------------ MODULE LoginProofs ------------------------------
(***************************************************************************)
(* Signing in, for any browsers, tabs, attempts and tokens, and however    *)
(* answers overtake each other: the invariant is inductive, and what the   *)
(* cookies, codes and handlers do is what SignInPolicy promises.           *)
(***************************************************************************)
EXTENDS LoginFlow, TLAPS

-------------------------------------------------------------------------------
(* One tab moves *)

\* What a step of one tab may do to what the others rest on: an attempt keeps
\* its expiry and browser, a code only goes forward, a session keeps its
\* attempt, and a pending discovery is still pending.
Onward ==
    /\ \A a \in Attempts :
         Begun(a) => /\ attempts'[a].expires = attempts[a].expires
                     /\ attempts'[a].browser = attempts[a].browser
                     /\ attempts[a].code # "none" => attempts'[a].code # "none"
                     /\ attempts[a].code = "used" => attempts'[a].code = "used"
    /\ \A k \in Tokens : sessions[k] # None => sessions'[k] = sessions[k]
    /\ discovery = "pending" => discovery' = "pending"

LEMMA OnwardIfUnchanged ==
    ASSUME UNCHANGED <<attempts, sessions>>, discovery = "pending" => discovery' = "pending"
    PROVE  Onward
BY DEF Onward

\* The attempt a was begun by browser b, in the attempts att.
KnownIn(a, b, att) == a \in Attempts /\ att[a].expires # None /\ att[a].browser = b

\* Sound(t), of a record and of given attempts, sessions and discovery, so
\* that it can be said of the next state's.
Fits(q, b, att, ses, dis) ==
    /\ q.pc \in {"home", "provider"} => q.kind = "none"
    /\ q.pc \in {"authenticate", "authorize"} => q.kind = "login"
    /\ q.pc \in {"callback", "exchange", "createSession"} => q.kind = "callback"
    /\ q.pc \in {"discover", "answer"} => q.kind # "none"
    /\ q.attempt # None => q.attempt \in Attempts /\ att[q.attempt].expires # None
    /\ q.kind = "login" /\ q.pc # "answer" => q.attempt = None
    /\ q.pc = "discover" => dis = "pending"
    /\ q.cookie # None => q.kind = "callback" /\ KnownIn(q.cookie, b, att)
    /\ q.kind = "callback" =>
         /\ q.attempt # None /\ q.answer # "authorize" /\ q.setAttempt \notin Attempts
         /\ q.denied \/ att[q.attempt].code # "none"
    /\ q.kind = "callback" /\ q.pc \in {"discover", "exchange"} => q.cookie = q.attempt
    /\ q.stale => /\ q.kind = "callback" /\ q.pc \in {"callback", "answer"}
                  /\ q.pc = "callback" => q.cookie # q.attempt
                  /\ q.pc = "answer" => q.answer = "authentication_failed"
    /\ Redeems(q) => /\ KnownIn(q.attempt, b, att) /\ att[q.attempt].code = "used"
                     /\ \A k \in Tokens : ses[k] # q.attempt
    /\ q.session \in Tokens => q.pc = "authenticate"
    /\ q.setAttempt \in Attempts => q.answer = "authorize"
    /\ q.setSession \in Tokens => /\ q.pc = "answer" /\ ses[q.setSession] # None
                                  /\ KnownIn(ses[q.setSession], b, att)
    /\ Awaits(q) => KnownIn(q.attempt, b, att) /\ att[q.attempt].code = "none"
    /\ q.answer = "authorize" => q.pc = "answer" /\ q.setAttempt = q.attempt

LEMMA SoundFits ==
    ASSUME NEW t
    PROVE  Sound(t) <=> Fits(tab[t], BrowserOf[t], attempts, sessions, discovery)
BY DEF Sound, Fits, KnownIn, BegunIn, Begun

LEMMA SoundFitsNext ==
    ASSUME NEW t
    PROVE  Sound(t)' <=> Fits(tab'[t], BrowserOf[t], attempts', sessions', discovery')
BY DEF Sound, Fits, KnownIn, BegunIn, Begun

LEMMA BegunStays ==
    ASSUME Onward, NEW a, Begun(a)
    PROVE  /\ attempts'[a].expires # None
           /\ KnownIn(a, attempts[a].browser, attempts')
           /\ attempts[a].code # "none" => attempts'[a].code # "none"
           /\ attempts[a].code = "used" => attempts'[a].code = "used"
BY DEF Onward, Begun, KnownIn

\* A tab that does not move stays sound, unless its attempt is taken from it.
LEMMA RestStaysSound ==
    ASSUME LoginInv, Onward, NEW u \in Tabs, tab'[u] = tab[u],
           Awaits(tab[u]) => attempts'[tab[u].attempt].code = "none",
           Redeems(tab[u]) => \A k \in Tokens : sessions'[k] # tab[u].attempt
    PROVE  Sound(u)'
<1> DEFINE q == tab[u]
           b == BrowserOf[u]
<1>1. Sound(u) /\ Fits(q, b, attempts, sessions, discovery)
  BY SoundFits DEF LoginInv, TabsAreSound
<1>2. q.attempt # None => q.attempt \in Attempts /\ attempts'[q.attempt].expires # None
  BY <1>1, BegunStays DEF Sound, Begun
<1>3. q.cookie # None => q.kind = "callback" /\ KnownIn(q.cookie, b, attempts')
  BY <1>1, BegunStays DEF Sound, BegunIn
<1>4. q.kind = "callback" => q.denied \/ attempts'[q.attempt].code # "none"
  BY <1>1, BegunStays DEF Sound
<1>5. Redeems(q) => KnownIn(q.attempt, b, attempts') /\ attempts'[q.attempt].code = "used"
  BY <1>1, BegunStays DEF Sound, BegunIn
<1>6. Awaits(q) => KnownIn(q.attempt, b, attempts')
  BY <1>1, BegunStays DEF Sound, BegunIn
<1>7. q.setSession \in Tokens => /\ q.pc = "answer" /\ sessions'[q.setSession] # None
                                 /\ KnownIn(sessions'[q.setSession], b, attempts')
  <2> SUFFICES ASSUME q.setSession \in Tokens
               PROVE  /\ q.pc = "answer" /\ sessions'[q.setSession] # None
                      /\ KnownIn(sessions'[q.setSession], b, attempts')
    OBVIOUS
  <2>1. /\ q.pc = "answer" /\ sessions[q.setSession] # None
        /\ BegunIn(sessions[q.setSession], b)
    BY <1>1 DEF Sound
  <2>2. sessions'[q.setSession] = sessions[q.setSession]
    BY <2>1 DEF Onward
  <2>3. KnownIn(sessions[q.setSession], b, attempts')
    BY <2>1, BegunStays DEF BegunIn
  <2> QED
    BY <2>1, <2>2, <2>3
<1>8. q.pc = "discover" => discovery' = "pending"
  BY <1>1 DEF Sound, Onward
<1>9. Fits(q, b, attempts', sessions', discovery')
  BY <1>1, <1>2, <1>3, <1>4, <1>5, <1>6, <1>7, <1>8 DEF Fits
<1> QED
  BY <1>9, SoundFitsNext

\* LoginTypeOK without the tabs.
RestTypeOK ==
    /\ now \in 0 .. MaxTime
    /\ jar \in [Browsers -> [attempt : Attempts \cup {None}, session : Tokens \cup {None}]]
    /\ attempts \in [Attempts -> [expires : Nat \cup {None},
                                  code : {"none", "issued", "used"},
                                  browser : Browsers \cup {None}]]
    /\ sessions \in [Tokens -> Attempts \cup {None}]
    /\ discovery \in {"none", "pending", "ready"}
    /\ latest \in [Browsers -> Attempts \cup {None}]

LEMMA TypesApart == LoginTypeOK <=> RestTypeOK /\ tab \in [Tabs -> Tab]
BY DEF LoginTypeOK, RestTypeOK

\* A tab that becomes q takes nothing from tab u, which stays as it is.
Spares(q, u) ==
    /\ Awaits(tab[u]) => attempts'[tab[u].attempt].code = "none"
    /\ Redeems(tab[u]) => \A k \in Tokens : sessions'[k] # tab[u].attempt
    /\ q.attempt = tab[u].attempt =>
         ~Awaits(q) /\ ~Awaits(tab[u]) /\ ~(Redeems(q) /\ Redeems(tab[u]))

\* What remains to be shown when one tab moves.
LEMMA TabStep ==
    ASSUME LoginInv, NEW t \in Tabs, NEW q \in Tab, tab' = [tab EXCEPT ![t] = q],
           RestTypeOK', Onward, UnusedAreBlank', JarsAreOwn', SessionsAreRedeemed',
           Fits(q, BrowserOf[t], attempts', sessions', discovery'),
           \A u \in Tabs \ {t} : Spares(q, u)
    PROVE  LoginInv'
<1>1. /\ tab' \in [Tabs -> Tab] /\ tab'[t] = q
      /\ \A u \in Tabs \ {t} : tab'[u] = tab[u]
  BY DEF LoginInv, LoginTypeOK
<1>2. LoginTypeOK'
  BY <1>1 DEF LoginTypeOK, RestTypeOK
<1>3. Sound(t)'
  BY <1>1, SoundFitsNext
<1>4. \A u \in Tabs \ {t} : Sound(u)'
  BY <1>1, RestStaysSound DEF Spares
<1>5. TabsAreSound'
  BY <1>3, <1>4 DEF TabsAreSound
<1>6. TabsAreApart'
  <2> SUFFICES ASSUME NEW u \in Tabs, NEW v \in Tabs, u # v,
                      tab'[u].attempt = tab'[v].attempt
               PROVE  ~Awaits(tab'[u]) /\ ~(Redeems(tab'[u]) /\ Redeems(tab'[v]))
    BY DEF TabsAreApart, Awaits, Redeems
  <2>1. CASE u = t
    BY <1>1, <2>1 DEF Spares
  <2>2. CASE v = t
    BY <1>1, <2>2 DEF Spares
  <2>3. CASE u # t /\ v # t
    BY <1>1, <2>3 DEF LoginInv, TabsAreApart
  <2> QED
    BY <2>1, <2>2, <2>3
<1> QED
  BY <1>2, <1>5, <1>6 DEF LoginInv

\* Cookies and rows stay good while attempts and sessions only go forward.
LEMMA JarsStayOwn ==
    ASSUME LoginInv, Onward, UNCHANGED <<jar, latest>> PROVE JarsAreOwn'
<1>1. ASSUME NEW b \in Browsers, jar[b].attempt # None
      PROVE  KnownIn(jar[b].attempt, b, attempts') /\ jar[b].attempt = latest[b]
  BY <1>1, BegunStays DEF LoginInv, JarsAreOwn, BegunIn
<1>2. ASSUME NEW b \in Browsers, jar[b].session # None
      PROVE  /\ sessions'[jar[b].session] # None
             /\ KnownIn(sessions'[jar[b].session], b, attempts')
  <2>1. /\ jar[b].session \in Tokens /\ sessions[jar[b].session] # None
        /\ BegunIn(sessions[jar[b].session], b)
    BY <1>2 DEF LoginInv, JarsAreOwn, LoginTypeOK
  <2>2. sessions'[jar[b].session] = sessions[jar[b].session]
    BY <2>1 DEF Onward
  <2> QED
    BY <2>1, <2>2, BegunStays DEF BegunIn
<1> QED
  BY <1>1, <1>2 DEF JarsAreOwn, BegunIn, Begun, KnownIn

LEMMA SessionsStayRedeemed ==
    ASSUME LoginInv, Onward, UNCHANGED sessions PROVE SessionsAreRedeemed'
<1>1. ASSUME NEW k \in Tokens, sessions[k] # None
      PROVE  /\ sessions[k] \in Attempts /\ attempts'[sessions[k]].expires # None
             /\ attempts'[sessions[k]].code = "used"
  BY <1>1, BegunStays DEF LoginInv, SessionsAreRedeemed, Begun
<1> QED
  BY <1>1 DEF LoginInv, SessionsAreRedeemed, Begun

\* A tab that neither begins nor redeems an attempt.
LEMMA QuietStep ==
    ASSUME LoginInv, NEW t \in Tabs, NEW q \in Tab, tab' = [tab EXCEPT ![t] = q],
           UNCHANGED <<now, jar, attempts, sessions, latest>>,
           discovery' \in {"none", "pending", "ready"},
           discovery = "pending" => discovery' = "pending",
           Fits(q, BrowserOf[t], attempts, sessions, discovery'),
           ~Awaits(q), ~Redeems(q),
           NEW v \in Tabs, v = t \/ tab[v].kind = "callback",
           q.attempt \in {None, tab[v].attempt}
    PROVE  LoginInv'
<1>1. Onward
  BY OnwardIfUnchanged
<1>2. UnusedAreBlank' /\ JarsAreOwn' /\ SessionsAreRedeemed'
  BY <1>1, JarsStayOwn, SessionsStayRedeemed DEF LoginInv, UnusedAreBlank
<1>3. ASSUME NEW u \in Tabs \ {t} PROVE Spares(q, u)
  <2>1. Sound(u) /\ Sound(v) /\ tab[u] \in Tab
    BY DEF LoginInv, TabsAreSound, LoginTypeOK
  <2>2. ASSUME q.attempt = tab[u].attempt, Awaits(tab[u]) PROVE FALSE
    <3>1. tab[u].attempt # None /\ tab[u].kind # "callback"
      BY <2>1, <2>2, LoginAssumption DEF Sound, BegunIn, Begun, Awaits
    <3>2. tab[u].attempt = tab[v].attempt /\ u # v
      BY <2>2, <3>1
    <3> QED
      BY <2>2, <3>2 DEF LoginInv, TabsAreApart
  <2> QED
    BY <2>1, <2>2 DEF Sound, Spares
<1>4. RestTypeOK'
  BY DEF LoginInv, LoginTypeOK, RestTypeOK
<1> QED
  BY <1>1, <1>2, <1>3, <1>4, TabStep

-------------------------------------------------------------------------------
(* Login *)

LEMMA HomeType == Home \in Tab /\ \A b, att, ses, dis : Fits(Home, b, att, ses, dis)
BY LoginAssumption DEF Home, Tab, Fits, Awaits, Redeems

LEMMA SignInStep == ASSUME LoginInv, NEW t \in Tabs, SignIn(t) PROVE LoginInv'
<1> DEFINE q == [Home EXCEPT !.pc = "authenticate", !.kind = "login",
                             !.session = Cookies(t).session]
<1>1. Cookies(t).session \in Tokens \cup {None}
  BY LoginAssumption DEF LoginInv, LoginTypeOK, Cookies
<1>2. q \in Tab
  BY <1>1 DEF Home, Tab, Serving
<1>3. Fits(q, BrowserOf[t], attempts, sessions, discovery)
  BY LoginAssumption DEF Home, Fits, Awaits, Redeems
<1>4. ~Awaits(q) /\ ~Redeems(q) /\ q.attempt = None
  BY LoginAssumption DEF Home, Awaits, Redeems
<1>5. /\ tab' = [tab EXCEPT ![t] = q]
      /\ UNCHANGED <<now, jar, attempts, sessions, latest, discovery>>
  BY DEF SignIn
<1> HIDE DEF q
<1> QED
  BY <1>2, <1>3, <1>4, <1>5, QuietStep DEF LoginInv, LoginTypeOK

LEMMA WaitingType ==
    ASSUME NEW q \in Tab, NEW pc \in Serving,
           NEW setAttempt \in {None, Keep}, NEW setSession \in {None, Keep}
    PROVE  Waiting(q, pc, setAttempt, setSession) \in Tab
BY DEF Waiting, Tab

LEMMA GetConfigurationStep ==
    ASSUME LoginInv, NEW t \in Tabs,
           \/ At(t, "authenticate")
           \/ At(t, "callback") /\ tab[t].cookie = tab[t].attempt,
           NEW setAttempt \in {None, Keep}, NEW setSession \in {None, Keep},
           GetConfiguration(t, setAttempt, setSession),
           UNCHANGED <<now, jar, attempts, sessions, latest>>
    PROVE  LoginInv'
<1> DEFINE pc == IF discovery = "ready" THEN Configured(tab[t].kind) ELSE "discover"
           q == Waiting(tab[t], pc, setAttempt, setSession)
<1>1. tab[t] \in Tab /\ Fits(tab[t], BrowserOf[t], attempts, sessions, discovery)
  BY SoundFits DEF LoginInv, LoginTypeOK, TabsAreSound
<1>2. discovery \in {"none", "pending", "ready"}
  BY DEF LoginInv, LoginTypeOK
<1>3. tab[t].kind = IF At(t, "authenticate") THEN "login" ELSE "callback"
  BY <1>1 DEF Fits, At
<1>4. /\ tab' = [tab EXCEPT ![t] = q]
      /\ discovery' = IF discovery = "none" THEN "pending" ELSE discovery
  BY DEF GetConfiguration
<1>5. /\ pc \in {"discover", Configured(tab[t].kind)} /\ pc \in Serving
      /\ pc = "discover" => discovery' = "pending"
  BY <1>2, <1>3, <1>4 DEF Configured, Serving
<1> HIDE DEF pc
<1>6. q \in Tab
  BY <1>1, <1>5, WaitingType
<1>7. /\ q.pc = pc /\ q.kind = tab[t].kind
      /\ q.attempt = tab[t].attempt /\ q.cookie = tab[t].cookie
      /\ q.session = None /\ q.denied = tab[t].denied /\ q.stale = tab[t].stale
      /\ q.setAttempt = setAttempt /\ q.setSession = setSession
      /\ q.answer = tab[t].answer
  BY <1>1 DEF Waiting, Tab
<1> HIDE DEF q
<1>8. tab[t].answer # "authorize"
  BY <1>1 DEF Fits, At
<1>9. Fits(q, BrowserOf[t], attempts, sessions, discovery')
  BY <1>1, <1>3, <1>5, <1>7, <1>8, LoginAssumption
     DEF Fits, At, Configured, Awaits, Redeems
<1>10. ~Awaits(q) /\ ~Redeems(q)
  BY <1>3, <1>5, <1>7, <1>8 DEF Awaits, Redeems, Configured
<1>11. discovery' \in {"none", "pending", "ready"} /\ (discovery = "pending" => discovery' = "pending")
  BY <1>2, <1>4
<1> QED
  BY <1>4, <1>6, <1>7, <1>9, <1>10, <1>11, QuietStep

\* An answer other than to the login's success.
LEMMA AnsweredType ==
    ASSUME LoginInv, NEW t \in Tabs, tab[t].pc \in Serving,
           NEW answer \in Answers, answer # "authorize",
           tab[t].pc = "callback" => answer = "authentication_failed",
           NEW q, q = Answered(tab[t], answer)
    PROVE  /\ q \in Tab /\ Fits(q, BrowserOf[t], attempts, sessions, discovery)
           /\ ~Awaits(q) /\ ~Redeems(q)
           /\ q.attempt = tab[t].attempt /\ q.kind = tab[t].kind
<1>1. tab[t] \in Tab /\ Fits(tab[t], BrowserOf[t], attempts, sessions, discovery)
  BY SoundFits DEF LoginInv, LoginTypeOK, TabsAreSound
<1>2. q \in Tab
  BY <1>1 DEF Answered, Tab
<1>3. /\ q.pc = "answer" /\ q.answer = answer /\ q.cookie = None /\ q.session = None
      /\ q.kind = tab[t].kind /\ q.attempt = tab[t].attempt /\ q.denied = tab[t].denied
      /\ q.setAttempt = tab[t].setAttempt /\ q.setSession = tab[t].setSession
      /\ q.stale = tab[t].stale
  BY <1>1 DEF Answered, Tab
<1>4. /\ tab[t].answer # "authorize" /\ tab[t].kind # "none" /\ tab[t].setSession \notin Tokens
      /\ tab[t].stale => tab[t].kind = "callback" /\ answer = "authentication_failed"
  BY <1>1 DEF Fits, Serving
<1>5. Fits(q, BrowserOf[t], attempts, sessions, discovery)
  BY <1>1, <1>3, <1>4, LoginAssumption DEF Fits, Awaits, Redeems
<1> QED
  BY <1>2, <1>3, <1>5 DEF Awaits, Redeems

LEMMA AnswerStep ==
    ASSUME LoginInv, NEW t \in Tabs, tab[t].pc \in Serving \ {"callback"},
           NEW answer \in Answers, answer # "authorize", Answer(t, answer),
           UNCHANGED <<now, jar, attempts, sessions, discovery, latest>>
    PROVE  LoginInv'
<1> DEFINE q == Answered(tab[t], answer)
<1>1. /\ q \in Tab /\ Fits(q, BrowserOf[t], attempts, sessions, discovery)
      /\ ~Awaits(q) /\ ~Redeems(q) /\ q.attempt = tab[t].attempt
  BY AnsweredType
<1>2. tab' = [tab EXCEPT ![t] = q]
  BY DEF Answer
<1> HIDE DEF q
<1> QED
  BY <1>1, <1>2, QuietStep DEF LoginInv, LoginTypeOK

LEMMA AuthenticateStep == ASSUME LoginInv, NEW t \in Tabs, Authenticate(t) PROVE LoginInv'
<1>1. /\ At(t, "authenticate") /\ UNCHANGED <<now, jar, attempts, sessions, latest>>
      /\ \/ /\ Answer(t, "alreadySignedIn") \/ Answer(t, "oidcUnavailable")
            /\ UNCHANGED discovery
         \/ GetConfiguration(t, Keep, None)
         \/ GetConfiguration(t, Keep, Keep)
  BY DEF Authenticate
<1>2. tab[t].pc \in Serving \ {"callback"}
  BY <1>1 DEF At, Serving
<1> QED
  BY <1>1, <1>2, AnswerStep, GetConfigurationStep DEF Answers

LEMMA AuthorizeStep == ASSUME LoginInv, NEW t \in Tabs, Authorize(t) PROVE LoginInv'
<1>1. PICK a \in Unused :
        /\ attempts' = [attempts EXCEPT ![a] = Sealed(BrowserOf[t])]
        /\ tab' = [tab EXCEPT ![t] = [@ EXCEPT !.pc = "answer", !.answer = "authorize",
                                               !.attempt = a, !.setAttempt = a]]
  BY DEF Authorize
<1> DEFINE q == [tab[t] EXCEPT !.pc = "answer", !.answer = "authorize",
                               !.attempt = a, !.setAttempt = a]
           b == BrowserOf[t]
<1>2. /\ At(t, "authorize") /\ UNCHANGED <<now, jar, sessions, discovery, latest>>
      /\ a \in Attempts /\ attempts[a].expires = None
      /\ attempts[a].code = "none" /\ b \in Browsers
  BY LoginAssumption DEF Authorize, Unused, LoginInv, UnusedAreBlank
<1>3. tab[t] \in Tab /\ Fits(tab[t], b, attempts, sessions, discovery) /\ now \in 0 .. MaxTime
  BY SoundFits DEF LoginInv, LoginTypeOK, TabsAreSound
<1>4. q \in Tab
  BY <1>2, <1>3 DEF Tab, Answers
<1>5. /\ q.pc = "answer" /\ q.answer = "authorize" /\ q.attempt = a /\ q.setAttempt = a
      /\ q.kind = "login" /\ q.cookie = None /\ q.session \notin Tokens
      /\ q.setSession \notin Tokens /\ ~q.stale
  BY <1>2, <1>3 DEF Tab, Fits, At
<1> HIDE DEF q
<1>6. /\ attempts' \in [Attempts -> [expires : Nat \cup {None},
                                     code : {"none", "issued", "used"},
                                     browser : Browsers \cup {None}]]
      /\ KnownIn(a, b, attempts') /\ attempts'[a].code = "none"
      /\ \A c \in Attempts : c # a => attempts'[c] = attempts[c]
  <2>1. Sealed(b) \in [expires : Nat \cup {None}, code : {"none", "issued", "used"},
                       browser : Browsers \cup {None}]
    BY <1>2, <1>3, LoginAssumption DEF Sealed
  <2>2. Sealed(b).expires # None /\ Sealed(b).browser = b /\ Sealed(b).code = "none"
    BY <1>3, LoginAssumption DEF Sealed
  <2> HIDE DEF b
  <2> QED
    BY <1>1, <1>2, <2>1, <2>2 DEF LoginInv, LoginTypeOK, KnownIn, b
<1>7. Onward
  BY <1>2, <1>6 DEF Onward, Begun
<1>8. UnusedAreBlank' /\ JarsAreOwn' /\ SessionsAreRedeemed'
  BY <1>2, <1>6, <1>7, JarsStayOwn, SessionsStayRedeemed
     DEF LoginInv, UnusedAreBlank, KnownIn
<1>9. Fits(q, b, attempts', sessions', discovery')
  BY <1>2, <1>5, <1>6 DEF Fits, Redeems, KnownIn
<1>10. ASSUME NEW u \in Tabs \ {t} PROVE Spares(q, u)
  <2>1. Sound(u)
    BY DEF LoginInv, TabsAreSound
  <2>2. tab[u].attempt # a
    BY <1>2, <2>1, LoginAssumption DEF Sound, Begun
  <2> QED
    BY <1>2, <1>5, <1>6, <2>1, <2>2 DEF Sound, BegunIn, Begun, Spares
<1>11. tab' = [tab EXCEPT ![t] = q]
  BY <1>1 DEF q
<1>12. RestTypeOK'
  BY <1>2, <1>6 DEF LoginInv, LoginTypeOK, RestTypeOK
<1> QED
  BY <1>4, <1>7, <1>8, <1>9, <1>10, <1>11, <1>12, TabStep

-------------------------------------------------------------------------------
(* The provider *)

\* A callback request brings the cookie of its own browser.
LEMMA ToCallbackFits ==
    ASSUME LoginInv, Onward, NEW t \in Tabs, NEW a, Begun(a),
           NEW denied \in BOOLEAN, denied \/ attempts'[a].code # "none",
           NEW q, q = ToCallback(t, a, denied)
    PROVE  /\ q \in Tab /\ Fits(q, BrowserOf[t], attempts', sessions, discovery)
           /\ ~Awaits(q) /\ ~Redeems(q) /\ q.attempt = a
<1> DEFINE c == Cookies(t).attempt
<1>1. /\ c \in Attempts \cup {None}
      /\ c # None => KnownIn(c, BrowserOf[t], attempts') /\ c = latest[BrowserOf[t]]
  BY LoginAssumption, BegunStays DEF LoginInv, LoginTypeOK, JarsAreOwn, Cookies, BegunIn
<1>2. /\ q.pc = "callback" /\ q.kind = "callback" /\ q.attempt = a /\ q.cookie = c
      /\ q.denied = denied /\ q.session = None /\ q.setAttempt = Keep
      /\ q.setSession = Keep /\ q.answer = None /\ q.stale = (a # latest[BrowserOf[t]])
  BY DEF ToCallback, Home, SentAttempt
<1>3. q \in Tab
  BY <1>1 DEF ToCallback, Home, SentAttempt, Tab, Serving, Begun
<1> HIDE DEF c
<1>4. a \in Attempts /\ attempts'[a].expires # None
  BY BegunStays DEF Begun
<1>5. Fits(q, BrowserOf[t], attempts', sessions, discovery)
  BY <1>1, <1>2, <1>4, LoginAssumption DEF Fits, Awaits, Redeems
<1> QED
  BY <1>2, <1>3, <1>5, LoginAssumption DEF Awaits, Redeems

LEMMA ConsentStep == ASSUME LoginInv, NEW t \in Tabs, Consent(t) PROVE LoginInv'
<1> DEFINE a == tab[t].attempt
           q == ToCallback(t, a, FALSE)
           b == BrowserOf[t]
<1>1. /\ At(t, "provider")
      /\ attempts' = [attempts EXCEPT ![a].code = "issued"]
      /\ tab' = [tab EXCEPT ![t] = q]
      /\ UNCHANGED <<now, jar, sessions, discovery, latest>>
  BY DEF Consent, ToCallback
<1>2. BegunIn(a, b) /\ attempts[a].code = "none" /\ a \in Attempts
  BY <1>1 DEF LoginInv, TabsAreSound, Sound, At, Awaits, BegunIn, Begun
<1> HIDE DEF a, q
<1>3. /\ attempts' \in [Attempts -> [expires : Nat \cup {None},
                                     code : {"none", "issued", "used"},
                                     browser : Browsers \cup {None}]]
      /\ attempts'[a].code = "issued"
      /\ \A c \in Attempts : /\ attempts'[c].expires = attempts[c].expires
                             /\ attempts'[c].browser = attempts[c].browser
                             /\ c # a => attempts'[c] = attempts[c]
  BY <1>1, <1>2 DEF LoginInv, LoginTypeOK
<1>4. Onward
  BY <1>1, <1>2, <1>3 DEF Onward, Begun
<1>5. UnusedAreBlank' /\ JarsAreOwn' /\ SessionsAreRedeemed'
  <2>1. UnusedAreBlank'
    BY <1>2, <1>3 DEF LoginInv, UnusedAreBlank, BegunIn, Begun
  <2> QED
    BY <1>1, <1>4, <2>1, JarsStayOwn, SessionsStayRedeemed
<1>6. /\ q \in Tab /\ Fits(q, b, attempts', sessions, discovery)
      /\ ~Awaits(q) /\ ~Redeems(q) /\ q.attempt = a
  <2>1. Begun(a) /\ (FALSE \/ attempts'[a].code # "none")
    BY <1>2, <1>3 DEF BegunIn
  <2> QED
    BY <1>4, <2>1, ToCallbackFits DEF q
<1>7. ASSUME NEW u \in Tabs \ {t} PROVE Spares(q, u)
  <2>1. Sound(u) /\ tab[u].attempt # a
    BY <1>1 DEF LoginInv, TabsAreSound, TabsAreApart, Awaits, At, a
  <2> QED
    BY <1>1, <1>3, <1>6, <2>1 DEF Sound, BegunIn, Begun, Spares
<1>8. RestTypeOK'
  BY <1>1, <1>3 DEF LoginInv, LoginTypeOK, RestTypeOK
<1> QED
  BY <1>1, <1>4, <1>5, <1>6, <1>7, <1>8, TabStep

\* Going to a callback URL without the provider issuing a code.
LEMMA ToCallbackStep ==
    ASSUME LoginInv, NEW t \in Tabs, NEW v \in Tabs,
           v = t \/ tab[v].kind = "callback",
           NEW denied \in BOOLEAN,
           Begun(tab[v].attempt), denied \/ attempts[tab[v].attempt].code # "none",
           tab' = [tab EXCEPT ![t] = ToCallback(t, tab[v].attempt, denied)],
           UNCHANGED <<now, jar, attempts, sessions, discovery, latest>>
    PROVE  LoginInv'
<1> DEFINE q == ToCallback(t, tab[v].attempt, denied)
<1>1. Onward
  BY OnwardIfUnchanged
<1>2. /\ q \in Tab /\ Fits(q, BrowserOf[t], attempts, sessions, discovery)
      /\ ~Awaits(q) /\ ~Redeems(q) /\ q.attempt = tab[v].attempt
  BY <1>1, ToCallbackFits
<1> HIDE DEF q
<1>3. tab' = [tab EXCEPT ![t] = q]
  BY DEF q
<1>4. discovery' \in {"none", "pending", "ready"} /\ q.attempt \in {None, tab[v].attempt}
  BY <1>2 DEF LoginInv, LoginTypeOK
<1> QED
  BY <1>2, <1>3, <1>4, QuietStep

LEMMA DeclineStep == ASSUME LoginInv, NEW t \in Tabs, Decline(t) PROVE LoginInv'
<1>1. Begun(tab[t].attempt)
  BY DEF Decline, LoginInv, TabsAreSound, Sound, At, Awaits, BegunIn
<1>2. /\ tab' = [tab EXCEPT ![t] = ToCallback(t, tab[t].attempt, TRUE)]
      /\ UNCHANGED <<now, jar, attempts, sessions, discovery, latest>>
  BY DEF Decline, ToCallback
<1> QED
  BY <1>1, <1>2, ToCallbackStep

LEMMA ReopenStep ==
    ASSUME LoginInv, NEW t \in Tabs, NEW u \in Tabs, Reopen(t, u) PROVE LoginInv'
<1>1. /\ tab[t].kind = "callback" /\ Begun(tab[t].attempt) /\ tab[t].denied \in BOOLEAN
      /\ tab[t].denied \/ attempts[tab[t].attempt].code # "none"
  BY DEF Reopen, LoginInv, TabsAreSound, Sound, LoginTypeOK, Tab
<1>2. /\ tab' = [tab EXCEPT ![u] = ToCallback(u, tab[t].attempt, tab[t].denied)]
      /\ UNCHANGED <<now, jar, attempts, sessions, discovery, latest>>
  BY DEF Reopen
<1> QED
  BY <1>1, <1>2, ToCallbackStep

\* The tab shows something else.
LEMMA GoHomeStep ==
    ASSUME LoginInv, NEW t \in Tabs, tab' = [tab EXCEPT ![t] = Home],
           UNCHANGED <<now, jar, attempts, sessions, discovery, latest>>
    PROVE  LoginInv'
<1>1. ~Awaits(Home) /\ ~Redeems(Home) /\ Home.attempt = None
  BY LoginAssumption DEF Home, Awaits, Redeems
<1> QED
  BY <1>1, HomeType, QuietStep DEF LoginInv, LoginTypeOK

LEMMA LeaveStep == ASSUME LoginInv, NEW t \in Tabs, Leave(t) PROVE LoginInv'
BY GoHomeStep DEF Leave

LEMMA LoseStep == ASSUME LoginInv, NEW t \in Tabs, Lose(t) PROVE LoginInv'
BY GoHomeStep DEF Lose

-------------------------------------------------------------------------------
(* Callback *)

LEMMA CallbackStep == ASSUME LoginInv, NEW t \in Tabs, Callback(t) PROVE LoginInv'
<1> DEFINE w == Answered(tab[t], "authentication_failed")
           q == [w EXCEPT !.setAttempt = None]
<1>1. /\ At(t, "callback") /\ UNCHANGED <<now, jar, attempts, sessions, latest>>
      /\ \/ tab[t].cookie = tab[t].attempt /\ GetConfiguration(t, None, Keep)
         \/ tab' = [tab EXCEPT ![t] = q] /\ UNCHANGED discovery
  BY DEF Callback, StateMatches
<1>2. CASE tab[t].cookie = tab[t].attempt /\ GetConfiguration(t, None, Keep)
  BY <1>1, <1>2, GetConfigurationStep
<1>3. CASE tab' = [tab EXCEPT ![t] = q] /\ UNCHANGED discovery
  <2>1. tab[t].pc \in Serving /\ tab[t].kind = "callback"
    BY <1>1 DEF At, Serving, LoginInv, TabsAreSound, Sound
  <2>2. "authentication_failed" \in Answers
    BY DEF Answers, Failures
  <2>3. /\ w \in Tab /\ Fits(w, BrowserOf[t], attempts, sessions, discovery)
        /\ ~Awaits(w) /\ ~Redeems(w) /\ w.attempt = tab[t].attempt /\ w.kind = "callback"
    BY <2>1, <2>2, AnsweredType
  <2> HIDE DEF w
  <2>4. /\ q \in Tab /\ q.setAttempt = None
        /\ q.pc = w.pc /\ q.kind = w.kind /\ q.attempt = w.attempt /\ q.cookie = w.cookie
        /\ q.session = w.session /\ q.denied = w.denied /\ q.stale = w.stale
        /\ q.setSession = w.setSession /\ q.answer = w.answer
    BY <2>3 DEF Tab
  <2> HIDE DEF q
  <2>5. Fits(q, BrowserOf[t], attempts, sessions, discovery)
    BY <2>3, <2>4, LoginAssumption DEF Fits, Awaits, Redeems
  <2>6. ~Awaits(q) /\ ~Redeems(q) /\ q.attempt \in {None, tab[t].attempt}
    BY <2>3, <2>4 DEF Awaits, Redeems
  <2>7. discovery' \in {"none", "pending", "ready"} /\ discovery' = discovery
    BY <1>3 DEF LoginInv, LoginTypeOK
  <2> QED
    BY <1>1, <1>3, <2>4, <2>5, <2>6, <2>7, QuietStep
<1> QED
  BY <1>1, <1>2, <1>3

\* The provider takes the code, and the handler goes on or fails.
LEMMA RedeemStep ==
    ASSUME LoginInv, NEW t \in Tabs, At(t, "exchange"),
           NEW a, a = tab[t].attempt, attempts[a].code = "issued",
           attempts' = [attempts EXCEPT ![a].code = "used"],
           NEW q \in Tab, tab' = [tab EXCEPT ![t] = q], q.attempt = a, ~Awaits(q),
           Fits(q, BrowserOf[t], attempts', sessions, discovery),
           UNCHANGED <<now, jar, sessions, discovery, latest>>
    PROVE  LoginInv'
<1>1. a \in Attempts /\ Begun(a)
  BY DEF LoginInv, TabsAreSound, Sound, At, Begun
<1>2. /\ attempts' \in [Attempts -> [expires : Nat \cup {None},
                                     code : {"none", "issued", "used"},
                                     browser : Browsers \cup {None}]]
      /\ attempts'[a].code = "used"
      /\ \A c \in Attempts : /\ attempts'[c].expires = attempts[c].expires
                             /\ attempts'[c].browser = attempts[c].browser
                             /\ c # a => attempts'[c] = attempts[c]
  BY <1>1 DEF LoginInv, LoginTypeOK
<1>3. Onward
  BY <1>1, <1>2 DEF Onward, Begun
<1>4. UnusedAreBlank' /\ JarsAreOwn' /\ SessionsAreRedeemed'
  <2>1. UnusedAreBlank'
    BY <1>1, <1>2 DEF LoginInv, UnusedAreBlank, Begun
  <2> QED
    BY <1>3, <2>1, JarsStayOwn, SessionsStayRedeemed
<1>5. ASSUME NEW u \in Tabs \ {t} PROVE Spares(q, u)
  <2>1. Sound(u)
    BY DEF LoginInv, TabsAreSound
  <2>2. tab[u].attempt = a => ~Awaits(tab[u]) /\ ~Redeems(tab[u])
    BY <2>1 DEF Sound
  <2> QED
    BY <1>1, <1>2, <2>1, <2>2 DEF Sound, BegunIn, Begun, Spares
<1>6. RestTypeOK'
  BY <1>2 DEF LoginInv, LoginTypeOK, RestTypeOK
<1>7. Fits(q, BrowserOf[t], attempts', sessions', discovery')
  OBVIOUS
<1> QED
  BY <1>3, <1>4, <1>5, <1>6, <1>7, TabStep

LEMMA ExchangeStep == ASSUME LoginInv, NEW t \in Tabs, Exchange(t) PROVE LoginInv'
<1> DEFINE a == tab[t].attempt
           b == BrowserOf[t]
<1>1. /\ At(t, "exchange") /\ UNCHANGED <<now, jar, sessions, discovery, latest>>
      /\ tab[t].pc \in Serving \ {"callback"}
      /\ {"access_denied", "service_unavailable", "authentication_failed"} \subseteq Answers
  BY DEF Exchange, At, Serving, Answers, Failures
<1>2. \/ /\ \/ Answer(t, "access_denied") \/ Answer(t, "service_unavailable")
            \/ Answer(t, "authentication_failed")
         /\ UNCHANGED attempts
      \/ /\ attempts[a].code = "issued" /\ tab[t].cookie = a /\ ~tab[t].denied
         /\ attempts' = [attempts EXCEPT ![a].code = "used"]
         /\ \/ tab' = [tab EXCEPT ![t] = [@ EXCEPT !.pc = "createSession", !.cookie = None]]
            \/ Answer(t, "authentication_failed") \/ Answer(t, "service_unavailable")
  BY DEF Exchange
<1>3. CASE /\ \/ Answer(t, "access_denied") \/ Answer(t, "service_unavailable")
              \/ Answer(t, "authentication_failed")
           /\ UNCHANGED attempts
  BY <1>1, <1>3, AnswerStep
<1>4. ASSUME attempts[a].code = "issued", tab[t].cookie = a,
             attempts' = [attempts EXCEPT ![a].code = "used"]
      PROVE  /\ KnownIn(a, b, attempts') /\ attempts'[a].code = "used"
             /\ \A k \in Tokens : sessions[k] # a
  <2>1. BegunIn(a, b) /\ a \in Attempts
    BY <1>1, <1>4, LoginAssumption DEF LoginInv, TabsAreSound, Sound, At, BegunIn, Begun
  <2>2. \A k \in Tokens : sessions[k] # a
    BY <1>4, <2>1, LoginAssumption DEF LoginInv, SessionsAreRedeemed, Begun
  <2> HIDE DEF a, b
  <2>3. /\ attempts'[a].code = "used" /\ attempts'[a].expires = attempts[a].expires
        /\ attempts'[a].browser = attempts[a].browser
    BY <1>4, <2>1 DEF LoginInv, LoginTypeOK
  <2> QED
    BY <2>1, <2>2, <2>3 DEF KnownIn, BegunIn, Begun
<1>5. ASSUME attempts[a].code = "issued", tab[t].cookie = a,
             attempts' = [attempts EXCEPT ![a].code = "used"],
             tab' = [tab EXCEPT ![t] = [@ EXCEPT !.pc = "createSession", !.cookie = None]]
      PROVE  LoginInv'
  <2> DEFINE q == [tab[t] EXCEPT !.pc = "createSession", !.cookie = None]
  <2>1. tab[t] \in Tab /\ Fits(tab[t], b, attempts, sessions, discovery)
    BY SoundFits DEF LoginInv, LoginTypeOK, TabsAreSound
  <2>2. /\ q \in Tab /\ q.pc = "createSession" /\ q.cookie = None
        /\ q.kind = tab[t].kind /\ q.attempt = a /\ q.denied = tab[t].denied
        /\ q.stale = tab[t].stale
        /\ q.session = tab[t].session /\ q.setAttempt = tab[t].setAttempt
        /\ q.setSession = tab[t].setSession /\ q.answer = tab[t].answer
    BY <2>1 DEF Tab, Serving
  <2>3. tab' = [tab EXCEPT ![t] = q]
    BY <1>5
  <2> HIDE DEF q
  <2>4. Fits(q, b, attempts', sessions, discovery) /\ ~Awaits(q)
    BY <1>1, <1>4, <1>5, <2>1, <2>2, LoginAssumption DEF Fits, At, Awaits, Redeems, KnownIn
  <2> QED
    BY <1>1, <1>5, <2>2, <2>3, <2>4, RedeemStep
<1>6. ASSUME attempts[a].code = "issued", tab[t].cookie = a,
             attempts' = [attempts EXCEPT ![a].code = "used"],
             NEW answer \in {"authentication_failed", "service_unavailable"},
             Answer(t, answer)
      PROVE  LoginInv'
  <2> DEFINE q == Answered(tab[t], answer)
  <2>1. answer \in Answers /\ answer # "authorize"
    BY <1>1
  <2>2. /\ q \in Tab /\ Fits(q, b, attempts, sessions, discovery)
        /\ ~Awaits(q) /\ ~Redeems(q) /\ q.attempt = a
    BY <1>1, <2>1, AnsweredType
  <2>3. tab' = [tab EXCEPT ![t] = q] /\ q.cookie = None /\ q.setSession = tab[t].setSession
    <3>1. tab[t] \in Tab
      BY DEF LoginInv, LoginTypeOK
    <3> QED
      BY <1>6, <3>1 DEF Answer, Answered, Tab
  <2>4. tab[t].setSession \notin Tokens
    BY <1>1 DEF LoginInv, TabsAreSound, Sound, At
  <2> HIDE DEF q
  <2>5. Fits(q, b, attempts', sessions, discovery)
    BY <1>4, <1>6, <2>2, <2>3, <2>4 DEF Fits, KnownIn
  <2> QED
    BY <1>1, <1>6, <2>2, <2>3, <2>5, RedeemStep
<1> QED
  BY <1>2, <1>3, <1>5, <1>6

LEMMA CreateSessionStep ==
    ASSUME LoginInv, NEW t \in Tabs, CreateSession(t) PROVE LoginInv'
<1> DEFINE a == tab[t].attempt
           b == BrowserOf[t]
           w == Answered(tab[t], "signedIn")
<1>1. /\ At(t, "createSession") /\ UNCHANGED <<now, jar, attempts, discovery, latest>>
      /\ tab[t].pc \in Serving \ {"callback"}
      /\ {"not_authorized", "service_unavailable", "signedIn"} \subseteq Answers
  BY DEF CreateSession, At, Serving, Answers, Failures
<1>2. \/ /\ Answer(t, "not_authorized") \/ Answer(t, "service_unavailable")
         /\ UNCHANGED sessions
      \/ \E k \in Tokens :
           /\ sessions[k] = None /\ sessions' = [sessions EXCEPT ![k] = a]
           /\ \/ tab' = [tab EXCEPT ![t] = [w EXCEPT !.setSession = k]]
              \/ Answer(t, "service_unavailable")
  BY DEF CreateSession
<1>3. CASE /\ Answer(t, "not_authorized") \/ Answer(t, "service_unavailable")
           /\ UNCHANGED sessions
  BY <1>1, <1>3, AnswerStep
<1>4. ASSUME NEW k \in Tokens, sessions[k] = None, sessions' = [sessions EXCEPT ![k] = a],
             NEW q \in Tab, tab' = [tab EXCEPT ![t] = q],
             Fits(q, b, attempts, sessions', discovery),
             ~Awaits(q), ~Redeems(q), q.attempt = a
      PROVE  LoginInv'
  <2>1. /\ Sound(t) /\ BegunIn(a, b) /\ a \in Attempts /\ a # None
        /\ attempts[a].code = "used" /\ \A l \in Tokens : sessions[l] # a
    BY <1>1, LoginAssumption DEF LoginInv, TabsAreSound, Sound, At, Redeems, BegunIn, Begun
  <2> HIDE DEF a, b
  <2>2. /\ sessions' \in [Tokens -> Attempts \cup {None}] /\ sessions'[k] = a
        /\ \A l \in Tokens : l # k => sessions'[l] = sessions[l]
    BY <1>4, <2>1 DEF LoginInv, LoginTypeOK
  <2>3. Onward
    BY <1>1, <1>4, <2>2 DEF Onward
  <2>4. UnusedAreBlank' /\ JarsAreOwn'
    BY <1>1, <2>3, JarsStayOwn DEF LoginInv, UnusedAreBlank
  <2>5. SessionsAreRedeemed'
    BY <1>1, <2>1, <2>2 DEF LoginInv, SessionsAreRedeemed, BegunIn, Begun
  <2>6. ASSUME NEW u \in Tabs \ {t} PROVE Spares(q, u)
    <3>1. Sound(u)
      BY DEF LoginInv, TabsAreSound
    <3>2. Redeems(tab[u]) => tab[u].attempt # a
      BY <1>1 DEF LoginInv, TabsAreApart, Redeems, At, a
    <3>3. Awaits(tab[u]) => tab[u].attempt # a /\ attempts'[tab[u].attempt].code = "none"
      BY <1>1, <2>1, <3>1 DEF Sound
    <3>4. Redeems(tab[u]) => \A l \in Tokens : sessions'[l] # tab[u].attempt
      BY <2>2, <3>1, <3>2 DEF Sound
    <3>5. q.attempt = tab[u].attempt => ~Awaits(tab[u])
      BY <1>4, <3>3
    <3> QED
      BY <1>4, <3>3, <3>4, <3>5 DEF Spares
  <2>7. RestTypeOK'
    BY <1>1, <2>2 DEF LoginInv, LoginTypeOK, RestTypeOK
  <2>8. Fits(q, BrowserOf[t], attempts', sessions', discovery')
    BY <1>1, <1>4 DEF b
  <2> QED
    BY <1>4, <2>3, <2>4, <2>5, <2>6, <2>7, <2>8, TabStep
<1>5. ASSUME NEW k \in Tokens, sessions[k] = None, sessions' = [sessions EXCEPT ![k] = a],
             NEW answer \in Answers, answer # "authorize", NEW v,
             v = Answered(tab[t], answer), NEW q \in Tab,
             /\ q.pc = v.pc /\ q.kind = v.kind /\ q.attempt = v.attempt /\ q.cookie = v.cookie
             /\ q.session = v.session /\ q.denied = v.denied /\ q.stale = v.stale
             /\ q.setAttempt = v.setAttempt /\ q.answer = v.answer,
             q.setSession \in {k, v.setSession}
      PROVE  Fits(q, b, attempts, sessions', discovery) /\ ~Awaits(q) /\ ~Redeems(q)
  <2>1. /\ v \in Tab /\ Fits(v, b, attempts, sessions, discovery)
        /\ ~Awaits(v) /\ ~Redeems(v) /\ v.attempt = a
    BY <1>1, <1>5, AnsweredType
  <2>2. v.pc = "answer" /\ v.setSession = tab[t].setSession
    <3>1. tab[t] \in Tab
      BY DEF LoginInv, LoginTypeOK
    <3> QED
      BY <1>5, <3>1 DEF Answered, Tab
  <2>3. /\ KnownIn(a, b, attempts) /\ a # None /\ tab[t].setSession \notin Tokens
    BY <1>1, LoginAssumption
       DEF LoginInv, TabsAreSound, Sound, At, Redeems, BegunIn, Begun, KnownIn
  <2>4. sessions'[k] = a
    BY <1>5 DEF LoginInv, LoginTypeOK
  <2> HIDE DEF a, b
  <2>5. ~Awaits(q) /\ ~Redeems(q)
    BY <1>5, <2>1 DEF Awaits, Redeems
  <2> QED
    BY <1>5, <2>1, <2>2, <2>3, <2>4, <2>5 DEF Fits
<1>6. ASSUME NEW k \in Tokens, sessions[k] = None, sessions' = [sessions EXCEPT ![k] = a],
             Answer(t, "service_unavailable")
      PROVE  LoginInv'
  <2> DEFINE q == Answered(tab[t], "service_unavailable")
  <2>1. q \in Tab /\ q.attempt = a
    BY <1>1, AnsweredType
  <2>2. tab' = [tab EXCEPT ![t] = q]
    BY <1>6 DEF Answer
  <2>3. Fits(q, b, attempts, sessions', discovery) /\ ~Awaits(q) /\ ~Redeems(q)
    BY <1>1, <1>5, <1>6, <2>1
  <2> HIDE DEF q
  <2> QED
    BY <1>4, <1>6, <2>1, <2>2, <2>3
<1>7. ASSUME NEW k \in Tokens, sessions[k] = None, sessions' = [sessions EXCEPT ![k] = a],
             tab' = [tab EXCEPT ![t] = [w EXCEPT !.setSession = k]]
      PROVE  LoginInv'
  <2> DEFINE q == [w EXCEPT !.setSession = k]
  <2>1. w \in Tab /\ w.attempt = a
    BY <1>1, AnsweredType
  <2>2. /\ q \in Tab /\ q.setSession = k
        /\ q.pc = w.pc /\ q.kind = w.kind /\ q.attempt = w.attempt /\ q.cookie = w.cookie
        /\ q.session = w.session /\ q.denied = w.denied /\ q.stale = w.stale
        /\ q.setAttempt = w.setAttempt /\ q.answer = w.answer
    <3> HIDE DEF w
    <3> QED
      BY <2>1 DEF Tab
  <2>3. tab' = [tab EXCEPT ![t] = q]
    BY <1>7
  <2> HIDE DEF q
  <2>4. Fits(q, b, attempts, sessions', discovery) /\ ~Awaits(q) /\ ~Redeems(q)
    BY <1>1, <1>5, <1>7, <2>2
  <2> QED
    BY <1>4, <1>7, <2>1, <2>2, <2>3, <2>4
<1> QED
  BY <1>2, <1>3, <1>6, <1>7

-------------------------------------------------------------------------------
(* Answers, the clock and the process *)

LEMMA StoredIs == \A value, old : Stored(value, old) \in {value, old}
                                /\ (value # Keep => Stored(value, old) = value)
BY DEF Stored

\* The jar after the answer holds what it held or what the answer brought.
LEMMA DeliverStep == ASSUME LoginInv, NEW t \in Tabs, Deliver(t) PROVE LoginInv'
<1> DEFINE b == BrowserOf[t]
           q == IF tab[t].answer = "authorize"
                THEN [Home EXCEPT !.pc = "provider", !.attempt = tab[t].attempt] ELSE Home
           newAttempt == Stored(tab[t].setAttempt, jar[b].attempt)
           newSession == Stored(tab[t].setSession, jar[b].session)
<1>1. /\ At(t, "answer") /\ UNCHANGED <<now, attempts, sessions, discovery>>
      /\ jar' = [jar EXCEPT ![b] = [attempt |-> newAttempt, session |-> newSession]]
      /\ latest' = IF tab[t].answer = "authorize"
                   THEN [latest EXCEPT ![b] = tab[t].attempt] ELSE latest
      /\ tab' = [tab EXCEPT ![t] = q]
  BY DEF Deliver
<1>2. b \in Browsers /\ tab[t] \in Tab /\ Sound(t)
  BY LoginAssumption DEF LoginInv, LoginTypeOK, TabsAreSound
<1>3. tab[t].answer = "authorize" =>
        /\ tab[t].attempt \in Attempts /\ KnownIn(tab[t].attempt, b, attempts)
        /\ attempts[tab[t].attempt].code = "none"
  BY <1>2 DEF Sound, Awaits, BegunIn, Begun, KnownIn
<1>4. /\ newAttempt \in Attempts \cup {None}
      /\ newAttempt # None => BegunIn(newAttempt, b) /\ newAttempt = latest'[b]
      /\ \A c \in Browsers \ {b} : latest'[c] = latest[c]
  <2>1. /\ jar[b].attempt \in Attempts \cup {None}
        /\ jar[b].attempt # None => BegunIn(jar[b].attempt, b) /\ jar[b].attempt = latest[b]
    BY <1>2 DEF LoginInv, LoginTypeOK, JarsAreOwn
  <2>2. /\ tab[t].setAttempt \in Attempts \cup {None, Keep}
        /\ tab[t].setAttempt \in Attempts => tab[t].answer = "authorize"
        /\ tab[t].answer = "authorize" =>
             BegunIn(tab[t].setAttempt, b) /\ tab[t].setAttempt = tab[t].attempt
    BY <1>2 DEF Sound, Awaits, Tab
  <2>3. latest \in [Browsers -> Attempts \cup {None}]
    BY DEF LoginInv, LoginTypeOK
  <2>4. CASE tab[t].answer = "authorize"
    <3>1. tab[t].setAttempt \in Attempts /\ tab[t].setAttempt # Keep
      BY <1>3, <2>2, <2>4, LoginAssumption
    <3>2. newAttempt = tab[t].setAttempt
      BY <3>1 DEF Stored
    <3> HIDE DEF newAttempt, b
    <3> QED
      BY <1>1, <1>2, <2>2, <2>3, <2>4, <3>1, <3>2
  <2>5. CASE tab[t].answer # "authorize"
    <3>1. newAttempt \in {None, jar[b].attempt}
      BY <2>2, <2>5 DEF Stored
    <3> HIDE DEF newAttempt, b
    <3> QED
      BY <1>1, <2>1, <2>5, <3>1
  <2> QED
    BY <2>4, <2>5
<1>5. /\ newSession \in Tokens \cup {None}
      /\ newSession # None =>
           sessions[newSession] # None /\ BegunIn(sessions[newSession], b)
  <2>1. /\ jar[b].session \in Tokens \cup {None}
        /\ jar[b].session # None =>
             sessions[jar[b].session] # None /\ BegunIn(sessions[jar[b].session], b)
    BY <1>2 DEF LoginInv, LoginTypeOK, JarsAreOwn
  <2>2. /\ tab[t].setSession \in Tokens \cup {None, Keep}
        /\ tab[t].setSession \in Tokens =>
             sessions[tab[t].setSession] # None /\ BegunIn(sessions[tab[t].setSession], b)
    BY <1>2 DEF Sound, Tab
  <2> QED
    BY <2>1, <2>2 DEF Stored
<1> HIDE DEF newAttempt, newSession, b
<1>6. /\ jar' \in [Browsers -> [attempt : Attempts \cup {None}, session : Tokens \cup {None}]]
      /\ jar'[b].attempt = newAttempt /\ jar'[b].session = newSession
      /\ \A c \in Browsers \ {b} : jar'[c] = jar[c]
  BY <1>1, <1>2, <1>4, <1>5 DEF LoginInv, LoginTypeOK
<1>7. JarsAreOwn'
  BY <1>1, <1>4, <1>5, <1>6 DEF LoginInv, JarsAreOwn, BegunIn, Begun
<1>8. UnusedAreBlank' /\ SessionsAreRedeemed' /\ Onward
  BY <1>1, OnwardIfUnchanged, SessionsStayRedeemed DEF LoginInv, UnusedAreBlank
<1>9. RestTypeOK'
  <2>1. latest' \in [Browsers -> Attempts \cup {None}]
    BY <1>1, <1>2, <1>3 DEF LoginInv, LoginTypeOK
  <2> QED
    BY <1>1, <1>6, <2>1 DEF LoginInv, LoginTypeOK, RestTypeOK
<1>10. /\ q \in Tab /\ ~Redeems(q) /\ Fits(q, b, attempts', sessions', discovery')
       /\ Awaits(q) => tab[t].answer = "authorize" /\ q.attempt = tab[t].attempt
       /\ ~Awaits(q) => q.attempt = None
  <2>1. CASE tab[t].answer = "authorize"
    <3>1. /\ q \in Tab /\ q.pc = "provider" /\ q.kind = "none" /\ q.cookie = None
          /\ q.session = None /\ q.denied = FALSE /\ q.stale = FALSE /\ q.setAttempt = Keep
          /\ q.setSession = Keep /\ q.answer = None /\ q.attempt = tab[t].attempt
      BY <1>3, <2>1 DEF Home, Tab
    <3> HIDE DEF q
    <3> QED
      BY <1>1, <1>3, <2>1, <3>1, LoginAssumption DEF Fits, KnownIn, Awaits, Redeems
  <2>2. CASE tab[t].answer # "authorize"
    <3>1. q = Home
      BY <2>2
    <3>2. ~Awaits(Home) /\ ~Redeems(Home) /\ Home.attempt = None
      BY LoginAssumption DEF Home, Awaits, Redeems
    <3> HIDE DEF q
    <3> QED
      BY <3>1, <3>2, HomeType
  <2> QED
    BY <2>1, <2>2
<1> HIDE DEF q
<1>11. ASSUME NEW u \in Tabs \ {t} PROVE Spares(q, u)
  <2>1. Sound(u)
    BY DEF LoginInv, TabsAreSound
  <2>2. Awaits(q) => q.attempt # tab[u].attempt
    BY <1>10 DEF LoginInv, TabsAreApart, Awaits
  <2>3. Awaits(tab[u]) => tab[u].attempt # None
    BY <2>1, LoginAssumption DEF Sound, BegunIn, Begun
  <2> QED
    BY <1>1, <1>10, <2>1, <2>2, <2>3 DEF Sound, Spares
<1> QED
  BY <1>1, <1>7, <1>8, <1>9, <1>10, <1>11, TabStep DEF b

\* No tab moves, nor anything a tab rests on.
LEMMA ForgetSessionStep ==
    ASSUME LoginInv, NEW b \in Browsers, ForgetSession(b) PROVE LoginInv'
<1>1. /\ UNCHANGED <<now, tab, attempts, sessions, discovery, latest>>
      /\ jar' \in [Browsers -> [attempt : Attempts \cup {None}, session : Tokens \cup {None}]]
      /\ \A c \in Browsers : /\ jar'[c].attempt = jar[c].attempt
                             /\ jar'[c].session \in {None, jar[c].session}
  BY DEF ForgetSession, LoginInv, LoginTypeOK
<1>2. LoginTypeOK' /\ JarsAreOwn'
  BY <1>1 DEF LoginInv, LoginTypeOK, JarsAreOwn, BegunIn, Begun
<1>3. UnusedAreBlank' /\ SessionsAreRedeemed' /\ TabsAreApart'
  BY <1>1 DEF LoginInv, UnusedAreBlank, SessionsAreRedeemed, TabsAreApart, Begun,
              Awaits, Redeems
<1>4. TabsAreSound'
  BY <1>1, SoundFits, SoundFitsNext DEF LoginInv, TabsAreSound
<1> QED
  BY <1>2, <1>3, <1>4 DEF LoginInv

LEMMA TickStep == ASSUME LoginInv, Tick PROVE LoginInv'
<1>1. /\ UNCHANGED <<jar, tab, attempts, sessions, discovery, latest>>
      /\ now' \in 0 .. MaxTime
  BY LoginAssumption DEF Tick, LoginInv, LoginTypeOK
<1>2. LoginTypeOK' /\ JarsAreOwn'
  BY <1>1 DEF LoginInv, LoginTypeOK, JarsAreOwn, BegunIn, Begun
<1>3. UnusedAreBlank' /\ SessionsAreRedeemed' /\ TabsAreApart'
  BY <1>1 DEF LoginInv, UnusedAreBlank, SessionsAreRedeemed, TabsAreApart, Begun,
              Awaits, Redeems
<1>4. TabsAreSound'
  BY <1>1, SoundFits, SoundFitsNext DEF LoginInv, TabsAreSound
<1> QED
  BY <1>2, <1>3, <1>4 DEF LoginInv

\* Many tabs move at once, none of them into the hands of the provider or to
\* a redeemed code.
LEMMA ManyTabsStep ==
    ASSUME LoginInv, tab' \in [Tabs -> Tab], discovery' \in {"none", "pending", "ready"},
           UNCHANGED <<now, jar, attempts, sessions, latest>>,
           \A u \in Tabs :
             /\ Fits(tab'[u], BrowserOf[u], attempts, sessions, discovery')
             /\ tab'[u].attempt \in {None, tab[u].attempt}
             /\ Awaits(tab'[u]) => Awaits(tab[u])
             /\ Redeems(tab'[u]) => Redeems(tab[u])
    PROVE  LoginInv'
<1>1. LoginTypeOK' /\ JarsAreOwn'
  BY DEF LoginInv, LoginTypeOK, JarsAreOwn, BegunIn, Begun
<1>2. UnusedAreBlank' /\ SessionsAreRedeemed'
  BY DEF LoginInv, UnusedAreBlank, SessionsAreRedeemed, Begun
<1>3. TabsAreSound'
  BY SoundFitsNext DEF TabsAreSound
<1>4. TabsAreApart'
  <2> SUFFICES ASSUME NEW u \in Tabs, NEW v \in Tabs, u # v,
                      tab'[u].attempt = tab'[v].attempt
               PROVE  ~Awaits(tab'[u]) /\ ~(Redeems(tab'[u]) /\ Redeems(tab'[v]))
    BY DEF TabsAreApart, Awaits, Redeems
  <2>1. Awaits(tab'[u]) \/ Redeems(tab'[u]) => tab'[u].attempt # None
    BY LoginAssumption DEF Fits, KnownIn
  <2>2. tab'[u].attempt # None => tab[u].attempt = tab[v].attempt
    OBVIOUS
  <2> QED
    BY <2>1, <2>2 DEF LoginInv, TabsAreApart
<1> QED
  BY <1>1, <1>2, <1>3, <1>4 DEF LoginInv

\* A tab that stays as it is does not notice what becomes of a discovery it
\* does not wait for.
LEMMA RestFits ==
    ASSUME LoginInv, NEW u \in Tabs, tab[u].pc # "discover", NEW d
    PROVE  tab[u] \in Tab /\ Fits(tab[u], BrowserOf[u], attempts, sessions, d)
<1>1. tab[u] \in Tab /\ Fits(tab[u], BrowserOf[u], attempts, sessions, discovery)
  BY SoundFits DEF LoginInv, LoginTypeOK, TabsAreSound
<1> QED
  BY <1>1 DEF Fits

LEMMA DiscoverySettlesStep == ASSUME LoginInv, DiscoverySettles PROVE LoginInv'
<1>1. /\ UNCHANGED <<now, jar, attempts, sessions, latest>>
      /\ \/ /\ discovery' = "ready"
            /\ tab' = [u \in Tabs |->
                 IF At(u, "discover") THEN [tab[u] EXCEPT !.pc = Configured(tab[u].kind)]
                                      ELSE tab[u]]
         \/ /\ discovery' = "none"
            /\ tab' = [u \in Tabs |->
                 IF At(u, "discover")
                 THEN Answered(tab[u], IF tab[u].kind = "login" THEN "oidcUnavailable"
                                                                ELSE "service_unavailable")
                 ELSE tab[u]]
  BY DEF DiscoverySettles
<1> DEFINE Good(u) == /\ tab'[u] \in Tab
                      /\ Fits(tab'[u], BrowserOf[u], attempts, sessions, discovery')
                      /\ tab'[u].attempt \in {None, tab[u].attempt}
                      /\ Awaits(tab'[u]) => Awaits(tab[u])
                      /\ Redeems(tab'[u]) => Redeems(tab[u])
<1>2. ASSUME NEW u \in Tabs, ~At(u, "discover") PROVE Good(u)
  BY <1>1, <1>2, RestFits DEF At
<1>3. ASSUME discovery' = "ready", NEW u \in Tabs, At(u, "discover"), NEW q,
             q = [tab[u] EXCEPT !.pc = Configured(tab[u].kind)], tab'[u] = q
      PROVE  Good(u)
  <2>1. tab[u] \in Tab /\ Fits(tab[u], BrowserOf[u], attempts, sessions, discovery)
    BY SoundFits DEF LoginInv, LoginTypeOK, TabsAreSound
  <2>2. tab[u].pc = "discover" /\ tab[u].kind \in {"login", "callback"}
    BY <1>3, <2>1 DEF At, Fits, Tab
  <2>3. /\ q \in Tab /\ q.pc = Configured(tab[u].kind) /\ q.kind = tab[u].kind
        /\ q.attempt = tab[u].attempt /\ q.cookie = tab[u].cookie
        /\ q.session = tab[u].session /\ q.denied = tab[u].denied /\ q.stale = tab[u].stale
        /\ q.setAttempt = tab[u].setAttempt /\ q.setSession = tab[u].setSession
        /\ q.answer = tab[u].answer
    BY <1>3, <2>1 DEF Tab, Configured, Serving
  <2>4. ~Awaits(q) /\ ~Redeems(q)
    BY <2>1, <2>2, <2>3 DEF Fits, Configured, Awaits, Redeems
  <2>5. Fits(q, BrowserOf[u], attempts, sessions, discovery')
    BY <1>3, <2>1, <2>2, <2>3, <2>4 DEF Fits, Configured
  <2> QED
    BY <1>3, <2>3, <2>4, <2>5
<1>4. ASSUME NEW u \in Tabs, At(u, "discover"), NEW answer \in Answers, answer # "authorize",
             NEW q, q = Answered(tab[u], answer), tab'[u] = q
      PROVE  Good(u)
  <2>1. tab[u].pc \in Serving /\ tab[u].pc # "callback"
    BY <1>4 DEF At, Serving
  <2>2. /\ q \in Tab /\ Fits(q, BrowserOf[u], attempts, sessions, discovery)
        /\ ~Awaits(q) /\ ~Redeems(q) /\ q.attempt = tab[u].attempt /\ q.pc = "answer"
    <3>1. tab[u] \in Tab
      BY DEF LoginInv, LoginTypeOK
    <3>2. q.pc = "answer"
      BY <1>4, <3>1 DEF Answered, Tab
    <3> QED
      BY <1>4, <2>1, <3>2, AnsweredType
  <2>3. Fits(q, BrowserOf[u], attempts, sessions, discovery')
    BY <2>2 DEF Fits
  <2> QED
    BY <1>4, <2>2, <2>3
<1>5. \A u \in Tabs : Good(u)
  <2>1. {"oidcUnavailable", "service_unavailable"} \subseteq Answers \ {"authorize"}
    BY DEF Answers, Failures
  <2> HIDE DEF Good
  <2> QED
    BY <1>1, <1>2, <1>3, <1>4, <2>1
<1>6. tab' \in [Tabs -> Tab]
  BY <1>1, <1>5
<1> QED
  BY <1>1, <1>5, <1>6, ManyTabsStep

LEMMA RestartStep == ASSUME LoginInv, Restart PROVE LoginInv'
<1>1. /\ UNCHANGED <<now, jar, attempts, sessions, latest>> /\ discovery' = "none"
      /\ tab' = [u \in Tabs |->
           IF tab[u].pc \in {"discover", "authorize", "exchange", "createSession"}
           THEN Home ELSE tab[u]]
  BY DEF Restart
<1>2. ~Awaits(Home) /\ ~Redeems(Home) /\ Home.attempt = None
  BY LoginAssumption DEF Home, Awaits, Redeems
<1>3. \A u \in Tabs : /\ tab'[u] \in Tab
                      /\ Fits(tab'[u], BrowserOf[u], attempts, sessions, discovery')
                      /\ tab'[u].attempt \in {None, tab[u].attempt}
                      /\ Awaits(tab'[u]) => Awaits(tab[u])
                      /\ Redeems(tab'[u]) => Redeems(tab[u])
  BY <1>1, <1>2, HomeType, RestFits
<1>4. tab' \in [Tabs -> Tab]
  BY <1>1, <1>3
<1> QED
  BY <1>1, <1>3, <1>4, ManyTabsStep

-------------------------------------------------------------------------------
(* The invariant *)

LEMMA LoginInitially == ASSUME LoginInit PROVE LoginInv
<1>1. LoginTypeOK
  BY LoginAssumption, HomeType DEF LoginInit, LoginTypeOK
<1>2. UnusedAreBlank /\ JarsAreOwn /\ SessionsAreRedeemed
  BY DEF LoginInit, UnusedAreBlank, JarsAreOwn, SessionsAreRedeemed
<1>3. TabsAreSound /\ TabsAreApart
  <2>1. ~Awaits(Home) /\ ~Redeems(Home)
    BY LoginAssumption DEF Home, Awaits, Redeems
  <2>2. \A t \in Tabs : tab[t] = Home
    BY DEF LoginInit
  <2>3. TabsAreSound
    BY <2>2, HomeType, SoundFits DEF TabsAreSound
  <2> QED
    BY <2>1, <2>2, <2>3 DEF TabsAreApart
<1> QED
  BY <1>1, <1>2, <1>3 DEF LoginInv

LEMMA LoginStep == ASSUME LoginInv, [LoginNext]_login PROVE LoginInv'
<1>1. ASSUME NEW t \in Tabs, Serve(t) PROVE LoginInv'
  BY <1>1, AuthenticateStep, AuthorizeStep, CallbackStep, ExchangeStep, CreateSessionStep
     DEF Serve
<1>2. ASSUME NEW t \in Tabs, Arrive(t) PROVE LoginInv'
  BY <1>2, DeliverStep, LoseStep DEF Arrive
<1>3. ASSUME NEW t \in Tabs, Browse(t) PROVE LoginInv'
  BY <1>3, SignInStep, ConsentStep, DeclineStep, LeaveStep, ReopenStep DEF Browse
<1>4. CASE UNCHANGED login
  BY <1>4, TypesApart, SoundFits, SoundFitsNext
     DEF login, LoginInv, LoginTypeOK, UnusedAreBlank, JarsAreOwn, SessionsAreRedeemed,
         TabsAreSound, TabsAreApart, BegunIn, Begun, Awaits, Redeems
<1> QED
  BY <1>1, <1>2, <1>3, <1>4, ForgetSessionStep, DiscoverySettlesStep, RestartStep, TickStep
     DEF LoginNext

\* Whatever tabs, reloads, lost answers, failed discoveries and restarts do,
\* cookies, codes and sessions stay with the attempt and the browser they came
\* from, an attempt at the provider is shown by one tab only, and one handler
\* at a time holds a redeemed code (auth-lifecycle.ts login and callback).
THEOREM LoginInvHolds == LoginSpec => []LoginInv
<1>1. LoginInit => LoginInv
  BY LoginInitially
<1>2. LoginInv /\ [LoginNext]_login => LoginInv'
  BY LoginStep
<1> QED
  BY <1>1, <1>2, PTL DEF LoginSpec

\* A callback of an attempt that has been replaced is refused, for any tabs,
\* browsers and attempts: when it was sent, the cookie of its browser was
\* the latest attempt's, or gone.
THEOREM ReplacedAttemptsRefused == LoginSpec => []ReplacedAttemptsAreRefused
<1>1. LoginInv => ReplacedAttemptsAreRefused
  BY DEF LoginInv, TabsAreSound, Sound, ReplacedAttemptsAreRefused
<1> QED
  BY <1>1, LoginInvHolds, PTL

-------------------------------------------------------------------------------
(* Signing in implements SignInPolicy: how the stages move *)

PolicyStep == [Policy!SignInNext]_Policy!signIn

\* A stage is told by the attempt, the clock, and the handlers at work on it.
LEMMA StageIs ==
    ASSUME LoginInv, NEW a \in Attempts
    PROVE  StageOf(a) =
             IF attempts[a].expires = None THEN "unused"
             ELSE IF attempts[a].code = "used"
                  THEN IF Redeeming(a) THEN "redeemed" ELSE "spent"
             ELSE IF Presented(a) THEN "presented"
             ELSE IF attempts[a].expires <= now THEN "lapsed"
             ELSE IF attempts[a].code = "issued" THEN "consented" ELSE "begun"
BY DEF LoginInv, UnusedAreBlank, StageOf

LEMMA StageIsNext ==
    ASSUME LoginInv', NEW a \in Attempts
    PROVE  StageOf(a)' =
             IF attempts'[a].expires = None THEN "unused"
             ELSE IF attempts'[a].code = "used"
                  THEN IF Redeeming(a)' THEN "redeemed" ELSE "spent"
             ELSE IF Presented(a)' THEN "presented"
             ELSE IF attempts'[a].expires <= now' THEN "lapsed"
             ELSE IF attempts'[a].code = "issued" THEN "consented" ELSE "begun"
BY DEF LoginInv, UnusedAreBlank, StageOf

\* A callback that has passed the checks has a code, and its attempt has begun.
LEMMA PresentedHasCode ==
    ASSUME LoginInv, NEW a \in Attempts, Presented(a)
    PROVE  attempts[a].expires # None /\ attempts[a].code # "none"
BY DEF LoginInv, TabsAreSound, Sound, Presented, Presents, Begun

\* A redeemed code is used.
LEMMA RedeemingIsUsed ==
    ASSUME LoginInv, NEW a \in Attempts, Redeeming(a)
    PROVE  attempts[a].expires # None /\ attempts[a].code = "used"
BY DEF LoginInv, TabsAreSound, Sound, Redeeming, BegunIn, Begun

\* The other tabs' handlers are at work on what they were.
LEMMA HandlersAtWork ==
    ASSUME LoginInv, NEW t \in Tabs, NEW q, tab' = [tab EXCEPT ![t] = q], NEW a
    PROVE  /\ Presented(a)' <=> \/ Presents(q) /\ q.attempt = a
                                \/ \E u \in Tabs \ {t} : Presents(tab[u]) /\ tab[u].attempt = a
           /\ Redeeming(a)' <=> \/ Redeems(q) /\ q.attempt = a
                                \/ \E u \in Tabs \ {t} : Redeems(tab[u]) /\ tab[u].attempt = a
<1>1. tab'[t] = q /\ \A u \in Tabs \ {t} : tab'[u] = tab[u]
  BY DEF LoginInv, LoginTypeOK
<1>2. Presented(a)' <=> \E u \in Tabs : Presents(tab'[u]) /\ tab'[u].attempt = a
  BY DEF Presented, Presents
<1>3. Redeeming(a)' <=> \E u \in Tabs : Redeems(tab'[u]) /\ tab'[u].attempt = a
  BY DEF Redeeming, Redeems
<1> QED
  BY <1>1, <1>2, <1>3

\* A step that only takes handlers away from attempts is one of GiveUp, or of
\* nobody.
LEMMA HandlersGoAway ==
    ASSUME LoginInv, LoginInv', UNCHANGED <<now, jar, attempts, sessions>>,
           \A a \in Attempts : Presented(a)' => Presented(a),
           \A a \in Attempts : Redeeming(a)' => Redeeming(a)
    PROVE  PolicyStep
<1> DEFINE over == {a \in Attempts : StageOf(a)' # StageOf(a)}
           late == {a \in over : attempts[a].expires <= now}
<1>1. ASSUME NEW a \in Attempts
      PROVE  /\ a \in over => StageOf(a) \in {"presented", "redeemed"}
             /\ StageOf(a)' = IF a \notin over THEN StageOf(a)
                              ELSE IF StageOf(a) = "redeemed" THEN "spent"
                              ELSE IF a \in late THEN "lapsed" ELSE "consented"
  <2>1. attempts[a].code \in {"none", "issued", "used"}
    BY DEF LoginInv, LoginTypeOK
  <2>2. Presented(a) => attempts[a].code # "none"
    BY PresentedHasCode
  <2> QED
    BY <2>1, <2>2, StageIs, StageIsNext
<1>2. over \in SUBSET {a \in Attempts : PolicyStage[a] \in {"presented", "redeemed"}}
  BY <1>1 DEF PolicyStage
<1>3. late \in SUBSET over
  OBVIOUS
<1>4. PolicyStage' = [a \in Attempts |-> StageOf(a)']
  BY DEF PolicyStage
<1> HIDE DEF over, late
<1>5. PolicyStage' = [a \in Attempts |->
                        IF a \notin over THEN PolicyStage[a]
                        ELSE IF PolicyStage[a] = "redeemed" THEN "spent"
                        ELSE IF a \in late THEN "lapsed" ELSE "consented"]
  BY <1>1, <1>4 DEF PolicyStage
<1>6. UNCHANGED <<PolicyBegunIn, sessions, PolicyHeld>>
  BY DEF PolicyBegunIn, PolicyHeld
<1>7. Policy!GiveUp
  BY <1>2, <1>3, <1>5, <1>6 DEF Policy!GiveUp
<1> QED
  BY <1>7 DEF PolicyStep, Policy!SignInNext

\* One tab's handler ends, or goes on with the same attempt.
LEMMA HandlerGoesAway ==
    ASSUME LoginInv, LoginInv', UNCHANGED <<now, jar, attempts, sessions>>,
           NEW t \in Tabs, NEW q, tab' = [tab EXCEPT ![t] = q],
           Presents(q) => Presents(tab[t]) /\ q.attempt = tab[t].attempt,
           Redeems(q) => Redeems(tab[t]) /\ q.attempt = tab[t].attempt
    PROVE  PolicyStep
<1>1. \A a \in Attempts : /\ Presented(a)' => Presented(a)
                          /\ Redeeming(a)' => Redeeming(a)
  BY HandlersAtWork DEF Presented, Redeeming
<1> QED
  BY <1>1, HandlersGoAway

-------------------------------------------------------------------------------
(* Signing in implements SignInPolicy: each action maps to a step or to none *)

\* A handler that answers is not at work on its attempt any more.
LEMMA AnswerGoesAway ==
    ASSUME LoginInv, LoginInv', UNCHANGED <<now, jar, attempts, sessions>>,
           NEW t \in Tabs, NEW answer, Answer(t, answer)
    PROVE  PolicyStep
<1>1. Answered(tab[t], answer).pc = "answer"
  BY DEF LoginInv, LoginTypeOK, Answered, Tab
<1>2. ~Presents(Answered(tab[t], answer)) /\ ~Redeems(Answered(tab[t], answer))
  BY <1>1 DEF Presents, Redeems
<1> QED
  BY <1>2, HandlerGoesAway DEF Answer

\* The handler that asks for the configuration keeps its attempt.
LEMMA WaitingIs ==
    ASSUME LoginInv, NEW t \in Tabs, NEW setAttempt, NEW setSession,
           At(t, "authenticate") \/ At(t, "callback"),
           GetConfiguration(t, setAttempt, setSession)
    PROVE  \E q : /\ tab' = [tab EXCEPT ![t] = q] /\ q.attempt = tab[t].attempt
                  /\ q.kind = tab[t].kind /\ q.denied = tab[t].denied
                  /\ q.pc \in {"discover", Configured(tab[t].kind)}
<1> DEFINE pc == IF discovery = "ready" THEN Configured(tab[t].kind) ELSE "discover"
           q == Waiting(tab[t], pc, setAttempt, setSession)
<1>1. tab[t] \in Tab
  BY DEF LoginInv, LoginTypeOK
<1>2. /\ q.pc = pc /\ q.attempt = tab[t].attempt
      /\ q.kind = tab[t].kind /\ q.denied = tab[t].denied
  BY <1>1 DEF Waiting, Tab
<1>3. tab' = [tab EXCEPT ![t] = q] /\ pc \in {"discover", Configured(tab[t].kind)}
  BY DEF GetConfiguration
<1> HIDE DEF q, pc
<1> QED
  BY <1>2, <1>3

LEMMA AuthenticateRefines ==
    ASSUME LoginInv, LoginInv', NEW t \in Tabs, Authenticate(t) PROVE PolicyStep
<1>1. /\ At(t, "authenticate") /\ tab[t].kind = "login"
      /\ UNCHANGED <<now, jar, attempts, sessions>>
      /\ \/ Answer(t, "alreadySignedIn") \/ Answer(t, "oidcUnavailable")
         \/ GetConfiguration(t, Keep, None) \/ GetConfiguration(t, Keep, Keep)
  BY DEF Authenticate, LoginInv, TabsAreSound, Sound, At
<1>2. CASE Answer(t, "alreadySignedIn") \/ Answer(t, "oidcUnavailable")
  BY <1>1, <1>2, AnswerGoesAway
<1>3. CASE GetConfiguration(t, Keep, None) \/ GetConfiguration(t, Keep, Keep)
  <2>1. PICK q : /\ tab' = [tab EXCEPT ![t] = q] /\ q.kind = "login"
                 /\ q.pc \in {"discover", "authorize"}
    BY <1>1, <1>3, WaitingIs DEF Configured
  <2>2. ~Presents(q) /\ ~Redeems(q)
    BY <2>1 DEF Presents, Redeems
  <2> QED
    BY <1>1, <2>1, <2>2, HandlerGoesAway
<1> QED
  BY <1>1, <1>2, <1>3

\* An attempt's stage moves and no other's.
LEMMA StageMoves ==
    ASSUME NEW a \in Attempts, NEW to, StageOf(a)' = to,
           \A c \in Attempts : c # a => StageOf(c)' = StageOf(c)
    PROVE  PolicyStage' = [PolicyStage EXCEPT ![a] = to]
BY DEF PolicyStage

LEMMA StagesStay ==
    ASSUME \A c \in Attempts : StageOf(c)' = StageOf(c) PROVE PolicyStage' = PolicyStage
BY DEF PolicyStage

LEMMA AuthorizeRefines ==
    ASSUME LoginInv, LoginInv', NEW t \in Tabs, Authorize(t) PROVE PolicyStep
<1>1. PICK a \in Unused :
        /\ attempts' = [attempts EXCEPT ![a] = Sealed(BrowserOf[t])]
        /\ tab' = [tab EXCEPT ![t] = [@ EXCEPT !.pc = "answer", !.answer = "authorize",
                                               !.attempt = a, !.setAttempt = a]]
  BY DEF Authorize
<1> DEFINE q == [tab[t] EXCEPT !.pc = "answer", !.answer = "authorize",
                               !.attempt = a, !.setAttempt = a]
           b == BrowserOf[t]
<1>2. /\ At(t, "authorize") /\ UNCHANGED <<now, jar, sessions>> /\ b \in Browsers
      /\ a \in Attempts /\ attempts[a].expires = None /\ tab' = [tab EXCEPT ![t] = q]
  BY <1>1, LoginAssumption DEF Authorize, Unused
<1>3. ~Presents(q) /\ ~Redeems(q) /\ ~Presents(tab[t]) /\ ~Redeems(tab[t])
  <2>1. tab[t] \in Tab
    BY DEF LoginInv, LoginTypeOK
  <2>2. q.pc = "answer"
    BY <2>1 DEF Tab
  <2> QED
    BY <1>2, <2>2 DEF Presents, Redeems, At
<1> HIDE DEF q
<1>4. \A c \in Attempts : /\ Presented(c)' <=> Presented(c)
                          /\ Redeeming(c)' <=> Redeeming(c)
  BY <1>2, <1>3, HandlersAtWork DEF Presented, Redeeming
<1>5. /\ attempts'[a].expires = now + AttemptDuration /\ attempts'[a].code = "none"
      /\ attempts'[a].browser = b
      /\ \A c \in Attempts : c # a => attempts'[c] = attempts[c]
  BY <1>1, <1>2 DEF LoginInv, LoginTypeOK, Sealed
<1>6. StageOf(a) = "unused" /\ StageOf(a)' = "begun"
  <2>1. ~Presented(a)
    BY <1>2, PresentedHasCode
  <2>2. /\ now \in Nat /\ AttemptDuration \in Nat \ {0}
        /\ now + AttemptDuration # None /\ ~(now + AttemptDuration <= now)
    BY LoginAssumption DEF LoginInv, LoginTypeOK
  <2> QED
    BY <1>2, <1>4, <1>5, <2>1, <2>2, StageIs, StageIsNext
<1>7. \A c \in Attempts : c # a => StageOf(c)' = StageOf(c)
  BY <1>2, <1>4, <1>5, StageIs, StageIsNext
<1>8. PolicyStage' = [PolicyStage EXCEPT ![a] = "begun"] /\ PolicyStage[a] = "unused"
  BY <1>2, <1>6, <1>7, StageMoves DEF PolicyStage
<1>9. PolicyBegunIn' = [PolicyBegunIn EXCEPT ![a] = b]
  BY <1>2, <1>5 DEF PolicyBegunIn
<1>10. Policy!Begin(a, b)
  BY <1>2, <1>8, <1>9 DEF Policy!Begin, Policy!Move, PolicyHeld
<1> QED
  BY <1>2, <1>10 DEF PolicyStep, Policy!SignInNext

\* Going to a callback URL takes no attempt from a handler.
LEMMA ToCallbackGoesAway ==
    ASSUME NEW t, NEW a, NEW denied, NEW q,
           q = ToCallback(t, a, denied)
    PROVE  ~Presents(q) /\ ~Redeems(q)
BY DEF ToCallback, Home, Presents, Redeems

LEMMA ConsentRefines ==
    ASSUME LoginInv, LoginInv', NEW t \in Tabs, Consent(t) PROVE PolicyStep
<1> PICK a : a = tab[t].attempt
  OBVIOUS
<1> DEFINE q == ToCallback(t, a, FALSE)
<1>1. /\ At(t, "provider") /\ UNCHANGED <<now, jar, sessions>>
      /\ attempts' = [attempts EXCEPT ![a].code = "issued"]
      /\ tab' = [tab EXCEPT ![t] = q]
  BY DEF Consent, ToCallback
<1>2. /\ a \in Attempts /\ attempts[a].code = "none" /\ attempts[a].expires # None
      /\ ~Presents(tab[t]) /\ ~Redeems(tab[t]) /\ ~Presents(q) /\ ~Redeems(q)
  <2>1. ~Presents(q) /\ ~Redeems(q)
    BY ToCallbackGoesAway
  <2> HIDE DEF q
  <2> QED
    BY <1>1, <2>1
       DEF LoginInv, TabsAreSound, Sound, At, Awaits, BegunIn, Begun, Presents, Redeems
<1> HIDE DEF q
<1>3. \A c \in Attempts : /\ Presented(c)' <=> Presented(c)
                          /\ Redeeming(c)' <=> Redeeming(c)
  BY <1>1, <1>2, HandlersAtWork DEF Presented, Redeeming
<1>4. /\ attempts'[a].code = "issued"
      /\ \A c \in Attempts : /\ attempts'[c].expires = attempts[c].expires
                             /\ attempts'[c].browser = attempts[c].browser
                             /\ c # a => attempts'[c] = attempts[c]
  BY <1>1, <1>2 DEF LoginInv, LoginTypeOK
<1>5. UNCHANGED <<PolicyBegunIn, sessions, PolicyHeld>>
  BY <1>1, <1>4 DEF PolicyBegunIn, PolicyHeld
<1>6. \A c \in Attempts : c # a => StageOf(c)' = StageOf(c)
  BY <1>1, <1>3, <1>4, StageIs, StageIsNext
<1>7. ~Presented(a)
  BY <1>2, PresentedHasCode
<1>8. CASE attempts[a].expires <= now
  <2>1. StageOf(a)' = StageOf(a)
    BY <1>1, <1>2, <1>3, <1>4, <1>7, <1>8, StageIs, StageIsNext
  <2>2. PolicyStage' = PolicyStage
    BY <1>6, <2>1, StagesStay
  <2> QED
    BY <1>5, <2>2 DEF PolicyStep, Policy!signIn
<1>9. CASE ~(attempts[a].expires <= now)
  <2>1. StageOf(a) = "begun" /\ StageOf(a)' = "consented"
    BY <1>1, <1>2, <1>3, <1>4, <1>7, <1>9, StageIs, StageIsNext
  <2>2. PolicyStage' = [PolicyStage EXCEPT ![a] = "consented"] /\ PolicyStage[a] = "begun"
    BY <1>2, <1>6, <2>1, StageMoves DEF PolicyStage
  <2>3. Policy!Consent(a)
    BY <1>5, <2>2 DEF Policy!Consent, Policy!Move
  <2> QED
    BY <1>2, <2>3 DEF PolicyStep, Policy!SignInNext
<1> QED
  BY <1>8, <1>9

LEMMA CallbackRefines ==
    ASSUME LoginInv, LoginInv', NEW t \in Tabs, Callback(t) PROVE PolicyStep
<1> PICK a : a = tab[t].attempt
  OBVIOUS
<1>1. /\ At(t, "callback") /\ UNCHANGED <<now, jar, attempts, sessions>>
      /\ tab[t] \in Tab /\ tab[t].kind = "callback" /\ a \in Attempts
      /\ attempts[a].expires # None
  BY DEF Callback, LoginInv, LoginTypeOK, TabsAreSound, Sound, At, Begun
<1>2. \/ attempts[a].expires > now /\ GetConfiguration(t, None, Keep)
      \/ tab' = [tab EXCEPT ![t] = [Answered(@, "authentication_failed")
                                      EXCEPT !.setAttempt = None]]
  BY DEF Callback, StateMatches, Unsealed
<1>3. CASE tab' = [tab EXCEPT ![t] = [Answered(@, "authentication_failed")
                                        EXCEPT !.setAttempt = None]]
  <2> DEFINE w == Answered(tab[t], "authentication_failed")
             q == [w EXCEPT !.setAttempt = None]
  <2>1. q.pc = "answer"
    BY <1>1 DEF Answered, Tab
  <2>2. ~Presents(q) /\ ~Redeems(q)
    BY <2>1 DEF Presents, Redeems
  <2>3. tab' = [tab EXCEPT ![t] = q]
    BY <1>3
  <2> HIDE DEF q
  <2> QED
    BY <1>1, <2>2, <2>3, HandlerGoesAway
<1>4. CASE attempts[a].expires > now /\ GetConfiguration(t, None, Keep)
  <2>1. PICK q : /\ tab' = [tab EXCEPT ![t] = q] /\ q.attempt = a
                 /\ q.kind = "callback" /\ q.denied = tab[t].denied
                 /\ q.pc \in {"discover", "exchange"}
    BY <1>1, <1>4, WaitingIs DEF Configured
  <2>2. ~Redeems(q) /\ ~Redeems(tab[t]) /\ ~Presents(tab[t])
    BY <1>1, <2>1 DEF Presents, Redeems, At
  <2>3. CASE tab[t].denied
    <3>1. ~Presents(q)
      BY <2>1, <2>3 DEF Presents
    <3> QED
      BY <1>1, <2>1, <2>2, <3>1, HandlerGoesAway
  <2>4. CASE ~tab[t].denied
    <3>1. \A c \in Attempts : /\ Redeeming(c)' <=> Redeeming(c)
                              /\ c # a => (Presented(c)' <=> Presented(c))
      BY <2>1, <2>2, HandlersAtWork DEF Presented, Redeeming
    <3>2. Presented(a)'
      <4>1. Presents(q)
        BY <2>1, <2>4 DEF Presents
      <4> QED
        BY <2>1, <4>1, HandlersAtWork
    <3>3. \A c \in Attempts : c # a => StageOf(c)' = StageOf(c)
      BY <1>1, <3>1, StageIs, StageIsNext
    <3>4. UNCHANGED <<PolicyBegunIn, sessions, PolicyHeld>>
      BY <1>1 DEF PolicyBegunIn, PolicyHeld
    <3>5. CASE attempts[a].code = "used" \/ Presented(a)
      <4>1. StageOf(a)' = StageOf(a)
        BY <1>1, <3>1, <3>2, <3>5, StageIs, StageIsNext
      <4>2. PolicyStage' = PolicyStage
        BY <3>3, <4>1, StagesStay
      <4> QED
        BY <3>4, <4>2 DEF PolicyStep, Policy!signIn
    <3>6. CASE ~(attempts[a].code = "used" \/ Presented(a))
      <4>1. attempts[a].code = "issued"
        BY <1>1, <2>4, <3>6 DEF LoginInv, LoginTypeOK, TabsAreSound, Sound
      <4>2. ~(attempts[a].expires <= now)
        <5>1. attempts[a].expires \in Nat /\ now \in Nat
          BY <1>1, LoginAssumption DEF LoginInv, LoginTypeOK
        <5> QED
          BY <1>4, <5>1
      <4>3. StageOf(a) = "consented" /\ StageOf(a)' = "presented"
        BY <1>1, <3>2, <3>6, <4>1, <4>2, StageIs, StageIsNext
      <4>4. /\ PolicyStage' = [PolicyStage EXCEPT ![a] = "presented"]
            /\ PolicyStage[a] = "consented"
        BY <1>1, <3>3, <4>3, StageMoves DEF PolicyStage
      <4>5. Policy!Present(a)
        BY <3>4, <4>4 DEF Policy!Present, Policy!Move
      <4> QED
        BY <1>1, <4>5 DEF PolicyStep, Policy!SignInNext
    <3> QED
      BY <3>5, <3>6
  <2> QED
    BY <2>3, <2>4
<1> QED
  BY <1>2, <1>3, <1>4

LEMMA RedeemRefines ==
    ASSUME LoginInv, LoginInv', NEW t \in Tabs, At(t, "exchange"), ~tab[t].denied,
           NEW a, a = tab[t].attempt, attempts[a].code = "issued",
           attempts' = [attempts EXCEPT ![a].code = "used"],
           NEW q, tab' = [tab EXCEPT ![t] = q], ~Presents(q),
           Redeems(q) => q.attempt = a, UNCHANGED <<now, jar, sessions>>
    PROVE  PolicyStep
<1>1. /\ a \in Attempts /\ attempts[a].expires # None
      /\ tab[t].kind = "callback" /\ Presents(tab[t]) /\ ~Redeems(tab[t])
  BY DEF LoginInv, TabsAreSound, Sound, At, Begun, Presents, Redeems
<1>2. /\ attempts'[a].code = "used"
      /\ \A c \in Attempts : /\ attempts'[c].expires = attempts[c].expires
                             /\ attempts'[c].browser = attempts[c].browser
                             /\ c # a => attempts'[c] = attempts[c]
  BY <1>1 DEF LoginInv, LoginTypeOK
<1>3. UNCHANGED <<PolicyBegunIn, sessions, PolicyHeld>>
  BY <1>2 DEF PolicyBegunIn, PolicyHeld
<1>4. \A c \in Attempts : c # a => (Presented(c)' <=> Presented(c))
                                   /\ (Redeeming(c)' <=> Redeeming(c))
  BY <1>1, HandlersAtWork DEF Presented, Redeeming
<1>5. \A c \in Attempts : c # a => StageOf(c)' = StageOf(c)
  BY <1>2, <1>4, StageIs, StageIsNext
<1>6. StageOf(a) = "presented" /\ StageOf(a)' \in {"redeemed", "spent"}
  <2>1. Presented(a)
    BY <1>1 DEF Presented
  <2> QED
    BY <1>1, <1>2, <2>1, StageIs, StageIsNext
<1>7. PICK to \in {"redeemed", "spent"} : StageOf(a)' = to
  BY <1>6
<1>8. PolicyStage' = [PolicyStage EXCEPT ![a] = to] /\ PolicyStage[a] = "presented"
  BY <1>1, <1>5, <1>6, <1>7, StageMoves DEF PolicyStage
<1>9. Policy!Redeem(a)
  BY <1>3, <1>7, <1>8 DEF Policy!Redeem, Policy!Move
<1> QED
  BY <1>1, <1>9 DEF PolicyStep, Policy!SignInNext

LEMMA ExchangeRefines ==
    ASSUME LoginInv, LoginInv', NEW t \in Tabs, Exchange(t) PROVE PolicyStep
<1> PICK a : a = tab[t].attempt
  OBVIOUS
<1>1. At(t, "exchange") /\ UNCHANGED <<now, jar, sessions>> /\ tab[t] \in Tab
  BY DEF Exchange, LoginInv, LoginTypeOK
<1>2. \/ /\ \/ Answer(t, "access_denied") \/ Answer(t, "service_unavailable")
            \/ Answer(t, "authentication_failed")
         /\ UNCHANGED attempts
      \/ /\ attempts[a].code = "issued" /\ ~tab[t].denied
         /\ attempts' = [attempts EXCEPT ![a].code = "used"]
         /\ \/ tab' = [tab EXCEPT ![t] = [@ EXCEPT !.pc = "createSession", !.cookie = None]]
            \/ Answer(t, "authentication_failed") \/ Answer(t, "service_unavailable")
  BY DEF Exchange
<1>3. ASSUME UNCHANGED attempts, NEW answer, Answer(t, answer) PROVE PolicyStep
  BY <1>1, <1>3, AnswerGoesAway
<1>4. ASSUME attempts[a].code = "issued", ~tab[t].denied,
             attempts' = [attempts EXCEPT ![a].code = "used"],
             tab' = [tab EXCEPT ![t] = [@ EXCEPT !.pc = "createSession", !.cookie = None]]
      PROVE  PolicyStep
  <2> DEFINE q == [tab[t] EXCEPT !.pc = "createSession", !.cookie = None]
  <2>1. q.pc = "createSession" /\ q.attempt = a
    BY <1>1 DEF Tab
  <2>2. tab' = [tab EXCEPT ![t] = q]
    BY <1>4
  <2> HIDE DEF q
  <2>3. ~Presents(q)
    BY <2>1 DEF Presents
  <2> QED
    BY <1>1, <1>4, <2>1, <2>2, <2>3, RedeemRefines
<1>5. ASSUME attempts[a].code = "issued", ~tab[t].denied,
             attempts' = [attempts EXCEPT ![a].code = "used"],
             NEW answer, Answer(t, answer)
      PROVE  PolicyStep
  <2> DEFINE q == Answered(tab[t], answer)
  <2>1. q.pc = "answer"
    BY <1>1 DEF Answered, Tab
  <2>2. tab' = [tab EXCEPT ![t] = q]
    BY <1>5 DEF Answer
  <2> HIDE DEF q
  <2>3. ~Presents(q) /\ ~Redeems(q)
    BY <2>1 DEF Presents, Redeems
  <2> QED
    BY <1>1, <1>5, <2>2, <2>3, RedeemRefines
<1> QED
  BY <1>2, <1>3, <1>4, <1>5

LEMMA CreateSessionRefines ==
    ASSUME LoginInv, LoginInv', NEW t \in Tabs, CreateSession(t) PROVE PolicyStep
<1> PICK a : a = tab[t].attempt
  OBVIOUS
<1> DEFINE w == Answered(tab[t], "signedIn")
<1>1. /\ At(t, "createSession") /\ UNCHANGED <<now, jar, attempts>> /\ tab[t] \in Tab
      /\ a \in Attempts /\ attempts[a].expires # None /\ attempts[a].code = "used"
  BY DEF CreateSession, LoginInv, LoginTypeOK, TabsAreSound, Sound, At, Redeems, BegunIn, Begun
<1>2. \/ /\ Answer(t, "not_authorized") \/ Answer(t, "service_unavailable")
         /\ UNCHANGED sessions
      \/ \E k \in Tokens :
           /\ sessions[k] = None /\ sessions' = [sessions EXCEPT ![k] = a]
           /\ \/ tab' = [tab EXCEPT ![t] = [w EXCEPT !.setSession = k]]
              \/ Answer(t, "service_unavailable")
  BY DEF CreateSession
<1>3. CASE /\ Answer(t, "not_authorized") \/ Answer(t, "service_unavailable")
           /\ UNCHANGED sessions
  BY <1>1, <1>3, AnswerGoesAway
<1>4. ASSUME NEW k \in Tokens, sessions[k] = None, sessions' = [sessions EXCEPT ![k] = a],
             NEW q, tab' = [tab EXCEPT ![t] = q], q.pc = "answer"
      PROVE  PolicyStep
  <2>1. ~Presents(q) /\ ~Redeems(q) /\ ~Presents(tab[t]) /\ Redeems(tab[t])
    BY <1>1, <1>4 DEF Presents, Redeems, At
  <2>2. \A c \in Attempts : /\ Presented(c)' <=> Presented(c)
                            /\ c # a => (Redeeming(c)' <=> Redeeming(c))
    BY <1>4, <2>1, HandlersAtWork DEF Presented, Redeeming
  <2>3. Redeeming(a) /\ ~Redeeming(a)'
    <3>1. \A u \in Tabs \ {t} : ~(Redeems(tab[u]) /\ tab[u].attempt = a)
      BY <2>1 DEF LoginInv, TabsAreApart
    <3>2. Redeeming(a)
      BY <2>1 DEF Redeeming
    <3>3. ~Redeeming(a)'
      <4>1. /\ tab'[t].pc = "answer"
            /\ \A u \in Tabs \ {t} : tab'[u] = tab[u]
        BY <1>4 DEF LoginInv, LoginTypeOK
      <4> QED
        BY <3>1, <4>1 DEF Redeeming, Redeems
    <3> QED
      BY <3>2, <3>3
  <2>4. StageOf(a) = "redeemed" /\ StageOf(a)' = "spent"
    BY <1>1, <2>3, StageIs, StageIsNext
  <2>5. \A c \in Attempts : c # a => StageOf(c)' = StageOf(c)
    BY <1>1, <2>2, StageIs, StageIsNext
  <2>6. PolicyStage' = [PolicyStage EXCEPT ![a] = "spent"] /\ PolicyStage[a] = "redeemed"
    BY <1>1, <2>4, <2>5, StageMoves DEF PolicyStage
  <2>7. UNCHANGED <<PolicyBegunIn, PolicyHeld>>
    BY <1>1 DEF PolicyBegunIn, PolicyHeld
  <2>8. Policy!OpenSession(a, k)
    BY <1>4, <2>6, <2>7 DEF Policy!OpenSession, Policy!Move
  <2> QED
    BY <1>1, <2>8 DEF PolicyStep, Policy!SignInNext
<1>5. ASSUME NEW k \in Tokens, sessions[k] = None, sessions' = [sessions EXCEPT ![k] = a],
             Answer(t, "service_unavailable")
      PROVE  PolicyStep
  <2>1. Answered(tab[t], "service_unavailable").pc = "answer"
    BY <1>1 DEF Answered, Tab
  <2> QED
    BY <1>4, <1>5, <2>1 DEF Answer
<1>6. ASSUME NEW k \in Tokens, sessions[k] = None, sessions' = [sessions EXCEPT ![k] = a],
             tab' = [tab EXCEPT ![t] = [w EXCEPT !.setSession = k]]
      PROVE  PolicyStep
  <2> DEFINE q == [w EXCEPT !.setSession = k]
  <2>1. q.pc = "answer"
    BY <1>1 DEF Answered, Tab
  <2>2. tab' = [tab EXCEPT ![t] = q]
    BY <1>6
  <2> HIDE DEF q
  <2> QED
    BY <1>4, <1>6, <2>1, <2>2
<1> QED
  BY <1>2, <1>3, <1>5, <1>6

\* A tab that is, and becomes, at work on nothing leaves every stage alone.
LEMMA StagesRest ==
    ASSUME LoginInv, LoginInv', NEW t \in Tabs, NEW q, tab' = [tab EXCEPT ![t] = q],
           ~Presents(q), ~Redeems(q), ~Presents(tab[t]), ~Redeems(tab[t]),
           UNCHANGED <<now, attempts>>
    PROVE  UNCHANGED <<PolicyStage, PolicyBegunIn>>
<1>1. \A c \in Attempts : /\ Presented(c)' <=> Presented(c)
                          /\ Redeeming(c)' <=> Redeeming(c)
  BY HandlersAtWork DEF Presented, Redeeming
<1>2. \A c \in Attempts : StageOf(c)' = StageOf(c)
  BY <1>1, StageIs, StageIsNext
<1> QED
  BY <1>2, StagesStay DEF PolicyBegunIn

LEMMA DeliverRefines ==
    ASSUME LoginInv, LoginInv', NEW t \in Tabs, Deliver(t) PROVE PolicyStep
<1> DEFINE b == BrowserOf[t]
           q == IF tab[t].answer = "authorize"
                THEN [Home EXCEPT !.pc = "provider", !.attempt = tab[t].attempt] ELSE Home
<1>1. /\ At(t, "answer") /\ UNCHANGED <<now, attempts, sessions>> /\ b \in Browsers
      /\ jar' = [jar EXCEPT ![b] = [attempt |-> Stored(tab[t].setAttempt, @.attempt),
                                    session |-> Stored(tab[t].setSession, @.session)]]
      /\ tab' = [tab EXCEPT ![t] = q]
  BY LoginAssumption DEF Deliver
<1>2. q.pc \in {"home", "provider"}
  BY DEF Home
<1>3. ~Presents(q) /\ ~Redeems(q) /\ ~Presents(tab[t]) /\ ~Redeems(tab[t])
  BY <1>1, <1>2 DEF Presents, Redeems, At
<1> HIDE DEF q
<1>4. UNCHANGED <<PolicyStage, PolicyBegunIn, sessions>>
  BY <1>1, <1>3, StagesRest
<1>5. PICK k : k = Stored(tab[t].setSession, jar[b].session)
  OBVIOUS
<1>6. PolicyHeld' = [PolicyHeld EXCEPT ![b] = k]
  BY <1>1, <1>5 DEF LoginInv, LoginTypeOK, PolicyHeld
<1>7. CASE tab[t].setSession = Keep
  <2>1. PolicyHeld' = PolicyHeld
    BY <1>1, <1>5, <1>6, <1>7 DEF Stored, PolicyHeld
  <2> QED
    BY <1>4, <2>1 DEF PolicyStep, Policy!signIn
<1>8. CASE tab[t].setSession = None
  <2>1. k = None
    BY <1>5, <1>8, LoginAssumption DEF Stored
  <2>2. Policy!Forget(b)
    BY <1>4, <1>6, <2>1 DEF Policy!Forget
  <2> QED
    BY <1>1, <2>2 DEF PolicyStep, Policy!SignInNext
<1>9. CASE tab[t].setSession \in Tokens
  <2>1. k = tab[t].setSession /\ k \in Tokens
    BY <1>5, <1>9, LoginAssumption DEF Stored
  <2>2. sessions[k] # None /\ BegunIn(sessions[k], b)
    BY <2>1 DEF LoginInv, TabsAreSound, Sound
  <2>3. PolicyBegunIn[sessions[k]] = b
    BY <2>2 DEF PolicyBegunIn, BegunIn, Begun
  <2>4. Policy!Hold(b, k)
    BY <1>4, <1>6, <2>2, <2>3 DEF Policy!Hold
  <2> QED
    BY <1>1, <2>1, <2>4 DEF PolicyStep, Policy!SignInNext
<1>10. tab[t].setSession \in Tokens \cup {None, Keep}
  BY DEF LoginInv, LoginTypeOK, Tab
<1> QED
  BY <1>7, <1>8, <1>9, <1>10

LEMMA ForgetSessionRefines ==
    ASSUME LoginInv, LoginInv', NEW b \in Browsers, ForgetSession(b) PROVE PolicyStep
<1>1. UNCHANGED <<now, tab, attempts, sessions>> /\ jar' = [jar EXCEPT ![b].session = None]
  BY DEF ForgetSession
<1>2. \A c \in Attempts : /\ Presented(c)' <=> Presented(c)
                          /\ Redeeming(c)' <=> Redeeming(c)
  BY <1>1 DEF Presented, Redeeming, Presents, Redeems
<1>3. \A c \in Attempts : StageOf(c)' = StageOf(c)
  BY <1>1, <1>2, StageIs, StageIsNext
<1>4. UNCHANGED <<PolicyStage, PolicyBegunIn, sessions>>
  BY <1>1, <1>3, StagesStay DEF PolicyBegunIn
<1>5. PolicyHeld' = [PolicyHeld EXCEPT ![b] = None]
  BY <1>1 DEF LoginInv, LoginTypeOK, PolicyHeld
<1>6. Policy!Forget(b)
  BY <1>4, <1>5 DEF Policy!Forget
<1> QED
  BY <1>6 DEF PolicyStep, Policy!SignInNext

LEMMA TickRefines == ASSUME LoginInv, LoginInv', Tick PROVE PolicyStep
<1> DEFINE over == {a \in Attempts : StageOf(a)' # StageOf(a)}
<1>1. UNCHANGED <<jar, tab, attempts, sessions>> /\ now' = now + 1 /\ now \in Nat
  BY LoginAssumption DEF Tick, LoginInv, LoginTypeOK
<1>2. \A c \in Attempts : /\ Presented(c)' <=> Presented(c)
                          /\ Redeeming(c)' <=> Redeeming(c)
  BY <1>1 DEF Presented, Redeeming, Presents, Redeems
<1>3. ASSUME NEW a \in Attempts
      PROVE  /\ a \in over => StageOf(a) \in {"begun", "consented"}
             /\ StageOf(a)' = IF a \in over THEN "lapsed" ELSE StageOf(a)
  <2>1. attempts[a].expires \in Nat \cup {None} /\ attempts'[a] = attempts[a]
    BY <1>1 DEF LoginInv, LoginTypeOK
  <2>2. attempts[a].expires # None /\ attempts[a].expires <= now => attempts[a].expires <= now'
    BY <1>1, <2>1
  <2> QED
    BY <1>2, <2>1, <2>2, StageIs, StageIsNext
<1>4. over \in SUBSET {a \in Attempts : PolicyStage[a] \in {"begun", "consented"}}
  BY <1>3 DEF PolicyStage
<1>5. PolicyStage' = [a \in Attempts |-> StageOf(a)']
  BY DEF PolicyStage
<1> HIDE DEF over
<1>6. PolicyStage' = [a \in Attempts |-> IF a \in over THEN "lapsed" ELSE PolicyStage[a]]
  BY <1>3, <1>5 DEF PolicyStage
<1>7. UNCHANGED <<PolicyBegunIn, sessions, PolicyHeld>>
  BY <1>1 DEF PolicyBegunIn, PolicyHeld
<1>8. Policy!Lapse
  BY <1>4, <1>6, <1>7 DEF Policy!Lapse
<1> QED
  BY <1>8 DEF PolicyStep, Policy!SignInNext

\* Many handlers go on with their attempt, or are gone.
LEMMA TabsGoAway ==
    ASSUME LoginInv, LoginInv', UNCHANGED <<now, jar, attempts, sessions>>,
           \A u \in Tabs :
             /\ Presents(tab'[u]) => Presents(tab[u]) /\ tab'[u].attempt = tab[u].attempt
             /\ Redeems(tab'[u]) => Redeems(tab[u]) /\ tab'[u].attempt = tab[u].attempt
    PROVE  PolicyStep
<1>1. ASSUME NEW a \in Attempts
      PROVE  (Presented(a)' => Presented(a)) /\ (Redeeming(a)' => Redeeming(a))
  <2>1. Presented(a)' <=> \E u \in Tabs : Presents(tab'[u]) /\ tab'[u].attempt = a
    BY DEF Presented, Presents
  <2>2. Redeeming(a)' <=> \E u \in Tabs : Redeems(tab'[u]) /\ tab'[u].attempt = a
    BY DEF Redeeming, Redeems
  <2> QED
    BY <2>1, <2>2 DEF Presented, Redeeming
<1> QED
  BY <1>1, HandlersGoAway

LEMMA DiscoverySettlesRefines ==
    ASSUME LoginInv, LoginInv', DiscoverySettles PROVE PolicyStep
<1>1. /\ UNCHANGED <<now, jar, attempts, sessions>>
      /\ \/ tab' = [u \in Tabs |->
              IF At(u, "discover") THEN [tab[u] EXCEPT !.pc = Configured(tab[u].kind)]
                                   ELSE tab[u]]
         \/ tab' = [u \in Tabs |->
              IF At(u, "discover")
              THEN Answered(tab[u], IF tab[u].kind = "login" THEN "oidcUnavailable"
                                                             ELSE "service_unavailable")
              ELSE tab[u]]
  BY DEF DiscoverySettles
<1>2. ASSUME NEW u \in Tabs
      PROVE  /\ Presents(tab'[u]) => Presents(tab[u]) /\ tab'[u].attempt = tab[u].attempt
             /\ Redeems(tab'[u]) => Redeems(tab[u]) /\ tab'[u].attempt = tab[u].attempt
  <2>1. tab[u] \in Tab
    BY DEF LoginInv, LoginTypeOK
  <2>2. CASE ~At(u, "discover")
    BY <1>1, <2>2
  <2>3. CASE At(u, "discover") /\ tab'[u] = [tab[u] EXCEPT !.pc = Configured(tab[u].kind)]
    <3>1. /\ tab'[u].pc = Configured(tab[u].kind) /\ tab'[u].kind = tab[u].kind
          /\ tab'[u].attempt = tab[u].attempt /\ tab'[u].denied = tab[u].denied
      BY <2>1, <2>3 DEF Tab
    <3> QED
      BY <2>3, <3>1 DEF Presents, Redeems, Configured, At
  <2>4. CASE tab'[u].pc = "answer"
    BY <2>4 DEF Presents, Redeems
  <2>5. \A answer : Answered(tab[u], answer).pc = "answer"
    BY <2>1 DEF Answered, Tab
  <2> QED
    BY <1>1, <2>2, <2>3, <2>4, <2>5
<1> QED
  BY <1>1, <1>2, TabsGoAway

LEMMA RestartRefines == ASSUME LoginInv, LoginInv', Restart PROVE PolicyStep
<1>1. UNCHANGED <<now, jar, attempts, sessions>> /\ \A u \in Tabs : tab'[u] \in {Home, tab[u]}
  BY DEF Restart
<1>2. ~Presents(Home) /\ ~Redeems(Home)
  BY DEF Home, Presents, Redeems
<1> QED
  BY <1>1, <1>2, TabsGoAway

LEMMA BrowseRefines ==
    ASSUME LoginInv, LoginInv', NEW t \in Tabs, Browse(t) \/ Lose(t) PROVE PolicyStep
<1>1. ~Presents(Home) /\ ~Redeems(Home)
  BY DEF Home, Presents, Redeems
<1>2. CASE SignIn(t)
  <2> DEFINE q == [Home EXCEPT !.pc = "authenticate", !.kind = "login",
                               !.session = Cookies(t).session]
  <2>1. q.pc = "authenticate"
    BY DEF Home
  <2>2. tab' = [tab EXCEPT ![t] = q] /\ UNCHANGED <<now, jar, attempts, sessions>>
    BY <1>2 DEF SignIn
  <2> HIDE DEF q
  <2>3. ~Presents(q) /\ ~Redeems(q)
    BY <2>1 DEF Presents, Redeems
  <2> QED
    BY <2>2, <2>3, HandlerGoesAway
<1>3. CASE Consent(t)
  BY <1>3, ConsentRefines
<1>4. CASE Decline(t)
  <2>1. tab' = [tab EXCEPT ![t] = ToCallback(t, tab[t].attempt, TRUE)]
        /\ UNCHANGED <<now, jar, attempts, sessions>>
    BY <1>4 DEF Decline, ToCallback
  <2> QED
    BY <2>1, ToCallbackGoesAway, HandlerGoesAway
<1>5. CASE Leave(t) \/ Lose(t)
  BY <1>1, <1>5, HandlerGoesAway DEF Leave, Lose
<1>6. ASSUME NEW u \in Tabs, Reopen(t, u) PROVE PolicyStep
  <2>1. tab' = [tab EXCEPT ![u] = ToCallback(u, tab[t].attempt, tab[t].denied)]
        /\ UNCHANGED <<now, jar, attempts, sessions>>
    BY <1>6 DEF Reopen
  <2> QED
    BY <2>1, ToCallbackGoesAway, HandlerGoesAway
<1> QED
  BY <1>2, <1>3, <1>4, <1>5, <1>6 DEF Browse

-------------------------------------------------------------------------------
(* Signing in implements SignInPolicy: the theorem *)

LEMMA InitialPolicy == ASSUME LoginInit PROVE Policy!SignInInit
<1>1. \A a \in Attempts : StageOf(a) = "unused" /\ attempts[a].browser = None
  BY LoginInitially, StageIs DEF LoginInit
<1>2. \A b \in Browsers : jar[b].session = None
  BY DEF LoginInit
<1> QED
  BY <1>1, <1>2 DEF LoginInit, Policy!SignInInit, PolicyStage, PolicyBegunIn, PolicyHeld

LEMMA NextRefines == ASSUME LoginInv, LoginInv', [LoginNext]_login PROVE PolicyStep
<1>1. ASSUME NEW t \in Tabs, Serve(t) PROVE PolicyStep
  BY <1>1, AuthenticateRefines, AuthorizeRefines, CallbackRefines, ExchangeRefines,
     CreateSessionRefines DEF Serve
<1>2. ASSUME NEW t \in Tabs, Arrive(t) PROVE PolicyStep
  BY <1>2, DeliverRefines, BrowseRefines DEF Arrive
<1>3. ASSUME NEW t \in Tabs, Browse(t) PROVE PolicyStep
  BY <1>3, BrowseRefines
<1>4. CASE UNCHANGED login
  BY <1>4, TabsGoAway DEF login, Presents, Redeems
<1> QED
  BY <1>1, <1>2, <1>3, <1>4, ForgetSessionRefines, DiscoverySettlesRefines,
     RestartRefines, TickRefines DEF LoginNext

\* Signing in is what SignInPolicy says it is: an attempt is redeemed once,
\* opens at most one session and only when it was presented in time, and only
\* the browser that began it is ever given the session's cookie, whatever
\* tabs, reloads, lost answers and restarts do (auth-lifecycle.ts login and
\* callback, attempt-cookie.ts).
THEOREM LoginImplementsSignIn == LoginSpec => ImplementsSignIn
<1>1. LoginInit => Policy!SignInInit
  BY InitialPolicy
<1>2. LoginInv /\ LoginInv' /\ [LoginNext]_login => [Policy!SignInNext]_Policy!signIn
  BY NextRefines DEF PolicyStep
<1> QED
  BY <1>1, <1>2, LoginInvHolds, PTL DEF LoginSpec, ImplementsSignIn, Policy!SignInSpec
===============================================================================
