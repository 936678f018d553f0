------------------------------- MODULE WebProofs -------------------------------
(***************************************************************************)
(* What a page says about being signed out, for any number of tabs, tokens *)
(* and clicks.                                                             *)
(***************************************************************************)
EXTENDS WebApp, TLAPS

\* The part of WebInv that is about one page.
PageFits(p) ==
    /\ page[p].waits = "session" <=> page[p].view = "checking-session"
    /\ page[p].waits = "dashboard" <=> page[p].view = "loading-dashboard"
    /\ page[p].waits = "nothing" => page[p].answer = "none"
    /\ \A c \in 1 .. MaxClicks[p] :
         logout[<<p, c>>].pc # "none" => page[p].waits = "nothing" /\ c <= page[p].clicks
    /\ page[p].view \in {"ready", "away"} => ~page[p].warning

\* What a page has been told of the cookie it sent stays true, and the call
\* of a single click was made with the cookie the page sent last.
PageKnows(p) ==
    /\ page[p].url = "plain"
    /\ page[p].view \in {"checking-session", "loading-dashboard"} => ~page[p].warning
    /\ page[p].answer \in {"anonymous", "unauthorized"} => page[p].token \notin open
    /\ \A c \in 1 .. MaxClicks[p] :
         /\ logout[<<p, c>>].answer = "204" => logout[<<p, c>>].token \notin open
         /\ logout[<<p, c>>].pc # "none" /\ page[p].clicks <= 1 =>
              page[p].token = logout[<<p, c>>].token
    /\ page[p].view = "signed-out" /\ ~page[p].warning /\ page[p].clicks <= 1
         => page[p].token \notin open
    /\ page[p].view = "away" => \A c \in 1 .. MaxClicks[p] : logout[<<p, c>>] = NoLogout

\* The inductive invariant.
WebIInv ==
    /\ WebTypeOK
    /\ \A p \in Pages : PageFits(p) /\ PageKnows(p)

LEMMA CallsOfPages ==
    ASSUME NEW p \in Pages, NEW c \in 1 .. MaxClicks[p]
    PROVE  <<p, c>> \in Calls
BY DEF Calls

LEMMA PagesOfCalls ==
    ASSUME NEW s \in Calls
    PROVE  \E p \in Pages : \E c \in 1 .. MaxClicks[p] : s = <<p, c>>
BY DEF Calls

LEMMA WebInitially == WebInit => WebIInv
<1>1. SUFFICES ASSUME WebInit
               PROVE  WebIInv
  OBVIOUS
<1>2. Away \in Page /\ Away.clicks = 0 /\ NoLogout \in Logout
  BY DEF Away, Page, Views, NoLogout, Logout
<1>3. WebTypeOK
  BY <1>1, <1>2, WebAssumption DEF WebInit, WebTypeOK
<1>4. ASSUME NEW p \in Pages
      PROVE  PageFits(p) /\ PageKnows(p)
  <2>1. page[p] = Away /\ \A c \in 1 .. MaxClicks[p] : logout[<<p, c>>] = NoLogout
    BY <1>1, CallsOfPages DEF WebInit
  <2> QED
    BY <1>1, <2>1 DEF PageFits, PageKnows, Away, NoLogout, WebInit
<1> QED
  BY <1>3, <1>4 DEF WebIInv

\* A page that a step leaves alone: all it needs is that no token it was told
\* of is accepted again.
LEMMA PageIsLeft ==
    ASSUME NEW q \in Pages, PageFits(q), PageKnows(q),
           page'[q] = page[q],
           \A c \in 1 .. MaxClicks[q] : logout'[<<q, c>>] = logout[<<q, c>>],
           page[q].token \in open' => page[q].token \in open,
           \A c \in 1 .. MaxClicks[q] : logout[<<q, c>>].token \in open' => logout[<<q, c>>].token \in open
    PROVE  PageFits(q)' /\ PageKnows(q)'
BY DEF PageFits, PageKnows

\* A page that is loaded: nothing of what it knew is left.
LEMMA PageIsLoaded ==
    ASSUME NEW p \in Pages, NEW url, NEW sent,
           page'[p] = Opened(url, sent) \/ page'[p] = Away,
           \A c \in 1 .. MaxClicks[p] : logout'[<<p, c>>] = NoLogout
    PROVE  PageFits(p)' /\ PageKnows(p)'
<1>1. /\ page'[p].answer = "none" /\ page'[p].url = "plain" /\ page'[p].warning = FALSE
      /\ \/ page'[p].view = "checking-session" /\ page'[p].waits = "session"
         \/ page'[p].view = "away" /\ page'[p].waits = "nothing"
  <2>1. CASE page'[p] = Opened(url, sent)
    BY <2>1 DEF Opened, Away, CleanedUrl
  <2>2. CASE page'[p] = Away
    BY <2>2 DEF Away
  <2> QED
    BY <2>1, <2>2
<1>2. \A c \in 1 .. MaxClicks[p] :
        logout'[<<p, c>>].pc = "none" /\ logout'[<<p, c>>].answer = "none"
  BY DEF NoLogout
<1> QED
  BY <1>1, <1>2 DEF PageFits, PageKnows

LEMMA OpenedIsPage ==
    ASSUME NEW url \in {"plain", "auth_error", "auth_error_unknown"}, NEW sent \in Tokens \cup {None}
    PROVE  Opened(url, sent) \in Page /\ Opened(url, sent).clicks = 0 /\ Away \in Page /\ Away.clicks = 0
BY DEF Opened, Away, Page, Views, CleanedUrl

-------------------------------------------------------------------------------
(* Opening and leaving                                                       *)

\* The calls of a page that goes are gone, the others stay.
LEMMA LogoutsOfOthers ==
    ASSUME WebTypeOK, NEW p \in Pages
    PROVE  /\ NoLogoutsOf(p) \in [Calls -> Logout]
           /\ \A c \in 1 .. MaxClicks[p] : NoLogoutsOf(p)[<<p, c>>] = NoLogout
           /\ \A q \in Pages \ {p} : \A c \in 1 .. MaxClicks[q] :
                NoLogoutsOf(p)[<<q, c>>] = logout[<<q, c>>]
<1>1. NoLogout \in Logout
  BY DEF NoLogout, Logout
<1>2. NoLogoutsOf(p) \in [Calls -> Logout]
  BY <1>1 DEF WebTypeOK, NoLogoutsOf
<1>3. \A c \in 1 .. MaxClicks[p] : NoLogoutsOf(p)[<<p, c>>] = NoLogout
  BY CallsOfPages DEF NoLogoutsOf
<1>4. ASSUME NEW q \in Pages \ {p}, NEW c \in 1 .. MaxClicks[q]
      PROVE  NoLogoutsOf(p)[<<q, c>>] = logout[<<q, c>>]
  BY CallsOfPages DEF NoLogoutsOf
<1> QED
  BY <1>2, <1>3, <1>4

\* A page is loaded, or left, with whatever cookie the browser has, while no
\* token that any page knows of comes to be accepted.
LEMMA LoadingKeeps ==
    ASSUME WebIInv, NEW p \in Pages, NEW new \in Page, new.clicks = 0,
           NEW url, NEW sent, new = Opened(url, sent) \/ new = Away,
           page' = [page EXCEPT ![p] = new],
           \/ logout' = NoLogoutsOf(p)
           \/ UNCHANGED logout /\ \A c \in 1 .. MaxClicks[p] : logout[<<p, c>>] = NoLogout,
           cookie' \in Tokens \cup {None}, open' \subseteq Tokens,
           \A q \in Pages : page[q].token \in open' => page[q].token \in open,
           \A s \in Calls : logout[s].token \in open' => logout[s].token \in open
    PROVE  WebIInv'
<1>1. /\ logout' \in [Calls -> Logout]
      /\ \A c \in 1 .. MaxClicks[p] : logout'[<<p, c>>] = NoLogout
      /\ \A q \in Pages \ {p} : \A c \in 1 .. MaxClicks[q] :
           logout'[<<q, c>>] = logout[<<q, c>>]
  BY LogoutsOfOthers DEF WebIInv, WebTypeOK
<1>2. page \in [Pages -> Page] /\ page'[p] = new /\ \A q \in Pages \ {p} : page'[q] = page[q]
  BY DEF WebIInv, WebTypeOK
<1>3. WebTypeOK'
  <2>1. page' \in [Pages -> Page]
    BY <1>2
  <2>2. 0 <= MaxClicks[p]
    BY WebAssumption
  <2>3. \A q \in Pages : page'[q].clicks <= MaxClicks[q]
    BY <1>2, <2>2 DEF WebIInv, WebTypeOK
  <2> QED
    BY <1>1, <2>1, <2>3 DEF WebTypeOK
<1>4. PageFits(p)' /\ PageKnows(p)'
  BY <1>1, <1>2, PageIsLoaded
<1>5. ASSUME NEW q \in Pages \ {p}
      PROVE  PageFits(q)' /\ PageKnows(q)'
  <2>1. \A c \in 1 .. MaxClicks[q] :
          logout[<<q, c>>].token \in open' => logout[<<q, c>>].token \in open
    BY CallsOfPages
  <2> QED
    BY <1>1, <1>2, <2>1, PageIsLeft DEF WebIInv
<1> QED
  BY <1>3, <1>4, <1>5 DEF WebIInv

LEMMA VisitStep ==
    ASSUME WebIInv, NEW p \in Pages, Visit(p)
    PROVE  WebIInv'
<1>1. PICK url \in {"plain", "auth_error", "auth_error_unknown"} :
        page' = [page EXCEPT ![p] = Opened(url, cookie)]
  BY DEF Visit
<1>2. Opened(url, cookie) \in Page /\ Opened(url, cookie).clicks = 0
  BY OpenedIsPage DEF WebIInv, WebTypeOK
<1>3. UNCHANGED <<logout, cookie, open>> /\ \A c \in 1 .. MaxClicks[p] : logout[<<p, c>>] = NoLogout
  BY DEF Visit, WebIInv, PageKnows
<1>4. cookie' \in Tokens \cup {None} /\ open' \subseteq Tokens
  BY <1>3 DEF WebIInv, WebTypeOK
<1> QED
  BY <1>1, <1>2, <1>3, <1>4, LoadingKeeps

LEMMA ReloadStep ==
    ASSUME WebIInv, NEW p \in Pages, Reload(p)
    PROVE  WebIInv'
<1>1. page[p].url \in {"plain", "auth_error", "auth_error_unknown"} /\ cookie \in Tokens \cup {None}
  BY DEF WebIInv, WebTypeOK, PageKnows
<1>2. Opened(page[p].url, cookie) \in Page /\ Opened(page[p].url, cookie).clicks = 0
  BY <1>1, OpenedIsPage
<1>3. cookie' \in Tokens \cup {None} /\ open' \subseteq Tokens
  BY DEF Reload, WebIInv, WebTypeOK
<1> QED
  BY <1>2, <1>3, LoadingKeeps DEF Reload

LEMMA LeaveStep ==
    ASSUME WebIInv, NEW p \in Pages, Leave(p)
    PROVE  WebIInv'
<1>1. Away \in Page /\ Away.clicks = 0
  BY OpenedIsPage
<1>2. cookie' \in Tokens \cup {None} /\ open' \subseteq Tokens
  BY DEF Leave, WebIInv, WebTypeOK
<1> QED
  BY <1>1, <1>2, LoadingKeeps DEF Leave

\* A new session has a token that no page and no call knows of.
LEMMA SignInStep ==
    ASSUME WebIInv, NEW p \in Pages, SignIn(p)
    PROVE  WebIInv'
<1> USE DEF WebIInv, WebTypeOK
<1>1. logout' = NoLogoutsOf(p)
  BY DEF SignIn
<1>2. CASE page' = [page EXCEPT ![p] = Opened("plain", cookie)] /\ UNCHANGED <<cookie, open>>
  <2>1. Opened("plain", cookie) \in Page /\ Opened("plain", cookie).clicks = 0
    BY OpenedIsPage
  <2>2. cookie' \in Tokens \cup {None} /\ open' \subseteq Tokens
    BY <1>2
  <2> QED
    BY <1>1, <1>2, <2>1, <2>2, LoadingKeeps
<1>3. ASSUME NEW token \in Fresh, open' = open \cup {token}, cookie' = token,
             page' = [page EXCEPT ![p] = Opened("plain", token)]
      PROVE  WebIInv'
  <2>1. token \in Tokens
    BY DEF Fresh
  <2>2. Opened("plain", token) \in Page /\ Opened("plain", token).clicks = 0
    BY <2>1, OpenedIsPage
  <2>3. cookie' \in Tokens \cup {None} /\ open' \subseteq Tokens
    BY <1>3, <2>1
  <2>4. \A q \in Pages : page[q].token \in open' => page[q].token \in open
    BY <1>3 DEF Fresh
  <2>5. \A s \in Calls : logout[s].token \in open' => logout[s].token \in open
    BY <1>3 DEF Fresh
  <2> HIDE DEF WebIInv, WebTypeOK
  <2> QED
    BY <1>1, <1>3, <2>2, <2>3, <2>4, <2>5, LoadingKeeps
<1>4. CASE /\ cookie' = None /\ UNCHANGED open
           /\ page' = [page EXCEPT ![p] = Opened("auth_error", None)]
  <2>1. Opened("auth_error", None) \in Page /\ Opened("auth_error", None).clicks = 0
    BY OpenedIsPage
  <2>2. cookie' \in Tokens \cup {None} /\ open' \subseteq Tokens
    BY <1>4
  <2> QED
    BY <1>1, <1>4, <2>1, <2>2, LoadingKeeps
<1> QED
  BY <1>2, <1>3, <1>4 DEF SignIn

-------------------------------------------------------------------------------
(* What a page does by itself: the others are left alone, and tokens are at  *)
(* most withdrawn.                                                           *)

LEMMA PageChanges ==
    ASSUME WebIInv, NEW p \in Pages, NEW new \in Page, new.clicks <= MaxClicks[p],
           page' = [page EXCEPT ![p] = new],
           logout' \in [Calls -> Logout],
           \A q \in Pages \ {p} : \A c \in 1 .. MaxClicks[q] :
             logout'[<<q, c>>] = logout[<<q, c>>],
           cookie' \in Tokens \cup {None}, open' \subseteq open,
           page'[p] = new => PageFits(p)' /\ PageKnows(p)'
    PROVE  WebIInv'
<1>1. page \in [Pages -> Page] /\ page'[p] = new /\ \A q \in Pages \ {p} : page'[q] = page[q]
  BY DEF WebIInv, WebTypeOK
<1>2. WebTypeOK'
  <2>1. page' \in [Pages -> Page]
    BY <1>1
  <2>2. \A q \in Pages : page'[q].clicks <= MaxClicks[q]
    BY <1>1 DEF WebIInv, WebTypeOK
  <2>3. open' \subseteq Tokens
    BY DEF WebIInv, WebTypeOK
  <2> QED
    BY <2>1, <2>2, <2>3 DEF WebTypeOK
<1>3. ASSUME NEW q \in Pages \ {p}
      PROVE  PageFits(q)' /\ PageKnows(q)'
  BY <1>1, PageIsLeft DEF WebIInv
<1> QED
  BY <1>1, <1>2, <1>3 DEF WebIInv

Answers == {"none", "failed", "anonymous", "noWorkspace", "oneWorkspace", "manyWorkspaces",
            "dashboard", "unauthorized", "forbidden"}

\* The server says that a session is over only if it is.
LEMMA AnswerStep ==
    ASSUME WebIInv, NEW p \in Pages, AnswerSession(p) \/ AnswerDashboard(p)
    PROVE  WebIInv'
<1>1. PICK answer \in Answers \ {"none"} :
        /\ page' = [page EXCEPT ![p] = [page[p] EXCEPT !.answer = answer]]
        /\ answer \in {"anonymous", "unauthorized"} => page[p].token \notin open
  BY DEF AnswerSession, AnswerDashboard, Answers
<1>2. page[p].waits # "nothing" /\ UNCHANGED <<logout, cookie, open>>
  BY DEF AnswerSession, AnswerDashboard, Awaits
<1> DEFINE new == [page[p] EXCEPT !.answer = answer]
<1>3. page[p] \in Page /\ page[p].clicks <= MaxClicks[p]
  BY DEF WebIInv, WebTypeOK
<1>4. new \in Page /\ new.clicks <= MaxClicks[p]
  BY <1>3 DEF Page, Answers
<1>5. ASSUME page'[p] = new
      PROVE  PageFits(p)' /\ PageKnows(p)'
  <2>1. /\ page'[p].view = page[p].view /\ page'[p].waits = page[p].waits
        /\ page'[p].token = page[p].token /\ page'[p].clicks = page[p].clicks
        /\ page'[p].warning = page[p].warning /\ page'[p].url = page[p].url
        /\ page'[p].answer = answer
    BY <1>3, <1>5 DEF Page
  <2>2. PageFits(p) /\ PageKnows(p)
    BY DEF WebIInv
  <2> QED
    BY <1>1, <1>2, <2>1, <2>2 DEF PageFits, PageKnows
<1> QED
  BY <1>1, <1>2, <1>4, <1>5, PageChanges DEF WebIInv, WebTypeOK

\* load() ends, with a view that nobody has to be signed in for only if the
\* answer said so.
LEMMA SettledStep ==
    ASSUME WebIInv, NEW p \in Pages, page[p].waits # "nothing",
           NEW view \in Views \ {"away", "checking-session", "loading-dashboard"},
           Settled(p, view), UNCHANGED <<logout, cookie, open>>,
           view = "signed-out" => page[p].answer \in {"anonymous", "unauthorized"}
    PROVE  WebIInv'
<1> DEFINE new == [page[p] EXCEPT !.view = view, !.waits = "nothing", !.answer = "none",
                                  !.token = Sent(p, view)]
<1>1. page[p] \in Page /\ page[p].clicks <= MaxClicks[p] /\ page[p].token \in Tokens \cup {None}
  BY DEF WebIInv, WebTypeOK, Page
<1>2. Sent(p, view) \in Tokens \cup {None}
  BY <1>1 DEF Sent
<1>3. new \in Page /\ new.clicks <= MaxClicks[p]
  BY <1>1, <1>2 DEF Page
<1>4. page' = [page EXCEPT ![p] = new]
  BY DEF Settled
<1>5. ASSUME page'[p] = new
      PROVE  PageFits(p)' /\ PageKnows(p)'
  <2>1. /\ page'[p].view = view /\ page'[p].waits = "nothing" /\ page'[p].answer = "none"
        /\ page'[p].token = Sent(p, view) /\ page'[p].clicks = page[p].clicks
        /\ page'[p].warning = page[p].warning /\ page'[p].url = page[p].url
    BY <1>1, <1>5 DEF Page
  <2>2. PageFits(p) /\ PageKnows(p)
    BY DEF WebIInv
  <2>3. \A c \in 1 .. MaxClicks[p] : logout[<<p, c>>].pc = "none"
    BY <2>2 DEF PageFits
  <2>4. page[p].view \in {"checking-session", "loading-dashboard"} /\ ~page[p].warning
    BY <1>1, <2>2 DEF PageFits, PageKnows, Page
  <2>5. view = "signed-out" => Sent(p, view) \notin open
    BY <2>2 DEF PageKnows, Sent
  <2> QED
    BY <2>1, <2>2, <2>3, <2>4, <2>5 DEF PageFits, PageKnows
<1> QED
  BY <1>3, <1>4, <1>5, PageChanges DEF WebIInv, WebTypeOK

LEMMA TakeStep ==
    ASSUME WebIInv, NEW p \in Pages, TakeSession(p) \/ TakeDashboard(p)
    PROVE  WebIInv'
<1>1. page[p].waits # "nothing" /\ UNCHANGED <<logout, cookie, open>>
  BY DEF TakeSession, TakeDashboard, Answered
<1>2. ASSUME NEW view \in {"forbidden", "workspace-selection-required", "error", "ready"},
             Settled(p, view)
      PROVE  WebIInv'
  BY <1>1, <1>2, SettledStep DEF Views
<1>3. CASE page[p].answer \in {"anonymous", "unauthorized"} /\ Settled(p, "signed-out")
  BY <1>1, <1>3, SettledStep DEF Views
<1>4. CASE page' = [page EXCEPT ![p].view = "loading-dashboard", ![p].waits = "dashboard",
                                ![p].answer = "none", ![p].token = cookie]
  <2> DEFINE new == [page[p] EXCEPT !.view = "loading-dashboard", !.waits = "dashboard",
                                    !.answer = "none", !.token = cookie]
  <2>1. page[p] \in Page /\ page[p].clicks <= MaxClicks[p] /\ cookie \in Tokens \cup {None}
    BY DEF WebIInv, WebTypeOK
  <2>2. new \in Page /\ new.clicks <= MaxClicks[p]
    BY <2>1 DEF Page, Views
  <2>3. page' = [page EXCEPT ![p] = new]
    BY <1>4
  <2>4. ASSUME page'[p] = new
        PROVE  PageFits(p)' /\ PageKnows(p)'
    <3>1. /\ page'[p].view = "loading-dashboard" /\ page'[p].waits = "dashboard"
          /\ page'[p].answer = "none" /\ page'[p].clicks = page[p].clicks
          /\ page'[p].warning = page[p].warning /\ page'[p].url = page[p].url
      BY <2>1, <2>4 DEF Page
    <3>2. PageFits(p) /\ PageKnows(p)
      BY DEF WebIInv
    <3>3. \A c \in 1 .. MaxClicks[p] : logout[<<p, c>>].pc = "none"
      BY <1>1, <3>2 DEF PageFits
    <3>4. page[p].view \in {"checking-session", "loading-dashboard"} /\ ~page[p].warning
      BY <1>1, <2>1, <3>2 DEF PageFits, PageKnows, Page
    <3> QED
      BY <1>1, <3>1, <3>2, <3>3, <3>4 DEF PageFits, PageKnows
  <2> QED
    BY <1>1, <2>2, <2>3, <2>4, PageChanges DEF WebIInv, WebTypeOK
<1> QED
  BY <1>2, <1>3, <1>4 DEF TakeSession, TakeDashboard

-------------------------------------------------------------------------------
(* Signing out                                                               *)

\* A step that changes one call, and what the page shows, is about no other
\* call and no other page.
LEMMA OneCallChanges ==
    ASSUME WebTypeOK, NEW p \in Pages, NEW c \in 1 .. MaxClicks[p], NEW call \in Logout,
           logout' = [logout EXCEPT ![<<p, c>>] = call]
    PROVE  /\ logout' \in [Calls -> Logout]
           /\ logout'[<<p, c>>] = call
           /\ \A d \in (1 .. MaxClicks[p]) \ {c} : logout'[<<p, d>>] = logout[<<p, d>>]
           /\ \A q \in Pages \ {p} : \A d \in 1 .. MaxClicks[q] :
                logout'[<<q, d>>] = logout[<<q, d>>]
BY CallsOfPages DEF WebTypeOK

LEMMA ClickStep ==
    ASSUME WebIInv, NEW p \in Pages, ClickSignOut(p)
    PROVE  WebIInv'
<1> DEFINE n == page[p].clicks + 1
           call == [pc |-> "sent", token |-> cookie, answer |-> "none"]
           new == [page[p] EXCEPT !.clicks = page[p].clicks + 1, !.token = cookie]
<1>1. /\ page[p] \in Page /\ cookie \in Tokens \cup {None} /\ page[p].clicks \in Nat
      /\ MaxClicks[p] \in Nat
  BY WebAssumption DEF WebIInv, WebTypeOK, Page
<1>2. n \in 1 .. MaxClicks[p]
  BY <1>1 DEF ClickSignOut
<1>3. call \in Logout
  BY <1>1 DEF Logout
<1>4. page' = [page EXCEPT ![p] = new] /\ logout' = [logout EXCEPT ![<<p, n>>] = call]
  BY DEF ClickSignOut
<1>5. /\ logout' \in [Calls -> Logout]
      /\ logout'[<<p, n>>] = call
      /\ \A d \in (1 .. MaxClicks[p]) \ {n} : logout'[<<p, d>>] = logout[<<p, d>>]
      /\ \A q \in Pages \ {p} : \A d \in 1 .. MaxClicks[q] : logout'[<<q, d>>] = logout[<<q, d>>]
  BY <1>2, <1>3, <1>4, OneCallChanges DEF WebIInv
<1>6. new \in Page /\ new.clicks <= MaxClicks[p]
  <2>1. page[p].clicks + 1 \in Nat /\ page[p].clicks + 1 <= MaxClicks[p]
    BY <1>1, <1>2
  <2> QED
    BY <1>1, <2>1 DEF Page
<1>7. ASSUME page'[p] = new
      PROVE  PageFits(p)' /\ PageKnows(p)'
  <2>1. /\ page'[p].view = page[p].view /\ page'[p].waits = page[p].waits
        /\ page'[p].answer = page[p].answer /\ page'[p].clicks = n
        /\ page'[p].warning = page[p].warning /\ page'[p].url = page[p].url
        /\ page'[p].token = cookie
    BY <1>1, <1>7 DEF Page
  <2>2. PageFits(p) /\ PageKnows(p)
    BY DEF WebIInv
  <2>3. page[p].view \in {"ready", "forbidden", "workspace-selection-required"}
    BY DEF ClickSignOut, OffersLogout
  <2>4. page[p].waits = "nothing" /\ page[p].answer = "none"
    BY <1>1, <2>2, <2>3 DEF PageFits, Page
  <2>5. call.pc = "sent" /\ call.token = cookie /\ call.answer = "none"
    OBVIOUS
  <2>6. ASSUME NEW d \in 1 .. MaxClicks[p]
        PROVE  /\ logout'[<<p, d>>].pc # "none" => d <= n
               /\ logout'[<<p, d>>].answer = "204" => logout'[<<p, d>>].token \notin open
               /\ logout'[<<p, d>>].pc # "none" /\ n <= 1 => logout'[<<p, d>>].token = cookie
    <3>1. CASE d = n
      BY <1>1, <1>5, <2>5, <3>1
    <3>2. CASE d # n
      <4>1. logout'[<<p, d>>] = logout[<<p, d>>]
        BY <1>5, <3>2
      <4>2. logout[<<p, d>>].pc # "none" => d <= page[p].clicks
        BY <2>2 DEF PageFits
      <4>3. d \in Nat /\ d >= 1
        BY <1>1
      <4>4. n <= 1 => page[p].clicks = 0
        BY <1>1
      <4>5. logout[<<p, d>>].pc # "none" => d <= n /\ ~(n <= 1)
        BY <1>1, <4>2, <4>3, <4>4
      <4> QED
        BY <2>2, <4>1, <4>5 DEF PageKnows
    <3> QED
      BY <3>1, <3>2
  <2>7. open' = open
    BY DEF ClickSignOut
  <2> HIDE DEF n, call, new
  <2> QED
    BY <2>1, <2>2, <2>3, <2>4, <2>6, <2>7 DEF PageFits, PageKnows
<1>8. cookie' \in Tokens \cup {None} /\ open' \subseteq open
  BY <1>1 DEF ClickSignOut
<1> HIDE DEF n, call, new
<1> QED
  BY <1>4, <1>5, <1>6, <1>7, <1>8, PageChanges

\* The server's answer and its headers: a confirmed logout's session is over.
LEMMA CallStep ==
    ASSUME WebIInv, NEW p \in Pages, NEW c \in 1 .. MaxClicks[p],
           AnswerLogout(p, c) \/ LogoutArrives(p, c)
    PROVE  WebIInv'
<1>1. /\ page[p] \in Page /\ page[p].clicks <= MaxClicks[p] /\ page' = page
      /\ logout[<<p, c>>] \in Logout /\ logout[<<p, c>>].pc # "none"
      /\ cookie \in Tokens \cup {None}
  BY CallsOfPages DEF WebIInv, WebTypeOK, AnswerLogout, LogoutArrives
<1>2. /\ cookie' \in Tokens \cup {None} /\ open' \subseteq open
  BY <1>1 DEF AnswerLogout, LogoutArrives
<1>3. PICK answer \in {"none", "204", "503", "refused"}, pc \in {"answered", "arrived"} :
        /\ logout' = [logout EXCEPT ![<<p, c>>] =
                        [logout[<<p, c>>] EXCEPT !.pc = pc, !.answer = answer]]
        /\ answer = "204" => logout[<<p, c>>].token \notin open'
  <2>1. CASE AnswerLogout(p, c)
    BY <2>1 DEF AnswerLogout
  <2>2. CASE LogoutArrives(p, c)
    <3>1. logout[<<p, c>>].answer \in {"none", "204", "503", "refused"}
      BY <1>1 DEF Logout
    <3>2. logout[<<p, c>>].answer = "204" => logout[<<p, c>>].token \notin open'
      BY <1>2 DEF WebIInv, PageKnows
    <3>3. logout' = [logout EXCEPT ![<<p, c>>] =
                       [logout[<<p, c>>] EXCEPT !.pc = "arrived", !.answer = logout[<<p, c>>].answer]]
      BY <1>1, <2>2 DEF LogoutArrives, Logout
    <3> QED
      BY <3>1, <3>2, <3>3
  <2> QED
    BY <2>1, <2>2
<1> DEFINE call == [logout[<<p, c>>] EXCEPT !.pc = pc, !.answer = answer]
<1>4. /\ call \in Logout /\ call.pc # "none" /\ call.answer = answer
      /\ call.token = logout[<<p, c>>].token
  BY <1>1 DEF Logout
<1>5. /\ logout' \in [Calls -> Logout]
      /\ logout'[<<p, c>>] = call
      /\ \A d \in (1 .. MaxClicks[p]) \ {c} : logout'[<<p, d>>] = logout[<<p, d>>]
      /\ \A q \in Pages \ {p} : \A d \in 1 .. MaxClicks[q] : logout'[<<q, d>>] = logout[<<q, d>>]
  BY <1>3, <1>4, OneCallChanges DEF WebIInv
<1> HIDE DEF call
<1>6. PageFits(p)' /\ PageKnows(p)'
  <2>1. PageFits(p) /\ PageKnows(p)
    BY DEF WebIInv
  <2>2. page[p].view # "away"
    <3>1. NoLogout.pc = "none"
      BY DEF NoLogout
    <3> QED
      BY <1>1, <2>1, <3>1 DEF PageKnows
  <2>3. ASSUME NEW d \in 1 .. MaxClicks[p]
        PROVE  /\ logout'[<<p, d>>].pc # "none" => logout[<<p, d>>].pc # "none"
               /\ logout'[<<p, d>>].token = logout[<<p, d>>].token
               /\ logout'[<<p, d>>].answer = "204" => logout'[<<p, d>>].token \notin open'
    <3>1. CASE d = c
      BY <1>1, <1>3, <1>4, <1>5, <3>1
    <3>2. CASE d # c
      BY <1>2, <1>5, <2>1, <3>2 DEF PageKnows
    <3> QED
      BY <3>1, <3>2
  <2> QED
    BY <1>1, <1>2, <2>1, <2>2, <2>3 DEF PageFits, PageKnows
<1>7. page' = [page EXCEPT ![p] = page[p]]
  BY <1>1 DEF WebIInv, WebTypeOK
<1> QED
  BY <1>1, <1>2, <1>5, <1>6, <1>7, PageChanges

\* A call is over: the page says what became of it.
LEMMA CallIsOver ==
    ASSUME WebIInv, NEW p \in Pages, NEW c \in 1 .. MaxClicks[p],
           logout[<<p, c>>].pc # "none", logout' = [logout EXCEPT ![<<p, c>>] = NoLogout],
           UNCHANGED <<cookie, open>>,
           NEW new \in Page, page' = [page EXCEPT ![p] = new],
           new.waits = page[p].waits, new.answer = page[p].answer, new.url = page[p].url,
           new.clicks = page[p].clicks, new.view \in {"signed-out", "error", "logout-unknown"},
           new.view = "signed-out" => new.token = page[p].token,
           new.view = "signed-out" => logout[<<p, c>>].answer = "204" \/ new.warning
    PROVE  WebIInv'
<1>1. NoLogout \in Logout /\ NoLogout.pc = "none" /\ NoLogout.answer = "none"
  BY DEF NoLogout, Logout
<1>2. /\ logout' \in [Calls -> Logout]
      /\ logout'[<<p, c>>] = NoLogout
      /\ \A d \in (1 .. MaxClicks[p]) \ {c} : logout'[<<p, d>>] = logout[<<p, d>>]
      /\ \A q \in Pages \ {p} : \A d \in 1 .. MaxClicks[q] : logout'[<<q, d>>] = logout[<<q, d>>]
  BY <1>1, OneCallChanges DEF WebIInv
<1>3. /\ page[p] \in Page /\ page[p].clicks <= MaxClicks[p] /\ page[p].clicks \in Nat
      /\ MaxClicks[p] \in Nat
  BY WebAssumption DEF WebIInv, WebTypeOK, Page
<1>4. PageFits(p) /\ PageKnows(p)
  BY DEF WebIInv
<1>5. page[p].waits = "nothing" /\ page[p].answer = "none" /\ c <= page[p].clicks
  BY <1>4 DEF PageFits
<1>6. ASSUME page'[p] = new
      PROVE  PageFits(p)' /\ PageKnows(p)'
  <2>1. ASSUME NEW d \in 1 .. MaxClicks[p]
        PROVE  /\ logout'[<<p, d>>].pc # "none" => d <= page[p].clicks /\ ~(page[p].clicks <= 1)
               /\ logout'[<<p, d>>].answer = "204" => logout'[<<p, d>>].token \notin open
    <3>1. CASE d = c
      BY <1>1, <1>2, <3>1
    <3>2. CASE d # c
      <4>1. logout'[<<p, d>>] = logout[<<p, d>>]
        BY <1>2, <3>2
      <4>2. logout[<<p, d>>].pc # "none" => d <= page[p].clicks
        BY <1>4 DEF PageFits
      <4>3. d \in Nat /\ d >= 1 /\ c \in Nat /\ c >= 1
        BY <1>3
      <4>4. d <= page[p].clicks => ~(page[p].clicks <= 1)
        BY <1>3, <1>5, <3>2, <4>3
      <4> QED
        BY <1>4, <4>1, <4>2, <4>4 DEF PageKnows
    <3> QED
      BY <3>1, <3>2
  <2>2. page[p].clicks <= 1 /\ logout[<<p, c>>].answer = "204" => page[p].token \notin open
    BY <1>4 DEF PageKnows
  <2> QED
    BY <1>4, <1>5, <1>6, <2>1, <2>2 DEF PageFits, PageKnows
<1>7. cookie' \in Tokens \cup {None} /\ open' \subseteq open
  BY DEF WebIInv, WebTypeOK
<1> QED
  BY <1>2, <1>3, <1>6, <1>7, PageChanges

LEMMA CallEndsStep ==
    ASSUME WebIInv, NEW p \in Pages, NEW c \in 1 .. MaxClicks[p],
           LogoutIsLost(p, c) \/ TakeLogout(p, c)
    PROVE  WebIInv'
<1>1. page[p] \in Page
  BY DEF WebIInv, WebTypeOK
<1>2. /\ logout[<<p, c>>].pc # "none" /\ logout' = [logout EXCEPT ![<<p, c>>] = NoLogout]
      /\ UNCHANGED <<cookie, open>>
  BY DEF LogoutIsLost, TakeLogout
<1>3. ASSUME NEW view \in {"error", "logout-unknown"},
             page' = [page EXCEPT ![p].view = view, ![p].token = None]
      PROVE  WebIInv'
  <2> DEFINE new == [page[p] EXCEPT !.view = view, !.token = None]
  <2>1. /\ new \in Page /\ new.waits = page[p].waits /\ new.answer = page[p].answer
        /\ new.url = page[p].url /\ new.clicks = page[p].clicks /\ new.view = view
    BY <1>1 DEF Page, Views
  <2>2. page' = [page EXCEPT ![p] = new]
    BY <1>3
  <2> HIDE DEF new
  <2> QED
    BY <1>2, <2>1, <2>2, CallIsOver
<1>4. ASSUME NEW warning \in BOOLEAN, SignedOut(p, warning),
             logout[<<p, c>>].answer = "204" \/ warning
      PROVE  WebIInv'
  <2> DEFINE new == [page[p] EXCEPT !.view = "signed-out", !.notice = FALSE, !.warning = warning]
  <2>1. /\ new \in Page /\ new.waits = page[p].waits /\ new.answer = page[p].answer
        /\ new.url = page[p].url /\ new.clicks = page[p].clicks /\ new.view = "signed-out"
        /\ new.token = page[p].token /\ new.warning = warning
    BY <1>1 DEF Page, Views
  <2>2. page' = [page EXCEPT ![p] = new]
    BY <1>4 DEF SignedOut
  <2> HIDE DEF new
  <2> QED
    BY <1>2, <1>4, <2>1, <2>2, CallIsOver
<1> QED
  BY <1>3, <1>4 DEF LogoutIsLost, TakeLogout

LEMMA SessionEndsStep ==
    ASSUME WebIInv, SessionEnds \/ UNCHANGED web
    PROVE  WebIInv'
<1>1. UNCHANGED <<page, logout, cookie>> /\ open' \subseteq open
  BY DEF SessionEnds, web
<1>2. WebTypeOK'
  BY <1>1 DEF WebIInv, WebTypeOK
<1>3. ASSUME NEW p \in Pages
      PROVE  PageFits(p)' /\ PageKnows(p)'
  <2>1. PageFits(p) /\ PageKnows(p)
    BY DEF WebIInv
  <2> QED
    BY <1>1, <2>1, PageIsLeft
<1> QED
  BY <1>2, <1>3 DEF WebIInv

-------------------------------------------------------------------------------
LEMMA WebStep ==
    ASSUME WebIInv, [WebNext]_web
    PROVE  WebIInv'
<1>1. ASSUME NEW p \in Pages,
             \/ Visit(p) \/ Reload(p) \/ Leave(p) \/ SignIn(p) \/ ClickSignOut(p) \/ LoadStep(p)
      PROVE  WebIInv'
  BY <1>1, VisitStep, ReloadStep, LeaveStep, SignInStep, ClickStep, AnswerStep, TakeStep
     DEF LoadStep
<1>2. ASSUME NEW p \in Pages, NEW c \in 1 .. MaxClicks[p], LogoutStep(p, c)
      PROVE  WebIInv'
  BY <1>2, CallStep, CallEndsStep DEF LogoutStep
<1>3. CASE SessionEnds \/ UNCHANGED web
  BY <1>3, SessionEndsStep
<1> QED
  BY <1>1, <1>2, <1>3 DEF WebNext

THEOREM WebIsSound == WebSpec => []WebIInv
BY WebInitially, WebStep, PTL DEF WebSpec

\* What a page shows and what it waits for fit, in every tab (App.tsx
\* 72-132).
THEOREM WebInvHolds == WebSpec => []WebInv
<1>1. WebIInv => WebInv
  BY DEF WebIInv, WebInv, PageFits
<1> QED
  BY <1>1, WebIsSound, PTL

\* "Signed out" without the warning is true of the server, whatever the
\* other tabs do, if the user clicked at most once (App.tsx 108-132).
THEOREM SignedOutIsTrue == WebSpec => []SignedOutIsHonest
<1>1. WebIInv => SignedOutIsHonest
  BY DEF WebIInv, PageKnows, SignedOutIsHonest
<1> QED
  BY <1>1, WebIsSound, PTL

\* load() and handleLogout() never race for the state: a page that has said
\* it is signed out shows nothing of a signed-in user until it is loaded
\* again.
THEOREM SignedOutIsFinal == WebSpec => SignedOutPagesStay
<1> DEFINE Stays(p) ==
             page[p].view = "signed-out" =>
                \/ page'[p].view \in {"signed-out", "error", "logout-unknown", "away"}
                \/ page'[p].view = "checking-session" /\ page'[p].clicks = 0
<1>1. ASSUME WebIInv, [WebNext]_web, NEW p \in Pages, page[p].view = "signed-out"
      PROVE  \/ page'[p].view \in {"signed-out", "error", "logout-unknown", "away"}
             \/ page'[p].view = "checking-session" /\ page'[p].clicks = 0
  <2>1. /\ page \in [Pages -> Page] /\ page[p] \in Page /\ page[p].waits = "nothing"
    BY <1>1 DEF WebIInv, WebTypeOK, PageFits, Page
  <2>2. ASSUME NEW q \in Pages, Visit(q) \/ Reload(q) \/ Leave(q) \/ SignIn(q)
        PROVE  \/ page'[p] = page[p] \/ page'[p].view = "away"
               \/ page'[p].view = "checking-session" /\ page'[p].clicks = 0
    <3>1. \/ page' = [page EXCEPT ![q] = Away]
          \/ \E url, sent : page' = [page EXCEPT ![q] = Opened(url, sent)]
      BY <2>2 DEF Visit, Reload, Leave, SignIn
    <3>2. Away.view = "away"
      BY DEF Away
    <3>3. \A url, sent : Opened(url, sent).view = "checking-session" /\ Opened(url, sent).clicks = 0
      BY DEF Opened, Away
    <3> QED
      BY <2>1, <3>1, <3>2, <3>3
  <2>3. ASSUME NEW q \in Pages, LoadStep(q) \/ ClickSignOut(q)
        PROVE  page'[p] = page[p]
    <3>1. p # q
      BY <1>1, <2>1, <2>3
         DEF LoadStep, AnswerSession, AnswerDashboard, TakeSession, TakeDashboard, Awaits, Answered,
             ClickSignOut, OffersLogout
    <3> QED
      BY <2>1, <2>3, <3>1
         DEF LoadStep, AnswerSession, AnswerDashboard, TakeSession, TakeDashboard, Settled,
             ClickSignOut
  <2>4. ASSUME NEW q \in Pages, NEW c \in 1 .. MaxClicks[q], LogoutStep(q, c)
        PROVE  page'[p] = page[p] \/ page'[p].view \in {"signed-out", "error", "logout-unknown"}
    BY <2>1, <2>4
       DEF LogoutStep, AnswerLogout, LogoutArrives, LogoutIsLost, TakeLogout, SignedOut, Page
  <2>5. CASE SessionEnds \/ UNCHANGED web
    BY <1>1, <2>5 DEF SessionEnds, web
  <2> QED
    BY <1>1, <2>2, <2>3, <2>4, <2>5 DEF WebNext
<1>2. WebIInv /\ [WebNext]_web => [\A p \in Pages : Stays(p)]_web
  BY <1>1
<1> QED
  BY <1>2, WebIsSound, PTL DEF WebSpec, SignedOutPagesStay

\* A failed sign-in is reported once: no page keeps the address that says so
\* (App.tsx 57-70).
THEOREM NoticesOnce == WebSpec => NoticesAreShownOnce
<1>1. WebIInv /\ [WebNext]_web => [\A p \in Pages : Reload(p) => ~page'[p].notice]_web
  <2>1. SUFFICES ASSUME WebIInv, NEW p \in Pages, Reload(p)
                 PROVE  ~page'[p].notice
    OBVIOUS
  <2>2. page'[p] = Opened(page[p].url, cookie) /\ page[p].url = "plain"
    BY <2>1 DEF Reload, WebIInv, WebTypeOK, PageKnows
  <2> QED
    BY <2>2 DEF Opened, Away
<1> QED
  BY <1>1, WebIsSound, PTL DEF WebSpec, NoticesAreShownOnce
===============================================================================
