-------------------------------- MODULE WebApp --------------------------------
(***************************************************************************)
(* The web application (App.tsx and api/): pages of one browser, which     *)
(* share its cookie jar, against the session, dashboard and logout routes. *)
(* A request goes through three steps: the page sends it with the cookie   *)
(* of that moment, the server answers, the page takes the answer.  When    *)
(* the headers of a logout's answer arrive, the browser has dropped the    *)
(* cookie before the page's code runs.                                     *)
(* Leaving a page cancels what it waits for.  What a cancelled logout      *)
(* still does at the server is one of the ways a session ends.             *)
(***************************************************************************)
EXTENDS Naturals

CONSTANTS Pages,      \* tabs of the browser
          Tokens,     \* session tokens the server may issue
          None,
          MaxClicks   \* bound on clicks on "Sign out" per page load, for each tab

ASSUME WebAssumption == None \notin Tokens /\ MaxClicks \in [Pages -> Nat]

VARIABLES page,    \* what App holds, per tab
          logout,  \* calls of logout(), per tab and click
          cookie,  \* the session cookie of the jar
          open     \* tokens whose session the server accepts

web == <<page, logout, cookie, open>>

Calls == UNION {{p} \X (1 .. MaxClicks[p]) : p \in Pages}

Views == {"away", "checking-session", "signed-out", "forbidden", "workspace-selection-required",
          "loading-dashboard", "error", "logout-unknown", "ready"}

Page ==
    [view : Views,
     waits : {"nothing", "session", "dashboard"},        \* what load() awaits
     answer : {"none", "failed", "anonymous", "noWorkspace", "oneWorkspace", "manyWorkspaces",
               "dashboard", "unauthorized", "forbidden"},
     token : Tokens \cup {None},                          \* the cookie it last sent, while
                                                          \* that matters
     clicks : Nat,
     notice : BOOLEAN,                                    \* authenticationError
     warning : BOOLEAN,                                   \* logoutWarning
     url : {"plain", "auth_error", "auth_error_unknown"}]

Logout ==
    [pc : {"none", "sent", "answered", "arrived"},
     token : Tokens \cup {None},
     answer : {"none", "204", "503", "refused"}]

Away == [view |-> "away", waits |-> "nothing", answer |-> "none", token |-> None, clicks |-> 0,
         notice |-> FALSE, warning |-> FALSE, url |-> "plain"]
NoLogout == [pc |-> "none", token |-> None, answer |-> "none"]

WebTypeOK ==
    /\ page \in [Pages -> Page] /\ \A p \in Pages : page[p].clicks <= MaxClicks[p]
    /\ logout \in [Calls -> Logout]
    /\ cookie \in Tokens \cup {None}
    /\ open \subseteq Tokens

WebInit ==
    /\ page = [p \in Pages |-> Away]
    /\ logout = [s \in Calls |-> NoLogout]
    /\ cookie = None
    /\ open = {}

-------------------------------------------------------------------------------
(* Opening and leaving a page *)

\* Mutant: replaceState is forgotten.
LeftUrl(url) == url
CleanedUrl(url) == "plain"

\* Both effects of App: the notice and the URL, and the first fetch of load().
Opened(url, sent) ==
    [Away EXCEPT !.view = "checking-session", !.waits = "session", !.token = sent,
                 !.notice = (url = "auth_error"), !.url = CleanedUrl(url)]

\* The page goes with its calls; controller.abort() sets nothing.
NoLogoutsOf(p) == [s \in Calls |-> IF s[1] = p THEN NoLogout ELSE logout[s]]

\* A typed address may carry any auth_error.
Visit(p) ==
    /\ page[p].view = "away"
    /\ \E url \in {"plain", "auth_error", "auth_error_unknown"} :
         page' = [page EXCEPT ![p] = Opened(url, cookie)]
    /\ UNCHANGED <<logout, cookie, open>>

Reload(p) ==
    /\ page[p].view # "away"
    /\ page' = [page EXCEPT ![p] = Opened(page[p].url, cookie)]
    /\ logout' = NoLogoutsOf(p)
    /\ UNCHANGED <<cookie, open>>

Leave(p) ==
    /\ page[p].view # "away"
    /\ page' = [page EXCEPT ![p] = Away]
    /\ logout' = NoLogoutsOf(p)
    /\ UNCHANGED <<cookie, open>>

\* Random bytes nobody has seen: a token known nowhere stands for a new one.
Fresh ==
    {token \in Tokens \ (open \cup {cookie}) :
        /\ \A p \in Pages : page[p].token # token
        /\ \A s \in Calls : logout[s].token # token}

\* The link "Sign in", as far as the page sees it: straight back with a live
\* session, or back from the callback with a new one or an auth_error.
SignIn(p) ==
    /\ page[p].view = "signed-out"
    /\ logout' = NoLogoutsOf(p)
    /\ \/ /\ cookie \in open
          /\ page' = [page EXCEPT ![p] = Opened("plain", cookie)]
          /\ UNCHANGED <<cookie, open>>
       \/ /\ cookie \notin open
          /\ \E token \in Fresh :
               /\ open' = open \cup {token}
               /\ cookie' = token
               /\ page' = [page EXCEPT ![p] = Opened("plain", token)]
       \/ /\ cookie \notin open
          /\ cookie' = None
          /\ page' = [page EXCEPT ![p] = Opened("auth_error", None)]
          /\ UNCHANGED open

-------------------------------------------------------------------------------
(* load() *)

Awaits(p, what) == page[p].waits = what /\ page[p].answer = "none"
Answered(p, what) == page[p].waits = what /\ page[p].answer # "none"

AnswerSession(p) ==
    /\ Awaits(p, "session")
    /\ \E answer \in {"failed"} \cup
                       (IF page[p].token \in open
                        THEN {"noWorkspace", "oneWorkspace", "manyWorkspaces"} ELSE {"anonymous"}) :
         page' = [page EXCEPT ![p].answer = answer]
    /\ UNCHANGED <<logout, cookie, open>>

AnswerDashboard(p) ==
    /\ Awaits(p, "dashboard")
    /\ \E answer \in {"failed"} \cup
                       (IF page[p].token \in open
                        THEN {"dashboard", "forbidden"} ELSE {"unauthorized"}) :
         page' = [page EXCEPT ![p].answer = answer]
    /\ UNCHANGED <<logout, cookie, open>>

Sent(p, view) == IF view = "signed-out" THEN page[p].token ELSE None

Settled(p, view) ==
    page' = [page EXCEPT ![p].view = view, ![p].waits = "nothing", ![p].answer = "none",
                         ![p].token = Sent(p, view)]

\* getSession, and the branches of load() on what it returns.
TakeSession(p) ==
    /\ Answered(p, "session")
    /\ \/ page[p].answer = "anonymous" /\ Settled(p, "signed-out")
       \/ page[p].answer = "noWorkspace" /\ Settled(p, "forbidden")
       \/ page[p].answer = "manyWorkspaces" /\ Settled(p, "workspace-selection-required")
       \/ page[p].answer = "failed" /\ Settled(p, "error")
       \/ /\ page[p].answer = "oneWorkspace"
          /\ page' = [page EXCEPT ![p].view = "loading-dashboard", ![p].waits = "dashboard",
                                  ![p].answer = "none", ![p].token = cookie]
    /\ UNCHANGED <<logout, cookie, open>>

\* Mutant: the handler knows 401 and 403 only.
TakeDashboardOrStay(p) ==
    /\ Answered(p, "dashboard")
    /\ \/ page[p].answer = "dashboard" /\ Settled(p, "ready")
       \/ page[p].answer = "unauthorized" /\ Settled(p, "signed-out")
       \/ page[p].answer = "forbidden" /\ Settled(p, "forbidden")
       \/ page[p].answer = "failed" /\ Settled(p, "loading-dashboard")
    /\ UNCHANGED <<logout, cookie, open>>

\* getDashboard, and the catch of load().
TakeDashboard(p) ==
    /\ Answered(p, "dashboard")
    /\ \/ page[p].answer = "dashboard" /\ Settled(p, "ready")
       \/ page[p].answer = "unauthorized" /\ Settled(p, "signed-out")
       \/ page[p].answer = "forbidden" /\ Settled(p, "forbidden")
       \/ page[p].answer = "failed" /\ Settled(p, "error")
    /\ UNCHANGED <<logout, cookie, open>>

-------------------------------------------------------------------------------
(* handleLogout() *)

\* Mutant: the button is there as soon as somebody is known to be signed in.
OffersLogoutEarly(p) ==
    page[p].view \in {"ready", "forbidden", "workspace-selection-required", "loading-dashboard"}
OffersLogout(p) == page[p].view \in {"ready", "forbidden", "workspace-selection-required"}

\* The button stays while a call is under way.
ClickSignOut(p) ==
    /\ OffersLogout(p)
    /\ page[p].clicks < MaxClicks[p]
    /\ page' = [page EXCEPT ![p].clicks = @ + 1, ![p].token = cookie]
    /\ logout' = [logout EXCEPT ![<<p, page[p].clicks + 1>>] =
                    [pc |-> "sent", token |-> cookie, answer |-> "none"]]
    /\ UNCHANGED <<cookie, open>>

\* POST /api/auth/logout: refused before anything is done (origin,
\* configuration), or revoked; a failing UPDATE may have been applied.
AnswerLogout(p, c) ==
    LET call == logout[<<p, c>>] IN
    /\ call.pc = "sent"
    /\ \E answer \in {"204", "503", "refused"} :
         /\ logout' = [logout EXCEPT ![<<p, c>>].pc = "answered", ![<<p, c>>].answer = answer]
         /\ \/ answer = "204" /\ open' = open \ {call.token}
            \/ answer = "503" /\ call.token # None /\ open' \in {open, open \ {call.token}}
            \/ answer = "refused" /\ open' = open
    /\ UNCHANGED <<page, cookie>>

\* The headers: an answer that was not refused clears the jar's cookie,
\* whichever it is by then.
LogoutArrives(p, c) ==
    /\ logout[<<p, c>>].pc = "answered"
    /\ logout' = [logout EXCEPT ![<<p, c>>].pc = "arrived"]
    /\ cookie' = IF logout[<<p, c>>].answer = "refused" THEN cookie ELSE None
    /\ UNCHANGED <<page, open>>

\* fetch() fails, before or after the server has done its part.
LogoutIsLost(p, c) ==
    /\ logout[<<p, c>>].pc \in {"sent", "answered"}
    /\ logout' = [logout EXCEPT ![<<p, c>>] = NoLogout]
    /\ page' = [page EXCEPT ![p].view = "logout-unknown", ![p].token = None]
    /\ UNCHANGED <<cookie, open>>

SignedOut(p, warning) ==
    page' = [page EXCEPT ![p].view = "signed-out", ![p].notice = FALSE, ![p].warning = warning]

\* Mutant: any answer of the server is a confirmation.
TakeLogoutAsDone(p, c) ==
    /\ logout[<<p, c>>].pc = "arrived"
    /\ SignedOut(p, FALSE)
    /\ logout' = [logout EXCEPT ![<<p, c>>] = NoLogout]
    /\ UNCHANGED <<cookie, open>>

\* 204, the 503 whose body says AUTH_UNAVAILABLE, or anything else, which
\* includes a 503 whose body does not arrive.
TakeLogout(p, c) ==
    LET call == logout[<<p, c>>] IN
    /\ call.pc = "arrived"
    /\ \/ call.answer = "204" /\ SignedOut(p, FALSE)
       \/ call.answer = "503" /\ SignedOut(p, TRUE)
       \/ call.answer # "204" /\ page' = [page EXCEPT ![p].view = "error", ![p].token = None]
    /\ logout' = [logout EXCEPT ![<<p, c>>] = NoLogout]
    /\ UNCHANGED <<cookie, open>>

-------------------------------------------------------------------------------
\* Expiry, an operator, another browser, or a logout whose page is gone.
SessionEnds ==
    /\ \E token \in open : open' = open \ {token}
    /\ UNCHANGED <<page, logout, cookie>>

LoadStep(p) == AnswerSession(p) \/ AnswerDashboard(p) \/ TakeSession(p) \/ TakeDashboard(p)
LogoutStep(p, c) ==
    AnswerLogout(p, c) \/ LogoutArrives(p, c) \/ LogoutIsLost(p, c) \/ TakeLogout(p, c)

WebNext ==
    \/ \E p \in Pages :
         \/ Visit(p) \/ Reload(p) \/ Leave(p) \/ SignIn(p) \/ ClickSignOut(p)
         \/ LoadStep(p)
         \/ \E c \in 1 .. MaxClicks[p] : LogoutStep(p, c)
    \/ SessionEnds

WebSpec == WebInit /\ [][WebNext]_web

\* Every request is answered or its connection fails, and the browser runs
\* the page's callbacks.
FairWeb ==
    /\ WebSpec
    /\ \A p \in Pages : WF_web(LoadStep(p))
    /\ \A s \in Calls : WF_web(LogoutStep(s[1], s[2]))

-------------------------------------------------------------------------------
(* Properties *)

\* Types, and what a page shows and what it waits for fit: load() has one
\* request under way, and only while the page says it is preparing; calls of
\* logout() are under way only after load() has ended (App.tsx 72-132).
WebInv ==
    /\ WebTypeOK
    /\ \A p \in Pages :
         /\ page[p].waits = "session" <=> page[p].view = "checking-session"
         /\ page[p].waits = "dashboard" <=> page[p].view = "loading-dashboard"
         /\ page[p].waits = "nothing" => page[p].answer = "none"
         /\ \A c \in 1 .. MaxClicks[p] :
              logout[<<p, c>>].pc # "none" => page[p].waits = "nothing" /\ c <= page[p].clicks
         /\ page[p].view \in {"ready", "away"} => ~page[p].warning

\* A page that has said it is signed out does not show a dashboard, or any
\* view only a signed-in user gets, until it is loaded again: load() and
\* handleLogout() never race for the state (App.tsx 72-132).
SignedOutPagesStay ==
    [][\A p \in Pages :
         page[p].view = "signed-out" =>
            \/ page'[p].view \in {"signed-out", "error", "logout-unknown", "away"}
            \/ page'[p].view = "checking-session" /\ page'[p].clicks = 0]_web

\* "Signed out", without the warning that revocation is not confirmed, is
\* true of the server: the session of the cookie the page sent last is over.
\* Only clicks that overlap may take the warning away: the answer to the
\* second, sent without a cookie, is 204 whatever became of the first.
SignedOutIsHonest ==
    \A p \in Pages :
        page[p].view = "signed-out" /\ ~page[p].warning /\ page[p].clicks <= 1
            => page[p].token \notin open

\* A failed sign-in is reported once: reloading the page does not bring the
\* notice back (App.tsx 57-70, App.test.tsx 61).
NoticesAreShownOnce == [][\A p \in Pages : Reload(p) => ~page'[p].notice]_web

\* A user who stops reloading never finds a page preparing for ever, nor a
\* click without an outcome.
UserWaits == <>[][\A p \in Pages : ~Reload(p)]_web
EveryPageSettles ==
    UserWaits =>
        \A p \in Pages :
            /\ []<>(page[p].view \notin {"checking-session", "loading-dashboard"})
            /\ \A c \in 1 .. MaxClicks[p] : []<>(logout[<<p, c>>].pc = "none")
===============================================================================
