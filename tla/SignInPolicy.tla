----------------------------- MODULE SignInPolicy -----------------------------
(***************************************************************************)
(* What signing in promises, without cookies, tabs or messages: an attempt *)
(* is begun by one browser, must be presented before it lapses, is         *)
(* redeemed at the provider once, opens at most one session, and only the  *)
(* browser that began it ever holds that session.  LoginFlow is shown to   *)
(* implement it.                                                           *)
(***************************************************************************)
CONSTANTS Browsers, Attempts, Tokens, None

VARIABLES stage,    \* [Attempts -> how far the attempt has come]
          begunIn,  \* [Attempts -> the browser that began it]
          opened,   \* [Tokens -> the attempt that opened the session]
          held      \* [Browsers -> the session the browser holds]

signIn == <<stage, begunIn, opened, held>>

SignInInit ==
    /\ stage = [a \in Attempts |-> "unused"]
    /\ begunIn = [a \in Attempts |-> None]
    /\ opened = [k \in Tokens |-> None]
    /\ held = [b \in Browsers |-> None]

Move(a, from, to) == stage[a] = from /\ stage' = [stage EXCEPT ![a] = to]

Begin(a, b) ==
    /\ Move(a, "unused", "begun")
    /\ begunIn' = [begunIn EXCEPT ![a] = b]
    /\ UNCHANGED <<opened, held>>

Consent(a) == Move(a, "begun", "consented") /\ UNCHANGED <<begunIn, opened, held>>

\* The attempt is shown to the API in time.
Present(a) == Move(a, "consented", "presented") /\ UNCHANGED <<begunIn, opened, held>>

Redeem(a) ==
    /\ Move(a, "presented", "redeemed") \/ Move(a, "presented", "spent")
    /\ UNCHANGED <<begunIn, opened, held>>

\* The API gives up, on several attempts at once where they wait for the same
\* thing or the process ends: a presented attempt may be presented again, in
\* time; a redeemed one is lost.
GiveUp ==
    /\ \E over \in SUBSET {a \in Attempts : stage[a] \in {"presented", "redeemed"}} :
         \E late \in SUBSET over :
           stage' = [a \in Attempts |->
                       IF a \notin over THEN stage[a]
                       ELSE IF stage[a] = "redeemed" THEN "spent"
                       ELSE IF a \in late THEN "lapsed" ELSE "consented"]
    /\ UNCHANGED <<begunIn, opened, held>>

OpenSession(a, k) ==
    /\ Move(a, "redeemed", "spent")
    /\ opened[k] = None
    /\ opened' = [opened EXCEPT ![k] = a]
    /\ UNCHANGED <<begunIn, held>>

\* Time is up for attempts that have not been presented: it stays up.
Lapse ==
    /\ \E over \in SUBSET {a \in Attempts : stage[a] \in {"begun", "consented"}} :
         stage' = [a \in Attempts |-> IF a \in over THEN "lapsed" ELSE stage[a]]
    /\ UNCHANGED <<begunIn, opened, held>>

Hold(b, k) ==
    /\ opened[k] # None
    /\ begunIn[opened[k]] = b
    /\ held' = [held EXCEPT ![b] = k]
    /\ UNCHANGED <<stage, begunIn, opened>>

Forget(b) == held' = [held EXCEPT ![b] = None] /\ UNCHANGED <<stage, begunIn, opened>>

SignInNext ==
    \/ Lapse \/ GiveUp
    \/ \E a \in Attempts :
         \/ Consent(a) \/ Present(a) \/ Redeem(a)
         \/ \E b \in Browsers : Begin(a, b)
         \/ \E k \in Tokens : OpenSession(a, k)
    \/ \E b \in Browsers : Forget(b) \/ \E k \in Tokens : Hold(b, k)

SignInSpec == SignInInit /\ [][SignInNext]_signIn
===============================================================================
