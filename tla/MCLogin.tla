-------------------------------- MODULE MCLogin --------------------------------
(* Small instances of signing in for TLC. *)
EXTENDS LoginFlow, TLC

CONSTANTS b1, b2, t1, t2, t3

\* Two tabs of one browser, and one of another.
TwoTabs == (t1 :> b1) @@ (t2 :> b1)
ThreeTabs == (t1 :> b1) @@ (t2 :> b1) @@ (t3 :> b2)

Symmetry == Permutations(Attempts) \cup Permutations(Tokens) \cup Permutations({t1, t2})
===============================================================================
