--------------------------------- MODULE MCWeb ---------------------------------
(* A small instance of the web application for TLC. *)
EXTENDS WebApp

CONSTANTS Left, Right

\* The user clicks twice in one of the tabs.
ClicksPerTab == [p \in Pages |-> IF p = Left THEN 2 ELSE 1]
===============================================================================
