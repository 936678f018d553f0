-------------------------------- MODULE MCGate --------------------------------
(* Small instances of the request handlers for TLC. *)
EXTENDS GateProperties, TLC

Symmetry == Permutations(Tokens) \cup Permutations(Requests) \cup Permutations(Users)
              \cup Permutations(Identities) \cup Permutations(Workspaces)
===============================================================================
