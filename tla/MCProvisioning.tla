---------------------------- MODULE MCProvisioning ----------------------------
(* Small instances of the provisioning command for TLC. *)
EXTENDS IdentityProvisioning, TLC

\* The identity with a lock key of its own: those of all others collide.
CONSTANT Alone

CollidingKeys == [i \in Identities |-> i = Alone]

Symmetry == Permutations(Operators) \cup Permutations(Users)
              \cup Permutations(Identities \ {Alone})
===============================================================================
