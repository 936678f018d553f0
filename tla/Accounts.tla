------------------------------- MODULE Accounts -------------------------------
(***************************************************************************)
(* The account tables of packages/db/src/schema.ts, as every connection    *)
(* sees them: committed rows only.  Rows change in two ways.  The          *)
(* provisioning command commits one transaction (Provision; its statements *)
(* are in IdentityProvisioning, which is shown to implement this module);  *)
(* everything else is SQL an operator runs by hand, modelled from what the *)
(* code in src/ allows for: it reads disabled_at, revoked_at and joins on  *)
(* workspaces, and writes none of them.  Nothing in src/ deletes a user,   *)
(* and no operator is assumed to.                                          *)
(***************************************************************************)
CONSTANTS Users,        \* ids the users table may ever hold
          Identities,   \* (issuer, subject) pairs of the identity provider
          Workspaces,   \* ids the workspaces table may ever hold
          None          \* SQL NULL, a missing row, an absent value

ASSUME NoneAssumption == None \notin Users \cup Workspaces \cup Identities

VARIABLES users,        \* [Users -> status of the row]
          identities,   \* [Identities -> the user the identity maps to]
          workspaces,   \* the workspaces that exist
          memberships   \* [Users \X Workspaces -> status of the row]

accounts == <<users, identities, workspaces, memberships>>

\* disabled_at and revoked_at matter to the code only as NULL or not NULL.
UserStatus == {"absent", "enabled", "disabled"}
MembershipStatus == {"none", "active", "revoked"}

AccountsTypeOK ==
    /\ users \in [Users -> UserStatus]
    /\ identities \in [Identities -> Users \cup {None}]
    /\ workspaces \in SUBSET Workspaces
    /\ memberships \in [Users \X Workspaces -> MembershipStatus]

\* The foreign keys: what an identity or a membership refers to has a row.
ReferentialIntegrity ==
    /\ \A i \in Identities : identities[i] # None => users[identities[i]] # "absent"
    /\ \A u \in Users, w \in Workspaces :
         memberships[<<u, w>>] # "none" => users[u] # "absent" /\ w \in workspaces

AccountsInit ==
    /\ users = [u \in Users |-> "absent"]
    /\ identities = [i \in Identities |-> None]
    /\ workspaces = Workspaces
    /\ memberships = [m \in Users \X Workspaces |-> "none"]

-------------------------------------------------------------------------------
(* Queries: each is one statement, so it reads one committed state. *)

\* findUserByIdentity: the user an identity maps to, None without a row.
FindUserByIdentity(i) == identities[i]

\* Mutant (see RequestGate): the where clause forgets the user.
AnyonesMembership(u, w) == \E v \in Users : memberships[<<v, w>>] = "active"

\* hasActiveMembership: a row that is not revoked.
HasActiveMembership(u, w) == memberships[<<u, w>>] = "active"

\* listActiveForUser: the inner join with workspaces drops nothing, by the
\* foreign key.
ListActiveForUser(u) ==
    {w \in Workspaces : w \in workspaces /\ HasActiveMembership(u, w)}

-------------------------------------------------------------------------------
(* Writes *)

\* The commit of one provisioning transaction.  The identity keeps the user it
\* has, or gets a new one; an existing membership row is left as it is (ON
\* CONFLICT DO NOTHING), so a revoked one stays revoked.
Provision(i, u, w) ==
    /\ w \in workspaces
    /\ \/ identities[i] = u /\ UNCHANGED <<users, identities>>
       \/ /\ identities[i] = None
          /\ users[u] = "absent"
          /\ users' = [users EXCEPT ![u] = "enabled"]
          /\ identities' = [identities EXCEPT ![i] = u]
    /\ memberships' =
         [memberships EXCEPT ![<<u, w>>] = IF @ = "none" THEN "active" ELSE @]
    /\ UNCHANGED workspaces

DisableUser(u) ==
    /\ users[u] = "enabled"
    /\ users' = [users EXCEPT ![u] = "disabled"]
    /\ UNCHANGED <<identities, workspaces, memberships>>

EnableUser(u) ==
    /\ users[u] = "disabled"
    /\ users' = [users EXCEPT ![u] = "enabled"]
    /\ UNCHANGED <<identities, workspaces, memberships>>

\* A second provider identity for a user who already exists: the table allows
\* several rows with one user_id, the provisioning command never writes them.
LinkIdentity(i, u) ==
    /\ identities[i] = None
    /\ users[u] # "absent"
    /\ identities' = [identities EXCEPT ![i] = u]
    /\ UNCHANGED <<users, workspaces, memberships>>

RevokeMembership(u, w) ==
    /\ memberships[<<u, w>>] = "active"
    /\ memberships' = [memberships EXCEPT ![<<u, w>>] = "revoked"]
    /\ UNCHANGED <<users, identities, workspaces>>

RestoreMembership(u, w) ==
    /\ memberships[<<u, w>>] = "revoked"
    /\ memberships' = [memberships EXCEPT ![<<u, w>>] = "active"]
    /\ UNCHANGED <<users, identities, workspaces>>

\* ON DELETE CASCADE takes the memberships along.
DeleteWorkspace(w) ==
    /\ w \in workspaces
    /\ workspaces' = workspaces \ {w}
    /\ memberships' = [m \in Users \X Workspaces |->
                         IF m[2] = w THEN "none" ELSE memberships[m]]
    /\ UNCHANGED <<users, identities>>

\* The SQL an operator may run against the account tables at any moment.
OperatorSql ==
    \/ \E u \in Users : DisableUser(u) \/ EnableUser(u)
    \/ \E i \in Identities, u \in Users : LinkIdentity(i, u)
    \/ \E u \in Users, w \in Workspaces :
         RevokeMembership(u, w) \/ RestoreMembership(u, w)
    \/ \E w \in Workspaces : DeleteWorkspace(w)

AccountsNext ==
    \/ OperatorSql
    \/ \E i \in Identities, u \in Users, w \in Workspaces : Provision(i, u, w)

AccountsSpec == AccountsInit /\ [][AccountsNext]_accounts
===============================================================================
