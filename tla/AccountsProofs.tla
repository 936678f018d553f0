---------------------------- MODULE AccountsProofs ----------------------------
(* What every change of the account tables preserves. *)
EXTENDS Accounts, TLAPS

\* No statement and no provisioning leaves a row outside its type.
LEMMA AccountsTypePreserved ==
    ASSUME AccountsTypeOK, AccountsNext
    PROVE  AccountsTypeOK'
<1> USE DEF AccountsTypeOK, UserStatus, MembershipStatus
<1>1. ASSUME NEW u \in Users, DisableUser(u) \/ EnableUser(u)
      PROVE  AccountsTypeOK'
  BY <1>1 DEF DisableUser, EnableUser
<1>2. ASSUME NEW i \in Identities, NEW u \in Users, LinkIdentity(i, u)
      PROVE  AccountsTypeOK'
  BY <1>2 DEF LinkIdentity
<1>3. ASSUME NEW u \in Users, NEW w \in Workspaces,
             RevokeMembership(u, w) \/ RestoreMembership(u, w)
      PROVE  AccountsTypeOK'
  BY <1>3 DEF RevokeMembership, RestoreMembership
<1>4. ASSUME NEW w \in Workspaces, DeleteWorkspace(w)
      PROVE  AccountsTypeOK'
  BY <1>4 DEF DeleteWorkspace
<1>5. ASSUME NEW i \in Identities, NEW u \in Users, NEW w \in Workspaces,
             Provision(i, u, w)
      PROVE  AccountsTypeOK'
  BY <1>5 DEF Provision
<1> QED
  BY <1>1, <1>2, <1>3, <1>4, <1>5 DEF AccountsNext, OperatorSql

\* Nor one that refers to a row that is not there: a provisioning creates the
\* user it refers to, and deleting a workspace takes its memberships along.
LEMMA AccountsIntegrityPreserved ==
    ASSUME AccountsTypeOK, ReferentialIntegrity, AccountsNext
    PROVE  ReferentialIntegrity'
<1> USE NoneAssumption DEF AccountsTypeOK, UserStatus, MembershipStatus, ReferentialIntegrity
<1>1. ASSUME NEW u \in Users, DisableUser(u) \/ EnableUser(u)
      PROVE  ReferentialIntegrity'
  BY <1>1 DEF DisableUser, EnableUser
<1>2. ASSUME NEW i \in Identities, NEW u \in Users, LinkIdentity(i, u)
      PROVE  ReferentialIntegrity'
  BY <1>2 DEF LinkIdentity
<1>3. ASSUME NEW u \in Users, NEW w \in Workspaces,
             RevokeMembership(u, w) \/ RestoreMembership(u, w)
      PROVE  ReferentialIntegrity'
  BY <1>3 DEF RevokeMembership, RestoreMembership
<1>4. ASSUME NEW w \in Workspaces, DeleteWorkspace(w)
      PROVE  ReferentialIntegrity'
  BY <1>4 DEF DeleteWorkspace
<1>5. ASSUME NEW i \in Identities, NEW u \in Users, NEW w \in Workspaces,
             Provision(i, u, w)
      PROVE  ReferentialIntegrity'
  BY <1>5 DEF Provision
<1> QED
  BY <1>1, <1>2, <1>3, <1>4, <1>5 DEF AccountsNext, OperatorSql

LEMMA AccountsInitially == AccountsInit => AccountsTypeOK /\ ReferentialIntegrity
BY NoneAssumption DEF AccountsInit, AccountsTypeOK, ReferentialIntegrity, UserStatus,
   MembershipStatus

LEMMA IntegrityStays ==
    ASSUME ReferentialIntegrity, UNCHANGED accounts
    PROVE  ReferentialIntegrity'
BY DEF ReferentialIntegrity, accounts
===============================================================================
