-------------------------- MODULE ProvisioningProofs --------------------------
(***************************************************************************)
(* Proofs, for any number of operators, identities and workspaces and any  *)
(* assignment of lock keys, that the provisioning command maintains        *)
(* ProvisioningInv and that its transactions are the atomic Provision of   *)
(* Accounts.                                                               *)
(***************************************************************************)
EXTENDS IdentityProvisioning, AccountsProofs

\* What ProvisioningInv says of the command of one operator.
LEMMA OneCommand ==
    ASSUME ProvisioningInv, NEW o \in Operators
    PROVE  /\ cmd \in [Operators -> Command] /\ cmd[o] \in Command
           /\ Prepared(cmd[o])
           /\ users \in [Users -> UserStatus]
           /\ identities \in [Identities -> Users \cup {None}]
           /\ memberships \in [Users \X Workspaces -> MembershipStatus]
BY DEF ProvisioningInv, ProvisioningTypeOK, AccountsTypeOK, CommandsArePrepared

\* One command moves and no row is committed: the invariant has to be checked
\* for the moving command alone.
LEMMA CommandStep ==
    ASSUME ProvisioningInv, NEW o \in Operators, NEW c \in Command,
           cmd' = [cmd EXCEPT ![o] = c], UNCHANGED accounts,
           Prepared(c),
           c.pc = "done" /\ c.outcome # "failed" =>
               /\ identities[c.identity] = c.user
               /\ c.workspace \in workspaces =>
                    memberships[<<c.user, c.workspace>>] # "none",
           c.pc \notin {"idle", "done"} =>
               \/ Running(o) /\ c.fresh = cmd[o].fresh /\ c.identity = cmd[o].identity
               \/ c.fresh \in NewId(c.identity),
           c.pc \in Transaction => /\ cmd[o].pc \in Transaction \/ LockFree(o)
                                   /\ c.identity = cmd[o].identity,
           c.newIdentity => \/ cmd[o].newIdentity /\ c.identity = cmd[o].identity
                            \/ ~IdentityBusy(o) /\ c.identity = cmd[o].identity,
           c.newMembership => /\ \/ cmd[o].newMembership
                                 \/ ~MembershipBusy(o)
                              /\ c.user = cmd[o].user /\ c.workspace = cmd[o].workspace
    PROVE  ProvisioningInv'
<1> USE DEF ProvisioningInv
<1>1. /\ cmd' \in [Operators -> Command]
      /\ cmd'[o] = c
      /\ \A p \in Operators \ {o} : cmd'[p] = cmd[p]
  BY DEF ProvisioningTypeOK
<1>2. ProvisioningTypeOK'
  BY <1>1 DEF ProvisioningTypeOK, AccountsTypeOK, accounts
<1>3. ReferentialIntegrity'
  BY IntegrityStays
<1>4. FreshIsOwn'
  BY <1>1, NoneAssumption DEF FreshIsOwn, Running, NewId, accounts
<1>5. CommandsArePrepared'
  BY <1>1 DEF CommandsArePrepared, Prepared, accounts
<1>6. UncommittedRowsDiffer'
  BY <1>1 DEF UncommittedRowsDiffer, IdentityBusy, MembershipBusy
<1>7. ReportsAreTrue'
  BY <1>1 DEF ReportsAreTrue, accounts
<1>8. OneTransactionPerKey'
  BY <1>1 DEF OneTransactionPerKey, LockFree
<1> QED
  BY <1>2, <1>3, <1>4, <1>5, <1>6, <1>7, <1>8

LEMMA CommandNames ==
    /\ \A pc \in {"idle", "workspaceExists", "lock", "done", "lookup", "insertUser",
                  "insertIdentity", "insertMembership", "selectMembership", "commit"} :
         pc \in Steps
    /\ \A a \in {"provisioned", "revoked", "failed"} : a \in Outcomes
BY DEF Steps, Transaction, Outcomes

\* Aborting drops the uncommitted rows and reports nothing.
LEMMA AbortStep ==
    ASSUME ProvisioningInv, NEW o \in Operators, Running(o), Abort(o), UNCHANGED accounts
    PROVE  ProvisioningInv'
<1> DEFINE c == [cmd[o] EXCEPT !.pc = "done", !.outcome = "failed",
                               !.newIdentity = FALSE, !.newMembership = FALSE]
<1>1. cmd' = [cmd EXCEPT ![o] = c]
  BY DEF Abort
<1>2. c \in Command
  BY OneCommand, CommandNames DEF Command
<1>3. /\ c.pc = "done" /\ c.outcome = "failed" /\ ~c.newIdentity /\ ~c.newMembership
      /\ c.identity = cmd[o].identity /\ c.workspace = cmd[o].workspace
  BY OneCommand DEF Command
<1>4. Prepared(c)
  BY <1>3, OneCommand DEF Prepared, Running
<1> HIDE DEF c
<1> QED
  BY <1>1, <1>2, <1>3, <1>4, CommandStep DEF Transaction

-------------------------------------------------------------------------------
(* The statements before the commit *)

LEMMA RunPreserves ==
    ASSUME ProvisioningInv, NEW o \in Operators, Run(o)
    PROVE  ProvisioningInv'
<1>1. PICK i \in Identities, w \in Workspaces : \E u \in NewId(i) :
        cmd' = [cmd EXCEPT ![o] = [Idle EXCEPT !.pc = "workspaceExists", !.fresh = u,
                                               !.identity = i, !.workspace = w]]
  BY DEF Run
<1>2. PICK u \in NewId(i) :
        cmd' = [cmd EXCEPT ![o] = [Idle EXCEPT !.pc = "workspaceExists", !.fresh = u,
                                               !.identity = i, !.workspace = w]]
  BY <1>1
<1> DEFINE c == [Idle EXCEPT !.pc = "workspaceExists", !.fresh = u,
                             !.identity = i, !.workspace = w]
<1>3. u \in Users \cup {None}
  BY DEF NewId
<1>4. c \in Command
  BY <1>3, CommandNames DEF Idle, Command
<1>5. /\ c.pc = "workspaceExists" /\ c.identity = i /\ c.workspace = w /\ c.fresh = u
      /\ ~c.newIdentity /\ ~c.newMembership
  BY DEF Idle
<1> HIDE DEF c
<1>6. Prepared(c)
  BY <1>5 DEF Prepared
<1>7. cmd' = [cmd EXCEPT ![o] = c]
  BY <1>2 DEF c
<1> QED
  BY <1>4, <1>5, <1>6, <1>7, CommandStep DEF Run, Transaction

LEMMA WorkspaceExistsPreserves ==
    ASSUME ProvisioningInv, NEW o \in Operators, WorkspaceExists(o)
    PROVE  ProvisioningInv'
<1> DEFINE c == [cmd[o] EXCEPT !.pc = "lock"]
<1>1. cmd[o].pc = "workspaceExists" /\ Running(o) /\ UNCHANGED accounts
  BY DEF WorkspaceExists, At, Running
<1>2. CASE Abort(o)
  BY <1>1, <1>2, AbortStep
<1>3. CASE cmd' = [cmd EXCEPT ![o] = c]
  <2>1. c \in Command
    BY OneCommand, CommandNames DEF Command
  <2>2. /\ c.pc = "lock" /\ c.identity = cmd[o].identity /\ c.workspace = cmd[o].workspace
        /\ c.fresh = cmd[o].fresh /\ c.newIdentity = cmd[o].newIdentity
        /\ c.newMembership = cmd[o].newMembership
    BY OneCommand DEF Command
  <2> HIDE DEF c
  <2>3. Prepared(c)
    BY <1>1, <2>2, OneCommand DEF Prepared
  <2>4. ~c.newIdentity /\ ~c.newMembership
    BY <2>2, <2>3 DEF Prepared
  <2> QED
    BY <1>1, <1>3, <2>1, <2>2, <2>3, <2>4, CommandStep DEF Transaction
<1> QED
  BY <1>2, <1>3 DEF WorkspaceExists

LEMMA LockPreserves ==
    ASSUME ProvisioningInv, NEW o \in Operators, Lock(o)
    PROVE  ProvisioningInv'
<1> DEFINE c == [cmd[o] EXCEPT !.pc = "lookup"]
<1>1. /\ cmd[o].pc = "lock" /\ Running(o) /\ UNCHANGED accounts
      /\ cmd' = [cmd EXCEPT ![o] = c] /\ LockFree(o)
  BY DEF Lock, At, Running
<1>2. c \in Command
  BY OneCommand, CommandNames DEF Command
<1>3. /\ c.pc = "lookup" /\ c.identity = cmd[o].identity /\ c.workspace = cmd[o].workspace
      /\ c.fresh = cmd[o].fresh /\ c.newIdentity = cmd[o].newIdentity
      /\ c.newMembership = cmd[o].newMembership
  BY OneCommand DEF Command
<1> HIDE DEF c
<1>4. Prepared(c)
  BY <1>1, <1>3, OneCommand DEF Prepared
<1>5. ~c.newIdentity /\ ~c.newMembership
  BY <1>3, <1>4 DEF Prepared
<1> QED
  BY <1>1, <1>2, <1>3, <1>4, <1>5, CommandStep DEF Transaction

LEMMA LookupPreserves ==
    ASSUME ProvisioningInv, NEW o \in Operators, Lookup(o)
    PROVE  ProvisioningInv'
<1> DEFINE u == identities[cmd[o].identity]
           new == [cmd[o] EXCEPT !.pc = "insertUser"]
           known == [cmd[o] EXCEPT !.pc = "insertMembership", !.user = u]
<1>1. /\ cmd[o].pc = "lookup" /\ Running(o) /\ UNCHANGED accounts
      /\ cmd[o].identity \in Identities /\ u \in Users \cup {None}
      /\ ~cmd[o].newIdentity /\ ~cmd[o].newMembership
  BY OneCommand DEF Lookup, At, Running, Prepared
<1>2. CASE Abort(o)
  BY <1>1, <1>2, AbortStep
<1>3. CASE u = None /\ cmd' = [cmd EXCEPT ![o] = new]
  <2>1. new \in Command
    BY OneCommand, CommandNames DEF Command
  <2>2. /\ new.pc = "insertUser" /\ new.identity = cmd[o].identity
        /\ new.workspace = cmd[o].workspace /\ new.fresh = cmd[o].fresh
        /\ ~new.newIdentity /\ ~new.newMembership
    BY <1>1, OneCommand DEF Command
  <2>3. cmd[o].fresh \in Users
    BY <1>1, <1>3, OneCommand DEF ProvisioningInv, FreshIsOwn, Command
  <2> HIDE DEF new
  <2>4. Prepared(new)
    BY <1>1, <2>2, <2>3, OneCommand DEF Prepared
  <2> QED
    BY <1>1, <1>3, <2>1, <2>2, <2>4, CommandStep DEF Transaction
<1>4. CASE u # None /\ cmd' = [cmd EXCEPT ![o] = known]
  <2>1. known \in Command
    BY <1>1, OneCommand, CommandNames DEF Command
  <2>2. /\ known.pc = "insertMembership" /\ known.identity = cmd[o].identity
        /\ known.workspace = cmd[o].workspace /\ known.fresh = cmd[o].fresh
        /\ known.user = u /\ ~known.newIdentity /\ ~known.newMembership
    BY <1>1, OneCommand DEF Command
  <2> HIDE DEF known
  <2>3. Prepared(known)
    BY <1>1, <1>4, <2>2, OneCommand DEF Prepared
  <2> QED
    BY <1>1, <1>4, <2>1, <2>2, <2>3, CommandStep DEF Transaction
<1> QED
  BY <1>2, <1>3, <1>4 DEF Lookup, FindUserByIdentity

LEMMA InsertUserPreserves ==
    ASSUME ProvisioningInv, NEW o \in Operators, InsertUser(o)
    PROVE  ProvisioningInv'
<1> DEFINE c == [cmd[o] EXCEPT !.pc = "insertIdentity", !.user = cmd[o].fresh]
<1>1. /\ cmd[o].pc = "insertUser" /\ Running(o) /\ UNCHANGED accounts
      /\ cmd' = [cmd EXCEPT ![o] = c]
  BY DEF InsertUser, At, Running
<1>2. c \in Command
  BY OneCommand, CommandNames DEF Command
<1>3. /\ c.pc = "insertIdentity" /\ c.identity = cmd[o].identity
      /\ c.workspace = cmd[o].workspace /\ c.fresh = cmd[o].fresh
      /\ c.user = c.fresh /\ c.newIdentity = cmd[o].newIdentity
      /\ c.newMembership = cmd[o].newMembership
  BY OneCommand DEF Command
<1> HIDE DEF c
<1>4. Prepared(c) /\ ~c.newIdentity /\ ~c.newMembership
  BY <1>1, <1>3, OneCommand DEF Prepared
<1> QED
  BY <1>1, <1>2, <1>3, <1>4, CommandStep DEF Transaction

LEMMA InsertIdentityPreserves ==
    ASSUME ProvisioningInv, NEW o \in Operators, InsertIdentity(o)
    PROVE  ProvisioningInv'
<1> DEFINE c == [cmd[o] EXCEPT !.pc = "insertMembership", !.newIdentity = TRUE]
<1>1. /\ cmd[o].pc = "insertIdentity" /\ Running(o) /\ UNCHANGED accounts
      /\ ~IdentityBusy(o)
  BY DEF InsertIdentity, At, Running
<1>2. CASE Abort(o)
  BY <1>1, <1>2, AbortStep
<1>3. CASE identities[cmd[o].identity] = None /\ cmd' = [cmd EXCEPT ![o] = c]
  <2>1. c \in Command
    BY OneCommand, CommandNames DEF Command
  <2>2. /\ c.pc = "insertMembership" /\ c.identity = cmd[o].identity
        /\ c.workspace = cmd[o].workspace /\ c.fresh = cmd[o].fresh
        /\ c.user = cmd[o].user /\ c.newIdentity
        /\ c.newMembership = cmd[o].newMembership
    BY OneCommand DEF Command
  <2> HIDE DEF c
  <2>3. Prepared(c) /\ ~c.newMembership
    BY <1>1, <1>3, <2>2, OneCommand DEF Prepared
  <2> QED
    BY <1>1, <1>3, <2>1, <2>2, <2>3, CommandStep DEF Transaction
<1> QED
  BY <1>2, <1>3 DEF InsertIdentity

\* A user no table has yet has no membership either: the foreign keys.
LEMMA InsertMembershipPreserves ==
    ASSUME ProvisioningInv, NEW o \in Operators, InsertMembership(o)
    PROVE  ProvisioningInv'
<1> DEFINE row == memberships[<<cmd[o].user, cmd[o].workspace>>]
           inserts == row = "none"
           c == [cmd[o] EXCEPT !.pc = "selectMembership", !.newMembership = inserts]
<1>1. /\ cmd[o].pc = "insertMembership" /\ Running(o) /\ UNCHANGED accounts
      /\ ~MembershipBusy(o)
  BY DEF InsertMembership, At, Running
<1>2. CASE Abort(o)
  BY <1>1, <1>2, AbortStep
<1>3. CASE (inserts => cmd[o].workspace \in workspaces) /\ cmd' = [cmd EXCEPT ![o] = c]
  <2>1. c \in Command
    BY OneCommand, CommandNames DEF Command
  <2>2. /\ c.pc = "selectMembership" /\ c.identity = cmd[o].identity
        /\ c.workspace = cmd[o].workspace /\ c.fresh = cmd[o].fresh
        /\ c.user = cmd[o].user /\ c.newIdentity = cmd[o].newIdentity
        /\ c.newMembership = inserts
    BY OneCommand DEF Command
  <2>3. cmd[o].newIdentity => row = "none"
    BY <1>1, OneCommand, NoneAssumption
    DEF ProvisioningInv, FreshIsOwn, Prepared, ReferentialIntegrity
  <2> HIDE DEF c
  <2>4. Prepared(c)
    BY <1>1, <1>3, <2>2, <2>3, OneCommand DEF Prepared
  <2> QED
    BY <1>1, <1>3, <2>1, <2>2, <2>4, CommandStep DEF Transaction
<1> QED
  BY <1>2, <1>3 DEF InsertMembership, Inserts

LEMMA SelectMembershipPreserves ==
    ASSUME ProvisioningInv, NEW o \in Operators, SelectMembership(o)
    PROVE  ProvisioningInv'
<1> DEFINE row == IF cmd[o].newMembership THEN "active"
                  ELSE memberships[<<cmd[o].user, cmd[o].workspace>>]
           outcome == IF row = "active" THEN "provisioned" ELSE "revoked"
           c == [cmd[o] EXCEPT !.pc = "commit", !.outcome = outcome]
<1>1. cmd[o].pc = "selectMembership" /\ Running(o) /\ UNCHANGED accounts
  BY DEF SelectMembership, At, Running
<1>2. CASE Abort(o)
  BY <1>1, <1>2, AbortStep
<1>3. CASE row # "none" /\ cmd' = [cmd EXCEPT ![o] = c]
  <2>1. c \in Command
    BY OneCommand, CommandNames DEF Command
  <2>2. /\ c.pc = "commit" /\ c.identity = cmd[o].identity
        /\ c.workspace = cmd[o].workspace /\ c.fresh = cmd[o].fresh
        /\ c.user = cmd[o].user /\ c.newIdentity = cmd[o].newIdentity
        /\ c.newMembership = cmd[o].newMembership
    BY OneCommand DEF Command
  <2> HIDE DEF c
  <2>3. Prepared(c)
    BY <1>1, <1>3, <2>2, OneCommand DEF Prepared
  <2> QED
    BY <1>1, <1>3, <2>1, <2>2, <2>3, CommandStep DEF Transaction
<1> QED
  BY <1>2, <1>3 DEF SelectMembership

-------------------------------------------------------------------------------
(* The commit, and hand-written SQL *)

\* A commit is a Provision of the command's identity, user and workspace, or
\* changes no table.
LEMMA CommitProvisions ==
    ASSUME ProvisioningInv, NEW o \in Operators, Commit(o)
    PROVE  [AccountsNext]_accounts
<1> DEFINE c == cmd[o]
           key == <<c.user, c.workspace>>
<1>1. /\ c.pc = "commit" /\ c.identity \in Identities /\ c.workspace \in Workspaces
      /\ c.user \in Users /\ key \in Users \X Workspaces
      /\ c \in Command
  BY OneCommand DEF Commit, At, Prepared
<1>2. CASE ~c.newIdentity /\ ~c.newMembership
  BY <1>2 DEF Commit, accounts
<1>3. CASE c.newMembership
  <2>1. /\ c.workspace \in workspaces /\ memberships[key] = "none"
        /\ ~c.newIdentity => identities[c.identity] = c.user
        /\ c.newIdentity => identities[c.identity] = None /\ users[c.user] = "absent"
    BY <1>1, <1>3, OneCommand, NoneAssumption
    DEF Prepared, ProvisioningInv, FreshIsOwn, Running
  <2>2. memberships' = [memberships EXCEPT ![key] = IF @ = "none" THEN "active" ELSE @]
    BY <1>1, <1>3, <2>1, OneCommand DEF Commit
  <2>3. Provision(c.identity, c.user, c.workspace)
    <3>1. CASE c.newIdentity
      BY <2>1, <2>2, <3>1 DEF Commit, Provision
    <3>2. CASE ~c.newIdentity
      BY <2>1, <2>2, <3>2 DEF Commit, Provision
    <3> QED
      BY <3>1, <3>2
  <2> QED
    BY <1>1, <2>3 DEF AccountsNext
<1>4. CASE c.newIdentity /\ ~c.newMembership
  BY <1>1, <1>4, OneCommand DEF Prepared
<1> QED
  BY <1>1, <1>2, <1>3, <1>4 DEF Command

LEMMA CommitPreserves ==
    ASSUME ProvisioningInv, NEW o \in Operators, Commit(o)
    PROVE  ProvisioningInv'
<1> DEFINE c == cmd[o]
           key == <<c.user, c.workspace>>
           done == [c EXCEPT !.pc = "done", !.newIdentity = FALSE, !.newMembership = FALSE]
           aborted == [c EXCEPT !.pc = "done", !.outcome = "failed",
                                !.newIdentity = FALSE, !.newMembership = FALSE]
<1>1. /\ c.pc = "commit" /\ c.identity \in Identities /\ c.workspace \in Workspaces
      /\ c.user \in Users /\ key \in Users \X Workspaces
      /\ c \in Command
  BY OneCommand DEF Commit, At, Prepared
<1>2. \E d \in Command :
        /\ cmd' = [cmd EXCEPT ![o] = d]
        /\ d.pc = "done" /\ ~d.newIdentity /\ ~d.newMembership
        /\ d.identity = c.identity /\ d.workspace = c.workspace /\ d.user = c.user
  <2>1. CASE cmd' = [cmd EXCEPT ![o] = done]
    <3>1. /\ done \in Command
          /\ done.pc = "done" /\ ~done.newIdentity /\ ~done.newMembership
          /\ done.identity = c.identity /\ done.workspace = c.workspace
          /\ done.user = c.user
      BY <1>1, CommandNames DEF Command
    <3> HIDE DEF done
    <3> QED
      BY <2>1, <3>1
  <2>2. CASE cmd' = [cmd EXCEPT ![o] = aborted]
    <3>1. /\ aborted \in Command
          /\ aborted.pc = "done" /\ ~aborted.newIdentity /\ ~aborted.newMembership
          /\ aborted.identity = c.identity /\ aborted.workspace = c.workspace
          /\ aborted.user = c.user
      BY <1>1, CommandNames DEF Command
    <3> HIDE DEF aborted
    <3> QED
      BY <2>2, <3>1
  <2> QED
    BY <2>1, <2>2 DEF Commit, Abort
<1>3. PICK d \in Command :
        /\ cmd' = [cmd EXCEPT ![o] = d]
        /\ d.pc = "done" /\ ~d.newIdentity /\ ~d.newMembership
        /\ d.identity = c.identity /\ d.workspace = c.workspace /\ d.user = c.user
  BY <1>2
<1> HIDE DEF done, aborted
<1>4. /\ cmd' \in [Operators -> Command] /\ cmd'[o] = d
      /\ \A p \in Operators \ {o} : cmd'[p] = cmd[p]
  BY <1>3, OneCommand
<1>5. AccountsTypeOK' /\ ReferentialIntegrity'
  BY CommitProvisions, AccountsTypePreserved, AccountsIntegrityPreserved, IntegrityStays
  DEF ProvisioningInv, ProvisioningTypeOK, AccountsTypeOK, accounts
<1>6. /\ workspaces' = workspaces
      /\ c.newIdentity => c.user = c.fresh /\ identities[c.identity] = None
      /\ \A u \in Users : users'[u] = users[u] \/ (c.newIdentity /\ u = c.user)
      /\ \A i \in Identities : \/ identities'[i] = identities[i]
                               \/ c.newIdentity /\ i = c.identity /\ identities'[i] = c.user
      /\ \A m \in Users \X Workspaces :
           \/ memberships'[m] = memberships[m]
           \/ c.newMembership /\ m = key /\ memberships'[m] = "active"
  BY <1>1, OneCommand DEF Commit, Prepared
<1>7. /\ identities'[c.identity] = c.user
      /\ c.workspace \in workspaces => memberships'[key] # "none"
  BY <1>1, OneCommand DEF Commit, Prepared
<1> HIDE DEF key
<1>8. FreshIsOwn'
  <2>1. \A p \in Operators \ {o} : Running(p) => cmd[p].fresh = None \/ cmd[p].fresh # c.fresh
    BY <1>1 DEF ProvisioningInv, FreshIsOwn, Running
  <2>2. \A p \in Operators : cmd[p].fresh \in Users \cup {None} /\ (Running(p) => cmd[p].identity \in Identities)
    BY OneCommand DEF Command, Prepared, Running
  <2> QED
    BY <1>1, <1>3, <1>4, <1>6, <2>1, <2>2, NoneAssumption
    DEF ProvisioningInv, FreshIsOwn, Running
<1>9. CommandsArePrepared'
  <2> SUFFICES ASSUME NEW p \in Operators PROVE Prepared(cmd[p])'
    BY DEF CommandsArePrepared
  <2>1. CASE p = o
    BY <1>1, <1>3, <1>4, <2>1 DEF Prepared
  <2>2. CASE p # o
    <3>1. Prepared(cmd[p]) /\ cmd'[p] = cmd[p] /\ cmd[p] \in Command
      BY <1>4, <2>2, OneCommand
    <3>2. /\ c.newIdentity /\ cmd[p].newIdentity => cmd[p].identity # c.identity
          /\ c.newMembership /\ cmd[p].newMembership =>
               <<cmd[p].user, cmd[p].workspace>> # key
      BY <2>2 DEF ProvisioningInv, UncommittedRowsDiffer, key
    <3> QED
      BY <1>1, <1>6, <3>1, <3>2, NoneAssumption DEF Prepared
  <2> QED
    BY <2>1, <2>2
<1>10. UncommittedRowsDiffer'
  BY <1>3, <1>4 DEF ProvisioningInv, UncommittedRowsDiffer
<1>11. ReportsAreTrue'
  <2> SUFFICES ASSUME NEW p \in Operators, cmd'[p].pc = "done", cmd'[p].outcome # "failed"
      PROVE  /\ identities'[cmd'[p].identity] = cmd'[p].user
             /\ cmd'[p].workspace \in workspaces' =>
                  memberships'[<<cmd'[p].user, cmd'[p].workspace>>] # "none"
    BY DEF ReportsAreTrue
  <2>1. CASE p = o
    BY <1>3, <1>4, <1>6, <1>7, <2>1 DEF key
  <2>2. CASE p # o
    <3>1. /\ cmd'[p] = cmd[p] /\ cmd[p].identity \in Identities
          /\ cmd[p].workspace \in Workspaces /\ cmd[p].user \in Users
      BY <1>4, <2>2, OneCommand DEF Prepared
    <3> QED
      BY <1>6, <2>2, <3>1, NoneAssumption DEF ProvisioningInv, ReportsAreTrue
  <2> QED
    BY <2>1, <2>2
<1>12. OneTransactionPerKey'
  BY <1>3, <1>4 DEF ProvisioningInv, OneTransactionPerKey, Transaction
<1> QED
  BY <1>4, <1>5, <1>8, <1>9, <1>10, <1>11, <1>12 DEF ProvisioningInv, ProvisioningTypeOK

\* Hand-written SQL neither creates nor takes what a transaction relies on.
LEMMA ManualSqlPreserves ==
    ASSUME ProvisioningInv, ManualSql
    PROVE  ProvisioningInv'
<1>1. /\ AccountsTypeOK' /\ ReferentialIntegrity' /\ UNCHANGED cmd
      /\ AccountsTypeOK /\ OperatorSql
  BY AccountsTypePreserved, AccountsIntegrityPreserved
  DEF ManualSql, AccountsNext, ProvisioningInv, ProvisioningTypeOK
<1>2. /\ \A u \in Users : users[u] = "absent" => users'[u] = "absent"
      /\ \A i \in Identities : identities[i] # None => identities'[i] = identities[i]
      /\ workspaces' \subseteq workspaces
      /\ \A u \in Users, w \in workspaces' :
           (memberships'[<<u, w>>] = "none") <=> (memberships[<<u, w>>] = "none")
  <2> USE DEF AccountsTypeOK, UserStatus, MembershipStatus
  <2>1. ASSUME NEW u \in Users, DisableUser(u) \/ EnableUser(u) PROVE <1>2
    BY <1>1, <2>1 DEF DisableUser, EnableUser
  <2>2. ASSUME NEW i \in Identities, NEW u \in Users, LinkIdentity(i, u) PROVE <1>2
    BY <1>1, <2>2 DEF LinkIdentity
  <2>3. ASSUME NEW u \in Users, NEW w \in Workspaces,
               RevokeMembership(u, w) \/ RestoreMembership(u, w) PROVE <1>2
    BY <1>1, <2>3 DEF RevokeMembership, RestoreMembership
  <2>4. ASSUME NEW w \in Workspaces, DeleteWorkspace(w) PROVE <1>2
    BY <1>1, <2>4 DEF DeleteWorkspace
  <2> QED
    BY <1>1, <2>1, <2>2, <2>3, <2>4 DEF OperatorSql
<1>3. FreshIsOwn'
  BY <1>1, <1>2, OneCommand DEF ProvisioningInv, FreshIsOwn, Running, Command, Prepared
<1>4. CommandsArePrepared'
  <2> SUFFICES ASSUME NEW o \in Operators PROVE Prepared(cmd[o])'
    BY DEF CommandsArePrepared
  <2>1. /\ cmd[o].newMembership => cmd[o].workspace \in workspaces'
        /\ cmd[o].newIdentity => identities'[cmd[o].identity] = None
    BY DEF ManualSql, WaitsForRows
  <2> QED
    BY <1>1, <1>2, <2>1, OneCommand, NoneAssumption DEF Prepared, Command
<1>5. UncommittedRowsDiffer'
  BY <1>1 DEF ProvisioningInv, UncommittedRowsDiffer
<1>6. ReportsAreTrue'
  BY <1>1, <1>2, OneCommand, NoneAssumption DEF ProvisioningInv, ReportsAreTrue, Prepared
<1>7. OneTransactionPerKey'
  BY <1>1 DEF ProvisioningInv, OneTransactionPerKey
<1> QED
  BY <1>1, <1>3, <1>4, <1>5, <1>6, <1>7 DEF ProvisioningInv, ProvisioningTypeOK

-------------------------------------------------------------------------------
(* The specification *)

LEMMA FailPreserves ==
    ASSUME ProvisioningInv, NEW o \in Operators, Fail(o)
    PROVE  ProvisioningInv'
BY AbortStep DEF Fail

LEMMA ProvisioningInvInitially == ProvisioningInit => ProvisioningInv
<1> SUFFICES ASSUME ProvisioningInit PROVE ProvisioningInv
  OBVIOUS
<1>1. Idle \in Command
  BY CommandNames DEF Idle, Command
<1>2. ProvisioningTypeOK /\ ReferentialIntegrity
  BY <1>1, AccountsInitially DEF ProvisioningInit, ProvisioningTypeOK
<1>3. Prepared(Idle)
  BY DEF Prepared, Idle
<1>4. FreshIsOwn /\ CommandsArePrepared /\ UncommittedRowsDiffer
  BY <1>3 DEF ProvisioningInit, FreshIsOwn, Running, CommandsArePrepared,
     UncommittedRowsDiffer, Idle
<1>5. OneTransactionPerKey /\ ReportsAreTrue
  BY DEF ProvisioningInit, OneTransactionPerKey, Transaction, ReportsAreTrue, Idle
<1> QED
  BY <1>2, <1>4, <1>5 DEF ProvisioningInv

LEMMA ProvisioningInvPreserved ==
    ProvisioningInv /\ [ProvisioningNext]_provisioning => ProvisioningInv'
<1> SUFFICES ASSUME ProvisioningInv, [ProvisioningNext]_provisioning
    PROVE ProvisioningInv'
  OBVIOUS
<1>1. ASSUME NEW o \in Operators, Run(o) \/ Proceed(o) \/ Fail(o)
      PROVE  ProvisioningInv'
  BY <1>1, RunPreserves, WorkspaceExistsPreserves, LockPreserves, LookupPreserves,
     InsertUserPreserves, InsertIdentityPreserves, InsertMembershipPreserves,
     SelectMembershipPreserves, CommitPreserves, FailPreserves DEF Proceed
<1>2. CASE UNCHANGED provisioning
  BY <1>2 DEF provisioning, accounts, ProvisioningInv, ProvisioningTypeOK,
     AccountsTypeOK, ReferentialIntegrity, FreshIsOwn, Running, CommandsArePrepared,
     Prepared, UncommittedRowsDiffer, OneTransactionPerKey, ReportsAreTrue
<1> QED
  BY <1>1, <1>2, ManualSqlPreserves DEF ProvisioningNext

\* ProvisioningInv holds in every reachable state, for any number of operators.
THEOREM ProvisioningInvariant == ProvisioningSpec => []ProvisioningInv
BY ProvisioningInvInitially, ProvisioningInvPreserved, PTL DEF ProvisioningSpec

\* A command that reports success reports what the tables hold.
THEOREM ReportsHold == ProvisioningSpec => []ReportsAreTrue
<1>1. ProvisioningInv => ReportsAreTrue
  BY DEF ProvisioningInv
<1> QED
  BY <1>1, ProvisioningInvariant, PTL

\* The statements of concurrent commands implement the atomic Provision that
\* the request handlers are checked against.
THEOREM CommandsImplementAccounts == ProvisioningSpec => ImplementsAccounts
<1>1. ProvisioningInit => AccountsInit
  BY DEF ProvisioningInit
<1>2. ProvisioningInv /\ [ProvisioningNext]_provisioning => [AccountsNext]_accounts
  <2> SUFFICES ASSUME ProvisioningInv, [ProvisioningNext]_provisioning
      PROVE [AccountsNext]_accounts
    OBVIOUS
  <2>1. ASSUME NEW o \in Operators, Run(o) \/ Fail(o) \/ (Proceed(o) /\ ~Commit(o))
        PROVE  UNCHANGED accounts
    BY <2>1 DEF Run, Fail, Proceed, WorkspaceExists, Lock, Lookup, InsertUser,
       InsertIdentity, InsertMembership, SelectMembership
  <2> QED
    BY <2>1, CommitProvisions DEF ProvisioningNext, Proceed, ManualSql, AccountsNext,
       provisioning
<1> QED
  BY <1>1, <1>2, ProvisioningInvariant, PTL
  DEF ProvisioningSpec, ImplementsAccounts, AccountsSpec

\* No command gives a user to an identity another one has just looked up.
THEOREM LookupsHold == ProvisioningSpec => LookupsStayTrue
<1> DEFINE Stays(o) ==
      /\ cmd[o].pc \in {"insertUser", "insertIdentity"}
      /\ identities[cmd[o].identity] = None
      /\ identities'[cmd[o].identity] # None
      => UNCHANGED cmd
<1>1. ProvisioningInv /\ [ProvisioningNext]_provisioning
        => [\A o \in Operators : Stays(o)]_provisioning
  <2> SUFFICES ASSUME ProvisioningInv, [ProvisioningNext]_provisioning,
                      NEW o \in Operators
      PROVE Stays(o)
    OBVIOUS
  <2>1. ASSUME NEW p \in Operators, Commit(p) PROVE Stays(o)
    <3> SUFFICES ASSUME cmd[o].pc \in {"insertUser", "insertIdentity"},
                        identities'[cmd[o].identity] # identities[cmd[o].identity]
        PROVE FALSE
      OBVIOUS
    <3>1. cmd[p].pc = "commit" /\ o # p
      BY <2>1 DEF Commit, At
    <3>2. cmd[o].identity \in Identities
      BY OneCommand DEF Prepared
    <3>3. cmd[o].identity = cmd[p].identity
      BY <2>1, <3>2, OneCommand DEF Commit
    <3> QED
      BY <3>1, <3>3 DEF ProvisioningInv, OneTransactionPerKey, Transaction
  <2>2. ASSUME NEW p \in Operators, Run(p) \/ Fail(p) \/ (Proceed(p) /\ ~Commit(p))
        PROVE  UNCHANGED identities
    BY <2>2 DEF Run, Fail, Proceed, WorkspaceExists, Lock, Lookup, InsertUser,
       InsertIdentity, InsertMembership, SelectMembership, accounts
  <2>3. ManualSql => UNCHANGED cmd
    BY DEF ManualSql
  <2> QED
    BY <2>1, <2>2, <2>3 DEF ProvisioningNext, Proceed, provisioning
<1> QED
  BY <1>1, ProvisioningInvariant, PTL DEF ProvisioningSpec, LookupsStayTrue

\* Only hand-written SQL reactivates a membership.
THEOREM RevokedStaysRevoked == ProvisioningSpec => NothingIsReactivated
<1> DEFINE Stays(m) == memberships[m] = "revoked" /\ memberships'[m] = "active"
                         => UNCHANGED cmd
<1>1. ProvisioningInv /\ [ProvisioningNext]_provisioning
        => [\A m \in Users \X Workspaces : Stays(m)]_provisioning
  <2> SUFFICES ASSUME ProvisioningInv, [ProvisioningNext]_provisioning,
                      NEW m \in Users \X Workspaces
      PROVE Stays(m)
    OBVIOUS
  <2>1. ASSUME NEW p \in Operators, Commit(p), memberships[m] # "none"
        PROVE  memberships'[m] = memberships[m]
    BY <2>1, OneCommand DEF Commit, Prepared
  <2>2. ASSUME NEW p \in Operators, Run(p) \/ Fail(p) \/ (Proceed(p) /\ ~Commit(p))
        PROVE  UNCHANGED memberships
    BY <2>2 DEF Run, Fail, Proceed, WorkspaceExists, Lock, Lookup, InsertUser,
       InsertIdentity, InsertMembership, SelectMembership, accounts
  <2>3. ManualSql => UNCHANGED cmd
    BY DEF ManualSql
  <2> QED
    BY <2>1, <2>2, <2>3 DEF ProvisioningNext, Proceed, provisioning
<1> QED
  BY <1>1, ProvisioningInvariant, PTL DEF ProvisioningSpec, NothingIsReactivated
===============================================================================
