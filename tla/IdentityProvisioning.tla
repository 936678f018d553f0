------------------------- MODULE IdentityProvisioning -------------------------
(***************************************************************************)
(* The provisioning command (pnpm auth:provision), run by several          *)
(* operators at once: each action is one statement of the transaction in   *)
(* identity-provisioning-repository.ts, against the committed tables of    *)
(* Accounts and the transaction's own uncommitted rows.  PostgreSQL runs   *)
(* it READ COMMITTED: a statement sees what was committed when it starts,  *)
(* an insert waits for an uncommitted row with the same key, and an        *)
(* uncommitted membership keeps its workspace from being deleted (foreign  *)
(* key), while nothing keeps its user from being disabled.                 *)
(***************************************************************************)
EXTENDS Accounts

CONSTANTS Operators,  \* processes running the command
          LockOf      \* [Identities -> key]: hashtextextended of the identity

VARIABLE cmd          \* [Operators -> state of the command]

provisioning == <<accounts, cmd>>

\* Between pg_advisory_xact_lock and the end of the transaction.
Transaction == {"lookup", "insertUser", "insertIdentity", "insertMembership",
                "selectMembership", "commit"}
Steps == {"idle", "workspaceExists", "lock", "done"} \cup Transaction
Outcomes == {"provisioned", "revoked", "failed"}

Command ==
    [pc : Steps,
     identity : Identities \cup {None},
     workspace : Workspaces \cup {None},
     fresh : Users \cup {None},      \* the id it generates if it needs one
     user : Users \cup {None},       \* found or inserted
     newIdentity : BOOLEAN,          \* uncommitted users and external_identities rows
     newMembership : BOOLEAN,        \* uncommitted workspace_memberships row
     outcome : Outcomes \cup {None}]

Idle == [pc |-> "idle", identity |-> None, workspace |-> None, fresh |-> None,
         user |-> None, newIdentity |-> FALSE, newMembership |-> FALSE,
         outcome |-> None]

ProvisioningTypeOK == AccountsTypeOK /\ cmd \in [Operators -> Command]

ProvisioningInit == AccountsInit /\ cmd = [o \in Operators |-> Idle]

-------------------------------------------------------------------------------
At(o, pc) == cmd[o].pc = pc

\* Mutant (see RequestGate): the lock is not taken.
LockSkipped(o) == TRUE

\* The advisory lock of the identity, held by no other transaction.
LockFree(o) ==
    \A p \in Operators \ {o} :
        ~(cmd[p].pc \in Transaction
            /\ LockOf[cmd[p].identity] = LockOf[cmd[o].identity])

\* Another transaction has inserted a row with this key and not committed.
IdentityBusy(o) ==
    \E p \in Operators \ {o} :
        cmd[p].newIdentity /\ cmd[p].identity = cmd[o].identity
\* Mutant: the insert takes a lock on the table that other transactions share.
TableBusy(o) ==
    \E p \in Operators \ {o} :
        cmd[p].pc \in {"insertMembership", "selectMembership", "commit"}
\* Mutant: the insert does not see uncommitted rows, and waits for none.
NeverBusy(o) == FALSE
MembershipBusy(o) ==
    \E p \in Operators \ {o} :
        /\ cmd[p].newMembership
        /\ <<cmd[p].user, cmd[p].workspace>> = <<cmd[o].user, cmd[o].workspace>>

Running(o) == cmd[o].pc \notin {"idle", "done"}

\* gen_random_uuid: an id no row has and no running command will generate.
\* Taken when the command starts, so that Users bounds the commands for new
\* identities; a known identity stays known, and its commands need none.
NewId(i) ==
    IF identities[i] # None THEN {None}
    ELSE {u \in Users : /\ users[u] = "absent"
                        /\ \A p \in Operators : Running(p) => cmd[p].fresh # u}

\* Mutant: the statements run outside a transaction, and what was inserted stays.
AbortKeepingRows(o) == cmd' = [cmd EXCEPT ![o].pc = "done", ![o].outcome = "failed"]

\* The transaction is rolled back, or there is none yet.
Abort(o) ==
    cmd' = [cmd EXCEPT ![o].pc = "done", ![o].outcome = "failed",
                       ![o].newIdentity = FALSE, ![o].newMembership = FALSE]

-------------------------------------------------------------------------------
Run(o) ==
    /\ ~Running(o)
    /\ \E i \in Identities, w \in Workspaces : \E u \in NewId(i) :
         cmd' = [cmd EXCEPT ![o] = [Idle EXCEPT !.pc = "workspaceExists", !.fresh = u,
                                                !.identity = i, !.workspace = w]]
    /\ UNCHANGED accounts

WorkspaceExists(o) ==
    /\ At(o, "workspaceExists")
    /\ \/ /\ cmd[o].workspace \in workspaces
          /\ cmd' = [cmd EXCEPT ![o].pc = "lock"]
       \/ /\ cmd[o].workspace \notin workspaces
          /\ Abort(o)
    /\ UNCHANGED accounts

Lock(o) ==
    /\ At(o, "lock")
    /\ LockFree(o)
    /\ cmd' = [cmd EXCEPT ![o].pc = "lookup"]
    /\ UNCHANGED accounts

\* The lookup takes no row lock: what it read may change before the commit.
Lookup(o) ==
    /\ At(o, "lookup")
    /\ LET u == FindUserByIdentity(cmd[o].identity) IN
         \/ /\ u = None
            /\ cmd' = [cmd EXCEPT ![o].pc = "insertUser"]
         \/ /\ u # None /\ users[u] = "disabled"
            /\ Abort(o)
         \/ /\ u # None /\ users[u] # "disabled"
            /\ cmd' = [cmd EXCEPT ![o].pc = "insertMembership", ![o].user = u]
    /\ UNCHANGED accounts

InsertUser(o) ==
    /\ At(o, "insertUser")
    /\ cmd' = [cmd EXCEPT ![o].pc = "insertIdentity", ![o].user = cmd[o].fresh]
    /\ UNCHANGED accounts

\* Mutant: ON CONFLICT DO NOTHING, and the row that is there is not read.
InsertIdentityOrNothing(o) ==
    /\ At(o, "insertIdentity")
    /\ ~IdentityBusy(o)
    /\ cmd' = [cmd EXCEPT ![o].pc = "insertMembership",
                          ![o].newIdentity = identities[cmd[o].identity] = None]
    /\ UNCHANGED accounts

\* Without ON CONFLICT: a row that is there aborts the transaction.
InsertIdentity(o) ==
    /\ At(o, "insertIdentity")
    /\ ~IdentityBusy(o)
    /\ \/ /\ identities[cmd[o].identity] = None
          /\ cmd' = [cmd EXCEPT ![o].pc = "insertMembership", ![o].newIdentity = TRUE]
       \/ /\ identities[cmd[o].identity] # None
          /\ Abort(o)
    /\ UNCHANGED accounts

\* Mutant: ON CONFLICT DO UPDATE SET revoked_at = NULL.
Upserts(c) == TRUE
Inserts(c) == memberships[<<c.user, c.workspace>>] = "none"

\* ON CONFLICT DO NOTHING; without a conflict, the workspace must still exist.
InsertMembership(o) ==
    /\ At(o, "insertMembership")
    /\ ~MembershipBusy(o)
    /\ \/ /\ Inserts(cmd[o]) => cmd[o].workspace \in workspaces
          /\ cmd' = [cmd EXCEPT ![o].pc = "selectMembership",
                                ![o].newMembership = Inserts(cmd[o])]
       \/ /\ Inserts(cmd[o]) /\ cmd[o].workspace \notin workspaces
          /\ Abort(o)
    /\ UNCHANGED accounts

\* The row inserted, or the one that was there: it may be gone by now.
SelectMembership(o) ==
    /\ At(o, "selectMembership")
    /\ LET c == cmd[o]
           row == IF c.newMembership THEN "active"
                                     ELSE memberships[<<c.user, c.workspace>>]
       IN  \/ /\ row = "none"
              /\ Abort(o)
           \/ /\ row # "none"
              /\ cmd' = [cmd EXCEPT ![o].pc = "commit",
                           ![o].outcome = IF row = "active" THEN "provisioned"
                                                            ELSE "revoked"]
    /\ UNCHANGED accounts

\* The rows become visible together, whether or not the command hears of it.
Commit(o) ==
    /\ At(o, "commit")
    /\ LET c == cmd[o] IN
         /\ users' = IF c.newIdentity THEN [users EXCEPT ![c.user] = "enabled"]
                                      ELSE users
         /\ identities' = IF c.newIdentity
                          THEN [identities EXCEPT ![c.identity] = c.user]
                          ELSE identities
         /\ memberships' = IF c.newMembership
                           THEN [memberships EXCEPT ![<<c.user, c.workspace>>] = "active"]
                           ELSE memberships
    /\ \/ cmd' = [cmd EXCEPT ![o].pc = "done", ![o].newIdentity = FALSE,
                             ![o].newMembership = FALSE]
       \/ Abort(o)
    /\ UNCHANGED workspaces

\* statement_timeout, a lost connection or the death of the process.
Fail(o) ==
    /\ Running(o)
    /\ Abort(o)
    /\ UNCHANGED accounts

\* Mutant: workspace_id without a foreign key.
WaitsForIdentities ==
    \A o \in Operators : cmd[o].newIdentity => identities'[cmd[o].identity] = None

\* A statement waits for the rows transactions hold: it neither deletes the
\* workspace of an uncommitted membership nor links an identity that is being
\* inserted.
WaitsForRows ==
    \A o \in Operators :
        /\ cmd[o].newMembership => cmd[o].workspace \in workspaces'
        /\ cmd[o].newIdentity => identities'[cmd[o].identity] = None

ManualSql == OperatorSql /\ WaitsForRows /\ UNCHANGED cmd

-------------------------------------------------------------------------------
Proceed(o) ==
    \/ WorkspaceExists(o) \/ Lock(o) \/ Lookup(o) \/ InsertUser(o)
    \/ InsertIdentity(o) \/ InsertMembership(o) \/ SelectMembership(o) \/ Commit(o)

ProvisioningNext ==
    \/ \E o \in Operators : Run(o) \/ Proceed(o) \/ Fail(o)
    \/ ManualSql

ProvisioningSpec == ProvisioningInit /\ [][ProvisioningNext]_provisioning

\* PostgreSQL grants locks in the order they were asked for, so a statement
\* that can run time and again does run: the database has not fallen silent,
\* and no timeout is relied upon.
FairProvisioning ==
    ProvisioningSpec /\ \A o \in Operators : SF_provisioning(Proceed(o))

-------------------------------------------------------------------------------
(* Properties *)

\* Seen from the tables, a command is the one atomic Provision of Accounts,
\* or nothing: no partial provisioning survives, an identity keeps its user
\* and no row outlives or precedes the workspace and user it refers to
\* (identity-provisioning-repository.ts provisionIdentityAndMembership).
ImplementsAccounts == AccountsSpec

\* What a command reports is so: the identity belongs to the user it
\* provisioned, however many commands and hand-written statements raced for
\* it, and while the workspace exists that user has a row for it.
ReportsAreTrue ==
    \A o \in Operators :
        cmd[o].pc = "done" /\ cmd[o].outcome # "failed" =>
            /\ identities[cmd[o].identity] = cmd[o].user
            /\ cmd[o].workspace \in workspaces =>
                 memberships[<<cmd[o].user, cmd[o].workspace>>] # "none"

\* "Workspace membership is revoked and was not reactivated"
\* (operator-provisioning.ts): only hand-written SQL reactivates one, however
\* the revocation and the command's statements interleave.
NothingIsReactivated ==
    [][\A m \in Users \X Workspaces :
         memberships[m] = "revoked" /\ memberships'[m] = "active"
            => UNCHANGED cmd]_provisioning

\* What the advisory lock is for: an identity a command has looked up and not
\* found is never given a user by another command before the first inserts
\* it, so two commands for one identity both succeed.  Hand-written SQL,
\* which takes no lock, may still get in between.
LookupsStayTrue ==
    [][\A o \in Operators :
         /\ cmd[o].pc \in {"insertUser", "insertIdentity"}
         /\ identities[cmd[o].identity] = None
         /\ identities'[cmd[o].identity] # None
         => UNCHANGED cmd]_provisioning

\* Commands that run at once do not wait for each other for ever: the advisory
\* lock is taken before any row, and a transaction that waits for a membership
\* row another has inserted holds none that the other could still wait for
\* (identity-provisioning-repository.ts, lock and inserts).
EveryCommandEnds == \A o \in Operators : Running(o) ~> cmd[o].pc = "done"

\* "Cannot provision a disabled identity" (DisabledIdentityProvisioningError):
\* no membership is created for a user who is disabled.
DisabledAreNotProvisioned ==
    [][\A u \in Users, w \in Workspaces :
         memberships[<<u, w>>] = "none" /\ memberships'[<<u, w>>] = "active"
            => users[u] # "disabled"]_provisioning

-------------------------------------------------------------------------------
(* The inductive invariant *)

\* A new id is nobody else's, and a command without one needs none.
FreshIsOwn ==
    /\ \A o \in Operators : Running(o) =>
         IF cmd[o].fresh = None THEN identities[cmd[o].identity] # None
                                ELSE users[cmd[o].fresh] = "absent"
    /\ \A o, p \in Operators :
         o # p /\ Running(o) /\ Running(p) /\ cmd[o].fresh = cmd[p].fresh
            => cmd[o].fresh = None

\* What a command holds at each statement of its transaction.
Prepared(c) ==
    /\ c.pc # "idle" => c.identity \in Identities /\ c.workspace \in Workspaces
    /\ c.pc \in {"insertUser", "insertIdentity"} => c.fresh \in Users
    /\ c.pc = "insertIdentity" \/ c.newIdentity => c.user = c.fresh /\ c.fresh \in Users
    /\ c.pc \in {"insertMembership", "selectMembership", "commit"} =>
         c.user \in Users /\ (c.newIdentity \/ identities[c.identity] = c.user)
    /\ c.pc = "done" /\ c.outcome # "failed" => c.user \in Users
    /\ c.newIdentity =>
         /\ c.pc \in {"insertMembership", "selectMembership", "commit"}
         /\ identities[c.identity] = None
         /\ c.pc # "insertMembership" => c.newMembership
    /\ c.newMembership =>
         /\ c.pc \in {"selectMembership", "commit"}
         /\ c.workspace \in workspaces
         /\ memberships[<<c.user, c.workspace>>] = "none"
    /\ c.pc = "commit" /\ c.workspace \in workspaces =>
         c.newMembership \/ memberships[<<c.user, c.workspace>>] # "none"

CommandsArePrepared == \A o \in Operators : Prepared(cmd[o])

\* No two transactions hold an uncommitted row with one key.
UncommittedRowsDiffer ==
    \A o, p \in Operators : o # p =>
        /\ cmd[o].newIdentity /\ cmd[p].newIdentity => cmd[o].identity # cmd[p].identity
        /\ cmd[o].newMembership /\ cmd[p].newMembership =>
             <<cmd[o].user, cmd[o].workspace>> # <<cmd[p].user, cmd[p].workspace>>

\* The advisory lock serialises the transactions of one key, and so of one
\* identity.
OneTransactionPerKey ==
    \A o, p \in Operators :
        /\ o # p
        /\ cmd[o].pc \in Transaction /\ cmd[p].pc \in Transaction
        => LockOf[cmd[o].identity] # LockOf[cmd[p].identity]

\* The inductive invariant of the command.
ProvisioningInv ==
    /\ ProvisioningTypeOK
    /\ ReferentialIntegrity
    /\ FreshIsOwn
    /\ CommandsArePrepared
    /\ UncommittedRowsDiffer
    /\ OneTransactionPerKey
    /\ ReportsAreTrue
===============================================================================
