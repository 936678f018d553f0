SPECIFICATION FairProvisioning
CONSTANTS
  Users = {u1}
  Identities = {i1, i3}
  Workspaces = {w1, w2}
  None = None
  Operators = {o1, o2}
  Alone = i3
  LockOf <- CollidingKeys
INVARIANTS
  ProvisioningInv
PROPERTIES
  EveryCommandEnds
