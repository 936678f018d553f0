SPECIFICATION ProvisioningSpec
CONSTANTS
  Users = {u1, u2}
  Identities = {i1, i2, i3}
  Workspaces = {w1}
  None = None
  Operators = {o1, o2}
  Alone = i3
  LockOf <- CollidingKeys
SYMMETRY Symmetry
INVARIANTS
  ReportsAreTrue
  ProvisioningInv
PROPERTIES
  ImplementsAccounts
  NothingIsReactivated
  LookupsStayTrue
