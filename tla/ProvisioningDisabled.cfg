SPECIFICATION ProvisioningSpec
CONSTANTS
  Users = {u1, u2}
  Identities = {i1}
  Workspaces = {w1, w2}
  None = None
  Operators = {o1}
  Alone = i1
  LockOf <- CollidingKeys
PROPERTIES
  DisabledAreNotProvisioned
