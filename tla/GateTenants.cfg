SPECIFICATION Spec
CONSTANTS
  Users = {u1, u2}
  Identities = {i1, i2}
  Workspaces = {w1, w2}
  None = None
  Tokens = {t1}
  Requests = {r1}
  SessionDuration = 1
  MaxTime = 2
  Ambiguous = Ambiguous
  Unknown = Unknown
SYMMETRY Symmetry
PROPERTIES
  ImplementsPolicy
