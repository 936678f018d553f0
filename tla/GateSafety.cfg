SPECIFICATION Spec
CONSTANTS
  Users = {u1}
  Identities = {i1}
  Workspaces = {w1}
  None = None
  Tokens = {t1, t2}
  Requests = {r1, r2}
  SessionDuration = 1
  MaxTime = 1
  Ambiguous = Ambiguous
  Unknown = Unknown
SYMMETRY Symmetry
INVARIANTS
  TypeOK
  GateInv
  LoggedOutStaysOut
PROPERTIES
  SessionsOnlyClose
