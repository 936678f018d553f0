SPECIFICATION FairSpec
CONSTANTS
  Users = {u1}
  Identities = {i1}
  Workspaces = {w1}
  None = None
  Tokens = {t1}
  Requests = {r1, r2}
  SessionDuration = 1
  MaxTime = 1
  Ambiguous = Ambiguous
  Unknown = Unknown
PROPERTIES
  ImplementsPolicy
  EveryRequestIsAnswered
