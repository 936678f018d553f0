SPECIFICATION LoginSpec
CONSTANTS
  b1 = b1
  b2 = b2
  t1 = t1
  t2 = t2
  t3 = t3
  Browsers = {b1, b2}
  Tabs = {t1, t2, t3}
  BrowserOf <- ThreeTabs
  Attempts = {a1, a2}
  Tokens = {k1, k2}
  AttemptDuration = 1
  MaxTime = 1
  None = None
  Keep = Keep
SYMMETRY Symmetry
INVARIANTS
  LoginInv
  ReplacedAttemptsAreRefused
PROPERTIES
  ImplementsSignIn
