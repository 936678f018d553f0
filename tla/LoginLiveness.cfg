SPECIFICATION FairLogin
CONSTANTS
  b1 = b1
  b2 = b2
  t1 = t1
  t2 = t2
  t3 = t3
  Browsers = {b1}
  Tabs = {t1, t2}
  BrowserOf <- TwoTabs
  Attempts = {a1, a2}
  Tokens = {k1, k2}
  AttemptDuration = 1
  MaxTime = 1
  None = None
  Keep = Keep
PROPERTIES
  EveryNavigationEnds
