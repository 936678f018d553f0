SPECIFICATION FairWeb
CONSTANTS
  Left = Left
  Right = Right
  Pages = {Left, Right}
  Tokens = {t1}
  None = None
  MaxClicks <- ClicksPerTab
INVARIANTS
  WebInv
  
PROPERTIES
  SignedOutPagesStay
  NoticesAreShownOnce
  EveryPageSettles
