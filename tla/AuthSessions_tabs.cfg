SPECIFICATION FairSpec
CONSTANTS
  t1 = t1
  t2 = t2
  Tabs = {t1, t2}
  MaxWakes = 1
  MaxCalls = 3
  MaxTokens = 5
  MaxLost = 1
  MaxAged = 1
CHECK_DEADLOCK FALSE
INVARIANTS
  TypeOK
  CookieIsNeverSpent
  NeverRefusedByItself
PROPERTIES
  CallsSettle
