\* Two tabs that stay: of one edit, logouts, broken connections, full
\* buffers and failing UPDATEs, two happen.
SPECIFICATION StayingSpec
CONSTANTS
  t1 = t1  t2 = t2
  Tabs = {t1, t2}
  Base = Base
  MaxEdits <- OneEditOfT1
  MaxEvents = 2
INVARIANTS
  TypeOK
  IdleTabsAgree
  QuietMeansSaved
PROPERTIES
  ImplementsText
  TabsConverge
  StoreCatchesUp
CHECK_DEADLOCK FALSE
