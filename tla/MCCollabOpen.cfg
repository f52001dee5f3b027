\* A tab opens the document and its request for the snapshot fails.
SPECIFICATION Spec
CONSTANTS
  t1 = t1  t2 = t2
  Tabs = {t1, t2}
  Base = Base
  MaxEdits <- OneEditOfT1
  MaxEvents = 1
INVARIANT StoredTextSurvives
CHECK_DEADLOCK FALSE
