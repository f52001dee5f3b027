\* Three tabs, three edits (of no more than two in one tab) and Base.
SPECIFICATION TextSpec
CONSTANTS
  t1 = t1  t2 = t2  t3 = t3
  Tabs = {t1, t2, t3}
  Base = Base
  MaxEdits <- TwoEach
CONSTRAINT ThreeInAll
SYMMETRY Alike
INVARIANTS
  TextTypeOK
  NothingTypedIsLost
  TwiceOnlyApart
CHECK_DEADLOCK FALSE
