\* Three tabs; two renewals, closed tabs, losses or mistaken removals of any kind.
SPECIFICATION FairSpec
CONSTANTS
  t1 = t1  t2 = t2  t3 = t3
  Tabs = {t1, t2, t3}
  MaxEvents = 2
INVARIANTS
  TypeOK
  OwnerLeads
  OwnEntryStays
  OnlyNews
PROPERTIES
  GhostsVanish
  SeenAgain
CHECK_DEADLOCK FALSE
