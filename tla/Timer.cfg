CONSTANTS
  Lcores = {l1, l2}
  Timers = {t1, t2}
  NO_OWNER = NO_OWNER
  Ticks = {0, 1}
  MaxEvents = 3
SPECIFICATION FairSpec
INVARIANTS TypeOK ListsSound RunsAlone NotEarly
PROPERTIES DueServed
