SPECIFICATION FairSpec
CONSTANTS
  m1 = m1  m2 = m2  t1 = t1  t2 = t2
  Mod = {m1, m2}
  Task = {t1, t2}
  Caller = {c1}
  Interval <- Intervals
  kLongestWait = 2
  MaxTime = 2
  Plans <- WorkPlans
CHECK_DEADLOCK FALSE
INVARIANTS TypeOK NoOversleep TasksInOrder Attachment
PROPERTIES Served
