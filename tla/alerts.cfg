SPECIFICATION FairSpec
CONSTANTS
  Ids = {a1, a2}
  Slos = {s1, s2}
  RuleTicks = {t1, t2}
  SloTicks = {t3, t4}
  None = None
  Budget <- MCBudget
INVARIANT NoStaleSloAlert
PROPERTIES AlertsEndWithCondition StandingFaultIsActive
CHECK_DEADLOCK FALSE
