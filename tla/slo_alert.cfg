SPECIFICATION Spec
CONSTANTS
  Ids = {a1, a2, a3}
  Slos = {s1, s2}
  RuleTicks = {}
  SloTicks = {t3}
  None = None
  Budget <- CalmBudget
INVARIANTS BreachHasAlert
SYMMETRY RowSymmetry
CHECK_DEADLOCK FALSE
