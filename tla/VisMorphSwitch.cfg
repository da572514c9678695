SPECIFICATION FairSpec
CONSTANTS
  NULL = NULL
  FULL = 5
  StepCounts = {0, 2, 5}
  Times = {1, 3}
  Longest = 3
INVARIANTS FreshSteps FreshTime NeverLate
PROPERTIES NeverBack SwitchEnds
