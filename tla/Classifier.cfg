CONSTANTS
  a = a
  b = b
  Lcores = {l1, l2}
  Fields <- SrcDst
  Values = {a, b}
  Rules <- RulesFromA
  MaxRules = 3
  None = None
SPECIFICATION Spec
SYMMETRY Symmetry
CHECK_DEADLOCK FALSE
INVARIANTS FirstMatch RuleKept
