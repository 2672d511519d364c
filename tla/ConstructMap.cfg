SPECIFICATION Spec
CONSTANTS
  a = a
  b = b
  Paper = {1, 2}
  Term = {a, b}
  MaxChanges = 2
  None = None
INVARIANTS
  TypeOK
PROPERTIES
  DecisionsSurviveRebuild
  MapConverges
