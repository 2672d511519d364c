SPECIFICATION Spec
CONSTANTS
  a = a
  b = b
  Paper = {1, 2}
  Term = {a, b}
  MaxChanges = 1
  None = None
PROPERTIES
  RedIsNotExported
