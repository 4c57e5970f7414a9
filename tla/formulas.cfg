CONSTANTS
  MaxWords = 3
SPECIFICATION Spec
INVARIANTS
  EachNameItsValue
  DiesOfUnknownNames
CHECK_DEADLOCK FALSE
