SPECIFICATION Spec
CONSTANTS
  a = a  null = null  none = none  x = x  y = y
  Tables = {1, 2, 3}
  Columns = {1, 2}
  Description = 2
  Names = {1, 2}
  Values = {a}
  Null = null
  Objects = {x, y}
  NoTable = none
  Databases <- Schemas
  MaxChanges = 2
INVARIANTS TypeOK Closed Undisturbed FailsForAReason
