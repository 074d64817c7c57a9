CONSTANTS
  int = int
  integer = integer
  string = string
  Columns = {a, b}
  Types = {int, string}
  Spellings = {int, integer, string}
  Normal <- MCNormal
  Unknown = Unknown
  Absent = Absent
  NoTable = NoTable
SPECIFICATION Spec
INVARIANTS PlanConverges PlannerAgreesWithVerifier
CHECK_DEADLOCK FALSE
