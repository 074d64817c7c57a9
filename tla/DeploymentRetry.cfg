CONSTANTS
  a = a
  b = b
  int = int
  r1 = r1
  r2 = r2
  c1 = c1
  None = None
  Unknown = Unknown
  Absent = Absent
  NoTable = NoTable
  Columns = {a, b}
  Types = {int}
  Spellings = {int}
  Normal <- MCNormal
  Governed <- Everywhere
  Desired <- MCDesired
  Deployers = {d1, d2}
  Tables = {1, 2}
  Plans = {r2}
  Releases = {r2}
  OutsideTables <- Fresh
  MaxFaults = 1
  MaxDrifts = 0
SPECIFICATION PersistSpec
PROPERTIES RetryConverges
CHECK_DEADLOCK FALSE
