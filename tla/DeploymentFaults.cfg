CONSTANTS
  a = a
  b = b
  int = int
  r1 = r1
  r2 = r2
  c1 = c1
  None = None
  Unknown = Unknown
  Absent = Absent
  NoTable = NoTable
  Columns = {a, b}
  Types = {int}
  Spellings = {int}
  Normal <- MCNormal
  Governed <- Everywhere
  Desired <- MCDesired
  Deployers = {d1}
  Tables = {1, 2}
  Plans = {r1, r2, c1}
  Releases = {r1, r2}
  OutsideTables <- Strange
  MaxFaults = 1
  MaxDrifts = 1
SPECIFICATION Spec
INVARIANTS InSyncDelivered TagsTruthful ReleaseProjected
PROPERTIES AdditiveOnly
