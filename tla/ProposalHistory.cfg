CONSTANTS
  w1 = w1
  w2 = w2
  c1 = c1
  base = base
  next = next
  foreign = foreign
  p1 = p1
  stray = stray
  d1 = d1
  d2 = d2
  v1 = v1
  Callers = {w1, w2}
  Checkers = {c1}
  Revisions = {base, next, foreign}
  ChangeSets = {p1, stray}
  Decisions = {d1, d2}
  Releases = {v1}
  IdOf <- MCIdOf
  ContractOf <- MCContractOf
  ChangesOf <- MCChangesOf
  RevisionRef <- MCRevisionRef
  ReleaseRef <- MCReleaseRef
  Governed = {"orders"}
  Stray = {stray, v1}
  Editable = {d1}
  Losable = {next}
SYMMETRY CallersAlike
SPECIFICATION Spec
INVARIANTS LinksGrounded AckedProposalKept CleanReportIsTraceable AlarmsAreOutside
