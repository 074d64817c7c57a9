CONSTANTS
  h1 = h1
  h2 = h2
  h1slash = h1slash
  dev = dev
  prod = prod
  t1 = t1
  t2 = t2
  ci = ci
  cd = cd
  None = None
  Jobs = {ci, cd}
  Hosts = {h1, h2}
  Spellings = {h1, h2, h1slash}
  Names = {dev, prod}
  Targets = {t1, t2}
  Contracts <- MCContracts
  Blocked <- MCBlocked
  Environments <- MCEnvironments
  Readable <- MCReadable
  Present <- MCPresent
SPECIFICATION Spec
SYMMETRY Symmetry
INVARIANTS OnlyWhereAssessed ReadyIsAssessable
