CONSTANTS
  w1 = w1
  w2 = w2
  d1 = d1
  d2 = d2
  r1 = r1
  r2 = r2
  NoFile = NoFile
  Garbled = Garbled
  Writers = {w1, w2}
  Records <- AllRecords
  Ids <- MCIds
  IdOf <- MCIdOf
  Releases <- BothReleases
  SlotOf <- MCSlotOf
  Tamperable = {}
SPECIFICATION Spec
INVARIANTS OneReleasePerVersion
