CONSTANTS
  w1 = w1
  w2 = w2
  d1 = d1
  d2 = d2
  r1 = r1
  r2 = r2
  NoFile = NoFile
  Garbled = Garbled
  Writers = {w1, w2}
  Records <- DecisionsAndRelease
  Ids <- MCIds
  IdOf <- MCIdOf
  Releases <- OneRelease
  SlotOf <- MCSlotOf
  Tamperable = {}
SPECIFICATION FairSpec
INVARIANTS AckedDurable NothingTorn RefusalJustified InspectionSound
PROPERTIES FilesImmutable ImplementsImmutableHistory PutEnds
