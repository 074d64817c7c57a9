CONSTANTS
  table = table
  amount = amount
  part = part
  fk = fk
  texted = texted
  bare = bare
  today = today
  later = later
  Schemas = {table}
  Columns = {amount}
  Nested = {part}
  Parent <- MCParent
  Logical = {"number"}
  Physical <- MCPhysical
  Links = {fk}
  ForeignKeys = {fk}
  Rules = {}
  Unnamed = {texted, bare}
  Identified = {texted}
  Texts = {}
  Dates = {today, later}
  Root = Root
  Null = Null
  Unset = Unset
  Initial <- MCInitial
  Sources <- MCSources
  Edits <- MCEdits
  MaxCopies = 2
SPECIFICATION Spec
SYMMETRY DatesAlike
INVARIANTS ChangesAreDecided DeprecationSticks ImportSettles
PROPERTIES UnattendedKeepsInterface RetiredIsFinal BreaksAreMajor
