\* Users never store one item over another and never race: rows and files agree.
CONSTANTS
  a = a
  r1 = r1
  Names = {a}
  Readers = {r1}
  MaxRows = 3
  Archives <- MCArchives
  Usage = {}
SPECIFICATION Spec
INVARIANTS
  InventoryTypeOK
  EveryRowHasItsFile
  SidesAgree
  OneRowPerFile
PROPERTIES
  ClientFilesStayClient
