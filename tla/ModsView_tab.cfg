\* One tab: a list of up to three mods on two pages, two providers, failures.
CONSTANTS
  a = a
  x = x
  b = b
  x1 = x1
  modrinth = modrinth
  curseforge = curseforge
  v1 = v1
  Items = {a, x, b}
  Order <- MCOrder
  Sides = {"both", "client"}
  Absent = Absent
  AllSides = AllSides
  Rows = 2
  Packs <- MCPacks
  MaxClicks = 3
  Providers = {modrinth, curseforge}
  First = modrinth
  Ids = {x1}
  Versions = {v1}
  Latest = Latest
  ItemOf <- MCItemOf
  NoOne = NoOne
SPECIFICATION FairSpec
INVARIANTS
  ModsTypeOK
  AtRestShowsPack
PROPERTIES
  AddsWhatIsOffered
  ModsComeToRest
