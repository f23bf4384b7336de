\* A replacing import that finds no room for the root of the new tree.
CONSTANTS
  e1 = e1
  e2 = e2
  p1 = p1
  Editors = {e1, e2}
  Holders = {e1, e2}
  Projects = {p1}
  NoOne = NoOne
  NoTree = NoTree
  Faults = {"wipe"}
SPECIFICATION Spec
INVARIANTS
  ValidOrRolledBack
