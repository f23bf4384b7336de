\* Three requests on one project, with every fault of the environment.
CONSTANTS
  e1 = e1
  e2 = e2
  e3 = e3
  p1 = p1
  Editors = {e1, e2, e3}
  Holders = {e1, e2, e3}
  Projects = {p1}
  NoOne = NoOne
  NoTree = NoTree
  Faults = {"fail", "cancel", "copy", "wipe", "rename", "crash"}
SPECIFICATION Spec
SYMMETRY Symmetry
INVARIANTS
  AnswersMatchRows
PROPERTIES
  CommitsIndexedTree
