\* A publication that meets a busy database after its promotion.
CONSTANTS
  e1 = e1
  q1 = q1
  q2 = q2
  p1 = p1
  Editors = {e1}
  Publishers = {q1, q2}
  Holders = {e1, q1, q2}
  Projects = {p1}
  NoOne = NoOne
  NoTree = NoTree
  Faults = {}
SPECIFICATION SystemSpec
INVARIANTS
  NextNumberIsFree
