\* Two packs in the making, whose clients may go away, and two requests that change them.
CONSTANTS
  e1 = e1
  e2 = e2
  m1 = m1
  m2 = m2
  s1 = s1
  s2 = s2
  Editors = {e1, e2}
  Makers = {m1, m2}
  Leavers = {m1, m2}
  Holders = {e1, e2, m1, m2}
  Projects = {m1, m2}
  Slugs = {s1, s2}
  NoOne = NoOne
  NoTree = NoTree
  Faults = {"fail", "copy"}
SPECIFICATION LifeSpec
SYMMETRY Symmetry
INVARIANTS
  LifeTypeOK
  AnsweredPackIsWhole
  RefusedCreationLeavesNothing
  VisitorsAreToldTheTruth
