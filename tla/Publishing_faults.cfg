\* Two mutations and two publications of one project: interleaving, cancellation, errors.
CONSTANTS
  e1 = e1
  e2 = e2
  q1 = q1
  q2 = q2
  p1 = p1
  Editors = {e1, e2}
  Publishers = {q1, q2}
  Holders = {e1, e2, q1, q2}
  Projects = {p1}
  NoOne = NoOne
  NoTree = NoTree
  Faults = {"fail", "cancel", "copy"}
SPECIFICATION SystemSpec
SYMMETRY Symmetry
INVARIANTS
  PublishingTypeOK
  PreviousStaysLive
  TreeMatchesRows
PROPERTIES
  PromotesCommittedPack
