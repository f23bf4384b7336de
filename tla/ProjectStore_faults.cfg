\* Three requests on one pack: interleaving, cancellation, errors.
CONSTANTS
  e1 = e1
  e2 = e2
  e3 = e3
  p1 = p1
  Editors = {e1, e2, e3}
  Holders = {e1, e2, e3}
  Projects = {p1}
  NoOne = NoOne
  NoTree = NoTree
  Faults = {"fail", "cancel"}
SPECIFICATION FairSpec
INVARIANTS
  TypeOK
  TreeMatchesRows
  CommittedCopyOnDisk
  NoDebris
PROPERTIES
  ImplementsAtomicPack
  EveryRequestAnswered
