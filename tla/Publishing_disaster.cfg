\* One mutation and two publications, with every fault of the environment.
CONSTANTS
  e1 = e1
  q1 = q1
  q2 = q2
  p1 = p1
  Editors = {e1}
  Publishers = {q1, q2}
  Holders = {e1, q1, q2}
  Projects = {p1}
  NoOne = NoOne
  NoTree = NoTree
  Faults = {"cancel", "wipe", "rename", "crash"}
SPECIFICATION FairSystemSpec
INVARIANTS
  NothingLiveIsMissing
PROPERTIES
  ReleasesImmutable
  EveryPublisherAnswered
