\* One request at a time, with every failure but a change to the wrapper that throws after it took effect, and an administrator who edits only what is not integrated.
CONSTANTS
  r1 = r1
  r2 = r2
  r3 = r3
  r4 = r4
  p1 = p1
  p2 = p2
  single = single
  multi = multi
  Requests = {r1, r2, r3, r4}
  Packs = {p1, p2}
  Published = {p1}
  Commands <- MCCommands
  OneLine <- MCOneLine
  Wrapper = Wrapper
  Nothing = Nothing
  Overlap = FALSE
  CarefulAdmin = TRUE
  HalfApplied = FALSE
SPECIFICATION Spec
SYMMETRY Symmetry
INVARIANTS
  IntegrationTypeOK
  StartFindsScript
  OldCommandKept
PROPERTIES
  InstalledFilesStay
