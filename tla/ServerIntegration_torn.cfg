\* The change to the wrapper may take effect and throw.
CONSTANTS
  r1 = r1
  r2 = r2
  p1 = p1
  p2 = p2
  single = single
  multi = multi
  Requests = {r1, r2}
  Packs = {p1, p2}
  Published = {p1}
  Commands <- MCCommands
  OneLine <- MCOneLine
  Wrapper = Wrapper
  Nothing = Nothing
  Overlap = FALSE
  CarefulAdmin = TRUE
  HalfApplied = TRUE
SPECIFICATION Spec
SYMMETRY Symmetry
INVARIANT OldCommandKept
