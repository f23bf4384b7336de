\* Two requests for one server overlap.
CONSTANTS
  r1 = r1
  r2 = r2
  p1 = p1
  p2 = p2
  single = single
  multi = multi
  Requests = {r1, r2}
  Packs = {p1, p2}
  Published = {p1}
  Commands <- MCCommands
  OneLine <- MCOneLine
  Wrapper = Wrapper
  Nothing = Nothing
  Overlap = TRUE
  CarefulAdmin = TRUE
  HalfApplied = FALSE
SPECIFICATION Spec
SYMMETRY Symmetry
INVARIANT OldCommandKept
