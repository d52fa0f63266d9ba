\* Two deploys at once, against pipeline.md:26.
CONSTANTS
  x1 = x1  x2 = x2  a = a  b = b  c = c
  Unassigned = Unassigned  NoSnapshot = NoSnapshot  Free = Free  Foreign = Foreign
  Actors = {x1, x2}
  Slots = {a, b}
  Pool = {41000, 41001}
  OneAtATime = FALSE
SPECIFICATION Spec
INVARIANTS
  PublishedApart
