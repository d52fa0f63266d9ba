\* Deploys and removals one at a time, a pool of two ports, three slots.
\* Actors that take turns differ in nothing: one of them does the work of all.
CONSTANTS
  x1 = x1  x2 = x2  a = a  b = b  c = c
  Unassigned = Unassigned  NoSnapshot = NoSnapshot  Free = Free  Foreign = Foreign
  Actors = {x1}
  Slots = {a, b, c}
  Pool = {41000, 41001}
  OneAtATime = TRUE
SPECIFICATION Spec
SYMMETRY Symmetric
INVARIANTS
  TypeOK
  NoConflicts
  NoLeak
  ProbesItsOwnPort
PROPERTIES
  PortIsStable
  ImplementsTable
