SPECIFICATION Spec
CONSTANTS
  a = a
  b = b
  w1 = w1
  w2 = w2
  w3 = w3
  None = None
  Machines = {a, b}
  Ids = {w1, w2}
  n1 = n1
  Notes = {n1}
  Modes <- Rough
INVARIANT NoteIsKept
PROPERTIES NothingVanishes NeverReverted
CHECK_DEADLOCK FALSE
