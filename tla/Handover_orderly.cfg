SPECIFICATION FairSpec
CONSTANTS
  a1 = a1
  a2 = a2
  c1 = c1
  Main = Main
  Other = Other
  Nobody = Nobody
  Sessions = {a1, a2, c1}
  Commands = {c1}
  MaxOpens = 2
  MaxQuits = 1
  MaxDirty = 1
  Modes <- Each
INVARIANTS OrderlyIsHeld StaleIsTold OrderlyLayout
PROPERTIES ReadyIsItsOwn HandOffSettles
CHECK_DEADLOCK FALSE
