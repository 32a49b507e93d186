SPECIFICATION FairSpec
CONSTANTS
  Names = {A, B}
  Picks = {p}
  Here = Here
  Cards = {c1, c2, f1}
  Foreign = {f1}
  Sessions = {s1}
  Other = Other
  None = None
  Modes <- Any
INVARIANT NeverNowhere
PROPERTIES ForeignStays SightIsKept PointerIsForgotten
CHECK_DEADLOCK FALSE
