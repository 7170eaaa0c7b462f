CONSTANTS
  Bottom = main
  Other = {x, y, h1, h2}
  Conn = {x, y}
  NFd = 1
  Protocols = {TRUE, FALSE}
  Pauses = TRUE
  Resets = TRUE
  Consumes = TRUE
  MaxBytes <- BytesOf
  x = x
  y = y

SPECIFICATION CnSpec

CONSTRAINT Bounds

SYMMETRY Alike

INVARIANTS
  OnCloseOnce
  FreedWhenUnheld
  TableOfLive
  ReadersHeard
  BytesInOrder

CHECK_DEADLOCK FALSE
