CONSTANTS
  Bottom = main
  Other = {x, h1}
  Conn = {x}
  NFd = 1
  Protocols = {FALSE}
  Pauses = FALSE
  Resets = FALSE
  Consumes = FALSE
  MaxBytes <- BytesOf
  x = x
  y = y

SPECIFICATION CnSpec

INVARIANTS
  FreedUnused

CHECK_DEADLOCK FALSE
