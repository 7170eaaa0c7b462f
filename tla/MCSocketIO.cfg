CONSTANTS
  Bottom = main
  Other = {r, c1, c2}
  Reader = r
  LoopTypes = {"SEMI_AUTO", "AUTO"}
  Pauses = FALSE
  MaxSend = 2
  MaxWrite = 2
  Room = 1
  MaxBytes = 2

SPECIFICATION FairSocket

INVARIANTS
  WaitersHeard
  NobodyLeftInside
  StreamIntact

PROPERTIES
  CallsReturn

CHECK_DEADLOCK FALSE
