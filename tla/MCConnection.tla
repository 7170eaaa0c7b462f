----------------------------- MODULE MCConnection -----------------------------
(***************************************************************************)
(* Model checking of Connection.  With one file descriptor the second      *)
(* connection can only be the successor of the first, whose peer does all  *)
(* the sending.  The coroutines of callbacks are alike.                    *)
(***************************************************************************)
EXTENDS Connection

CONSTANTS x, y

BytesOf == [c \in Conn |-> IF c = x THEN 3 ELSE 0]

\* A worker with a protocol serves one connection and gets three bytes: one for
\* a packet, and two of which one can be consumed.  A worker without one serves
\* two connections and gets two bytes, which is two messages.
Bounds == IF protocol THEN \A c \in Conn \ {x} : conn[c].status = "none" ELSE peer[x].sent <= 2

Alike == Permutations(Handler)
=============================================================================
