------------------------------ MODULE MCSocketIO ------------------------------
(***************************************************************************)
(* Model checking of SocketIO under fairness.                              *)
(***************************************************************************)
EXTENDS SocketIO

\* PHP code gives the CPU up, calls and the loop of wmConnection_read go on,
\* the event loop runs, read timers fire, and the peer reads some time.  What
\* the peer sends is finite: otherwise the reader would never wait.
FairSocket ==
  /\ SIOSpec
  /\ []<>(pc[Now] \notin {"php", "over"})
  /\ WF_sovars((\E c \in Other : Calls(c)) \/ \E t \in Task : CloseResumes(t) \/ CloseFd(t))
  /\ SF_sovars(InLoop(Reader) /\ Read(Reader))
  /\ SF_sovars(Loop)
  /\ SF_sovars(timer_read_callback)
  /\ WF_sovars(PeerReads)
  /\ <>[][~ Peer]_sovars

\* Each call returns: a wait ends when the event comes, when the timer fires,
\* or when the socket is closed; but one that waits for an event may be forgotten
\* when calls have overlapped.
Inside(c) == pc[c] \in Reading \/ pc[c] \in Writing

Forgotten(c) ==
  \/ pc[c] \in Reading /\ READ \in overlapped
  \/ pc[c] \in Writing /\ WRITE \in overlapped

CallsReturn == \A c \in Other : Inside(c) ~> ~ Inside(c) \/ Forgotten(c) \/ exited
=============================================================================
