------------------------------ MODULE CallStack ------------------------------
(***************************************************************************)
(* What the coroutine scheduler promises: the running tasks form a stack.  *)
(* A task that is entered, for the first time or again, goes on top; only  *)
(* the top task runs, and when it suspends itself or ends, the task right  *)
(* below it, the one that entered it, goes on where it was.                *)
(***************************************************************************)
EXTENDS Sequences, SequencesExt

CONSTANTS
  Bottom,  \* the task that is always there
  Other    \* the tasks that come and go

VARIABLES
  stack,      \* the tasks that are running, the bottom task first
  suspended,  \* the tasks that may be entered again
  seen        \* the tasks that have been entered at some time

csvars == <<stack, suspended, seen>>

CSInit ==
  /\ stack = <<Bottom>>
  /\ suspended = {}
  /\ seen = {}

Enter(c) ==
  /\ c \in Other \ seen
  /\ stack' = Append(stack, c)
  /\ seen' = seen \cup {c}
  /\ UNCHANGED suspended

Reenter(c) ==
  /\ c \in suspended
  /\ stack' = Append(stack, c)
  /\ suspended' = suspended \ {c}
  /\ UNCHANGED seen

Suspend ==
  /\ Len(stack) > 1
  /\ stack' = Front(stack)
  /\ suspended' = suspended \cup {Last(stack)}
  /\ UNCHANGED seen

Leave ==
  /\ Len(stack) > 1
  /\ stack' = Front(stack)
  /\ UNCHANGED <<suspended, seen>>

CSNext ==
  \/ \E c \in Other : Enter(c) \/ Reenter(c)
  \/ Suspend
  \/ Leave

CSSpec == CSInit /\ [][CSNext]_csvars
=============================================================================
