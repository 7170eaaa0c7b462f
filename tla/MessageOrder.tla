---------------------------- MODULE MessageOrder ----------------------------
(***************************************************************************)
(* What a channel promises whose callers wait without a timeout: the n-th  *)
(* pop that is called returns the item of the n-th push that is called,    *)
(* whoever had to wait, and the pops return in the order of their calls.   *)
(***************************************************************************)
EXTENDS Naturals, Sequences

VARIABLES
  sent,     \* number of pushes called
  asked,    \* number of pops called
  received  \* the pops that returned: <<which pop, which push>>

movars == <<sent, asked, received>>

MOInit ==
  /\ sent = 0
  /\ asked = 0
  /\ received = <<>>

\* The next pop in line gets the next item in line.
Match == received' = Append(received, <<Len(received) + 1, Len(received) + 1>>)

CallPush ==
  /\ sent' = sent + 1
  /\ UNCHANGED <<asked, received>>

CallPop ==
  /\ asked' = asked + 1
  /\ \/ UNCHANGED received
     \/ /\ Len(received) = asked
        /\ asked < sent
        /\ Match
  /\ UNCHANGED sent

Receive ==
  /\ Len(received) < asked
  /\ Len(received) < sent
  /\ Match
  /\ UNCHANGED <<sent, asked>>

MONext == CallPush \/ CallPop \/ Receive

MOSpec == MOInit /\ [][MONext]_movars

\* Nobody waits for nothing: once there is an item for a pop, it returns.
MOFairSpec == MOSpec /\ WF_movars(Receive)
=============================================================================
