----------------------------- MODULE MCTimerWheel -----------------------------
(***************************************************************************)
(* Model checking of TimerWheel: it implements TimerSet, and timers fire   *)
(* in the end.                                                             *)
(***************************************************************************)
EXTENDS TimerWheel

Left == [n \in Node |->
           IF loc[n] \in {Free, InCall} THEN -1
           ELSE IF loc[n] = Head THEN 0
           ELSE (expire[n] - currtick) % Modulus]

Set == INSTANCE TimerSet WITH Timers <- Node, left <- Left

\* Whatever the wheels do, each timer fires when exactly the ticks it was set
\* to have gone by, and none is overtaken by a tick.
FiresAtItsTick == Set!TSSpec

(***************************************************************************)
(* Fairness: time passes, the event loop runs, callbacks return.           *)
(***************************************************************************)
FairWheel ==
  TWSpec /\ SF_twvars(TimePasses) /\ SF_twvars(UpdateStarts) /\ WF_twvars(UpdateEnds)
         /\ WF_twvars(Tick) /\ WF_twvars(CallbackEnds)
         /\ WF_twvars(\E n \in Node : CallbackStarts(n))

\* Every timer fires or is deleted, in a process that has none of its parent's.
TimersFire == \A n \in Node : n \in Pending ~> n \notin Pending \/ heirs # {}

\* A child process does not inherit timers: those it sets itself fire or are
\* deleted, whatever its parent has set.
OwnTimersFire == \A n \in Node : child /\ n \in Pending \ heirs ~> n \notin Pending
=============================================================================
