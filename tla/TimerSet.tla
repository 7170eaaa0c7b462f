------------------------------ MODULE TimerSet ------------------------------
(***************************************************************************)
(* What a timer wheel promises: a timer that is set to k ticks expires     *)
(* when k ticks have gone by, not before, and no tick goes by while a      *)
(* timer that is due has not been served.                                  *)
(***************************************************************************)
EXTENDS Integers

CONSTANT Timers

VARIABLE left  \* per timer: the ticks it has left, or Unset

Unset == -1

TSInit == left = [n \in Timers |-> Unset]

Arm(n) ==
  /\ left[n] = Unset
  /\ left'[n] \in Nat \ {0}
  /\ left' = [left EXCEPT ![n] = left'[n]]

\* One timer or several at a time.
Cancel(S) ==
  /\ \A n \in S : left[n] # Unset
  /\ left' = [n \in Timers |-> IF n \in S THEN Unset ELSE left[n]]

Expire(n) ==
  /\ left[n] = 0
  /\ left' = [left EXCEPT ![n] = Unset]

Elapse ==
  /\ \A n \in Timers : left[n] # 0
  /\ left' = [n \in Timers |-> IF left[n] = Unset THEN Unset ELSE left[n] - 1]

TSNext ==
  \/ Elapse
  \/ \E n \in Timers : Arm(n) \/ Expire(n)
  \/ \E S \in SUBSET Timers : Cancel(S)

TSSpec == TSInit /\ [][TSNext]_left
=============================================================================
