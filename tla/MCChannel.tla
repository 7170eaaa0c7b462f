------------------------------ MODULE MCChannel ------------------------------
(***************************************************************************)
(* Model checking of Channel: without timeouts it implements MessageOrder, *)
(* and under fairness nobody waits for an item that has been pushed.       *)
(***************************************************************************)
EXTENDS Channel

\* A channel whose callers pass timeouts promises nothing of the kind: it is taken
\* for one that nobody uses.
Order ==
  INSTANCE MessageOrder WITH
    sent <- IF timeouts THEN 0 ELSE sent,
    asked <- IF timeouts THEN 0 ELSE asked,
    received <- IF timeouts THEN <<>> ELSE received

\* The n-th pop called returns the item of the n-th push called.
InOrder == Order!MOSpec

\* Fairness: a coroutine that has been woken inside push or pop is C code
\* that has the CPU, and goes on.
ChFairSpec ==
  ChSpec /\ \A c \in Cid : WF_allvars(PushGoesOn(c)) /\ WF_allvars(PopGoesOn(c))

\* Without timeouts, as soon as n pushes and n pops have been called, n pops return: a pop that
\* waits is woken when its item is pushed, and the wakeup reaches it.
PopsServed ==
  \A n \in 1 .. MaxCalls :
    ~ timeouts /\ sent >= n /\ asked >= n ~> Len(received) >= n
=============================================================================
