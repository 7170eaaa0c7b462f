----------------------------- MODULE MCCoroutine -----------------------------
(***************************************************************************)
(* Model checking of Coroutine: its refinement of CallStack, and its       *)
(* liveness under the fairness PHP code and the event loop provide.        *)
(***************************************************************************)
EXTENDS Coroutine, Sequences

\* The chain of origins from a task down to the main task, main task first.
Chain[t \in Active] == IF t = Main THEN <<Main>> ELSE Append(Chain[origin[t]], t)

Abstract == INSTANCE CallStack WITH
  Bottom    <- Main,
  Other     <- Cid,
  stack     <- Chain[get_task],
  suspended <- user_yield_coros,
  seen      <- {c \in Cid : phase[c] # "none"}

\* The scheduler is a stack: a task that was left behind in create or resume
\* goes on exactly when the task it entered yields or ends, whoever created
\* or resumed that task before.
IsCallStack == Abstract!CSSpec

(***************************************************************************)
(* Fairness.  No PHP function computes forever, and none pushes defers     *)
(* forever: a coroutine that gets the CPU again and again yields, sleeps,  *)
(* or gets on towards its end.  The tails of main_func, run and resume are *)
(* plain C code.                                                           *)
(***************************************************************************)
GivesUpCPU(c) == UserYield(c) \/ Sleep(c) \/ BodyReturns(c) \/ DeferReturns(c)

Fairness ==
  \A c \in Cid :
    /\ SF_vars(GivesUpCPU(c))
    /\ WF_vars(RunDefer(c) \/ MainFuncEnds(c))
    /\ <>[][~ Defer(c)]_vars
    /\ WF_vars(close_coro(c))

FairSpec == Spec /\ Fairness

\* The event loop, in the main task, is never starved: whatever coroutines
\* create, resume and yield to each other, the main task gets the CPU back.
EventLoopRuns == []<>Executing(Main)

=============================================================================
