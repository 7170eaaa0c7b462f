------------------------------ MODULE Coroutine ------------------------------
(***************************************************************************)
(* The coroutine scheduler of src/src/coroutine/coroutine.c and context.c. *)
(*                                                                         *)
(* Everything runs in one thread.  A coroutine gives the CPU away at four  *)
(* points only: when it creates a coroutine, resumes one, yields, or ends. *)
(* At each of them four pointers have to move together: current_task, the  *)
(* origin of the task that was entered, the PHP stack the engine uses      *)
(* (EG(vm_stack)) and the C stack the CPU runs on.  A PHP stack and a C    *)
(* stack are identified by the task they were allocated for.               *)
(*                                                                         *)
(* PHP code is arbitrary: a task that has the CPU takes any enabled step.  *)
(* The API contract assumed of it: yield, sleep and defer are called       *)
(* inside a coroutine, and a coroutine does not resume itself (an assert). *)
(* It may aim Coroutine::resume at a coroutine that sleeps, whose timer    *)
(* then stays where it is.                                                 *)
(***************************************************************************)
EXTENDS Integers, FiniteSets

CONSTANTS
  MaxCid,    \* bound on the coroutines ever created
  KeySpace,  \* number of keys of the hash tables (khash: 2^32)
  MaxDefer,  \* bound on the defer functions pending in one coroutine
  MaxTimers, \* bound on the sleep timers pending for one coroutine
  MaxWoken   \* bound on the coroutines PHP code resumes out of a sleep

ASSUME CoroutineAssumption ==
  /\ MaxCid \in Nat
  /\ KeySpace \in Nat \ {0}
  /\ MaxDefer \in Nat
  /\ MaxTimers \in Nat
  /\ MaxWoken \in Nat

NoTask == -1            \* a NULL wmCoroutine pointer
Main   == 0             \* main_task, the code outside every coroutine
Cid    == 1 .. MaxCid
Task   == {Main} \cup Cid
Key(c) == c % KeySpace  \* the hash tables take the cid as a 32-bit key

VARIABLES
  last_cid,          \* the last cid handed out
  total_num,         \* the counter behind Coroutine::getTotalNum
  coroutines,        \* hash table of the live coroutines
  user_yield_coros,  \* hash table of the coroutines that have yielded
  current_task,      \* the task PHP code runs in
  origin,            \* per coroutine: the task that entered it last
  vm_stack,          \* per task: the PHP stack saved for it
  EG_vm_stack,       \* the PHP stack the engine runs on
  vm_pages,          \* the coroutine PHP stacks that are allocated
  cpu,               \* the task whose C stack the CPU is on
  swap_ctx,          \* per coroutine: the C stack it swaps out to
  phase,             \* per coroutine: where main_func is
  defer_tasks,       \* per coroutine: number of defer functions pending
  callback,          \* per coroutine: its C-level _defer callback
  awaiting,          \* per coroutine: why PHP code suspended it
  sleep_timers,      \* per coroutine: the sleep timers that point to it
  woken              \* history: the coroutines whose sleep something else
                     \* than a timer of theirs has cut short

registry == <<last_cid, total_num, coroutines>>
stacks   == <<vm_stack, EG_vm_stack, vm_pages>>
ctxs     == <<cpu, swap_ctx>>
body     == <<phase, defer_tasks, callback>>
sleeps   == <<sleep_timers, woken>>
vars == <<registry, user_yield_coros, current_task, origin, stacks, ctxs,
          body, awaiting, sleeps>>

\* main_func: in its PHP function, between defers, in a defer, and over.
Phase    == {"none", "body", "defers", "defer", "ended", "gone"}
Callback == {"none", "set", "ran", "lost"}
Wait     == {"nothing", "yield", "sleep"}

(***************************************************************************)
(* get_task: a NULL current_task stands for the main task.                 *)
(***************************************************************************)
get_task == IF current_task = NoTask THEN Main ELSE current_task

\* A task executes: the CPU is on its own C stack.  It is not so between the
\* swap out of an ended coroutine and its close_coro.
Executing(t) == get_task = t /\ cpu = t

\* A task executes PHP code: a coroutine its function or one of its defers.
RunsPhp(t) == Executing(t) /\ (t \in Cid => phase[t] \in {"body", "defer"})

(***************************************************************************)
(* wmContext_swap_in / wmContext_swap_out: the C stack jumps.              *)
(***************************************************************************)

\* Mutant: the C stack to go back to is saved at the first entry only.
swap_in_once(c) ==
  /\ cpu' = c
  /\ swap_ctx' = [swap_ctx EXCEPT ![c] = IF @ = NoTask THEN cpu ELSE @]

swap_in(c)  == cpu' = c /\ swap_ctx' = [swap_ctx EXCEPT ![c] = cpu]
swap_out(c) == cpu' = swap_ctx[c] /\ UNCHANGED swap_ctx

(***************************************************************************)
(* The task that enters a coroutine becomes its origin: the creator first, *)
(* and then each resumer.                                                  *)
(***************************************************************************)

\* Mutant: the creator stays the origin.
set_origin_once(c) ==
  origin' = [origin EXCEPT ![c] = IF @ = NoTask THEN get_task ELSE @]

set_origin(c) == origin' = [origin EXCEPT ![c] = get_task]

(***************************************************************************)
(* wmCoroutine_create, run and the head of main_func.  The new coroutine   *)
(* runs at once, on a PHP stack and a C stack of its own.                  *)
(***************************************************************************)

\* Mutant: the hash table replaces the entry of a key that is taken.
KeyFree_always(c) == TRUE

KeyFree(c) == \A d \in coroutines : Key(d) # Key(c)

Create ==
  LET t == get_task
      c == last_cid + 1
  IN  /\ RunsPhp(t)
      /\ c \in Cid
      /\ KeyFree(c)
      /\ last_cid' = c
      /\ coroutines' = coroutines \cup {c}
      /\ total_num' = total_num + 1
      /\ set_origin(c)
      /\ current_task' = c
      /\ swap_in(c)
      /\ vm_stack' = [vm_stack EXCEPT ![t] = EG_vm_stack, ![c] = c]
      /\ EG_vm_stack' = c
      /\ vm_pages' = vm_pages \cup {c}
      /\ phase' = [phase EXCEPT ![c] = "body"]
      /\ UNCHANGED <<user_yield_coros, defer_tasks, callback, awaiting,
                     sleeps>>

\* WM_HASH_ADD finds the key taken: the cid is spent, nothing runs.
CreateFails ==
  /\ RunsPhp(get_task)
  /\ last_cid + 1 \in Cid
  /\ ~ KeyFree(last_cid + 1)
  /\ last_cid' = last_cid + 1
  /\ UNCHANGED <<total_num, coroutines, user_yield_coros, current_task,
                 origin, stacks, ctxs, body, awaiting, sleeps>>

(***************************************************************************)
(* wmCoroutine_yield: hand the CPU back to the task that entered this one. *)
(***************************************************************************)
Yield(c, why) ==
  /\ RunsPhp(c)
  /\ user_yield_coros' = user_yield_coros \cup {c}
  /\ vm_stack' = [vm_stack EXCEPT ![c] = EG_vm_stack]
  /\ EG_vm_stack' = vm_stack[origin[c]]
  /\ current_task' = origin[c]
  /\ swap_out(c)
  /\ awaiting' = [awaiting EXCEPT ![c] = why]
  /\ UNCHANGED <<registry, origin, vm_pages, body>>

(***************************************************************************)
(* wmCoroutine_resume of a coroutine that has yielded: it runs at once and *)
(* will come back to its resumer, not to its creator.  A resume of a       *)
(* coroutine that has not yielded returns false and changes nothing.       *)
(***************************************************************************)
Resume(d) ==
  LET t == get_task IN
  /\ RunsPhp(t)
  /\ d # t
  /\ d \in user_yield_coros
  /\ user_yield_coros' = user_yield_coros \ {d}
  /\ vm_stack' = [vm_stack EXCEPT ![t] = EG_vm_stack]
  /\ EG_vm_stack' = vm_stack[d]
  /\ set_origin(d)
  /\ current_task' = d
  /\ swap_in(d)
  /\ awaiting' = [awaiting EXCEPT ![d] = "nothing"]
  /\ UNCHANGED <<registry, vm_pages, body>>

\* Coroutine::yield, and every wait whose waker is not a sleep timer.
UserYield(c) == Yield(c, "yield") /\ UNCHANGED sleeps

\* A sleep that is cut short leaves its timer behind.
cut_short(d) ==
  woken' = IF awaiting[d] = "sleep" THEN woken \cup {d} ELSE woken

\* Coroutine::resume, by cid: it finds live coroutines only.
UserResume(d) ==
  /\ d \in coroutines
  /\ awaiting[d] = "sleep" /\ d \notin woken => Cardinality(woken) < MaxWoken
  /\ Resume(d)
  /\ cut_short(d)
  /\ UNCHANGED sleep_timers

\* Mutant: no timer is added.
Sleep_no_timer(c) == Yield(c, "sleep") /\ UNCHANGED sleeps

\* wmCoroutine_sleep: the timer keeps the bare pointer.
Sleep(c) ==
  /\ Yield(c, "sleep")
  /\ sleep_timers[c] < MaxTimers
  /\ sleep_timers' = [sleep_timers EXCEPT ![c] = @ + 1]
  /\ UNCHANGED woken

\* sleep_callback, called by the timer wheel from the event loop of Main.
\* If the coroutine is gone its memory is read all the same: by now it may
\* be no coroutine, or another one.
sleep_callback(c) ==
  /\ Executing(Main)
  /\ sleep_timers[c] > 0
  /\ sleep_timers' = [sleep_timers EXCEPT ![c] = @ - 1]
  /\ \/ Resume(c) /\ UNCHANGED woken
     \/ /\ c \notin coroutines
        /\ \E d \in coroutines : Resume(d) /\ cut_short(d)
     \/ /\ c \notin coroutines
        /\ UNCHANGED <<registry, user_yield_coros, current_task, origin,
                       stacks, ctxs, body, awaiting, woken>>

(***************************************************************************)
(* wmCoroutine_defer and the rest of main_func: after the PHP function the *)
(* defers run, last pushed first; each may do anything PHP code may do.    *)
(***************************************************************************)
Defer(c) ==
  /\ RunsPhp(c)
  /\ defer_tasks[c] < MaxDefer
  /\ defer_tasks' = [defer_tasks EXCEPT ![c] = @ + 1]
  /\ UNCHANGED <<registry, user_yield_coros, current_task, origin, stacks,
                 ctxs, phase, callback, awaiting, sleeps>>

BodyReturns(c) ==
  /\ Executing(c)
  /\ phase[c] = "body"
  /\ phase' = [phase EXCEPT ![c] = "defers"]
  /\ UNCHANGED <<registry, user_yield_coros, current_task, origin, stacks,
                 ctxs, defer_tasks, callback, awaiting, sleeps>>

RunDefer(c) ==
  /\ Executing(c)
  /\ phase[c] = "defers"
  /\ defer_tasks[c] > 0
  /\ phase' = [phase EXCEPT ![c] = "defer"]
  /\ defer_tasks' = [defer_tasks EXCEPT ![c] = @ - 1]
  /\ UNCHANGED <<registry, user_yield_coros, current_task, origin, stacks,
                 ctxs, callback, awaiting, sleeps>>

DeferReturns(c) ==
  /\ Executing(c)
  /\ phase[c] = "defer"
  /\ phase' = [phase EXCEPT ![c] = "defers"]
  /\ UNCHANGED <<registry, user_yield_coros, current_task, origin, stacks,
                 ctxs, defer_tasks, callback, awaiting, sleeps>>

\* main_func is over (wmContext_func): end_ is set and the C stack given up;
\* current_task stays as it is until the resumer runs close_coro.
End(c, cb) ==
  /\ phase' = [phase EXCEPT ![c] = "ended"]
  /\ callback' = [callback EXCEPT ![c] = cb]
  /\ swap_out(c)
  /\ UNCHANGED <<registry, user_yield_coros, current_task, origin, stacks,
                 defer_tasks, awaiting, sleeps>>

\* Mutant: the callback does not wait for the defers.
MainFuncEnds_early(c) ==
  /\ Executing(c)
  /\ phase[c] = "defers"
  /\ End(c, IF callback[c] = "set" THEN "ran" ELSE callback[c])

MainFuncEnds(c) ==
  /\ Executing(c)
  /\ phase[c] = "defers"
  /\ defer_tasks[c] = 0
  /\ End(c, IF callback[c] = "set" THEN "ran" ELSE callback[c])

\* zend_call_function of a defer fails, as it does while an exception is
\* pending: main_func returns early and the callback is never called.
DeferFails(c) ==
  /\ Executing(c)
  /\ phase[c] = "defers"
  /\ defer_tasks[c] > 0
  /\ End(c, IF callback[c] = "set" THEN "lost" ELSE callback[c])

(***************************************************************************)
(* wmCoroutine_set_callback, called by the creator when create returns: a  *)
(* coroutine that is already gone gets its callback run on the spot.  No   *)
(* 2^32 creations fit in between, so the key finds this coroutine or none. *)
(***************************************************************************)

set_callback(c) ==
  /\ RunsPhp(get_task)
  /\ get_task # c
  /\ phase[c] # "none"
  /\ callback[c] = "none"
  /\ c \in coroutines \/ KeyFree(c)
  /\ callback' = [callback EXCEPT ![c] =
                    IF c \in coroutines THEN "set" ELSE "ran"]
  /\ UNCHANGED <<registry, user_yield_coros, current_task, origin, stacks,
                 ctxs, phase, defer_tasks, awaiting, sleeps>>

(***************************************************************************)
(* close_coro, in the context that swapped the ended coroutine in (the     *)
(* tail of run and of wmCoroutine_resume).  vm_stack_destroy frees         *)
(* whatever stack the engine is on.                                        *)
(***************************************************************************)

get_origin_task(c) == IF origin[c] = NoTask THEN Main ELSE origin[c]

close_coro(c) ==
  /\ phase[c] = "ended"
  /\ cpu = swap_ctx[c]
  /\ current_task' = origin[c]
  /\ coroutines' = coroutines \ {c}
  /\ total_num' = total_num - 1
  /\ user_yield_coros' = user_yield_coros \ {c}
  /\ vm_pages' = vm_pages \ {EG_vm_stack}
  /\ EG_vm_stack' = vm_stack[get_origin_task(c)]
  /\ phase' = [phase EXCEPT ![c] = "gone"]
  /\ UNCHANGED <<last_cid, origin, vm_stack, ctxs, defer_tasks, callback,
                 awaiting, sleeps>>

Init ==
  /\ last_cid = 0
  /\ total_num = 0
  /\ coroutines = {}
  /\ user_yield_coros = {}
  /\ current_task = NoTask
  /\ origin = [c \in Cid |-> NoTask]
  /\ vm_stack = [t \in Task |-> NoTask]
  /\ EG_vm_stack = Main
  /\ vm_pages = {}
  /\ cpu = Main
  /\ swap_ctx = [c \in Cid |-> NoTask]
  /\ phase = [c \in Cid |-> "none"]
  /\ defer_tasks = [c \in Cid |-> 0]
  /\ callback = [c \in Cid |-> "none"]
  /\ awaiting = [c \in Cid |-> "nothing"]
  /\ sleep_timers = [c \in Cid |-> 0]
  /\ woken = {}

Next ==
  \/ Create
  \/ CreateFails
  \/ \E c \in Cid :
       \/ UserYield(c)
       \/ UserResume(c)
       \/ Sleep(c)
       \/ sleep_callback(c)
       \/ Defer(c)
       \/ BodyReturns(c)
       \/ RunDefer(c)
       \/ DeferReturns(c)
       \/ MainFuncEnds(c)
       \/ DeferFails(c)
       \/ set_callback(c)
       \/ close_coro(c)

Spec == Init /\ [][Next]_vars

-----------------------------------------------------------------------------
(***************************************************************************)
(* Properties.                                                             *)
(***************************************************************************)

\* Type invariant.
TypeOK ==
  /\ last_cid \in 0 .. MaxCid
  /\ total_num \in Int
  /\ coroutines \subseteq Cid
  /\ user_yield_coros \subseteq Cid
  /\ current_task \in Task \cup {NoTask}
  /\ origin \in [Cid -> Task \cup {NoTask}]
  /\ vm_stack \in [Task -> Task \cup {NoTask}]
  /\ EG_vm_stack \in Task \cup {NoTask}
  /\ vm_pages \subseteq Cid
  /\ cpu \in Task \cup {NoTask}
  /\ swap_ctx \in [Cid -> Task \cup {NoTask}]
  /\ phase \in [Cid -> Phase]
  /\ defer_tasks \in [Cid -> 0 .. MaxDefer]
  /\ callback \in [Cid -> Callback]
  /\ awaiting \in [Cid -> Wait]
  /\ sleep_timers \in [Cid -> 0 .. MaxTimers]
  /\ woken \subseteq Cid

\* The tasks that are inside a create or a resume, or running.
Active == {Main} \cup (coroutines \ user_yield_coros)

\* A set of tasks closed under "was entered from".
ClosedUnderOrigin(S) == \A t \in S \ {Main} : origin[t] \in S

\* No coroutine is stranded: whatever was resumed by whom, a live coroutine
\* either has yielded, and can be resumed, or is on the chain of origins that
\* leads from the current task to the main task, so that it gets the CPU
\* back.  (t is on the chain iff every set that holds the current task and
\* is closed under origin holds t.)
NoCoroutineStranded ==
  \A S \in SUBSET Task :
    get_task \in S /\ ClosedUnderOrigin(S) => Active \subseteq S

\* The four pointers agree: PHP code of a task runs on its own PHP stack and
\* its own C stack, and a coroutine on the chain will swap out to exactly
\* the task that yield will make current and whose PHP stack it restores.
\* (An ended coroutine has swapped out and waits for its close_coro.)
StacksAligned ==
  /\ EG_vm_stack = get_task
  /\ \A c \in coroutines \ user_yield_coros : swap_ctx[c] = origin[c]
  /\ cpu = IF get_task \in Cid /\ phase[get_task] = "ended"
           THEN origin[get_task]
           ELSE get_task

\* The assert in run and wmCoroutine_resume: the coroutine that ended is the
\* current one, so close_coro pops the task and frees the stack it means to.
EndedIsCurrent == \A c \in Cid : phase[c] = "ended" => current_task = c

\* Each live coroutine owns one allocated PHP stack and no stack outlives
\* its coroutine: close_coro never frees a stack somebody will come back to.
StacksOwned == vm_pages = coroutines

\* The counter a graceful reload waits for is the number of live coroutines,
\* and no two of them share a key, also when the keys have wrapped around.
RegistryExact ==
  /\ total_num = Cardinality(coroutines)
  /\ \A c, d \in coroutines : Key(c) = Key(d) => c = d

\* A callback that was set is never forgotten: it waits for a live coroutine
\* (it frees the message and drops the reference to the connection).
CallbackPending ==
  \A c \in Cid : callback[c] = "set" => c \in coroutines /\ phase[c] # "ended"

\* The callback runs once, and not before the defers have run.
CallbackOnceAtEnd ==
  [][\A c \in Cid : callback'[c] # callback[c] =>
       \/ callback[c] = "none"
       \/ callback[c] = "set" /\ phase'[c] = "ended"
          /\ (callback'[c] = "ran" => defer_tasks[c] = 0)]_vars

\* Whoever sleeps is alive, has yielded, and has a timer that will wake it,
\* also when PHP code has resumed it out of earlier sleeps.  A timer beyond
\* that one, which wakes its coroutine from another wait or points to freed
\* memory once it has ended, is left only of a sleep that was cut short: as
\* long as PHP code resumes no sleeper, timers and sleeps match exactly.
SleepTimersExact ==
  \A c \in Cid :
    /\ awaiting[c] = "sleep" =>
         c \in coroutines \cap user_yield_coros /\ sleep_timers[c] > 0
    /\ sleep_timers[c] > (IF awaiting[c] = "sleep" THEN 1 ELSE 0) => c \in woken
=============================================================================
