--------------------------- MODULE CoroutineProofs ---------------------------
(***************************************************************************)
(* Proofs about the coroutine scheduler, for any number of coroutines, of  *)
(* hash keys, of defers and of timers.                                     *)
(***************************************************************************)
EXTENDS MCCoroutine, SequencesExt, FiniteSetTheorems, SequenceTheorems, TLAPS

(***************************************************************************)
(* The inductive invariant.  NoCoroutineStranded alone is not inductive: a *)
(* step that leaves a task needs to know that the task below it is active, *)
(* that it entered nobody else, that its PHP stack was saved, and that an  *)
(* ended coroutine is on top.                                              *)
(***************************************************************************)
LiveCids ==
  /\ coroutines \subseteq 1 .. last_cid
  /\ \A c \in Cid : c \in coroutines <=> phase[c] \in {"body", "defers", "defer", "ended"}
  /\ user_yield_coros \subseteq coroutines

ChainInv ==
  /\ get_task \in Active
  /\ \A c \in coroutines \ user_yield_coros :
       /\ origin[c] \in Active
       /\ origin[c] # get_task
       /\ \A d \in coroutines \ user_yield_coros : origin[c] = origin[d] => c = d
  /\ NoCoroutineStranded

SavedStacks ==
  \A t \in ({Main} \cup coroutines) \ {get_task} : vm_stack[t] = t

SchedulerInv ==
  /\ LiveCids
  /\ ChainInv
  /\ SavedStacks
  /\ StacksAligned
  /\ StacksOwned
  /\ EndedIsCurrent

\* The tasks are Main and the coroutines, and NULL is none of them.
LEMMA Tasks ==
  /\ Main \in Task /\ Main \notin Cid
  /\ NoTask \notin Task
  /\ \A c \in Cid : c \in Task /\ c # Main /\ c # NoTask
  /\ \A t \in Task : t # Main => t \in Cid
BY CoroutineAssumption DEF Task, Cid, Main, NoTask

\* With well-typed variables the running task is a task.
LEMMA GetTask == TypeOK => get_task \in Task
BY Tasks DEF TypeOK, get_task

LEMMA CreateType == TypeOK /\ Create => TypeOK'
<1> SUFFICES ASSUME TypeOK, Create PROVE TypeOK'
  OBVIOUS
<1> DEFINE c == last_cid + 1
<1>1. c \in Cid /\ c \in Task /\ get_task \in Task
  BY Tasks, GetTask DEF Create
<1>2. last_cid' \in 0 .. MaxCid /\ total_num' \in Int
  BY CoroutineAssumption DEF Create, TypeOK, Cid
<1>3. /\ coroutines' \subseteq Cid
      /\ vm_pages' \subseteq Cid
      /\ current_task' \in Task \cup {NoTask}
      /\ cpu' \in Task \cup {NoTask}
      /\ EG_vm_stack' \in Task \cup {NoTask}
  BY <1>1 DEF Create, TypeOK, swap_in
<1>4. /\ origin' \in [Cid -> Task \cup {NoTask}]
      /\ swap_ctx' \in [Cid -> Task \cup {NoTask}]
  BY <1>1 DEF Create, TypeOK, swap_in, set_origin
<1>5. vm_stack' \in [Task -> Task \cup {NoTask}]
  BY <1>1 DEF Create, TypeOK
<1>6. phase' \in [Cid -> Phase]
  BY <1>1 DEF Create, TypeOK, Phase
<1>7. QED
  BY <1>2, <1>3, <1>4, <1>5, <1>6 DEF Create, TypeOK, sleeps

\* The task on top is active, runs on its stacks, and has an active origin.
LEMMA TopOfChain ==
  ASSUME TypeOK, SchedulerInv, NEW c \in Cid, get_task = c
  PROVE  /\ current_task = c
         /\ c \in coroutines \ user_yield_coros
         /\ origin[c] \in Active /\ origin[c] \in Task /\ origin[c] # c
         /\ swap_ctx[c] = origin[c]
         /\ vm_stack[origin[c]] = origin[c]
<1>1. c # Main /\ current_task = c
  BY Tasks DEF get_task
<1>2. c \in coroutines \ user_yield_coros
  BY <1>1 DEF SchedulerInv, ChainInv, Active
<1>3. origin[c] \in Active /\ origin[c] \in Task
  BY <1>2, Tasks DEF SchedulerInv, ChainInv, Active, TypeOK
<1>4. origin[c] # c
  <2> SUFFICES ASSUME origin[c] = c PROVE FALSE
    OBVIOUS
  <2>1. {c} \in SUBSET Task /\ ClosedUnderOrigin({c})
    BY Tasks DEF ClosedUnderOrigin
  <2>2. Active \subseteq {c}
    BY <2>1 DEF SchedulerInv, ChainInv, NoCoroutineStranded
  <2> QED
    BY <2>2, <1>1 DEF Active
<1>5. swap_ctx[c] = origin[c]
  BY <1>2 DEF SchedulerInv, StacksAligned
<1>6. vm_stack[origin[c]] = origin[c]
  BY <1>3, <1>4 DEF SchedulerInv, SavedStacks, Active
<1> QED
  BY <1>1, <1>2, <1>3, <1>4, <1>5, <1>6

\* While PHP code runs no coroutine waits for its close_coro.
LEMMA NoneEnded ==
  ASSUME TypeOK, SchedulerInv, Executing(get_task)
  PROVE  \A c \in Cid : phase[c] # "ended"
<1> SUFFICES ASSUME NEW c \in Cid, phase[c] = "ended" PROVE FALSE
  OBVIOUS
<1>1. get_task = c /\ cpu = c
  BY Tasks DEF Executing, SchedulerInv, EndedIsCurrent, get_task
<1>2. origin[c] # c
  BY <1>1, TopOfChain
<1> QED
  BY <1>1, <1>2 DEF SchedulerInv, StacksAligned

\* The part of TypeOK about the sleep timers.
SleepsTypeOK == sleep_timers \in [Cid -> 0 .. MaxTimers] /\ woken \subseteq Cid

LEMMA YieldType ==
  ASSUME TypeOK, SchedulerInv, NEW c \in Cid, NEW why \in Wait,
         Yield(c, why), SleepsTypeOK'
  PROVE  TypeOK'
<1>1. get_task = c /\ c \in Task
  BY Tasks DEF Yield, RunsPhp, Executing
<1>2. QED
  BY <1>1, TopOfChain DEF TypeOK, SleepsTypeOK, Yield, swap_out, registry, body

LEMMA ResumeType ==
  ASSUME TypeOK, NEW d \in Cid, Resume(d), SleepsTypeOK'
  PROVE  TypeOK'
<1>1. get_task \in Task /\ d \in Task
  BY Tasks, GetTask
<1>2. QED
  BY <1>1 DEF TypeOK, SleepsTypeOK, Resume, swap_in, set_origin, registry, body, Wait

LEMMA EndType ==
  ASSUME TypeOK, NEW c \in Cid, NEW cb \in Callback, End(c, cb)
  PROVE  TypeOK'
BY DEF TypeOK, End, swap_out, registry, stacks, sleeps, Phase

LEMMA CloseType ==
  ASSUME TypeOK, SchedulerInv, NEW c \in Cid, close_coro(c)
  PROVE  TypeOK'
<1>1. current_task = c /\ get_task = c
  BY Tasks DEF close_coro, SchedulerInv, EndedIsCurrent, get_task
<1>2. get_origin_task(c) = origin[c] /\ origin[c] \in Task
  BY <1>1, TopOfChain, Tasks DEF get_origin_task
<1>3. QED
  BY <1>2 DEF TypeOK, close_coro, ctxs, sleeps, Phase

-----------------------------------------------------------------------------
(***************************************************************************)
(* The chain of origins under the two kinds of switch: entering a task     *)
(* (create, resume) puts it on top, leaving one (yield, close_coro) takes  *)
(* it off.                                                                 *)
(***************************************************************************)

\* Entering d.  A closed set of the new chain, cut down to the tasks that
\* were active before, is a closed set of the old chain.
LEMMA EnterChain ==
  ASSUME TypeOK, SchedulerInv, TypeOK',
         NEW d \in Cid, d \notin Active,
         current_task' = d,
         origin' = [origin EXCEPT ![d] = get_task],
         Active' = Active \cup {d}
  PROVE  ChainInv'
<1>1. get_task' = d /\ d # get_task /\ get_task \in Active
  BY Tasks DEF get_task, SchedulerInv, ChainInv
<1>2. origin'[d] = get_task /\ \A c \in Cid \ {d} : origin'[c] = origin[c]
  BY DEF TypeOK
<1>3. \A t \in Active \ {Main} :
        t \in Cid /\ origin[t] \in Active /\ origin[t] # get_task
  BY DEF SchedulerInv, ChainInv, Active, TypeOK
<1>4. \A c \in coroutines' \ user_yield_coros' :
        c \in Cid /\ (c = d \/ c \in coroutines \ user_yield_coros)
  BY Tasks DEF Active, TypeOK
<1>5. \A c \in coroutines' \ user_yield_coros' :
        /\ origin'[c] \in Active'
        /\ origin'[c] # get_task'
        /\ \A e \in coroutines' \ user_yield_coros' : origin'[c] = origin'[e] => c = e
  <2> SUFFICES ASSUME NEW c \in coroutines' \ user_yield_coros'
               PROVE  /\ origin'[c] \in Active'
                      /\ origin'[c] # get_task'
                      /\ \A e \in coroutines' \ user_yield_coros' :
                           origin'[c] = origin'[e] => c = e
    OBVIOUS
  <2>1. CASE c = d
    BY <2>1, <1>1, <1>2, <1>3, <1>4, Tasks DEF Active
  <2>2. CASE c # d
    BY <2>2, <1>1, <1>2, <1>3, <1>4, Tasks DEF Active, SchedulerInv, ChainInv
  <2> QED
    BY <2>1, <2>2
<1>6. NoCoroutineStranded'
  <2> SUFFICES ASSUME NEW S \in SUBSET Task, d \in S, ClosedUnderOrigin(S)'
               PROVE  Active' \subseteq S
    BY <1>1 DEF NoCoroutineStranded, Task
  <2> DEFINE R == S \cap Active
  <2>1. get_task \in R
    BY <1>1, <1>2, Tasks DEF ClosedUnderOrigin
  <2>2. \A t \in R \ {Main} : origin[t] \in R
    BY <1>2, <1>3 DEF ClosedUnderOrigin
  <2>3. Active \subseteq R
    BY <2>1, <2>2 DEF ClosedUnderOrigin, SchedulerInv, ChainInv, NoCoroutineStranded
  <2> QED
    BY <2>3
<1> QED
  BY <1>1, <1>5, <1>6 DEF ChainInv

\* Leaving c.  A closed set of the new chain becomes one of the old chain
\* when c is added to it.
LEMMA LeaveChain ==
  ASSUME TypeOK, SchedulerInv, TypeOK',
         NEW c \in Cid, get_task = c,
         current_task' = origin[c],
         UNCHANGED origin,
         Active' = Active \ {c}
  PROVE  ChainInv'
<1>1. /\ c \in coroutines \ user_yield_coros
      /\ origin[c] \in Active /\ origin[c] # c
      /\ get_task' = origin[c]
  BY TopOfChain, Tasks DEF get_task
<1>2. \A e \in coroutines' \ user_yield_coros' :
        e # c /\ e \in coroutines \ user_yield_coros
  <2>1. Main \notin coroutines'
    BY Tasks DEF TypeOK
  <2> QED
    BY <2>1 DEF Active
<1>3. \A e \in coroutines' \ user_yield_coros' :
        /\ origin'[e] \in Active'
        /\ origin'[e] # get_task'
        /\ \A f \in coroutines' \ user_yield_coros' : origin'[e] = origin'[f] => e = f
  BY <1>1, <1>2 DEF SchedulerInv, ChainInv
<1>4. NoCoroutineStranded'
  <2> SUFFICES ASSUME NEW S \in SUBSET Task, origin[c] \in S, ClosedUnderOrigin(S)'
               PROVE  Active' \subseteq S
    BY <1>1 DEF NoCoroutineStranded, Task
  <2>1. S \cup {c} \in SUBSET Task /\ get_task \in S \cup {c}
    BY Tasks
  <2>2. ClosedUnderOrigin(S \cup {c})
    BY DEF ClosedUnderOrigin
  <2>3. Active \subseteq S \cup {c}
    BY <2>1, <2>2 DEF SchedulerInv, ChainInv, NoCoroutineStranded
  <2> QED
    BY <2>3
<1> QED
  BY <1>1, <1>3, <1>4 DEF ChainInv

-----------------------------------------------------------------------------
(***************************************************************************)
(* Every step keeps SchedulerInv.                                          *)
(***************************************************************************)

LEMMA CreateInv ==
  ASSUME TypeOK, SchedulerInv, Create, TypeOK'
  PROVE  SchedulerInv'
<1> DEFINE c == last_cid + 1
<1>1. c \in Cid /\ c \in Task /\ c # Main /\ c # NoTask
  BY Tasks DEF Create
<1>2. c \notin coroutines /\ c \notin user_yield_coros /\ c \notin Active
  BY <1>1 DEF SchedulerInv, LiveCids, TypeOK, Active
<1>3. get_task' = c /\ get_task # c /\ get_task \in Task
  <2>1. current_task' = c
    BY DEF Create
  <2>2. get_task \in Active
    BY DEF SchedulerInv, ChainInv
  <2> QED
    BY <1>1, <1>2, <2>1, <2>2, GetTask DEF get_task
<1>4. LiveCids'
  <2>1. coroutines' \subseteq 1 .. last_cid'
    BY CoroutineAssumption DEF Create, LiveCids, SchedulerInv, TypeOK
  <2>2. \A d \in Cid : d \in coroutines' <=> phase'[d] \in {"body", "defers", "defer", "ended"}
    BY <1>1 DEF Create, LiveCids, SchedulerInv, TypeOK
  <2>3. user_yield_coros' \subseteq coroutines'
    BY DEF Create, LiveCids, SchedulerInv
  <2> QED
    BY <2>1, <2>2, <2>3 DEF LiveCids
<1>5. ChainInv'
  <2>1. Active' = Active \cup {c}
    BY <1>2 DEF Create, Active
  <2> QED
    BY <1>1, <1>2, <2>1, EnterChain DEF Create, set_origin
<1>6. SavedStacks'
  BY <1>1, <1>3, Tasks DEF Create, SavedStacks, SchedulerInv, StacksAligned, TypeOK
<1>7. StacksAligned'
  <2>1. EG_vm_stack' = c /\ cpu' = c /\ phase'[c] = "body"
    BY <1>1 DEF Create, swap_in, TypeOK
  <2>2. \A d \in coroutines' \ user_yield_coros' : swap_ctx'[d] = origin'[d]
    <3>1. cpu = get_task
      BY DEF Create, RunsPhp, Executing
    <3> QED
      BY <3>1, <1>1 DEF Create, swap_in, set_origin, SchedulerInv, StacksAligned, TypeOK
  <2> QED
    BY <2>1, <2>2, <1>3 DEF StacksAligned
<1>8. StacksOwned'
  BY DEF Create, SchedulerInv, StacksOwned
<1>9. EndedIsCurrent'
  <2>1. \A d \in Cid : phase[d] # "ended"
    BY NoneEnded DEF Create, RunsPhp
  <2> QED
    BY <2>1, <1>1 DEF Create, EndedIsCurrent, TypeOK
<1> QED
  BY <1>4, <1>5, <1>6, <1>7, <1>8, <1>9 DEF SchedulerInv

LEMMA YieldInv ==
  ASSUME TypeOK, SchedulerInv, NEW c \in Cid, NEW why \in Wait,
         Yield(c, why), TypeOK'
  PROVE  SchedulerInv'
<1>1. get_task = c /\ cpu = c
  BY DEF Yield, RunsPhp, Executing
<1>2. /\ current_task = c /\ c \in coroutines \ user_yield_coros
      /\ origin[c] \in Active /\ origin[c] \in Task /\ origin[c] # c
      /\ swap_ctx[c] = origin[c] /\ vm_stack[origin[c]] = origin[c]
  BY <1>1, TopOfChain
<1>3. get_task' = origin[c]
  BY <1>2, Tasks DEF Yield, get_task
<1>4. LiveCids'
  BY <1>2 DEF Yield, LiveCids, SchedulerInv, registry, body
<1>5. ChainInv'
  <2>1. Active' = Active \ {c}
    BY <1>2, Tasks DEF Yield, Active, registry
  <2> QED
    BY <1>1, <2>1, LeaveChain DEF Yield
<1>6. SavedStacks'
  <2>1. vm_stack'[c] = c
    BY <1>1, Tasks DEF Yield, SchedulerInv, StacksAligned, TypeOK
  <2> QED
    BY <1>1, <1>3, <2>1, Tasks DEF Yield, SavedStacks, SchedulerInv, TypeOK, registry
<1>7. StacksAligned'
  <2>1. EG_vm_stack' = get_task' /\ cpu' = get_task'
    BY <1>2, <1>3 DEF Yield, swap_out
  <2>2. get_task' \in Cid => phase'[get_task'] # "ended"
    BY <1>1, NoneEnded DEF Yield, RunsPhp, body
  <2>3. \A d \in coroutines' \ user_yield_coros' : swap_ctx'[d] = origin'[d]
    BY DEF Yield, swap_out, registry, SchedulerInv, StacksAligned
  <2> QED
    BY <2>1, <2>2, <2>3 DEF StacksAligned
<1>8. StacksOwned'
  BY DEF Yield, SchedulerInv, StacksOwned, registry
<1>9. EndedIsCurrent'
  BY <1>1, NoneEnded DEF Yield, RunsPhp, body, EndedIsCurrent
<1> QED
  BY <1>4, <1>5, <1>6, <1>7, <1>8, <1>9 DEF SchedulerInv

LEMMA ResumeInv ==
  ASSUME TypeOK, SchedulerInv, NEW d \in Cid, Resume(d), TypeOK'
  PROVE  SchedulerInv'
<1>1. /\ d \in user_yield_coros /\ d \in coroutines /\ d \notin Active
      /\ d # Main /\ d # NoTask /\ d \in Task
  BY Tasks DEF Resume, SchedulerInv, LiveCids, Active
<1>2. get_task' = d /\ get_task # d /\ get_task \in Task
  BY <1>1, GetTask DEF Resume, get_task
<1>3. cpu = get_task /\ EG_vm_stack = get_task
  BY DEF Resume, RunsPhp, Executing, SchedulerInv, StacksAligned
<1>4. LiveCids'
  BY DEF Resume, LiveCids, SchedulerInv, registry, body
<1>5. ChainInv'
  <2>1. Active' = Active \cup {d}
    BY <1>1 DEF Resume, Active, registry
  <2> QED
    BY <1>1, <2>1, EnterChain DEF Resume, set_origin
<1>6. SavedStacks'
  BY <1>2, <1>3 DEF Resume, SavedStacks, SchedulerInv, TypeOK, registry
<1>7. StacksAligned'
  <2>1. EG_vm_stack' = d /\ cpu' = d
    BY <1>1, <1>2 DEF Resume, swap_in, SchedulerInv, SavedStacks
  <2>2. phase'[d] # "ended"
    BY NoneEnded DEF Resume, RunsPhp, body
  <2>3. \A e \in coroutines' \ user_yield_coros' : swap_ctx'[e] = origin'[e]
    BY <1>3 DEF Resume, swap_in, set_origin, registry, SchedulerInv, StacksAligned,
                    TypeOK
  <2> QED
    BY <1>2, <2>1, <2>2, <2>3 DEF StacksAligned
<1>8. StacksOwned'
  BY DEF Resume, SchedulerInv, StacksOwned, registry
<1>9. EndedIsCurrent'
  BY NoneEnded DEF Resume, RunsPhp, body, EndedIsCurrent
<1> QED
  BY <1>4, <1>5, <1>6, <1>7, <1>8, <1>9 DEF SchedulerInv

LEMMA EndInv ==
  ASSUME TypeOK, SchedulerInv, NEW c \in Cid, NEW cb \in Callback,
         Executing(c), End(c, cb), TypeOK'
  PROVE  SchedulerInv'
<1>1. get_task = c /\ cpu = c
  BY DEF Executing
<1>2. /\ current_task = c /\ c \in coroutines \ user_yield_coros
      /\ swap_ctx[c] = origin[c]
  BY <1>1, TopOfChain
<1>3. get_task' = get_task /\ Active' = Active
  BY DEF End, get_task, registry, Active
<1>4. LiveCids'
  BY <1>2 DEF End, LiveCids, SchedulerInv, registry, TypeOK
<1>5. ChainInv'
  BY <1>3 DEF End, ChainInv, NoCoroutineStranded, ClosedUnderOrigin,
              SchedulerInv, registry, Active
<1>6. SavedStacks'
  BY <1>3 DEF End, SavedStacks, SchedulerInv, registry, stacks
<1>7. StacksAligned'
  BY <1>1, <1>2, <1>3 DEF End, swap_out, StacksAligned, SchedulerInv, registry,
                          stacks, TypeOK
<1>8. StacksOwned'
  BY DEF End, SchedulerInv, StacksOwned, registry, stacks
<1>9. EndedIsCurrent'
  BY <1>2 DEF End, EndedIsCurrent, SchedulerInv, TypeOK
<1> QED
  BY <1>4, <1>5, <1>6, <1>7, <1>8, <1>9 DEF SchedulerInv

LEMMA CloseInv ==
  ASSUME TypeOK, SchedulerInv, NEW c \in Cid, close_coro(c), TypeOK'
  PROVE  SchedulerInv'
<1>1. current_task = c /\ get_task = c
  BY Tasks DEF close_coro, SchedulerInv, EndedIsCurrent, get_task
<1>2. /\ c \in coroutines \ user_yield_coros
      /\ origin[c] \in Active /\ origin[c] \in Task /\ origin[c] # c
      /\ swap_ctx[c] = origin[c] /\ vm_stack[origin[c]] = origin[c]
  BY <1>1, TopOfChain
<1>3. get_task' = origin[c] /\ get_origin_task(c) = origin[c]
  BY <1>2, Tasks DEF close_coro, get_task, get_origin_task
<1>4. LiveCids'
  BY <1>2 DEF close_coro, LiveCids, SchedulerInv, TypeOK
<1>5. ChainInv'
  <2>1. Active' = Active \ {c}
    BY <1>2, Tasks DEF close_coro, Active
  <2> QED
    BY <1>1, <2>1, LeaveChain DEF close_coro
<1>6. SavedStacks'
  BY <1>1, <1>3, Tasks DEF close_coro, SavedStacks, SchedulerInv
<1>7. StacksAligned'
  <2>1. EG_vm_stack' = get_task' /\ cpu' = get_task'
    BY <1>2, <1>3 DEF close_coro, ctxs
  <2>2. get_task' \in Cid => phase'[get_task'] # "ended"
    BY <1>1, <1>2, <1>3 DEF close_coro, SchedulerInv, EndedIsCurrent, TypeOK
  <2>3. \A d \in coroutines' \ user_yield_coros' : swap_ctx'[d] = origin'[d]
    BY DEF close_coro, ctxs, SchedulerInv, StacksAligned
  <2> QED
    BY <2>1, <2>2, <2>3 DEF StacksAligned
<1>8. StacksOwned'
  BY <1>1 DEF close_coro, SchedulerInv, StacksOwned, StacksAligned
<1>9. EndedIsCurrent'
  BY <1>1 DEF close_coro, EndedIsCurrent, SchedulerInv, TypeOK
<1> QED
  BY <1>4, <1>5, <1>6, <1>7, <1>8, <1>9 DEF SchedulerInv

\* Actions that move no task: they keep the whole call structure.
LEMMA SameChainInv ==
  ASSUME TypeOK, SchedulerInv,
         UNCHANGED <<coroutines, user_yield_coros, current_task, origin,
                     stacks, ctxs>>,
         last_cid' \in {last_cid, last_cid + 1},
         \A c \in Cid : \/ phase'[c] = phase[c]
                        \/ {phase[c], phase'[c]} \subseteq {"body", "defers", "defer"}
  PROVE  SchedulerInv'
<1>1. get_task' = get_task /\ Active' = Active
  BY DEF get_task, Active
<1>2. \A c \in Cid : phase'[c] = "ended" <=> phase[c] = "ended"
  OBVIOUS
<1>3. LiveCids'
  BY DEF LiveCids, SchedulerInv, TypeOK
<1>4. ChainInv'
  BY <1>1 DEF ChainInv, NoCoroutineStranded, ClosedUnderOrigin, SchedulerInv
<1>5. SavedStacks'
  BY <1>1 DEF SavedStacks, SchedulerInv, stacks
<1>6. StacksAligned'
  BY <1>1, <1>2 DEF StacksAligned, SchedulerInv, stacks, ctxs
<1>7. StacksOwned' /\ EndedIsCurrent'
  BY <1>2 DEF StacksOwned, EndedIsCurrent, SchedulerInv, stacks
<1> QED
  BY <1>3, <1>4, <1>5, <1>6, <1>7 DEF SchedulerInv

-----------------------------------------------------------------------------
(***************************************************************************)
(* The invariant of the specification.                                     *)
(***************************************************************************)
IInv == TypeOK /\ SchedulerInv

LEMMA InitIInv == Init => IInv
<1> SUFFICES ASSUME Init PROVE IInv
  OBVIOUS
<1>1. get_task = Main /\ Active = {Main}
  BY DEF Init, get_task, Active
<1>2. TypeOK
  BY CoroutineAssumption, Tasks DEF Init, TypeOK, Phase, Callback, Wait, Task
<1>3. LiveCids
  BY DEF Init, LiveCids
<1>4. ChainInv
  BY <1>1 DEF Init, ChainInv, NoCoroutineStranded
<1>5. SavedStacks /\ StacksOwned /\ EndedIsCurrent
  BY <1>1 DEF Init, SavedStacks, StacksOwned, EndedIsCurrent
<1>6. StacksAligned
  BY <1>1, Tasks DEF Init, StacksAligned
<1> QED
  BY <1>2, <1>3, <1>4, <1>5, <1>6 DEF IInv, SchedulerInv

LEMMA NextIInv == IInv /\ [Next]_vars => IInv'
<1> SUFFICES ASSUME TypeOK, SchedulerInv, [Next]_vars PROVE TypeOK' /\ SchedulerInv'
  BY DEF IInv
<1>1. CASE Create
  BY <1>1, CreateType, CreateInv
<1>2. CASE CreateFails
  <2>1. TypeOK'
    BY <1>2 DEF CreateFails, TypeOK, Cid, registry, stacks, ctxs, body, sleeps
  <2>2. SchedulerInv'
    BY <1>2, SameChainInv DEF CreateFails, body
  <2> QED
    BY <2>1, <2>2
<1>3. ASSUME NEW c \in Cid, UserYield(c)
      PROVE  TypeOK' /\ SchedulerInv'
  <2>1. Yield(c, "yield") /\ "yield" \in Wait /\ SleepsTypeOK'
    BY <1>3 DEF UserYield, Wait, TypeOK, SleepsTypeOK, sleeps
  <2> QED
    BY <2>1, YieldType, YieldInv
<1>4. ASSUME NEW c \in Cid, UserResume(c)
      PROVE  TypeOK' /\ SchedulerInv'
  <2>1. Resume(c) /\ SleepsTypeOK'
    BY <1>4 DEF UserResume, cut_short, TypeOK, SleepsTypeOK
  <2> QED
    BY <2>1, ResumeType, ResumeInv
<1>5. ASSUME NEW c \in Cid, Sleep(c)
      PROVE  TypeOK' /\ SchedulerInv'
  <2>1. Yield(c, "sleep") /\ "sleep" \in Wait
    BY <1>5 DEF Sleep, Wait
  <2>2. SleepsTypeOK'
    BY <1>5, CoroutineAssumption DEF Sleep, TypeOK, SleepsTypeOK
  <2> QED
    BY <2>1, <2>2, YieldType, YieldInv
<1>6. ASSUME NEW c \in Cid, sleep_callback(c)
      PROVE  TypeOK' /\ SchedulerInv'
  <2>1. SleepsTypeOK'
    <3>1. sleep_timers' \in [Cid -> 0 .. MaxTimers]
      BY <1>6, CoroutineAssumption DEF sleep_callback, TypeOK
    <3>2. woken' \subseteq Cid
      BY <1>6 DEF sleep_callback, cut_short, TypeOK
    <3> QED BY <3>1, <3>2 DEF SleepsTypeOK
  <2>2. CASE \E d \in Cid : Resume(d)
    BY <2>1, <2>2, ResumeType, ResumeInv
  <2>3. CASE UNCHANGED <<registry, user_yield_coros, current_task, origin,
                         stacks, ctxs, body, awaiting>>
    <3>1. TypeOK'
      BY <2>1, <2>3 DEF TypeOK, SleepsTypeOK, registry, stacks, ctxs, body
    <3>2. SchedulerInv'
      BY <2>3, SameChainInv DEF registry, body
    <3> QED
      BY <3>1, <3>2
  <2>4. coroutines \subseteq Cid
    BY DEF TypeOK
  <2> QED
    BY <1>6, <2>2, <2>3, <2>4 DEF sleep_callback
<1>7. ASSUME NEW c \in Cid, Defer(c)
      PROVE  TypeOK' /\ SchedulerInv'
  <2>1. TypeOK'
    BY <1>7, CoroutineAssumption
       DEF Defer, TypeOK, registry, stacks, ctxs, sleeps
  <2>2. SchedulerInv'
    BY <1>7, SameChainInv DEF Defer, registry
  <2> QED
    BY <2>1, <2>2
<1>8. ASSUME NEW c \in Cid, BodyReturns(c) \/ RunDefer(c) \/ DeferReturns(c)
      PROVE  TypeOK' /\ SchedulerInv'
  <2>1. TypeOK'
    BY <1>8, CoroutineAssumption
       DEF BodyReturns, RunDefer, DeferReturns, TypeOK, registry, stacks, ctxs, sleeps, Phase
  <2>2. \A d \in Cid : \/ phase'[d] = phase[d]
                       \/ {phase[d], phase'[d]} \subseteq {"body", "defers", "defer"}
    BY <1>8 DEF BodyReturns, RunDefer, DeferReturns, TypeOK
  <2>3. SchedulerInv'
    BY <1>8, <2>2, SameChainInv DEF BodyReturns, RunDefer, DeferReturns, registry
  <2> QED
    BY <2>1, <2>3
<1>9. ASSUME NEW c \in Cid, MainFuncEnds(c) \/ DeferFails(c)
      PROVE  TypeOK' /\ SchedulerInv'
  <2>1. PICK cb \in Callback : End(c, cb)
    BY <1>9 DEF MainFuncEnds, DeferFails, TypeOK, Callback
  <2>2. Executing(c)
    BY <1>9 DEF MainFuncEnds, DeferFails
  <2> QED
    BY <2>1, <2>2, EndType, EndInv
<1>10. ASSUME NEW c \in Cid, set_callback(c)
       PROVE  TypeOK' /\ SchedulerInv'
  <2>1. TypeOK'
    BY <1>10 DEF set_callback, TypeOK, registry, stacks, ctxs, sleeps, Callback
  <2>2. SchedulerInv'
    BY <1>10, SameChainInv DEF set_callback, registry
  <2> QED
    BY <2>1, <2>2
<1>11. ASSUME NEW c \in Cid, close_coro(c)
       PROVE  TypeOK' /\ SchedulerInv'
  BY <1>11, CloseType, CloseInv
<1>12. CASE UNCHANGED vars
  <2>1. TypeOK'
    BY <1>12 DEF vars, TypeOK, registry, stacks, ctxs, body, sleeps
  <2>2. SchedulerInv'
    BY <1>12, SameChainInv DEF vars, registry, body
  <2> QED
    BY <2>1, <2>2
<1> QED
  BY <1>1, <1>2, <1>3, <1>4, <1>5, <1>6, <1>7, <1>8, <1>9, <1>10, <1>11, <1>12
     DEF Next

\* The inductive invariant holds in every reachable state.
THEOREM SpecIInv == Spec => []IInv
<1>1. Init => IInv
  BY InitIInv
<1>2. IInv /\ [Next]_vars => IInv'
  BY NextIInv
<1> QED
  BY <1>1, <1>2, PTL DEF Spec

\* Type correctness: in particular yield and close_coro always find a task to
\* go back to, never the NULL a coroutine's origin starts with.
THEOREM TypeCorrect == Spec => []TypeOK
<1>1. IInv => TypeOK
  BY DEF IInv
<1> QED
  BY <1>1, SpecIInv, PTL

\* However creates, resumes, yields and ends are nested, and also when PHP
\* code resumes coroutines that sleep, every live coroutine that has not
\* yielded gets the CPU back.
THEOREM NoneStranded == Spec => []NoCoroutineStranded
<1>1. IInv => NoCoroutineStranded
  BY DEF IInv, SchedulerInv, ChainInv
<1> QED
  BY <1>1, SpecIInv, PTL

\* PHP code runs on its own PHP stack and its own C stack, close_coro frees
\* the stack of the coroutine that ended and no other, and that coroutine is
\* the current one.
THEOREM StacksCorrect == Spec => [](StacksAligned /\ StacksOwned /\ EndedIsCurrent)
<1>1. IInv => StacksAligned /\ StacksOwned /\ EndedIsCurrent
  BY DEF IInv, SchedulerInv
<1> QED
  BY <1>1, SpecIInv, PTL

-----------------------------------------------------------------------------
(***************************************************************************)
(* Invariants that rest on IInv.                                           *)
(***************************************************************************)

\* A coroutine that was never created is in no table, and a step that takes
\* neither Create nor close_coro changes neither the table nor the counter.
LEMMA RegistryStep ==
  ASSUME IInv, RegistryExact, [Next]_vars
  PROVE  RegistryExact'
<1>1. IsFiniteSet(coroutines)
  <2>1. last_cid \in Nat /\ coroutines \subseteq 1 .. last_cid
    BY CoroutineAssumption DEF IInv, TypeOK, SchedulerInv, LiveCids
  <2>2. IsFiniteSet(1 .. last_cid)
    BY <2>1, FS_Interval
  <2> QED
    BY <2>1, <2>2, FS_Subset
<1>2. CASE Create
  <2> DEFINE c == last_cid + 1
  <2>1. c \notin coroutines
    BY <1>2 DEF IInv, TypeOK, SchedulerInv, LiveCids
  <2>2. Cardinality(coroutines \cup {c}) = Cardinality(coroutines) + 1
    BY <1>1, <2>1, FS_AddElement
  <2>3. total_num' = Cardinality(coroutines')
    BY <1>2, <2>2 DEF Create, RegistryExact
  <2>4. \A d, e \in coroutines' : Key(d) = Key(e) => d = e
    BY <1>2 DEF Create, KeyFree, RegistryExact
  <2> QED
    BY <2>3, <2>4 DEF RegistryExact, Key
<1>3. ASSUME NEW c \in Cid, close_coro(c)
      PROVE  RegistryExact'
  <2>1. c \in coroutines
    BY <1>3 DEF close_coro, IInv, SchedulerInv, LiveCids
  <2>2. Cardinality(coroutines \ {c}) = Cardinality(coroutines) - 1
    BY <1>1, <2>1, FS_RemoveElement
  <2> QED
    BY <1>3, <2>2 DEF close_coro, RegistryExact, Key
<1>4. CASE UNCHANGED <<coroutines, total_num>>
  BY <1>4 DEF RegistryExact, Key
<1> QED
  BY <1>2, <1>3, <1>4
     DEF Next, vars, CreateFails, UserYield, UserResume, Sleep, sleep_callback,
         Yield, Resume, Defer, BodyReturns, RunDefer, DeferReturns,
         MainFuncEnds, DeferFails, End, set_callback, registry

\* Coroutine::getTotalNum is exact and the hash table is a table: also after
\* the keys have wrapped around, no live coroutine is replaced by a new one.
THEOREM RegistryCorrect == Spec => []RegistryExact
<1>1. Init => RegistryExact
  BY FS_EmptySet DEF Init, RegistryExact
<1>2. IInv /\ RegistryExact /\ [Next]_vars => RegistryExact'
  BY RegistryStep
<1> QED
  BY <1>1, <1>2, SpecIInv, PTL DEF Spec

LEMMA CallbackStep ==
  ASSUME IInv, CallbackPending, [Next]_vars
  PROVE  CallbackPending'
<1> USE DEF CallbackPending
<1>1. TypeOK /\ SchedulerInv
  BY DEF IInv
<1>2. CASE Create
  BY <1>1, <1>2 DEF Create, TypeOK
<1>3. ASSUME NEW c \in Cid, set_callback(c)
      PROVE  CallbackPending'
  <2>1. phase[c] # "ended"
    BY <1>1, <1>3, NoneEnded DEF set_callback, RunsPhp
  <2> QED
    BY <1>1, <1>3, <2>1 DEF set_callback, registry, TypeOK
<1>4. ASSUME NEW c \in Cid, BodyReturns(c) \/ RunDefer(c) \/ DeferReturns(c)
      PROVE  CallbackPending'
  BY <1>1, <1>4 DEF BodyReturns, RunDefer, DeferReturns, registry, TypeOK
<1>5. ASSUME NEW c \in Cid, MainFuncEnds(c) \/ DeferFails(c)
      PROVE  CallbackPending'
  <2>1. PICK cb \in Callback \ {"set"} : End(c, cb)
    BY <1>1, <1>5 DEF MainFuncEnds, DeferFails, TypeOK, Callback
  <2> QED
    BY <1>1, <2>1 DEF End, registry, TypeOK
<1>6. ASSUME NEW c \in Cid, close_coro(c)
      PROVE  CallbackPending'
  BY <1>1, <1>6 DEF close_coro, TypeOK
<1>7. CASE UNCHANGED <<coroutines, phase, callback>>
  BY <1>7
<1> QED
  BY <1>2, <1>3, <1>4, <1>5, <1>6, <1>7
     DEF Next, vars, CreateFails, UserYield, UserResume, Sleep, sleep_callback,
         Yield, Resume, Defer, registry, body

\* A callback that is set belongs to a coroutine that has not ended, so that
\* the end of main_func is still to come.
THEOREM CallbackKept == Spec => []CallbackPending
<1>1. Init => CallbackPending
  BY DEF Init, CallbackPending
<1>2. IInv /\ CallbackPending /\ [Next]_vars => CallbackPending'
  BY CallbackStep
<1> QED
  BY <1>1, <1>2, SpecIInv, PTL DEF Spec

\* The callback of c is untouched, set from nothing, or taken at the end of c.
LEMMA CallbackMoves ==
  ASSUME TypeOK, [Next]_vars, NEW c \in Cid, callback'[c] # callback[c]
  PROVE  \/ callback[c] = "none"
         \/ /\ callback[c] = "set" /\ phase'[c] = "ended"
            /\ callback'[c] = "ran" => defer_tasks[c] = 0
<1>1. ASSUME NEW d \in Cid, set_callback(d) PROVE callback[c] = "none"
  BY <1>1 DEF set_callback, TypeOK
<1>2. ASSUME NEW d \in Cid, NEW cb, End(d, cb)
      PROVE  d = c /\ phase'[c] = "ended" /\ callback'[c] = cb
  BY <1>2 DEF End, TypeOK
<1>3. ASSUME NEW d \in Cid, MainFuncEnds(d)
      PROVE  callback[c] = "set" /\ phase'[c] = "ended" /\ defer_tasks[c] = 0
  <2>1. defer_tasks[d] = 0 /\ End(d, IF callback[d] = "set" THEN "ran" ELSE callback[d])
    BY <1>3 DEF MainFuncEnds
  <2>2. /\ d = c /\ phase'[c] = "ended"
        /\ callback'[c] = IF callback[d] = "set" THEN "ran" ELSE callback[d]
    BY <1>2, <2>1
  <2> QED
    BY <2>1, <2>2
<1>4. ASSUME NEW d \in Cid, DeferFails(d)
      PROVE  callback[c] = "set" /\ phase'[c] = "ended" /\ callback'[c] = "lost"
  <2>1. End(d, IF callback[d] = "set" THEN "lost" ELSE callback[d])
    BY <1>4 DEF DeferFails
  <2>2. /\ d = c /\ phase'[c] = "ended"
        /\ callback'[c] = IF callback[d] = "set" THEN "lost" ELSE callback[d]
    BY <1>2, <2>1
  <2> QED
    BY <2>2
<1>5. CASE UNCHANGED callback
  BY <1>5
<1> QED
  BY <1>1, <1>3, <1>4, <1>5
     DEF Next, vars, Create, CreateFails, UserYield, UserResume, Sleep, sleep_callback,
         Yield, Resume, Defer, BodyReturns, RunDefer, DeferReturns, close_coro, body

\* However coroutines nest, suspend and fail, the callback of one is taken once, at its
\* end, and runs only if no defer is left.
THEOREM CallbackOnce == Spec => CallbackOnceAtEnd
<1>1. IInv /\ [Next]_vars =>
        [\A c \in Cid : callback'[c] # callback[c] =>
           \/ callback[c] = "none"
           \/ callback[c] = "set" /\ phase'[c] = "ended"
              /\ (callback'[c] = "ran" => defer_tasks[c] = 0)]_vars
  BY CallbackMoves DEF IInv
<1> QED
  BY <1>1, SpecIInv, PTL DEF Spec, CallbackOnceAtEnd

LEMMA SleepStep ==
  ASSUME IInv, SleepTimersExact, [Next]_vars
  PROVE  SleepTimersExact'
<1> USE DEF SleepTimersExact
<1>1. TypeOK /\ SchedulerInv
  BY DEF IInv
<1>2. CASE Create
  BY <1>1, <1>2 DEF Create, sleeps
<1>3. ASSUME NEW c \in Cid, UserYield(c)
      PROVE  SleepTimersExact'
  <2>1. c \in coroutines \ user_yield_coros
    BY <1>1, <1>3, TopOfChain DEF UserYield, Yield, RunsPhp, Executing
  <2> QED
    BY <1>1, <1>3, <2>1 DEF UserYield, Yield, registry, sleeps, TypeOK
<1>4. ASSUME NEW c \in Cid, UserResume(c)
      PROVE  SleepTimersExact'
  BY <1>1, <1>4 DEF UserResume, Resume, cut_short, registry, TypeOK
<1>5. ASSUME NEW c \in Cid, Sleep(c)
      PROVE  SleepTimersExact'
  <2>1. c \in coroutines \ user_yield_coros
    BY <1>1, <1>5, TopOfChain DEF Sleep, Yield, RunsPhp, Executing
  <2> QED
    BY <1>1, <1>5, <2>1 DEF Sleep, Yield, registry, TypeOK
<1>6. ASSUME NEW c \in Cid, sleep_callback(c)
      PROVE  SleepTimersExact'
  <2>1. /\ sleep_timers' = [sleep_timers EXCEPT ![c] = @ - 1]
        /\ sleep_timers[c] > 0 /\ sleep_timers \in [Cid -> Int]
    BY <1>1, <1>6, CoroutineAssumption DEF sleep_callback, TypeOK
  <2>2. CASE Resume(c) /\ UNCHANGED woken
    BY <1>1, <2>1, <2>2 DEF Resume, registry, TypeOK
  <2>3. ASSUME c \notin coroutines, NEW d \in coroutines, Resume(d), cut_short(d)
        PROVE  SleepTimersExact'
    BY <1>1, <2>1, <2>3 DEF Resume, cut_short, registry, TypeOK
  <2>4. CASE /\ c \notin coroutines
             /\ UNCHANGED <<coroutines, user_yield_coros, awaiting, woken>>
    BY <1>1, <2>1, <2>4 DEF TypeOK
  <2> QED
    BY <1>6, <2>2, <2>3, <2>4 DEF sleep_callback, registry
<1>7. ASSUME NEW c \in Cid, close_coro(c)
      PROVE  SleepTimersExact'
  <2>1. c \in coroutines \ user_yield_coros
    BY <1>1, <1>7, TopOfChain, Tasks
       DEF close_coro, SchedulerInv, EndedIsCurrent, get_task
  <2> QED
    BY <1>1, <1>7, <2>1 DEF close_coro, sleeps, TypeOK
<1>8. CASE UNCHANGED <<coroutines, user_yield_coros, awaiting, sleeps>>
  BY <1>8 DEF sleeps
<1> QED
  BY <1>2, <1>3, <1>4, <1>5, <1>6, <1>7, <1>8
     DEF Next, vars, CreateFails, Defer, BodyReturns, RunDefer, DeferReturns,
         MainFuncEnds,
         DeferFails, End, set_callback, registry

\* Whatever PHP code resumes, a coroutine that sleeps is alive and has a timer
\* that will wake it; and a timer beyond that, or of a coroutine that is gone,
\* belongs to a coroutine whose sleep was cut short.
THEOREM SleepTimersGood == Spec => []SleepTimersExact
<1>1. Init => SleepTimersExact
  BY DEF Init, SleepTimersExact
<1>2. IInv /\ SleepTimersExact /\ [Next]_vars => SleepTimersExact'
  BY SleepStep
<1> QED
  BY <1>1, <1>2, SpecIInv, PTL DEF Spec

-----------------------------------------------------------------------------
(***************************************************************************)
(* The scheduler implements CallStack.  Chain is recursive over the heap   *)
(* of origins.  That it is defined is an invariant: the chain of a state   *)
(* gives that of the next one.  That it is unique comes from the tasks not *)
(* being stranded: two chains that differed at the running task would      *)
(* differ at a set of tasks that is closed under origin, and at Main.      *)
(***************************************************************************)
link(f, o, t) == IF t = Main THEN <<Main>> ELSE Append(f[o[t]], t)

LEMMA ChainUnique ==
  ASSUME NEW A, NEW o, NEW top \in A, NEW f, NEW g, Main \in A,
         f = [t \in A |-> link(f, o, t)], g = [t \in A |-> link(g, o, t)],
         \A t \in A \ {Main} : o[t] \in A,
         \A S \in SUBSET A : top \in S /\ (\A t \in S \ {Main} : o[t] \in S) => A \subseteq S
  PROVE  f[top] = g[top]
<1> SUFFICES ASSUME f[top] # g[top] PROVE FALSE
  OBVIOUS
<1> DEFINE S == {t \in A : f[t] # g[t]}
<1>1. \A t \in A : f[t] = link(f, o, t) /\ g[t] = link(g, o, t)
  OBVIOUS
<1>2. Main \notin S
  BY <1>1 DEF link
<1>3. ASSUME NEW t \in S \ {Main} PROVE o[t] \in S
  <2>1. f[t] = Append(f[o[t]], t) /\ g[t] = Append(g[o[t]], t) /\ f[t] # g[t]
    BY <1>1 DEF link
  <2>2. f[o[t]] # g[o[t]]
    BY <2>1
  <2> QED BY <2>2
<1>4. S \in SUBSET A /\ top \in S
  OBVIOUS
<1> HIDE DEF S
<1> QED BY <1>2, <1>3, <1>4

ChainDefined == Chain = [t \in Active |-> link(Chain, origin, t)]

\* The chain of the next state, if there is one.
LEMMA ChainNext ==
  ASSUME TypeOK', SchedulerInv', NEW g, g = [t \in Active' |-> link(g, origin', t)]
  PROVE  ChainDefined' /\ (Chain[get_task])' = g[get_task']
<1>1. Chain' = CHOOSE f : f = [t \in Active' |-> link(f, origin', t)]
  BY DEF Chain, link
<1>2. Chain' = [t \in Active' |-> link(Chain', origin', t)]
  BY <1>1
<1>3. get_task' \in Active' /\ Main \in Active' /\ Active' \subseteq Task
  BY Tasks DEF SchedulerInv, ChainInv, Active, TypeOK
<1>4. \A t \in Active' \ {Main} : origin'[t] \in Active'
  BY DEF SchedulerInv, ChainInv, Active
<1>5. \A S \in SUBSET Active' :
        get_task' \in S /\ (\A t \in S \ {Main} : origin'[t] \in S) => Active' \subseteq S
  BY <1>3 DEF SchedulerInv, ChainInv, NoCoroutineStranded, ClosedUnderOrigin
<1>6. Chain'[get_task'] = g[get_task']
  BY <1>2, <1>3, <1>4, <1>5, ChainUnique
<1> QED BY <1>2, <1>6 DEF ChainDefined

\* The chain of the running task and of the one below it are not empty.
LEMMA ChainIsSeq ==
  ASSUME TypeOK, SchedulerInv, ChainDefined
  PROVE  /\ Chain[get_task] \in Seq(Task) /\ Len(Chain[get_task]) >= 1
         /\ get_task # Main =>
              /\ Chain[origin[get_task]] \in Seq(Task)
              /\ Len(Chain[origin[get_task]]) >= 1
              /\ Chain[get_task] = Append(Chain[origin[get_task]], get_task)
<1> DEFINE Good(s) == s \in Seq(Task) /\ Len(s) >= 1
           N == {t \in Active : ~ Good(Chain[t])}
<1>1. /\ get_task \in Active /\ Main \in Active /\ Active \subseteq Task
      /\ \A t \in Active \ {Main} : origin[t] \in Active
  BY Tasks DEF SchedulerInv, ChainInv, Active, TypeOK
<1>2. /\ Chain[Main] = <<Main>>
      /\ \A t \in Active \ {Main} : Chain[t] = Append(Chain[origin[t]], t)
  BY <1>1 DEF ChainDefined, link
<1>3. Main \notin N
  <2>1. <<Main>> \in Seq(Task) /\ Len(<<Main>>) >= 1
    BY Tasks
  <2>2. Good(Chain[Main])
    BY <1>2, <2>1
  <2> HIDE DEF Good
  <2> QED BY <2>2
<1>4. ASSUME NEW s, Good(s), NEW t \in Task PROVE Good(Append(s, t))
  BY <1>4, AppendProperties
<1>5. ASSUME NEW t \in N PROVE t # Main /\ origin[t] \in N
  <2>1. t # Main /\ t \in Task /\ origin[t] \in Active /\ Chain[t] = Append(Chain[origin[t]], t)
    BY <1>1, <1>2, <1>3
  <2> HIDE DEF Good
  <2> QED BY <1>4, <1>5, <2>1
<1> HIDE DEF N, Good
<1>6. ASSUME NEW S \in SUBSET Task, get_task \in S, ClosedUnderOrigin(S) PROVE Main \in S
  BY <1>1, <1>6 DEF SchedulerInv, ChainInv, NoCoroutineStranded
<1>7. get_task \notin N
  <2>1. N \in SUBSET Task
    BY <1>1 DEF N
  <2>2. ClosedUnderOrigin(N)
    BY <1>5 DEF ClosedUnderOrigin
  <2> QED BY <1>3, <1>6, <2>1, <2>2
<1>8. get_task # Main => origin[get_task] \notin N
  <2> SUFFICES ASSUME get_task # Main, origin[get_task] \in N PROVE FALSE
    OBVIOUS
  <2>1. N \cup {get_task} \in SUBSET Task
    BY <1>1 DEF N
  <2>2. ClosedUnderOrigin(N \cup {get_task})
    BY <1>5 DEF ClosedUnderOrigin
  <2> QED BY <1>3, <1>6, <2>1, <2>2
<1> QED BY <1>1, <1>2, <1>7, <1>8 DEF N, Good

\* A task that is entered goes on top of the chain.
LEMMA EnterPushes ==
  ASSUME TypeOK, SchedulerInv, ChainDefined, TypeOK', SchedulerInv',
         NEW d \in Cid, d \notin Active, get_task' = d,
         origin' = [origin EXCEPT ![d] = get_task],
         Active' = Active \cup {d}
  PROVE  ChainDefined' /\ (Chain[get_task])' = Append(Chain[get_task], d)
<1> DEFINE g == [t \in Active' |-> IF t = d THEN Append(Chain[get_task], d) ELSE Chain[t]]
<1>1. /\ get_task \in Active /\ d # Main /\ origin'[d] = get_task
      /\ \A t \in Active \ {Main} : origin'[t] = origin[t] /\ origin[t] \in Active
      /\ \A t \in Active : Chain[t] = link(Chain, origin, t)
  BY Tasks DEF SchedulerInv, ChainInv, Active, TypeOK, ChainDefined
<1>2. (\A t \in Active : g[t] = Chain[t]) /\ g[d] = Append(Chain[get_task], d)
  OBVIOUS
<1>3. \A t \in Active' : g[t] = link(g, origin', t)
  <2>1. g[d] = link(g, origin', d)
    BY <1>1, <1>2 DEF link
  <2>2. \A t \in Active : g[t] = link(g, origin', t)
    BY <1>1, <1>2 DEF link
  <2> QED BY <2>1, <2>2
<1>4. g = [t \in Active' |-> link(g, origin', t)]
  <2>1. g = [t \in Active' |-> g[t]]
    OBVIOUS
  <2> HIDE DEF g
  <2> QED BY <1>3, <2>1
<1> HIDE DEF g
<1> QED BY <1>2, <1>4, ChainNext

\* A task that is left was on top.
LEMMA LeavePops ==
  ASSUME TypeOK, SchedulerInv, ChainDefined, TypeOK', SchedulerInv',
         NEW c \in Cid, get_task = c, get_task' = origin[c], UNCHANGED origin,
         Active' = Active \ {c}
  PROVE  /\ ChainDefined'
         /\ Len(Chain[get_task]) > 1
         /\ (Chain[get_task])' = Front(Chain[get_task]) /\ Last(Chain[get_task]) = c
<1> DEFINE g == [t \in Active' |-> Chain[t]]
           s == Chain[origin[c]]
<1>1. /\ c # Main /\ c \in Task /\ origin[c] \in Active'
      /\ \A t \in Active' \ {Main} : origin[t] \in Active' /\ t \in Active
      /\ \A t \in Active : Chain[t] = link(Chain, origin, t)
      /\ Main \in Active'
  BY Tasks DEF SchedulerInv, ChainInv, Active, ChainDefined
<1>2. \A t \in Active' : g[t] = Chain[t]
  OBVIOUS
<1>3. \A t \in Active' : g[t] = link(g, origin', t)
  BY <1>1, <1>2 DEF link
<1>4. g = [t \in Active' |-> link(g, origin', t)]
  <2>1. g = [t \in Active' |-> g[t]]
    OBVIOUS
  <2> HIDE DEF g
  <2> QED BY <1>3, <2>1
<1> HIDE DEF g
<1>5. ChainDefined' /\ (Chain[get_task])' = Chain[origin[c]]
  BY <1>1, <1>2, <1>4, ChainNext
<1>6. s \in Seq(Task) /\ Len(s) >= 1 /\ Chain[c] = Append(s, c)
  BY <1>1, ChainIsSeq
<1> HIDE DEF s
<1>7. Len(Append(s, c)) > 1 /\ Last(Append(s, c)) = c /\ Front(Append(s, c)) = s
  <2>1. /\ Append(s, c) \in Seq(Task) /\ Len(Append(s, c)) = Len(s) + 1
        /\ \A i \in 1 .. Len(s) : Append(s, c)[i] = s[i]
        /\ Append(s, c)[Len(s) + 1] = c
    BY <1>1, <1>6, AppendProperties
  <2>2. Len(s) \in Nat /\ Len(Append(s, c)) - 1 = Len(s)
    BY <1>6, <2>1
  <2>3. SubSeq(Append(s, c), 1, Len(s)) = [i \in 1 .. Len(s) |-> s[i]]
    BY <1>1, <1>6, <2>1, <2>2
  <2>4. s = [i \in 1 .. Len(s) |-> s[i]]
    BY <1>6
  <2> QED BY <1>6, <2>1, <2>2, <2>3, <2>4 DEF Front, Last
<1> QED BY <1>5, <1>6, <1>7 DEF s

\* A step that moves no task.
LEMMA ChainStays ==
  ASSUME TypeOK', SchedulerInv', ChainDefined,
         UNCHANGED <<coroutines, user_yield_coros, current_task, origin>>
  PROVE  ChainDefined' /\ (Chain[get_task])' = Chain[get_task]
<1>1. Active' = Active /\ get_task' = get_task /\ origin' = origin
  BY DEF Active, get_task
<1>2. Chain = [t \in Active' |-> link(Chain, origin', t)]
  BY <1>1 DEF ChainDefined
<1> QED BY <1>1, <1>2, ChainNext

\* The cids not handed out yet belong to nobody.
FreshCids == \A c \in Cid : c > last_cid => phase[c] = "none"

SeenCids == {c \in Cid : phase[c] # "none"}
StackShown == <<Chain[get_task], user_yield_coros, SeenCids>>

StackInv == ChainDefined /\ FreshCids

LEMMA StackInit == Init => Abstract!CSInit /\ StackInv
<1> SUFFICES ASSUME Init PROVE Abstract!CSInit /\ StackInv
  OBVIOUS
<1>1. get_task = Main /\ Active = {Main}
  BY DEF Init, get_task, Active
<1>2. Chain = [t \in Active |-> link(Chain, origin, t)]
  <2> DEFINE g == [t \in Active |-> <<Main>>]
  <2>1. g = [t \in Active |-> link(g, origin, t)]
    BY <1>1 DEF link
  <2>2. Chain = CHOOSE f : f = [t \in Active |-> link(f, origin, t)]
    BY DEF Chain, link
  <2> HIDE DEF g
  <2> QED BY <2>1, <2>2
<1>3. Chain[get_task] = <<Main>>
  BY <1>1, <1>2 DEF link
<1>4. user_yield_coros = {} /\ {c \in Cid : phase[c] # "none"} = {}
  BY DEF Init
<1>5. FreshCids
  BY DEF Init, FreshCids
<1> QED BY <1>2, <1>3, <1>4, <1>5 DEF Abstract!CSInit, StackInv, ChainDefined

\* What the scheduler does to the stack.
StackMoves ==
  \/ \E c \in Cid : Abstract!Enter(c) \/ Abstract!Reenter(c)
  \/ Abstract!Suspend
  \/ Abstract!Leave
  \/ UNCHANGED StackShown

LEMMA YieldSuspends ==
  ASSUME IInv, IInv', StackInv, NEW c \in Cid, NEW why, Yield(c, why)
  PROVE  Abstract!Suspend /\ StackInv'
<1>1. TypeOK /\ SchedulerInv /\ TypeOK' /\ SchedulerInv' /\ ChainDefined /\ FreshCids
  BY DEF IInv, StackInv
<1>2. get_task = c
  BY DEF Yield, RunsPhp, Executing
<1>3. origin[c] \in Task /\ c \in coroutines \ user_yield_coros
  BY <1>1, <1>2, TopOfChain
<1>4. get_task' = origin[c] /\ Active' = Active \ {c} /\ UNCHANGED origin
  BY <1>3, Tasks DEF Yield, get_task, Active, registry
<1>5. /\ ChainDefined' /\ Len(Chain[get_task]) > 1
      /\ (Chain[get_task])' = Front(Chain[get_task]) /\ Last(Chain[get_task]) = c
  BY <1>1, <1>2, <1>4, LeavePops
<1>6. /\ user_yield_coros' = user_yield_coros \cup {c}
      /\ phase' = phase /\ last_cid' = last_cid
  BY DEF Yield, body, registry
<1>7. FreshCids' /\ SeenCids' = SeenCids
  BY <1>1, <1>6 DEF FreshCids, SeenCids
<1>8. Abstract!Suspend
  <2>1. user_yield_coros' = user_yield_coros \cup {Last(Chain[get_task])}
    BY <1>5, <1>6
  <2> QED BY <1>5, <1>7, <2>1 DEF Abstract!Suspend, SeenCids,
     Abstract!Front, Abstract!Last, Front, Last
<1> QED BY <1>5, <1>7, <1>8 DEF StackInv

LEMMA ResumeReenters ==
  ASSUME IInv, IInv', StackInv, NEW d \in Cid, Resume(d)
  PROVE  Abstract!Reenter(d) /\ StackInv'
<1>1. TypeOK /\ SchedulerInv /\ TypeOK' /\ SchedulerInv' /\ ChainDefined /\ FreshCids
  BY DEF IInv, StackInv
<1>2. d \in user_yield_coros /\ d \in coroutines /\ d \notin Active
  BY <1>1, Tasks DEF Resume, SchedulerInv, LiveCids, Active
<1>3. /\ get_task' = d /\ Active' = Active \cup {d}
      /\ origin' = [origin EXCEPT ![d] = get_task]
  BY <1>2, Tasks DEF Resume, get_task, Active, registry, set_origin
<1>4. ChainDefined' /\ (Chain[get_task])' = Append(Chain[get_task], d)
  BY <1>1, <1>2, <1>3, EnterPushes
<1>5. /\ user_yield_coros' = user_yield_coros \ {d}
      /\ phase' = phase /\ last_cid' = last_cid
  BY DEF Resume, body, registry
<1> QED BY <1>1, <1>2, <1>4, <1>5 DEF Abstract!Reenter, StackInv, FreshCids

LEMMA CreateEnters ==
  ASSUME IInv, IInv', StackInv, Create
  PROVE  Abstract!Enter(last_cid + 1) /\ last_cid + 1 \in Cid /\ StackInv'
<1> DEFINE n == last_cid + 1
<1>1. TypeOK /\ SchedulerInv /\ TypeOK' /\ SchedulerInv' /\ ChainDefined /\ FreshCids
  BY DEF IInv, StackInv
<1>2. n \in Cid /\ last_cid \in Nat /\ last_cid' = n
  BY <1>1, CoroutineAssumption DEF Create, TypeOK
<1>3. phase[n] = "none"
  BY <1>1, <1>2 DEF FreshCids, Cid
<1>4. /\ current_task' = n /\ coroutines' = coroutines \cup {n}
      /\ user_yield_coros' = user_yield_coros /\ phase' = [phase EXCEPT ![n] = "body"]
      /\ origin' = [origin EXCEPT ![n] = get_task]
  BY DEF Create, set_origin
<1>5. n \notin coroutines
  BY <1>1, <1>2, <1>3 DEF SchedulerInv, LiveCids
<1>6. FreshCids'
  BY <1>1, <1>2, <1>4, CoroutineAssumption DEF FreshCids, TypeOK, Cid
<1>7. SeenCids' = SeenCids \cup {n} /\ n \notin SeenCids
  BY <1>1, <1>2, <1>3, <1>4 DEF SeenCids, TypeOK
<1> HIDE DEF n
<1>8. get_task' = n /\ n \notin Active /\ Active' = Active \cup {n}
  BY <1>1, <1>2, <1>4, <1>5, Tasks DEF get_task, Active, SchedulerInv, LiveCids
<1>9. ChainDefined' /\ (Chain[get_task])' = Append(Chain[get_task], n)
  BY <1>1, <1>2, <1>4, <1>8, EnterPushes
<1>10. Abstract!Enter(n)
  BY <1>2, <1>4, <1>7, <1>9 DEF Abstract!Enter, SeenCids
<1> QED BY <1>2, <1>6, <1>9, <1>10 DEF StackInv, n

LEMMA CloseLeaves ==
  ASSUME IInv, IInv', StackInv, NEW c \in Cid, close_coro(c)
  PROVE  Abstract!Leave /\ StackInv'
<1>1. TypeOK /\ SchedulerInv /\ TypeOK' /\ SchedulerInv' /\ ChainDefined /\ FreshCids
  BY DEF IInv, StackInv
<1>2. get_task = c
  BY <1>1, Tasks DEF close_coro, SchedulerInv, EndedIsCurrent, get_task
<1>3. origin[c] \in Task /\ c \in coroutines \ user_yield_coros
  BY <1>1, <1>2, TopOfChain
<1>4. get_task' = origin[c] /\ Active' = Active \ {c} /\ UNCHANGED origin
  BY <1>3, Tasks DEF close_coro, get_task, Active
<1>5. /\ ChainDefined' /\ Len(Chain[get_task]) > 1
      /\ (Chain[get_task])' = Front(Chain[get_task])
  BY <1>1, <1>2, <1>4, LeavePops
<1>6. /\ user_yield_coros' = user_yield_coros /\ last_cid' = last_cid
      /\ phase[c] = "ended" /\ phase' = [phase EXCEPT ![c] = "gone"]
  BY <1>3 DEF close_coro
<1>7. SeenCids' = SeenCids /\ FreshCids'
  BY <1>1, <1>6 DEF SeenCids, FreshCids, TypeOK
<1>8. Abstract!Leave
  BY <1>5, <1>6, <1>7 DEF Abstract!Leave, SeenCids, Abstract!Front, Front
<1> QED BY <1>5, <1>7, <1>8 DEF StackInv

LEMMA StackStep ==
  ASSUME IInv, IInv', StackInv, [Next]_vars
  PROVE  StackMoves /\ StackInv'
<1>0. TypeOK /\ TypeOK' /\ SchedulerInv' /\ ChainDefined /\ FreshCids
  BY DEF IInv, StackInv
<1>1. ASSUME UNCHANGED <<coroutines, user_yield_coros, current_task, origin>>,
             \A c \in Cid : phase'[c] = "none" <=> phase[c] = "none",
             last_cid' \in Nat, last_cid <= last_cid'
      PROVE  StackMoves /\ StackInv'
  <2>1. ChainDefined' /\ (Chain[get_task])' = Chain[get_task]
    BY <1>0, <1>1, ChainStays
  <2>2. SeenCids' = SeenCids
    BY <1>1 DEF SeenCids
  <2>3. FreshCids'
    BY <1>0, <1>1, CoroutineAssumption DEF FreshCids, TypeOK, Cid
  <2> QED BY <1>1, <2>1, <2>2, <2>3 DEF StackMoves, StackShown, StackInv
<1>2. last_cid \in Nat
  BY <1>0, CoroutineAssumption DEF TypeOK
<1>3. CASE Create
  <2>1. \E n \in Cid : Abstract!Enter(n) /\ StackInv'
    BY <1>3, CreateEnters DEF Abstract!Enter
  <2> QED BY <2>1 DEF StackMoves
<1>4. CASE CreateFails
  BY <1>1, <1>2, <1>4 DEF CreateFails, body
<1>5. ASSUME NEW c \in Cid, UserYield(c) \/ Sleep(c) PROVE StackMoves /\ StackInv'
  BY <1>5, YieldSuspends DEF UserYield, Sleep, StackMoves
<1>6. ASSUME NEW c \in Cid, UserResume(c) PROVE StackMoves /\ StackInv'
  BY <1>6, ResumeReenters DEF UserResume, StackMoves
<1>7. ASSUME NEW c \in Cid, sleep_callback(c) PROVE StackMoves /\ StackInv'
  <2>1. ASSUME NEW d \in Cid, Resume(d) PROVE StackMoves /\ StackInv'
    BY <2>1, ResumeReenters DEF StackMoves
  <2>2. CASE UNCHANGED <<registry, user_yield_coros, current_task, origin, stacks, ctxs, body,
                         awaiting>>
    BY <1>1, <1>2, <2>2 DEF registry, body
  <2> QED BY <1>0, <1>7, <2>1, <2>2 DEF sleep_callback, TypeOK
<1>8. ASSUME NEW c \in Cid,
             Defer(c) \/ BodyReturns(c) \/ RunDefer(c) \/ DeferReturns(c) \/ set_callback(c)
      PROVE  StackMoves /\ StackInv'
  <2>1. /\ UNCHANGED <<registry, user_yield_coros, current_task, origin>>
        /\ \/ phase' = phase
           \/ phase[c] # "none" /\ \E p \in {"defers", "defer"} : phase' = [phase EXCEPT ![c] = p]
    BY <1>8 DEF Defer, BodyReturns, RunDefer, DeferReturns, set_callback
  <2>2. \A d \in Cid : phase'[d] = "none" <=> phase[d] = "none"
    BY <1>0, <2>1 DEF TypeOK
  <2> QED BY <1>1, <1>2, <2>1, <2>2 DEF registry
<1>9. ASSUME NEW c \in Cid, MainFuncEnds(c) \/ DeferFails(c) PROVE StackMoves /\ StackInv'
  <2>1. /\ UNCHANGED <<registry, user_yield_coros, current_task, origin>>
        /\ phase[c] = "defers" /\ phase' = [phase EXCEPT ![c] = "ended"]
    BY <1>9 DEF MainFuncEnds, DeferFails, End
  <2>2. \A d \in Cid : phase'[d] = "none" <=> phase[d] = "none"
    BY <1>0, <2>1 DEF TypeOK
  <2> QED BY <1>1, <1>2, <2>1, <2>2 DEF registry
<1>10. ASSUME NEW c \in Cid, close_coro(c) PROVE StackMoves /\ StackInv'
  BY <1>10, CloseLeaves DEF StackMoves
<1>11. CASE UNCHANGED vars
  BY <1>1, <1>2, <1>11 DEF vars, registry, body
<1> QED BY <1>3, <1>4, <1>5, <1>6, <1>7, <1>8, <1>9, <1>10, <1>11 DEF Next

(***************************************************************************)
(* wmCoroutine_create, resume, yield and close_coro: the running tasks     *)
(* form a stack.  A task that was left behind in a create or a resume goes *)
(* on exactly when the task it entered yields or ends, whoever created or  *)
(* resumed that task before, for any number of coroutines.                 *)
(***************************************************************************)
THEOREM IsStack == Spec => IsCallStack
<1>1. Init => IInv /\ Abstract!CSInit /\ StackInv
  BY InitIInv, StackInit
<1>2. IInv /\ [Next]_vars => IInv'
  BY NextIInv
<1>3. IInv /\ IInv' /\ StackInv /\ [Next]_vars => StackInv'
  BY StackStep
<1>4. IInv /\ IInv' /\ StackInv /\ [Next]_vars => [Abstract!CSNext]_(Abstract!csvars)
  <2> SUFFICES ASSUME IInv, IInv', StackInv, [Next]_vars
               PROVE  [Abstract!CSNext]_(Abstract!csvars)
    OBVIOUS
  <2>1. StackMoves
    BY StackStep
  <2>2. StackShown = Abstract!csvars
    BY DEF StackShown, SeenCids, Abstract!csvars
  <2> QED BY <2>1, <2>2 DEF StackMoves, Abstract!CSNext, StackShown, SeenCids, Abstract!csvars
<1> QED
  BY <1>1, <1>2, <1>3, <1>4, PTL DEF Spec, IsCallStack, Abstract!CSSpec
===============================================================================
