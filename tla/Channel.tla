------------------------------- MODULE Channel -------------------------------
(***************************************************************************)
(* A channel between coroutines: src/src/coroutine/channel.c and its PHP   *)
(* class in src/php_channel.c, on top of the scheduler of Coroutine.       *)
(*                                                                         *)
(* A push into a full channel and a pop from an empty one put the calling  *)
(* coroutine into a queue and yield.  Whoever makes room or brings an item *)
(* takes the head of the other side's queue and resumes it on the spot, so *)
(* that a wakeup is a nested call.  With a timeout a timer resumes the     *)
(* coroutine as well; its entry in the queue stays where it is.            *)
(*                                                                         *)
(* The items are numbered by the push calls, the waiting pops by the pop   *)
(* calls.  PHP code resumes by itself only coroutines that wait in         *)
(* Coroutine::yield, and in the main task it calls no push or pop that     *)
(* would have to wait.                                                     *)
(***************************************************************************)
EXTENDS Coroutine, Sequences, SequencesExt

CONSTANTS
  Capacities,  \* the capacities the channel may be made with
  Timeouts,    \* may the callers pass timeouts, may they not: subset of BOOLEAN
  MaxCalls,    \* bound on the push calls, and on the pop calls
  MaxTimed,    \* the same where timeouts may be passed
  MaxWct       \* bound on the timeout records allocated at a time

ASSUME ChannelAssumption ==
  /\ Capacities \subseteq Nat \ {0}
  /\ Timeouts \subseteq BOOLEAN
  /\ MaxCalls \in Nat
  /\ MaxTimed \in 0 .. MaxCalls
  /\ MaxWct \in Nat

VARIABLES
  capacity,
  timeouts,        \* do the callers pass timeouts? (no variable of the code)
  data_queue,      \* the items in the channel
  producer_queue,  \* the coroutines queued by push
  consumer_queue,  \* the coroutines queued by pop
  pc,              \* per task: which channel function it is in
  arg,             \* per task: its item in push, its number in pop
  wct,             \* the timeout records, each with an armed timer
  my_wct,          \* per coroutine: the record its call allocated
  chan,            \* the channel itself: open, closing or freed
  aborted,         \* an assert has failed
  sent, asked,     \* number of push calls and of pop calls
  accepted,        \* the items ever put in, in this order
  received         \* the pops that returned an item: <<number, item>>

queues  == <<data_queue, producer_queue, consumer_queue>>
records == <<wct, my_wct>>
calls   == <<sent, asked>>
made    == <<capacity, timeouts>>
chvars  == <<made, queues, pc, arg, records, chan, aborted, calls, accepted, received>>
allvars == <<vars, chvars>>

Limit == IF timeouts THEN MaxTimed ELSE MaxCalls
WctId == 1 .. MaxWct
None  == 0                                        \* a NULL wct
Freed == [co |-> Main, type |-> FALSE]            \* a record not allocated
Wct   == [co : Cid, type : BOOLEAN] \cup {Freed}

\* A task runs PHP code that is not inside a channel function.
InPhp(t) == RunsPhp(t) /\ pc[t] = "php" /\ ~ aborted

(***************************************************************************)
(* wmCoroutine_resume of a pointer taken from a queue or a record.  It     *)
(* asserts that the coroutine is not the current one, and returns false if *)
(* it has not yielded.  If it is gone, the freed memory is read: by now it *)
(* may be another coroutine.                                               *)
(***************************************************************************)
resume_live(d) ==
  IF d = get_task
    THEN aborted' = TRUE /\ UNCHANGED vars
    ELSE /\ UNCHANGED aborted
         /\ IF d \in user_yield_coros
              THEN Resume(d) /\ UNCHANGED sleeps
              ELSE UNCHANGED vars

resume(d) ==
  \/ d \in coroutines /\ resume_live(d)
  \/ d \notin coroutines /\ \E e \in coroutines : resume_live(e)
  \/ d \notin coroutines /\ UNCHANGED <<vars, aborted>>

(***************************************************************************)
(* wmQueue_push, and what wmQueue_pop leaves.                              *)
(***************************************************************************)

\* Mutant: a stack instead of a queue.
enqueue_front(queue, c) == <<c>> \o queue

enqueue(queue, c) == Append(queue, c)

rest(queue) == IF queue = <<>> THEN queue ELSE Tail(queue)

(***************************************************************************)
(* The waiting half of push and pop: allocate a record if there is a       *)
(* timeout, queue up, yield.                                               *)
(***************************************************************************)
FreeWct == {w \in WctId : wct[w] = Freed}

Block(c) ==
  /\ Yield(c, "yield")
  /\ UNCHANGED sleeps
  /\ \/ UNCHANGED records
     \/ /\ timeouts
        /\ \E w \in FreeWct :
             /\ \A v \in FreeWct : w <= v
             /\ wct' = [wct EXCEPT ![w] = [co |-> c, type |-> TRUE]]
             /\ my_wct' = [my_wct EXCEPT ![c] = w]

PushWaits(c) ==
  /\ InPhp(c) /\ chan = "open"
  /\ sent < Limit
  /\ Len(data_queue) = capacity
  /\ Block(c)
  /\ producer_queue' = enqueue(producer_queue, c)
  /\ pc' = [pc EXCEPT ![c] = "push"]
  /\ sent' = sent + 1
  /\ arg' = [arg EXCEPT ![c] = sent + 1]
  /\ UNCHANGED <<made, data_queue, consumer_queue, chan, aborted, asked, accepted,
                 received>>

PopWaits(c) ==
  /\ InPhp(c) /\ chan = "open"
  /\ asked < Limit
  /\ data_queue = <<>>
  /\ Block(c)
  /\ consumer_queue' = enqueue(consumer_queue, c)
  /\ pc' = [pc EXCEPT ![c] = "pop"]
  /\ asked' = asked + 1
  /\ arg' = [arg EXCEPT ![c] = asked + 1]
  /\ UNCHANGED <<made, data_queue, producer_queue, chan, aborted, sent, accepted,
                 received>>

(***************************************************************************)
(* The other half: put or take an item, then wake one coroutine of the     *)
(* other side.  The loop breaks after the first one, whatever resume says. *)
(***************************************************************************)

\* Mutant: the waiter is taken out of the queue and not resumed.
notify_nobody(queue) == UNCHANGED <<vars, aborted>>

notify(queue) ==
  IF queue = <<>> THEN UNCHANGED <<vars, aborted>> ELSE resume(Head(queue))

put(item) ==
  /\ data_queue' = Append(data_queue, item)
  /\ accepted' = Append(accepted, item)
  /\ notify(consumer_queue)
  /\ consumer_queue' = rest(consumer_queue)
  /\ UNCHANGED <<producer_queue, received>>

\* Mutant: the item stays in the channel.
take_and_keep(n) ==
  /\ received' = Append(received, <<n, Head(data_queue)>>)
  /\ notify(producer_queue)
  /\ producer_queue' = rest(producer_queue)
  /\ UNCHANGED <<data_queue, consumer_queue, accepted>>

take(n) ==
  /\ received' = Append(received, <<n, Head(data_queue)>>)
  /\ data_queue' = Tail(data_queue)
  /\ notify(producer_queue)
  /\ producer_queue' = rest(producer_queue)
  /\ UNCHANGED <<consumer_queue, accepted>>

PushNow(t) ==
  /\ InPhp(t) /\ chan = "open"
  /\ sent < Limit
  /\ Len(data_queue) # capacity
  /\ sent' = sent + 1
  /\ put(sent + 1)
  /\ UNCHANGED <<made, pc, arg, records, chan, asked>>

PopNow(t) ==
  /\ InPhp(t) /\ chan = "open"
  /\ asked < Limit
  /\ data_queue # <<>>
  /\ asked' = asked + 1
  /\ take(asked + 1)
  /\ UNCHANGED <<made, pc, arg, records, chan, sent>>

\* The first thing a waiter does when it goes on: its timer need not wake it
\* any more.  sleep_timeout may have freed the record by then, and the write
\* goes to memory nobody owns.

\* Mutant: the record is forgotten and stays armed.
disarm_not(c) ==
  /\ wct' = wct
  /\ my_wct' = [my_wct EXCEPT ![c] = None]

disarm(c) ==
  /\ wct' = IF my_wct[c] # None /\ wct[my_wct[c]] # Freed
              THEN [wct EXCEPT ![my_wct[c]].type = FALSE]
              ELSE wct
  /\ my_wct' = [my_wct EXCEPT ![c] = None]

Woken(c, f) == Executing(c) /\ pc[c] = f /\ ~ aborted

PushGoesOn(c) ==
  /\ Woken(c, "push")
  /\ disarm(c)
  /\ pc' = [pc EXCEPT ![c] = "php"]
  /\ \/ /\ Len(data_queue) = capacity
        /\ UNCHANGED <<vars, queues, aborted, accepted, received>>
     \/ /\ Len(data_queue) # capacity
        /\ put(arg[c])
  /\ UNCHANGED <<made, arg, chan, calls>>

PopGoesOn(c) ==
  /\ Woken(c, "pop")
  /\ disarm(c)
  /\ pc' = [pc EXCEPT ![c] = "php"]
  /\ \/ /\ data_queue = <<>>
        /\ UNCHANGED <<vars, queues, aborted, accepted, received>>
     \/ /\ data_queue # <<>>
        /\ take(arg[c])
  /\ UNCHANGED <<made, arg, chan, calls>>

(***************************************************************************)
(* sleep_timeout, called by the timer wheel from the event loop of Main.   *)
(***************************************************************************)
sleep_timeout(w) ==
  /\ InPhp(Main)
  /\ wct[w] # Freed
  /\ wct' = [wct EXCEPT ![w] = Freed]
  /\ IF wct[w].type
       THEN resume(wct[w].co)
       ELSE UNCHANGED <<vars, aborted>>
  /\ UNCHANGED <<made, queues, pc, arg, my_wct, chan, calls, accepted, received>>

(***************************************************************************)
(* wmChannel_free, when the last reference to the PHP object goes.  A call *)
(* of push or pop holds a reference, so nobody is inside one.              *)
(***************************************************************************)
Close(t) ==
  /\ InPhp(t) /\ chan = "open"
  /\ \A u \in Task : pc[u] = "php"
  /\ chan' = "closing"
  /\ pc' = [pc EXCEPT ![t] = "free"]
  /\ data_queue' = <<>>
  /\ UNCHANGED <<vars, made, producer_queue, consumer_queue, arg, records, aborted,
                 calls, accepted, received>>

CloseStep(t) ==
  /\ Woken(t, "free")
  /\ \/ /\ consumer_queue # <<>>
        /\ resume(Head(consumer_queue))
        /\ consumer_queue' = Tail(consumer_queue)
        /\ UNCHANGED <<producer_queue, pc, chan>>
     \/ /\ consumer_queue = <<>>
        /\ producer_queue # <<>>
        /\ resume(Head(producer_queue))
        /\ producer_queue' = Tail(producer_queue)
        /\ UNCHANGED <<consumer_queue, pc, chan>>
     \/ /\ consumer_queue = <<>>
        /\ producer_queue = <<>>
        /\ chan' = "freed"
        /\ pc' = [pc EXCEPT ![t] = "php"]
        /\ UNCHANGED <<vars, producer_queue, consumer_queue, aborted>>
  /\ UNCHANGED <<made, data_queue, arg, records, calls, accepted, received>>

(***************************************************************************)
(* The rest of PHP code: the steps of Coroutine that matter to a channel.  *)
(* (A coroutine that sleeps is one that yields and is resumed by Main.)    *)
(***************************************************************************)
Scheduler ==
  /\ \/ /\ InPhp(get_task)
        /\ \/ Create
           \/ \E c \in Cid :
                \/ UserYield(c)
                \/ pc[c] = "php" /\ UserResume(c)
                \/ BodyReturns(c)
     \/ /\ ~ aborted
        /\ \E c \in Cid : MainFuncEnds(c) \/ close_coro(c)
  /\ UNCHANGED chvars

ChInit ==
  /\ Init
  /\ capacity \in Capacities
  /\ timeouts \in Timeouts
  /\ data_queue = <<>>
  /\ producer_queue = <<>>
  /\ consumer_queue = <<>>
  /\ pc = [t \in Task |-> "php"]
  /\ arg = [t \in Task |-> 0]
  /\ wct = [w \in WctId |-> Freed]
  /\ my_wct = [c \in Cid |-> None]
  /\ chan = "open"
  /\ aborted = FALSE
  /\ sent = 0
  /\ asked = 0
  /\ accepted = <<>>
  /\ received = <<>>

ChNext ==
  \/ Scheduler
  \/ \E c \in Cid :
       \/ PushWaits(c)
       \/ PopWaits(c)
       \/ PushGoesOn(c)
       \/ PopGoesOn(c)
  \/ \E t \in Task :
       \/ PushNow(t)
       \/ PopNow(t)
       \/ Close(t)
       \/ CloseStep(t)
  \/ \E w \in WctId : sleep_timeout(w)

ChSpec == ChInit /\ [][ChNext]_allvars

-----------------------------------------------------------------------------
(***************************************************************************)
(* Properties.                                                             *)
(***************************************************************************)

\* The coroutines that sit in a push or a pop and wait to be resumed.
Waiting(f) == {c \in user_yield_coros : pc[c] = f}

\* No wakeup is lost where nobody passes a timeout: nobody waits for an item that
\* is there, or for room that is there, unless the running coroutine has been
\* woken to take it.
NoLostWakeup ==
  ~ timeouts /\ chan = "open" /\ ~ aborted =>
    /\ Waiting("pop") = {} \/ data_queue = <<>> \/ Woken(get_task, "pop")
    /\ \/ Waiting("push") = {}
       \/ Len(data_queue) = capacity
       \/ Woken(get_task, "push")

\* Nothing that was accepted is lost, duplicated or reordered, and the rest
\* is never delivered, also when timeouts and wakeups race.
ItemsConserved ==
  LET taken == [i \in DOMAIN received |-> received[i][2]]
  IN  /\ IF chan = "open" THEN accepted = taken \o data_queue
                          ELSE IsPrefix(taken, accepted)
      /\ IsInjective(accepted)

\* A timer that will resume its coroutine finds it in the very call that
\* armed it: a record whose call is over never wakes anybody.  (A coroutine
\* that has just been woken disarms it before anything else happens.)
TimerWakesItsCall ==
  \A w \in WctId :
    wct[w].type =>
      LET c == wct[w].co IN
      /\ my_wct[c] = w
      /\ pc[c] \in {"push", "pop"}
      /\ c \in user_yield_coros \/ Executing(c)
=============================================================================
