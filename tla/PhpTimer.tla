------------------------------- MODULE PhpTimer -------------------------------
(***************************************************************************)
(* The timers of PHP code, src/php_timer.c: Timer::add, Timer::del and the *)
(* function the timer wheel calls.  It runs the PHP callback in a new      *)
(* coroutine, and goes on when this has ended or yields: then it frees the *)
(* timer or sets it again.                                                 *)
(*                                                                         *)
(* Of the wheel it takes what TimerSet promises, without the time: a timer *)
(* that is set may expire.  The operators take no account of who runs;     *)
(* Worker does.                                                            *)
(***************************************************************************)

CONSTANTS
  Timer,   \* the timers that PHP code ever adds
  NoTimer

ASSUME PhpTimerAssumption == NoTimer \notin Timer

VARIABLES
  timers,   \* the php_worker_timers: new, known (in the table), or freed
  wheel,    \* the timers for which the wheel has a node
  calling,  \* the timer whose callback timer_add_callback has just started
  misused   \* history: has timer_add_callback gone on with a timer that was freed?

ptvars == <<timers, wheel, calling, misused>>

PTInit ==
  /\ timers = [t \in Timer |-> [state |-> "new", timer |-> FALSE, persistent |-> FALSE]]
  /\ wheel = {}
  /\ calling = NoTimer
  /\ misused = FALSE

Known(t) == timers[t].state = "known"

\* timer->timer tells whether there is a node to delete.
timer_free(t) ==
  /\ timers' = [timers EXCEPT ![t].state = "freed", ![t].timer = FALSE]
  /\ wheel' = IF timers[t].timer THEN wheel \ {t} ELSE wheel

wmTimerWheel_add_quick(t, k) ==
  /\ timers' = [timers EXCEPT ![t] = [k EXCEPT !.timer = TRUE]]
  /\ wheel' = wheel \cup {t}

add(t, persistent) ==
  /\ timers[t].state = "new"
  /\ wmTimerWheel_add_quick(t, [timers[t] EXCEPT !.state = "known", !.persistent = persistent])
  /\ UNCHANGED <<calling, misused>>

\* The timer whose callback runs may be deleted, too.
del(t) ==
  /\ Known(t)
  /\ timer_free(t)
  /\ UNCHANGED <<calling, misused>>

\* Mutant: the pointer to the node, which the wheel has freed, is kept.
expires_kept(t) ==
  /\ t \in wheel
  /\ wheel' = wheel \ {t}
  /\ calling' = t
  /\ UNCHANGED <<timers, misused>>

\* timer_add_callback, up to the PHP callback ...
expires(t) ==
  /\ t \in wheel
  /\ wheel' = wheel \ {t}
  /\ timers' = [timers EXCEPT ![t].timer = FALSE]
  /\ calling' = t
  /\ UNCHANGED misused

\* When the callback has deleted its timer, the pointer dangles: the memory holds
\* what it did, or a timer that has been added since; or the process crashes.
Dangling == calling # NoTimer /\ ~ Known(calling)
MayBeAt(t) == IF Known(t) THEN {t} ELSE {t} \cup {u \in Timer : Known(u)}

\* ... and from there.
called(reloading) ==
  /\ calling # NoTimer
  /\ \E t \in MayBeAt(calling) :
       \/ (~ timers[t].persistent \/ reloading \/ Dangling) /\ timer_free(t)
       \/ (timers[t].persistent \/ Dangling) /\ ~ reloading
          /\ wmTimerWheel_add_quick(t, timers[t])
  /\ misused' = (misused \/ Dangling)
  /\ calling' = NoTimer

\* Until PHP code has deleted a timer inside its own callback, before this first
\* yields: a timer in the table is set, and knows it, unless its callback has just
\* been started; a timer that has been freed, by Timer::del or after its last
\* call, is not in the wheel, which would call it once more.
TimersExact ==
  ~ misused =>
    \A t \in Timer :
      /\ timers[t].timer <=> t \in wheel
      /\ t \in wheel => Known(t)
      /\ Known(t) => t \in wheel \/ t = calling
=============================================================================
