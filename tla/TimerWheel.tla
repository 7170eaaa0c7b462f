------------------------------ MODULE TimerWheel ------------------------------
(***************************************************************************)
(* The timer wheel of src/src/core/timer.c.  A first wheel has one slot    *)
(* per tick; each outer wheel has slots as long as a whole turn of the     *)
(* wheel before it, and when that wheel has turned, the outer slot's       *)
(* timers move inwards (cascade).  Tick numbers wrap around: the wheels    *)
(* together span exactly the 2^32 values of a tick.                        *)
(*                                                                         *)
(* Callbacks run in the middle of a tick.  They are PHP code or coroutines *)
(* that go on, so they add and delete timers, themselves included.  Only   *)
(* differences of wall-clock times matter; lag is the time since lasttime. *)
(***************************************************************************)
EXTENDS Integers, FiniteSets

CONSTANTS
  TVR_SIZE,  \* slots of the first wheel (256)
  TVN_SIZE,  \* slots of each outer wheel (64)
  Levels,    \* number of outer wheels (4)
  Interval,  \* milliseconds per tick (1)
  Node,      \* the timer nodes
  MaxLag,    \* bound on the time that passes between two updates
  MaxNum     \* bound on the task counter when a timer is added

NoNode == "no node"

ASSUME TimerWheelAssumption ==
  /\ TVR_SIZE \in Nat \ {0, 1}
  /\ TVN_SIZE \in Nat \ {0, 1}
  /\ Levels \in Nat \ {0}
  /\ Interval \in Nat \ {0}
  /\ NoNode \notin Node
  /\ MaxLag \in Nat
  /\ MaxNum \in Nat

\* Span[i] ticks make one slot of outer wheel i: 1 << (TVR_BITS + i * TVN_BITS).
Span[i \in 0 .. Levels] == IF i = 0 THEN TVR_SIZE ELSE Span[i - 1] * TVN_SIZE

\* A tick is a uint32_t, and 8 + 4 * 6 = 32.
Modulus == Span[Levels]
Ticks   == 0 .. Modulus - 1

\* The counter is a uint32_t too, and there is a moment when all timers are set.
ASSUME CounterAssumption == IsFiniteSet(Node) /\ MaxNum <= Modulus

FIRST_INDEX(v)  == v % TVR_SIZE
NTH_INDEX(v, i) == (v \div Span[i]) % TVN_SIZE

VARIABLES
  currtick,   \* the current tick
  lag,        \* wall-clock milliseconds since lasttime
  remainder,  \* milliseconds that did not make a full tick
  diff,       \* the local variable of update: milliseconds still to serve
  ticking,    \* update is in its loop
  running,    \* the node whose callback is running
  loc,        \* per node: the list it is in
  expire,     \* per node: the tick it expires at
  num,        \* the number of tasks left, as the wheel counts them
  clock,      \* the wall clock, modulo a whole turn (no variable of the code)
  child,      \* is this the wheel of a child process? (no variable of the code)
  heirs       \* the timers of its parent that are in it (no variable of the code)

time == <<currtick, lag, remainder, diff, ticking, clock>>
birth == <<child, heirs>>
twvars == <<time, running, loc, expire, num, birth>>

\* A node is not allocated, or in the list of the tick being served, or in
\* no list while its callback runs, or in a slot: <<wheel, index>>.
Free   == <<-1, 0>>
Head   == <<-2, 0>>
InCall == <<-3, 0>>
Slots  == ({0} \X (0 .. TVR_SIZE - 1)) \cup ((1 .. Levels) \X (0 .. TVN_SIZE - 1))

Pending == {n \in Node : loc[n] \in Slots \cup {Head}}

(***************************************************************************)
(* _wmTimerWheel_add: the list of a timer, from the ticks it has left.     *)
(* (The list for timers beyond the last wheel stays empty, since the       *)
(* wheels span every difference of two ticks.)                             *)
(***************************************************************************)

\* Mutant: the slot is taken from the difference, not from the tick.
place_relative(e, tick) ==
  LET idx == (e - tick) % Modulus IN
  IF idx < TVR_SIZE
    THEN <<0, FIRST_INDEX(idx)>>
    ELSE LET i == CHOOSE j \in 0 .. Levels - 1 : Span[j] <= idx /\ idx < Span[j + 1]
         IN  <<i + 1, NTH_INDEX(idx, i)>>

place(e, tick) ==
  LET idx == (e - tick) % Modulus IN
  IF idx < TVR_SIZE
    THEN <<0, FIRST_INDEX(e)>>
    ELSE LET i == CHOOSE j \in 0 .. Levels - 1 : Span[j] <= idx /\ idx < Span[j + 1]
         IN  <<i + 1, NTH_INDEX(e, i)>>

\* PHP code runs: in the event loop outside update, or in a callback.
PhpRuns == ~ ticking \/ running # NoNode

Add(n, ticks) ==
  /\ PhpRuns
  /\ loc[n] = Free
  /\ num < MaxNum
  /\ LET e == (currtick + (IF ticks > 0 THEN ticks ELSE 1)) % Modulus IN
       /\ expire' = [expire EXCEPT ![n] = e]
       /\ loc' = [loc EXCEPT ![n] = place(e, currtick)]
  /\ num' = num + 1
  /\ UNCHANGED <<time, running, birth>>

(***************************************************************************)
(* wmTimerWheel_del.  Its callers hold the nodes of timers that have not   *)
(* finished.  The node whose callback is running is in no list: nothing    *)
(* happens.  The counter is not touched.                                   *)
(***************************************************************************)
Del(n) ==
  /\ PhpRuns
  /\ loc[n] \notin {Free, InCall}
  /\ loc' = [loc EXCEPT ![n] = Free]
  /\ UNCHANGED <<time, running, expire, num, birth>>

(***************************************************************************)
(* wmTimerWheel_update: called by the event loop, and only while the       *)
(* counter is not 0.                                                       *)
(***************************************************************************)
TimePasses ==
  /\ PhpRuns
  /\ lag < MaxLag
  /\ lag' = lag + 1
  /\ clock' = (clock + 1) % (Modulus * Interval)
  /\ UNCHANGED <<currtick, remainder, diff, ticking, running, loc, expire, num, birth>>

\* Mutant: lasttime stays as it was.
UpdateStarts_again ==
  /\ ~ ticking
  /\ num > 0
  /\ lag > 0
  /\ diff' = lag + remainder
  /\ ticking' = TRUE
  /\ UNCHANGED <<currtick, lag, remainder, clock, running, loc, expire, num, birth>>

UpdateStarts ==
  /\ ~ ticking
  /\ num > 0
  /\ lag > 0
  /\ diff' = lag + remainder
  /\ lag' = 0
  /\ ticking' = TRUE
  /\ UNCHANGED <<currtick, remainder, clock, running, loc, expire, num, birth>>

Served == running = NoNode /\ \A n \in Node : loc[n] # Head

UpdateEnds ==
  /\ ticking /\ Served
  /\ diff < Interval
  /\ remainder' = diff
  /\ diff' = 0
  /\ ticking' = FALSE
  /\ UNCHANGED <<currtick, lag, clock, running, loc, expire, num, birth>>

(***************************************************************************)
(* _wmTimerWheelick.  When the first wheel has turned, the next slot of    *)
(* the first outer wheel is put in again; when that slot is slot 0, the    *)
(* next one of the second outer wheel, and so on.  Then the list of this   *)
(* tick is taken out, and served one callback at a time.                   *)
(***************************************************************************)

\* Mutant: the second outer wheel never turns.
cascaded_first(l, tick) == l = <<1, NTH_INDEX(tick, 0)>> /\ tick % Span[0] = 0

cascaded(l, tick) ==
  \E i \in 0 .. Levels - 1 : l = <<i + 1, NTH_INDEX(tick, i)>> /\ tick % Span[i] = 0

Tick ==
  /\ ticking /\ Served
  /\ diff >= Interval
  /\ diff' = diff - Interval
  /\ currtick' = (currtick + 1) % Modulus
  /\ LET put == [n \in Node |-> IF cascaded(loc[n], currtick')
                                  THEN place(expire[n], currtick')
                                  ELSE loc[n]]
     IN  loc' = [n \in Node |-> IF put[n] = <<0, FIRST_INDEX(currtick')>>
                                  THEN Head
                                  ELSE put[n]]
  /\ UNCHANGED <<lag, remainder, ticking, clock, running, expire, num, birth>>

\* Mutant: a timer that fires is counted out twice.
CallbackStarts_twice(n) ==
  /\ ticking /\ running = NoNode
  /\ loc[n] = Head
  /\ loc' = [loc EXCEPT ![n] = InCall]
  /\ num' = (num - 2) % Modulus
  /\ running' = n
  /\ UNCHANGED <<time, expire, birth>>

CallbackStarts(n) ==
  /\ ticking /\ running = NoNode
  /\ loc[n] = Head
  /\ loc' = [loc EXCEPT ![n] = InCall]
  /\ num' = (num - 1) % Modulus
  /\ running' = n
  /\ UNCHANGED <<time, expire, birth>>

CallbackEnds ==
  /\ running # NoNode
  /\ loc' = [loc EXCEPT ![running] = Free]
  /\ running' = NoNode
  /\ UNCHANGED <<time, expire, num, birth>>

(***************************************************************************)
(* The wheel of a process that has just been forked: wmTimerWheel_clear is *)
(* the first the child does with it.  All of its loops empty the lists of  *)
(* the first wheel.                                                        *)
(***************************************************************************)

wmTimerWheel_clear ==
  /\ ~ child /\ ~ ticking
  /\ child' = TRUE
  /\ loc' = [n \in Node |-> IF loc[n][1] = 0 THEN Free ELSE loc[n]]
  /\ num' = 0
  /\ heirs' = {n \in Node : loc'[n] # Free}
  /\ UNCHANGED <<time, running, expire>>

TWInit ==
  /\ currtick = 0
  /\ lag = 0
  /\ remainder = 0
  /\ diff = 0
  /\ ticking = FALSE
  /\ running = NoNode
  /\ loc = [n \in Node |-> Free]
  /\ expire = [n \in Node |-> 0]
  /\ num = 0
  /\ clock = 0
  /\ child = FALSE
  /\ heirs = {}

Wheel == UpdateStarts \/ UpdateEnds \/ Tick \/ CallbackEnds
         \/ \E n \in Node : CallbackStarts(n)

TWNext ==
  \/ Wheel
  \/ TimePasses
  \/ wmTimerWheel_clear
  \/ \E n \in Node : Del(n) \/ \E ticks \in Ticks : Add(n, ticks)

TWSpec == TWInit /\ [][TWNext]_twvars

-----------------------------------------------------------------------------
(***************************************************************************)
(* Properties.                                                             *)
(***************************************************************************)

\* A pending timer is never left alone: the counter that lets the event loop
\* update the wheel is at least the number of timers there are, in a process that
\* has none of its parent's.
PendingCounted == heirs = {} => Cardinality(Pending) <= num

\* The wheel does not drift: what it has not ticked yet is in diff, in the
\* remainder, or in the time since the last update.
ClockExact ==
  clock = (currtick * Interval + lag + (IF ticking THEN diff ELSE remainder))
            % (Modulus * Interval)

=============================================================================
