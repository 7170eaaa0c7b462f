# WarriorMan in TLA+

WarriorMan is a PHP extension in C: a port of Workerman with stackful coroutines.
This directory holds TLA+ models of its core, the TLC configurations that check
them, and TLAPS proofs about the coroutine scheduler, channels, the timer wheel, sockets,
connections, the master, the life of a worker process and the commands of the user. Paths are those of the repository, below `src/`.

## 1. The system and its parts

| Component | Code | State it keeps | Operations | What makes it correct |
|---|---|---|---|---|
| Coroutine scheduler | `src/coroutine/coroutine.c`, `context.c` | tables of live and of yielded coroutines, `current_task`, per coroutine its origin, PHP stack, C context, defers, callback | create, yield, resume, sleep, defer, set_callback, close | running tasks form a stack; PHP stack, C stack and current task move together; nobody is stranded; registry exact; callback once |
| Channel | `src/coroutine/channel.c`, `php_channel.c`, `queue.h` | item queue, producer and consumer queue, timeout records | push, pop, timeout, destruction | FIFO, capacity, nothing lost or duplicated, no lost wakeup |
| Timer wheel | `src/core/timer.c` | five wheels of lists, current tick, remainder, task counter | add, del, update, tick with cascade, clear | each timer fires at its tick; the wheel keeps time |
| Event wait | `src/core/base.c` | epoll descriptor | `wm_event_wait` | timers are served while there are any |
| Master process | `src/worker.c` | pid of each slot, pids left to reload, kill timers, status | fork, monitor, SIGINT, SIGUSR1, SIGALRM | no process lost, rolling restart, orderly stop, nobody killed without notice |
| Worker life cycle | `src/worker.c`, `worker/signal.c` | status, stopping flag, signal socket pair | run, accept, graceful reload, stop | connections drained, signals not lost |
| Event loop | `src/worker/loop.c` | epoll set, per socket the events wanted | add, del, dispatch | the coroutine that waits for an event gets it |
| Coroutine sockets | `src/coroutine/socket.c` | bound coroutines, write buffer, timers | read, send, accept, connect, close | every wait ends, bytes in order, no use after close |
| Connections | `src/worker/connection.c`, `php_connection.c` | read buffer, packet length, two references | read loop, send, pause, close, destroy | packets in order, callbacks once, freed once |
| PHP timers | `php_timer.c` | table of timers by id | add, del, callback | fires until deleted |
| Commands and pid file | `src/worker.c`, `core/file.c` | the pid file | start, stop, restart, reload, with and without `-d` | one master at a time; a stop that says success has stopped it; no command kills what it cannot see |
| Stream hooks, arrays, strings, files, logs, bindings | `src/runtime.c`, `src/core/*`, `php_*.c` | | | |

How they interact. One thread per process runs everything. The main task runs the
event loop: it waits on epoll, resumes the coroutine bound to a socket that is
ready, and updates the timer wheel, whose callbacks resume sleepers, time-outs of
channels and sockets, and PHP timers. A resume is a nested call: the resumer goes on
when the coroutine it has entered yields or ends. A channel wakes a waiter in the
middle of somebody's push or pop. The master is a process of its own with no event
loop: it blocks in `waitpid`, signal handlers run on top of it, and its timer wheel
is driven by SIGALRM. Each worker is forked from it, replaces the master's signal handlers by
a socket pair, and from then on hears signals in a coroutine. Commands are processes of
their own, which know a master by the pid file only.

Hard behaviours: nested resumes in any order; pointers kept in timers and queues
past the life of what they point to; time-outs racing wakeups; wrap-around of ticks
and of hash keys; signal handlers between any two steps of the master; workers that
crash, exit early or ignore signals; PHP callbacks that close the connection, stop the
worker or pause in the middle of the function that called them; commands given while
others are under way. `PROJECT.json` lists them line by line under
`hazards`, the ones of unmodelled parts too.

## 2. Modules

| Module | Models | Rests on |
|---|---|---|
| `Coroutine` | `coroutine.c`, `context.c`, `php_coroutine.c` | |
| `CallStack` | abstract: what the scheduler promises | |
| `CoroutineProofs` | theorems about `Coroutine` | `MCCoroutine`, TLAPS |
| `Channel` | `channel.c`, `php_channel.c`, `queue.h` | extends `Coroutine` |
| `ChannelProofs` | theorems about `Channel` | `MCChannel`, `CoroutineProofs` |
| `MessageOrder` | abstract: what a channel without time-outs promises | |
| `TimerWheel` | `timer.c`, the part of `base.c` that drives it | |
| `TimerWheelProofs` | theorems about `TimerWheel` | `MCTimerWheel`, TLAPS |
| `TimerSet` | abstract: what a timer wheel promises | |
| `Master` | the master's half of `worker.c` | |
| `MasterProofs` | theorems about `Master` | `Master`, TLAPS |
| `SocketIO` | `coroutine/socket.c` and `worker/loop.c`, for one socket | extends `CallStack` |
| `SocketIOProofs` | theorems about `SocketIO` | `SocketIO`, TLAPS |
| `Connection` | `worker/connection.c`, `php_connection.c`, accepting in `worker.c` | extends `CallStack` |
| `ConnectionProofs` | theorems about `Connection` | `Connection`, TLAPS |
| `PhpTimer` | `php_timer.c` | |
| `Worker` | the child's half of `worker.c`, `worker/signal.c` | extends `PhpTimer` |
| `WorkerProofs` | theorems about `Worker` and `PhpTimer` | `Worker`, TLAPS |
| `Command` | `parseCommand`, `runAll` and `daemonize` of `worker.c`, `core/file.c` | |
| `CommandProofs` | theorems about `Command` | `Command`, TLAPS |
| `MC...` | for TLC: instances, refinement mappings, and fairness where it is not in the module | |

### Coroutine

Tasks are numbers: 0 is the main task, the others are cids. A PHP stack and a C stack
are named by the task they were allocated for, so that "the engine runs on the PHP
stack of c" is `EG_vm_stack = c`. The variables have the names of the code:
`current_task`, `origin`, `vm_stack`, `user_yield_coros`, `swap_ctx` and so on. Each
action is one function up to the point where it gives the CPU away: `Create` is
`wmCoroutine_create` and `run` up to the swap; `Resume`, `Yield` likewise; what runs
after the swap back is `close_coro`, when the coroutine has ended, and nothing
otherwise. `main_func` is `BodyReturns`, `RunDefer`, `DeferReturns`, `MainFuncEnds`
and `DeferFails`. PHP code is arbitrary: whichever task has the CPU may take any
action. `origin` is what `run` and `resume` set, every time.

Contract assumed of PHP code: yield, sleep and defer are called inside a coroutine;
no coroutine resumes itself by cid (an assert ends the process). PHP code may aim
`Coroutine::resume` at a coroutine that sleeps, and the code does not refuse it. Its timer
stays, and `sleep_callback` meets a coroutine that is in a later sleep or another wait, or freed
memory, which is modelled as any live coroutine or none. `woken` is history: whose sleeps were
cut short in this way. `SleepTimersExact` says that every sleeper has a timer all the same, and
that there is a timer too many for nobody but those.

`Key` is the cast of a cid to the 32-bit key of khash; with `KeySpace` = 2 the third
creation meets a key that may be taken, and fails.

### Channel

Extends `Coroutine`, so that a wakeup is the scheduler's own `Resume`, nested inside
`put` and `take`. `PushWaits`/`PushGoesOn` are the two halves of a push that blocks;
`PushNow` one that does not. The while loops at `channel.c:63` and `:118` break after the
first entry, so they are one `notify`. A channel is made with its `capacity`, and its
callers pass time-outs or do not (`timeouts`). With them a wait may allocate a `wct`
record, whose timer is `sleep_timeout`; the queue entry stays behind, as in the code.
Items are numbered by push calls. PHP code itself resumes only coroutines that wait
in `Coroutine::yield`, never one inside push or pop.

### TimerWheel

A node is in a slot, in the list being served, in its callback, or free. `place` is
`_wmTimerWheel_add`; `Tick` is one round of the loop of `update` with its cascades, and
`CallbackStarts`/`CallbackEnds` serve one timer, so that PHP code runs in between and
adds and deletes timers while a slot is half served. The wheels span exactly the
values of a tick, in the code (8 + 4*6 = 32 bits) as in the model, for every choice of
the sizes: with 2 slots each and two outer wheels a tick has 8 values and wraps around
soon. `clock` is a history variable. `lag` is the time since `lasttime`; the wall clock
is assumed not to be set back. `wmTimerWheel_clear` is what a child does first with the
wheel it has copied from the master; it empties the first wheel over and over, and never the
outer ones. From then on (`child`) the module is the wheel of the worker, and `heirs` are the
nodes of the master that are still in it. `PendingCounted` and `TimersFire` speak of processes
without heirs, `FiresAtItsTick` and `ClockExact` of all.

### Master

One main thread (`pc` says where in `monitorWorkers` and `forkOneWorker` it is) and
signal handlers that run between any two of its steps. `Fork` and `Store` are separate
because a signal may come between `fork` and `wmArray_set`; so are `ScanHit` and
`Reload`, and `Search` and `Status`. A kill timer is what it is in the code: a pointer to
an element of `_pid_array_tmp` or of `_pidsToReload`, read when it fires (`deref`).
Clearing an array only resets its length; the memory stays (`overwrite`). All kill
timers have one delay, hence they fire in the order they were set; nothing else is in
the master's wheel. `kill` with pid 0, which `reload` calls when a slot of a worker that
is not reloadable is empty, reaches the whole process group, and the master: its own SIGUSR1
stays pending till the handler is done and then runs it again (`pending_usr1`). `late` is
history: the children that were in no slot when a SIGINT was handled, which `NoStrayWorker`
names. Workers obey, ignore or crash as they like. Left out: start-up (see `Command`), SIGUSR2, stopped children (`WUNTRACED`), a
handler that interrupts a handler, a `fork` that fails, recycled pids.

### SocketIO

One socket, the coroutines that use it, the event loop and the kernel. It extends
`CallStack`, the promise that `Coroutine` is shown to keep, rather than `Coroutine`
itself: a resume is `Reenter`, a yield `Suspend`. Each function is cut at its yields:
`ReadBlocks` is the `recv` that finds nothing with `timer_add` and the first half of
`event_wait`; `ReadGoesOn` its second half with `timer_used`; `SendSome` one round of the
loop. `wmSocket_close` resumes both waiting coroutines from inside, hence the three
steps `close_read`, `close_write` and `close_fd`, with arbitrary code in between. `events`
is what the socket believes, `epoll` what the kernel knows; `loop_add`, `loop_remove` and
`loop_del` change both as the code does, with `epoll_ctl` failing where the two disagree
(`AddWorks`). `handle` is the pair of callbacks of `loop.c`: resume, or close a socket that
nobody waits for. `batch` is what `epoll_wait` has returned and the loop has not come to
yet. Bytes are numbered as they are handed over, and `wire` is what the kernel has taken.

Callers may do what the code lets them. `check_bound_co` ends the process when a second
coroutine calls in a direction in which one waits (`ReadExits`, `WriteExits`), and it sees no
more than that: a stream may be read and written at a time, and a send that `onBufferWillFull`
starts inside another goes through. Both lead to waits the socket no longer knows of, and the
history variable `overlapped` holds the events for which this may have happened. A second one,
`torn`, says that a `wmSocket_write` has had to wait in the middle of its buffer. The
properties except these cases by name, and nothing keeps the runs out of them. What remains
assumed: nobody calls a socket that has been freed, or that is being freed, a connection is
read by its reader only, and it is freed when nobody is in a call on it (`Connection`). The
reader of a connection is the loop of `wmConnection_read`, and with `Pauses` = FALSE it waits
for nothing but data. Left out: accept, connect, recvfrom, peek and shutdown, UDP, EINTR
and what an error sets in `errCode`. Nothing sets a write timer in this code.

### Connection

The connections of one worker, each with the coroutine that reads it (of the same name)
and the coroutines of its callbacks (`Handler`s), on top of `CallStack`. `conn` holds what
the code keeps in `wmConnection` and `wmSocket`, with the reference counter of the PHP
object; `pc` says which function a task is in, `of` with which connection, `then` where it
goes on after `wmSocket_close`. `Destroy`, `DestroyResumes`, `OnClose` and `DestroyDrops`
are the pieces of `wmConnection_destroy`, with arbitrary coroutines in between, because
closing the socket resumes the reader and the sender, and `onClose` runs PHP code.
`check_read_status` is called at three places (`Checks`) and may pause at each. The
protocol says any length, or 0 (`Input`): nobody compares the length with what there is
(`connection.c:188-214`), so that a packet that is longer reads behind the string, and the
offset is then above its length (`beyond`); the next look for a packet, or the copy of what is
left, computes a length below 0, and may crash (`Fails`). `frame` is what the reader
has on its stack, `read_buffer_tmp` the one buffer all connections read into.
A send is cut at its wait; `Send` includes `onBufferFull`. Closing with data is a send and
a close. The peer's bytes are numbered, as in `SocketIO`; what a peer sends while
coroutines run is taken as sent before. A connection that is freed stays what it was
(`freed`), and callbacks it would still call are left out. Reads wait without a timer,
since theirs is 24.8 days. The input method of a protocol is PHP code in the reader itself (place "input"): it may send,
close, pause and consume there, as those of `Http` and `Websocket` do, and may sleep; `leaves`
tells a destroy that the reader calls itself from one that its input method calls. `encode` and
`decode` are assumed to leave the connection alone. History: `lost` counts the bytes that were
forgotten with a string that held no packet, `cut` says that `consumeRecvBuffer` has taken bytes,
`ousted` are the connections whose entry in the table a late destroy of another one took.
Left out: `wmHash` entries of workers; datagrams are in `Worker`.

### PhpTimer and Worker

`PhpTimer` has the operations of `php_timer.c` as operators that take no account of who
runs: `add`, `del`, `expires` (up to the call of PHP code) and `called` (from there).
`Worker` is one worker process from fork to exit. `now` is the coroutine that runs, `at`
where each of them is; the coroutines of connections and timers come and go under the
same names. Each signal has a `handler`: the master's, which the child inherits, then
nobody, then the socket pair; in each of them `Signalled` does what the code would do at
that time. The run coroutine goes through `forkOneWorker`, `reinstallSignal`,
`resumeAccept` and `acceptConnectionTcp` or, as the `transport` of the worker says,
`acceptConnectionUdp`. The latter receives in a loop that never yields: `wmSocket_create` makes
TCP sockets non-blocking and no others, so that `recvfrom` holds the whole process
(place "recvfrom", in which nobody else is `now`) until `wmConnection_recvfrom` brings a
datagram and the coroutine of its callback; the signal coroutine through `wmSignal_wait`,
`HandleStop`, `HandleReload` and `Drain`. The callbacks `onWorkerStart`, `onWorkerStop` and
`onWorkerReload` may sleep, and are cut there; `onWorkerStart` may also start coroutines and
timers, so that signals find these before the first connection (place "starting"). The end of the process is in `exited`:
stopped, crashed (the inherited handler runs before `_main_worker` is set), or with the
error "signal socket closed". Left out: workers nested by PHP code, SIGUSR2, SIGKILL.
PHP code may delete a timer in its own callback before that yields: `timer_add_callback` then
goes on with freed memory, which holds what it did or another timer (`Dangling`, `MayBeAt`), and
`misused` remembers it. In this version nothing ever clears `reloadable` (`worker.c:117`); the
branches for a worker that is not reloadable are modelled here and in `Master` as they stand.

### Command

Each command is a process, and the one of a start or restart becomes the master; with
`-d` its grandchild does. `at` goes through `parseCommand` (`wm_file_size`,
`wm_file_get_contents`, `Check`, `Kill`, `Poll`) and `runAll` (`initWorkers`, `daemonize`,
`installSignal`, `saveMasterPid`, `monitorWorkers`), whose order is the function `runAll`.
The file is truncated and written in two steps, and its size and contents are read in
two. Of the master there is whether it hears SIGINT, and how many alarms its workers then
take to end: none, or the time until they are killed, or for ever, if one was being forked just
then, and has got neither the signal nor a kill timer (`missed`). `overlapped` remembers that a
command was given while another one was not through. Pids are not used again.

## 3. Runs

Passing runs (`tlc -config X.cfg M`):

| Run | Config | Shows | Bounds |
|---|---|---|---|
| coroutine | `MCCoroutine.cfg` | the scheduler implements `CallStack`; nobody is stranded; PHP stack, C stack and current task agree; the registry is exact; sleepers have their timers, and others only if a sleep was cut short; the callback is called once; the event loop always gets the CPU back | 3 coroutines, 2 keys, 1 defer and 2 timers each, 1 coroutine woken by PHP code, 1 029 000 states |
| channel | `MCChannel.cfg` | without time-outs the channel implements `MessageOrder`, no wakeup is lost, a pop whose item is there returns; with them, items are conserved and in order, and timers wake only their call | 3 coroutines, capacity 1 or 2, 3 calls each way (2 with time-outs, and 2 records), 1 080 000 states |
| timer_wheel | `MCTimerWheel.cfg` | the wheel implements `TimerSet`; it keeps in step with the clock; the counter never forgets a timer of a process that has none of its parent's, and each of those fires | 8 ticks of 2 ms, 2 timers, at most 3 ms between updates, a parent and then its child, 558 000 states |
| master | `MCMaster.cfg` | no child outside the slots, and after a SIGINT none untold but those it came too early for; one restart at a time, no kill without notice, restarts reach everybody and end, unless the master signals itself | 3 workers (one not reloadable), 1 SIGUSR1 of others, 1 SIGINT or crash, 10 pids, 3 kill timers, MASTERSTATES states |
| socket | `MCSocketIO.cfg` | waiters are heard, nobody is left inside a freed socket, and each call returns, as long as calls have not overlapped behind the back of `check_bound_co`; bytes go out in order, once, until a `wmSocket_write` waits in the middle of its buffer | 3 coroutines, both kinds of sockets, 2 bytes, writes of 1 or 2, a kernel buffer of 1, SOCKETSTATES states |
| connection | `MCConnection.cfg` | `onClose` once; freed exactly when nobody holds it; the table of fds leads to live connections, and to all of them but those whose entry a late destroy took; waiting readers are heard; bytes reach `onMessage` in order and once, whatever lengths a protocol says, but for those forgotten or consumed | with a protocol 1 connection and 3 bytes, without one 2 connections on one fd and 2 bytes; 2 coroutines for callbacks; 2 840 000 states |
| worker | `MCWorker.cfg` | a timer is set exactly while it is known, until one is deleted in its own callback; connections are accepted only on an open socket of a worker that is not reloading; a process that ends with an error was not reloadable; a graceful reload ends; with TCP, a SIGINT that finds the signal coroutine waiting ends the process, and callbacks go on | TCP and UDP, reloadable and not, 2 coroutines, 1 timer, 1 signal of each kind, WORKERSTATES states |
| command | `MCCommand.cfg` | one master at most and the pid file leads to it, unless commands overlap; "stop success" is true; a signal meets its handler, however they overlap; without `-d` a stop ends, if no worker was just being forked | 4 processes, 2 commands at a time, 1 death, COMMANDSTATES states |

Runs that show a disagreement with a comment of the code:

| Run | Property | What happens |
|---|---|---|
| master_reload_kill | `KillsOnlyAsked` | a second SIGUSR1 within two seconds refills the array that kill timers point into: a worker nobody asked to end is killed |
| connection_freed | `FreedUnused` | a callback closes its connection and ends, and the reader (or `onError`, or the accept loop) goes on with memory that has been freed |
| command_daemon | `StopEnds` | `alarm(1)` is called before the forks of `daemonize`, which do not inherit it: no kill timer of a daemon ever fires |
| timer_inherited | `OwnTimersFire` | a timer of the master survives in an outer wheel of the child (`timer.c:247`); when it fires there it is counted off one the child has set, the counter is 0, and the event loop stops updating |

Why the bounds are enough. Three coroutines are the least with which one can be
created by one, resumed by a second and be in the middle of entering a third; two
keys make the third creation wrap. Two timers are one that a resume has left behind and that of
the next sleep; PHP code wakes one coroutine, any number of times, whose stale timer, once it
has ended, may wake the others. Channels of one and of two places tell "full" from
"not empty". In the wheel 8 tick values and two outer wheels give cascades of both
kinds and a wrap, with timers set at each tick to each delay. In `MCMaster.cfg` ten pids
are more than any behaviour uses (each fork replaces a process that was killed,
obeyed or crashed): with nine, TLC finds behaviours that stop for want of a pid. A master that
signals itself again and again adds kill timers each time; three are enough to see that it
never stops. In
`MCSocketIO.cfg` one coroutine can wait to read and one to send while a third closes; two
bytes against one place in the kernel's buffer make a send wait in the middle, and fill
the send buffer, so that `onBufferWillFull` runs. A write of two bytes to a stream is cut by the kernel's buffer,
and one of one byte is not. In `MCConnection.cfg` the second
connection must take over the fd of the first, whose entry may still be in the table, and
two coroutines of callbacks are enough for a sender that waits while another closes;
coroutines are used once, so that each connection hears two callbacks at most. Three bytes
make a packet and a rest of which some can be consumed, two make two messages. The constraint
`Bounds` keeps apart what does not interact: a worker with a protocol has a string of its
own for each connection, and is checked with one connection; one without has the buffer
all connections share, and is checked with two. The properties of this run are all safety
properties, for which a constraint leaves nothing out but states beyond it. In `MCWorker.cfg` one coroutine can wait while another runs, and
each of the two signals finds every state of the other. Four pids in `MCCommand.cfg` are a
start and a restart under way with the stop that overlaps them, or the three processes of
a `start -d` and a stop.

Deadlock is not checked where the bounds end every behaviour (all cids, calls, pids or
signals spent, or the process exited), which is so in all runs.

## 4. Fairness

- Coroutines: each coroutine that gets the CPU again and again yields, sleeps or
  returns (`SF GivesUpCPU`): no PHP function computes for ever. The tails of
  `main_func` and `resume` are straight C code (`WF`); defers are pushed finitely often.
- Channel: a woken coroutine that has the CPU goes on with push or pop (`WF`). Nothing
  is assumed of PHP code.
- Timer wheel: time passes, the loop calls update (`SF`: PHP code may run in between),
  C code goes on, callbacks return.
- Socket: PHP code gives the CPU up (again and again the CPU is in a socket function or in the
  event loop), C code and the loop of `wmConnection_read` go
  on, the event loop and the timers run (`SF`: they need the main task), the peer reads
  some time, and what it sends is finite: a peer that always has data keeps the reader,
  and with it the process, busy. That the peer ever sends is not assumed: the read timer
  ends the wait.
- Master: the main thread goes on, SIGALRM is raised (`alarm(1)` is renewed by its own
  handler). That is so of a master in the foreground; of a daemon it is not, which is
  what the run command_daemon shows. Nothing is assumed of workers: they may ignore
  every signal but SIGKILL.
- Worker: C code goes on, the event loop sees bytes that are there and sleeps end (`SF`: all
  need the CPU, which others have meanwhile), PHP coroutines end when they run again and again
  (`SF`), as do `onWorkerStart` and `onWorkerStop`; `onWorkerStart` sleeps finitely often.
- Command: processes go on, and an alarm that is pending is raised. That anybody gives
  commands or that a master dies is not assumed.

## 5. Proofs

`CoroutineProofs` proves, for any number of coroutines, keys, defers and timers:

| Theorem | Statement |
|---|---|
| `SpecIInv` | `Spec => []IInv` |
| `TypeCorrect` | `Spec => []TypeOK` |
| `NoneStranded` | `Spec => []NoCoroutineStranded` |
| `StacksCorrect` | `Spec => []StacksAligned` (and the rest of `SchedulerInv`) |
| `RegistryCorrect` | `Spec => []RegistryExact` |
| `CallbackKept` | `Spec => []CallbackPending` |
| `CallbackOnce` | `Spec => CallbackOnceAtEnd` |
| `SleepTimersGood` | `Spec => []SleepTimersExact` |
| `IsStack` | `Spec => IsCallStack`, the refinement of `CallStack` |

The only assumption is `CoroutineAssumption` on the constants. PHP code may resume sleepers in
all of them. `SleepTimersExact` is inductive with `IInv`: a timer that fires wakes its coroutine
from whatever it waits for, and if that is a later sleep, the timer of this sleep is one too many
from then on; so it is a property of counts, and of who has been woken once.

The inductive invariant `IInv` is `TypeOK` with `SchedulerInv`. `StacksAligned` alone is
not inductive: when the current task yields, its origin must still be on the chain and
its saved PHP stack must be its own. So the invariant adds that the current task and
the origin of each coroutine on the chain are live and have not yielded (`LiveCids`,
`ChainInv`), that each task below the top has its own stack saved (`SavedStacks`), that
each live coroutine owns its pages (`StacksOwned`), and that only the current task can
have ended (`EndedIsCurrent`). "On the chain" is said without recursion: a task is on it
iff it is in every set that holds the current task and is closed under `origin`
(`ClosedUnderOrigin`); the step lemmas show how such sets of the next state give such
sets of this one. Then each action preserves each conjunct.

The stack of `IsStack` is the chain of origins of the running task (`Chain` in `MCCoroutine`),
which is recursive over `origin`. That this recursion has a solution is an invariant
(`ChainDefined`): the chain of a state, with the task that is entered put on top or the one
that is left taken off, solves the equation of the next state. That the solution is the only one
at the running task comes from nobody being stranded: where two chains differ is closed under
`origin`, and they do not differ at `Main` (`ChainUnique`). So a create is an `Enter`, a resume a
`Reenter` (`EnterPushes`), a yield a `Suspend` and a `close_coro` a `Leave` (`LeavePops`), and all else
stutters.

`ChannelProofs` proves, for any number of coroutines, calls, timeout records and places of
the channel, from `ChannelAssumption` and `CoroutineAssumption`:

| Theorem | Statement |
|---|---|
| `SpecChIInv` | `ChSpec => []ChIInv` |
| `NothingLost` | `ChSpec => []ItemsConserved` |
| `SpecBaseInv` | `ChSpec => []BaseInv` |
| `TimersMeetTheirCalls` | `ChSpec => []TimerWakesItsCall` |
| `SpecLineInv` | `ChSpec => [](BaseInv /\ LineInv)` |
| `NoneForgotten` | `ChSpec => []NoLostWakeup` |
| `ServesInOrder` | `ChSpec => InOrder`, the refinement of `MessageOrder` |

`ItemsConserved` is not inductive. A push that waits puts its item in later, after any number
of other pushes and pops: so the items of the waiting pushes differ from each other and from
all that has been accepted (`PendingFresh`). A wakeup after the channel is closed would put
or take an item of a channel that is gone: nobody is inside a push or a pop then
(`ClosedEmpty`). `Flow` says item by item what `ItemsConserved` says of whole sequences. Who
wakes whom plays no part: this holds whatever `resume` does to the scheduler.

The other properties are about just that, and rest on the scheduler: what a step of the channel
does to the variables of `Coroutine` is an action of `Coroutine` or a resume (`Moves`), so that
the invariant of `CoroutineProofs` is kept (`MovesKeep`). On top of it, a coroutine inside a push
or a pop has yielded or has just got the CPU (`CallsInv`), since the task that gets the CPU back
when another yields or ends is never in a call (`OriginNotInCall`), and an armed record is that
of the call its coroutine is in (`ArmedInCall`). With the types this is `BaseInv`, whoever passes
timeouts.

Without timeouts (`Patient`) those who wait in push, and those who wait in pop, stand in line
(`InLine`): each once, with consecutive numbers. A coroutine that has been woken has left its line
and is not served yet; there is at most one, since it has the CPU, and it is counted between
the line and what has been accepted or received (`PushWoken`, `PopWoken`). `Room` says how many
items there are while somebody waits, and is `NoLostWakeup` with the exact numbers: without them a
woken push could find the channel full again. So a push accepts the items in the order of the
calls (`InTurn`), a pop returns in its turn, and what it takes has its own number
(`TakeMatches`), which is all that `MessageOrder` asks. With timeouts the abstract state stands
still, as in the run.

`TimerWheelProofs` proves, for any sizes of the wheels, any interval and any number of timers,
from `TimerWheelAssumption` and `CounterAssumption` (the timers are finitely many, and no more
than a counter can count):

| Theorem | Statement |
|---|---|
| `EveryTimerHasASlot` | `place(e, tick) \in Slots`: the list for timers beyond the last wheel stays empty |
| `SpecIInv` | `TWSpec => []IInv` |
| `CounterCorrect` | `TWSpec => []PendingCounted` |
| `ClockCorrect` | `TWSpec => []ClockExact` |
| `FiresOnTime` | `TWSpec => FiresAtItsTick`, the refinement of `TimerSet` |

`Span` is a recursive function, and induction theorems are out of the prover's reach, so
`FiniteInduction` proves the induction that is needed, over the finitely many wheels, from the
library's theorem that an injection of a finite set into itself is surjective. It gives that
`Span` is well defined and positive (`SpanDefined`, `SpansPositive`), and that each number of
ticks lies between two spans. `PendingCounted` and `ClockExact` are inductive with their types:
what is added or served is counted once, a deletion only makes the counter too large, and when
`currtick` wraps around, the clock has made a whole turn as well (`ModTurn`).

For `FiresOnTime` each timer must lie where the wheels will come upon it in time (`Waits`): one in
the first wheel expires when the wheel gets to its index and not a turn later, and one in an outer
wheel has more ticks left than the remainder of its tick by the length of its slot, so that
its slot is put in again before it is due (`TickWaits`). `place` establishes this wherever
the timer expires (`PlaceWaits`), a tick that does not open the slot keeps it, since only the
ticks at which the lower digits are 0 open it (`SlotOpens`), and a timer whose slot is opened
is placed again. Counting is modulo the length of all wheels, so that it survives the wrap.

`MasterProofs` proves, for any number of workers, of processes of each, of crashes and of
signals, from `MasterAssumption`:

| Theorem | Statement |
|---|---|
| `SpecIInv` | `MSpec => []IInv` |
| `NoneStray` | `MSpec => []NoStrayWorker` |
| `RollsOneByOne` | `MSpec => []RollingReload` |
| `KillsTheAsked` | `MSpec => KillsOnRequest` |

`NoStrayWorker` is not inductive. Pids must be fresh (`PidsFresh`), the slot of a process that
is being forked must stay free until its pid is stored (`ForkingHeld`), and the process that
has been reaped must be out of its slot before the next one is waited for; else the slot would
be lost. Since `monitorWorkers` goes through the workers one by one, frees a slot and forks in
between, what holds on the way is that the reaped pid is in no slot of a worker the loop has
passed (`ReapedAhead`). The handlers of signals leave all this alone, except that they kill. The second half of
`NoStrayWorker`, `StopSeen`, is inductive on top of this: the handler of SIGINT tells whoever is
in a slot, which is every child but the one that is being forked, and who is forked later is
in `late`.

The last two have an invariant of their own (`RollInv`), which is about the time until a second
SIGUSR1 or a SIGINT (`Calm`). The reloadable process under notice, if there is one, is the
first that is left in `_pidsToReload` (`OnlyFirstAsked`, `Leads`): so there are not two, and the
next gets its notice when this one has been reaped and its entry deleted. The entry that
`monitorWorkers` is about to delete is that of the reaped process (`HitReaped`), which a second
SIGUSR1 would have replaced. A kill timer points to an entry of somebody who has been asked, or to
one that has been zeroed since (`TimersAsked`): it kills nobody else.

`WorkerProofs` proves, for any coroutines, timers and number of signals, from
`WorkerAssumption` and `PhpTimerAssumption`:

| Theorem | Statement |
|---|---|
| `SpecIInv` | `WkSpec => []IInv` |
| `TimersCorrect` | `WkSpec => []TimersExact` |
| `AcceptsCorrect` | `WkSpec => []AcceptsOnlyRunning` |
| `ErrorsCorrect` | `WkSpec => []ErrorOnlyUnreloadable` |

`TimersExact`, which holds until PHP code has deleted a timer in its own callback, is inductive with its types: one lemma for each operator of `PhpTimer`, and
the steps of `Worker` cite them. `AcceptsOnlyRunning` is not: `resumeAccept` sets the status
to RUNNING, and would undo that of a reload. So the invariant says that before the
status is set and `onWorkerStart` called no coroutine of PHP code exists (`NothingBeforeStart`), so
that a reload that comes then finds nothing to wait for and ends the process at once
(`StartUndisturbed`). `ErrorOnlyUnreloadable` needs that the signal
coroutine runs exactly while it handles signals (`SignalRuns`), and that a reloadable
worker whose signal socket is closed never comes back to reading it (`ClosedFarAway`).

`CommandProofs` proves, for any number of processes, deaths and overlapping commands, from
`CommandAssumption`:

| Theorem | Statement |
|---|---|
| `SpecIInv` | `CmSpec => []IInv` |
| `OneMasterAtMost` | `CmSpec => []OneMaster` |
| `SignalsMeetHandlers` | `CmSpec => []SignalsHandled` |
| `StopIsTrue` | `CmSpec => StopTrue` |

However commands overlap, a pid that is in the file or known to a command is that of a
process that has come to be a master (`FileSaved`, `KnownSaved`), since pids are fresh
(`PidsFresh`): this carries `SignalsHandled`. As long as they do not, one command at a time
is in progress (`Alone`), what it knows of the master is true (`KnowsMaster`), and it boots
only when there is none (`BootsAlone`): this carries `OneMaster` and `StopTrue`.

`SocketIOProofs` proves, for any number of coroutines, sends and bytes and any buffer of the
kernel, from `SocketAssumption` and `NoCoAssumption`:

| Theorem | Statement |
|---|---|
| `SoInvariant` | `SIOSpec => []FullInv` |
| `SoWaitersHeard` | `SIOSpec => []WaitersHeard` |
| `SoNobodyLeftInside` | `SIOSpec => []NobodyLeftInside` |
| `SoSendsIntact` | `SIOSpec => [](loop_type = "SEMI_AUTO" => \A i \in DOMAIN wire : wire[i] = i)` |
| `SoStreamIntact` | `SIOSpec => []StreamIntact` |

Nothing is assumed of the callers beyond what section 2 says. The properties are about what has
not overlapped: a stream until it is used by two at a time, a connection always for those who
read and close, and until a send has started in another for those who send. `OverlapInv` says
that `overlapped` is as coarse as that, and `FullInv` is the invariant `IInv` of the sockets whose
readers are alone.
Neither of `WaitersHeard` and `NobodyLeftInside` is inductive. That a waiter is heard rests on
what the socket believes (`HeardInv`: its event is in `events`, or a task inside
`wmSocket_close` is about to come to it), on the kernel knowing as much (`EventsInv`: `epoll`
is `events` as long as that is not empty; a stream asks only for what somebody waits for, so
that an event of a batch never meets nobody), and on the coroutine being the bound one
(`BoundInv`). All this would break if two coroutines met in a direction: `PlaceInv` says which
places are left without anything in between, `ExclInv` that each direction has one user.
`CloseInv` says who closes, and that nobody uses a socket while it is freed. The bytes need none
of that on a connection: sent and buffered ones are always all those given, in order
(`SendInv`), whoever sends, waits or overwrites whom. On a stream each writer has its own
buffer; there is one writer, who runs or is known to the socket, even if a reader overlaps with it
(`WriterInv`), and until it has had to wait in the middle of its buffer it has sent nothing of it
(`WriteInv`).

`ConnectionProofs` proves, for any number of connections, descriptors, coroutines of callbacks
and bytes, with and without a protocol, pauses and resets, from `ConnectionAssumption` and
`NoConnAssumption`:

| Theorem | Statement |
|---|---|
| `CnInvariant` | `CnSpec => []IInv` |
| `CnOnCloseOnce` | `CnSpec => []OnCloseOnce` |
| `CnFreedWhenUnheld` | `CnSpec => []FreedWhenUnheld` |
| `CnTableOfLive` | `CnSpec => []TableOfLive` |
| `CnReadersHeard` | `CnSpec => []ReadersHeard` |
| `CnBytesInOrder` | `CnSpec => []BytesInOrder` |

None of the five is inductive. Several tasks may come to destroy a connection while each is cut
by the coroutines it resumes: the invariant is that one task at most is between the closing of
the socket and the last step (`DestroyInv`), which calls `onClose` if it has not and drops the
entries. The counter of references is then two for the tables and one for each coroutine of a
callback that holds the connection (`RefInv`, with cardinalities of finite sets), so that it
reaches 0 exactly once. An entry of the table by fd may be that of a connection whose fd has been
used again: `TableInv` says that it is the only one with this fd that has not been removed. The
other way round, a connection with an open socket has its entry unless a late destroy took it, or
`worker_stop` has just taken it to destroy the connection (`EntryInv`). A reader that
is suspended is watched by epoll, or paused and known as such, or its connection is being closed
by a task that will resume it (`WaitInv`). The bytes are runs: what is delivered ends where
what the reader still holds begins, and this ends at what has been read (`BytesInv`), behind the
`lost` ones, and until some are `cut`; a packet that is longer than what there is leaves
nothing, and the reader is then on its way to its end (`BeyondPcs`). Since
all connections read into one buffer, a reader has its bytes there only at places where nothing
comes in between (`NowInv`) or, without a protocol, until one of them has paused (`has_paused`).

Model-checked only: liveness (`EventLoopRuns`, `PopsServed`, `TimersFire`, the two `ReloadEnds`,
`ReloadReachesAll`, `CallsReturn`, `StopHeard`, `CallbacksGoOn`, `DebugStopEnds`), which is out of
reach of the prover. Each invariant, each action property and each refinement that a passing run
checks is also a theorem.

## 6. Seen while modelling

Without a run of their own:

- Coroutines and channels: `Channel::isEmpty` returns `num > 0` (`php_channel.c:148`). A
  coroutine that timed out stays in the queue of a channel and absorbs the wakeup of a push
  (`channel.c:63`); if it then pushes, it may take itself from the queue and fail the assert
  of `wmCoroutine_resume` (`aborted` in `Channel`). A sleeper that PHP code resumes leaves its
  timer in the wheel (`coroutine.c:426`), which wakes it from another wait and, once it has
  ended, reads freed memory or wakes a later coroutine (`woken` in `Coroutine`).
- Timer wheel: `wmTimerWheel_del` does not decrement `num`, so that `PendingCounted` is an
  inequality and `Coroutine::wait` may not end. An idle wheel stands still, so that the first timer set after that comes early.
- Master: a SIGINT between `fork` and the store of the pid misses the child (`worker.c:322-328`,
  `:337-340`), which gets neither a signal nor a kill timer: a master in DEBUG mode waits for it
  for ever (`late` in `Master`, `missed` in `Command`). A SIGINT before `monitorWorkers` is
  overwritten by `_status = RUNNING`. A SIGUSR1 that finds an empty
  slot of a worker that is not reloadable calls `kill(0, SIGUSR1)` (`worker.c:1118`), which
  reaches the master as well: its handler runs again, finds the slot empty again, and never
  ends (`pending_usr1`, which `ReloadEnds` excepts). Nothing in the repository clears
  `reloadable` (`worker.c:117`), so that today this cannot be reached. With two SIGUSR1 a pid found in
  the list (`ScanHit`) may be replaced by a fresh one before it is zeroed (`Reload`): that
  worker keeps the old code.
- Sockets: after a partial send `wmSocket_write` sends from the start of its buffer again
  (`socket.c:502`; `torn`). One batch of epoll may report EPOLLIN and EPOLLOUT of a socket that the
  reader frees on EPOLLIN, and `socket->loop_type` is then read from freed memory
  (`loop.c:205`; `Dispatch` of a freed socket). With two coroutines on one AUTO socket an
  event for one takes both events out of epoll and the other is forgotten; a second send
  started by `onBufferWillFull` (`socket.c:456`) overwrites `write_co`, and the first sender waits
  until the socket is closed, or for ever (`overlapped`: `check_bound_co` refuses neither).
- Connections: data for a connection whose reader is paused finds no `read_co`, and the
  loop closes the connection (`loop.c:42`). A protocol may name a packet longer than the bytes
  present (`Http.php:130-144`, `Frame.php:35`, `Websocket.php:198`, `Ws.php:196` do), which
  `connection.c:188-214` does not test: `onMessage` gets bytes that were never received (`:202`),
  the offset passes the length (`:214`) and their difference at `:172` wraps (`beyond`). The
  first fragment of a packet is lost when no complete packet came with it
  (`connection.c:163`, `:226`). In a worker without a protocol
  the bytes of a reader that pauses are overwritten by the next connection's
  (`:235-245`; both are `lost`). `consumeRecvBuffer` cuts the end of the buffer, not its start
  (`:331`), and ignores a request for all of it, so that the message is handled again (`cut`).
  After an error that is not a close, `onError` leaves the connection to its
  fate; when its fd is used again its entry is replaced, and a later destroy removes the
  other's (`:455`), so that a worker that stops does not close that one (`ousted`).
- Worker: `Timer::del` of a timer in its own callback is a use of freed memory
  (`php_timer.c:61-62`; `examples/Workerman/Protocols/Ws.php:428-431` does it; `misused` in
  `PhpTimer`). A UDP worker that is reloaded while `onWorkerStart` waits has lost its socket when it goes on, and
  reads it through a null pointer (`worker.c:1000`). `reload_coro_num` counts the run
  coroutine, which has ended by then: one coroutine of PHP code may be cut off
  (`worker.c:1178`). A signal that arrives while the signal coroutine sleeps in a callback
  or a reload finds nobody at the socket pair, and the loop closes it: a SIGINT during a
  graceful reload is lost, and a worker that is not reloadable ends with "signal socket
  closed" (`signal.c:52`). The flag `stopping` is set too late to matter (`worker.c:581`).
  A SIGINT before `_main_worker` is set crashes the child.
- UDP: since `recvfrom` blocks (`socket.c:235`, `:366`), a callback of a UDP worker that sleeps
  goes on only after the next datagram: without `transport = "tcp"` TLC finds `CallbacksGoOn`
  violated, although each message is meant to be handled in a coroutine (`worker.c:998`). Nor
  does such a worker hear SIGINT and SIGUSR1 meanwhile (`StopHeard`), and the master ends it with
  SIGKILL. A `recvfrom` that fails returns -1, which goes on as a length (`connection.c:258`). A
  callback that closes its connection frees it under `onMessage_callback_udp`
  (`connection.c:113`); without `onMessage` the connection of each datagram is never freed.
- Commands: an empty pid file is read through a null pointer (`worker.c:803`). A restart
  without a master sends SIGINT to its own process group (`:837`). The file is never
  removed: a pid that is used again makes start refuse and stop hit a stranger. If the
  file shrinks while it is read, the loop at `file.c:71` does not end. `start -d` returns to
  the shell before the pid is saved, so that commands may overlap without anybody's fault.

## 7. Not modelled

Stream hooks are argument conversion; arrays and strings are sequential structures without
interaction (what `wmArray_clear` leaves behind is in `Master`); logs and raw sockets wrap
system calls; the assembly of boost.context and khash are vendored and appear as what they
promise. `PROJECT.json` says of each component that is partly modelled what is left out.
Failing allocations and the wrap of a cid at 2^63 are left out throughout.

## 8. What is left

1. `SocketIO`: an abstract byte pipe whose waits end, which it implements.
2. `Connection` and `Worker` composed: what a graceful reload does to connections that are
   paused.
