-------------------------------- MODULE Worker --------------------------------
(***************************************************************************)
(* The life of one worker process, from fork to exit: the child's half of  *)
(* forkOneWorker, run, reinstallSignal, reload and stopAll in              *)
(* src/src/worker.c, and src/src/worker/signal.c, which turns signals into *)
(* bytes of a socket pair that a coroutine reads.                          *)
(*                                                                         *)
(* Signals arrive at any time.  What they reach changes: the handler of    *)
(* the master, which the child inherits; nobody, while the child ignores   *)
(* them; the socket pair.  The coroutine that reads it handles a signal to *)
(* the end, and may sleep there: in the callbacks of PHP code, and while a *)
(* graceful reload waits for the other coroutines.                         *)
(*                                                                         *)
(* Master sees this process from outside, as one that ends some time after *)
(* it was told to, and kills it when that takes too long.  Connection      *)
(* shows what becomes of its connections.                                  *)
(***************************************************************************)
EXTENDS Integers, FiniteSets, SequencesExt, PhpTimer

CONSTANTS
  Coro,        \* the coroutines of connections, of timers, and of PHP code
  Reloadable,  \* may the worker be reloadable, may it not: subset of BOOLEAN
  Transports,  \* what it may listen on: subset of {"tcp", "udp"}
  MaxSignals   \* bound on the signals of each kind

ASSUME WorkerAssumption ==
  /\ {"main", "run", "signal"} \cap Coro = {}
  /\ Reloadable \subseteq BOOLEAN
  /\ Transports \subseteq {"tcp", "udp"}
  /\ MaxSignals \in Nat

VARIABLES
  now,          \* who runs: "main", "run", "signal" or a coroutine
  at,           \* per coroutine: where it is
  main_worker,  \* is _main_worker set?
  status,       \* _main_worker->_status
  reloadable,
  transport,    \* worker->transport
  listening,    \* is there a listening socket?
  handler,      \* per signal: the disposition
  socketpair,   \* the bytes in it
  closed,       \* has the event loop closed the end that is read?
  signals,      \* the bytes read from it that have not been handled
  exited,       \* "no", or how the process has ended
  sent          \* per signal: how often it has been sent

own    == <<main_worker, reloadable, transport>>
life   == <<status, listening, exited>>
pair   == <<socketpair, closed, signals>>
wkvars == <<now, at, own, life, handler, pair, sent, ptvars>>

INT    == "SIGINT"
USR1   == "SIGUSR1"
Signal == {INT, USR1}
Task   == {"run", "signal"} \cup Coro

\* The main task is in the event loop, and not in the middle of a timer.
Main == now = "main" /\ exited = "no" /\ calling = NoTimer

Is(t, where) == now = t /\ at[t] = where /\ exited = "no"

\* Who goes on when t yields or ends: the run coroutine, if it has just created
\* t, and else the main task.
Below(t) == IF t # "run" /\ at["run"] \in {"booting", "starting", "accepted"} THEN "run" ELSE "main"

Goto(t, where) == at' = [at EXCEPT ![t] = where]
Yield(t, where) == Goto(t, where) /\ now' = Below(t)
Resume(t, where) == Goto(t, where) /\ now' = t

\* wmCoroutine_getTotalNum, which counts whoever asks.
TotalNum == Cardinality({t \in Task : at[t] \notin {"none", "over"}})

\* Mutant: the signal coroutine, which waits, is not thought of.
reload_coro_num_none == 0

\* The coroutines of the framework: run and signal.  The former has ended when
\* they are counted, so that one coroutine of PHP code may be cut off.
reload_coro_num == 2

(***************************************************************************)
(* The start: the main task sets _main_worker, and starts the run          *)
(* coroutine, which ignores the signals, then has them written to the      *)
(* socket pair, starts the signal coroutine, and accepts connections.      *)
(***************************************************************************)
forkOneWorker ==
  /\ Main /\ at["run"] = "none"
  /\ \/ ~ main_worker /\ main_worker' = TRUE /\ UNCHANGED <<now, at>>
     \/ main_worker /\ Resume("run", "ignore") /\ UNCHANGED main_worker
  /\ UNCHANGED <<reloadable, transport, life, handler, pair, sent, ptvars>>

\* SIGINT comes first.
Before(s) == IF s = USR1 THEN {INT} ELSE {}

reinstallSignal ==
  /\ \/ \E s \in Signal :
          /\ Is("run", "ignore")
          /\ handler[s] = "master" /\ \A b \in Before(s) : handler[b] # "master"
          /\ handler' = [handler EXCEPT ![s] = "ignored"]
          /\ IF s = USR1 THEN Goto("run", "add") ELSE UNCHANGED at
          /\ UNCHANGED now
     \/ \E s \in Signal :
          /\ Is("run", "add")
          /\ handler[s] = "ignored" /\ \A b \in Before(s) : handler[b] # "ignored"
          /\ handler' = [handler EXCEPT ![s] = "sig_handler"]
          /\ UNCHANGED <<now, at>>
     \/ /\ Is("run", "add")
        /\ \A s \in Signal : handler[s] = "sig_handler"
        /\ at' = [at EXCEPT !["run"] = "booting", !["signal"] = "read"]
        /\ now' = "signal"
        /\ UNCHANGED handler
  /\ UNCHANGED <<own, life, pair, sent, ptvars>>

\* The callbacks are bound after onWorkerStart.
resumeAccept ==
  /\ \/ /\ Is("run", "booting")
        /\ status' = "RUNNING"
        /\ Goto("run", "starting")
     \/ /\ Is("run", "starting")
        /\ Goto("run", "accepted")
        /\ UNCHANGED status
  /\ UNCHANGED <<now, own, listening, exited, handler, pair, sent, ptvars>>

\* onWorkerStart is PHP code that the run coroutine calls: it may sleep, start
\* coroutines, and, as they may, add and delete timers and stop the worker.
StartSleeps ==
  /\ Is("run", "starting")
  /\ Yield("run", "onWorkerStart")
  /\ UNCHANGED <<own, life, handler, pair, sent, ptvars>>

StartGoesOn ==
  /\ Main /\ at["run"] = "onWorkerStart"
  /\ Resume("run", "starting")
  /\ UNCHANGED <<own, life, handler, pair, sent, ptvars>>

StartCreates(c) ==
  /\ Is("run", "starting") /\ at[c] = "none"
  /\ Resume(c, "php")
  /\ UNCHANGED <<own, life, handler, pair, sent, ptvars>>

Bound == at["run"] \in {"accepted", "accept", "recvfrom", "over"}

\* Mutant: the socket blocks.
acceptConnectionTcp_blocking ==
  /\ Is("run", "accepted") /\ transport = "tcp"
  /\ IF status = "RUNNING" THEN Goto("run", "recvfrom") /\ UNCHANGED now
                           ELSE Yield("run", "over")
  /\ UNCHANGED <<own, life, handler, pair, sent, ptvars>>

\* acceptConnectionTcp looks at the status before each connection.
acceptConnectionTcp ==
  /\ Is("run", "accepted") /\ transport = "tcp"
  /\ Yield("run", IF status = "RUNNING" THEN "accept" ELSE "over")
  /\ UNCHANGED <<own, life, handler, pair, sent, ptvars>>

\* A connection, with the coroutine that reads it; a coroutine that handles a
\* message comes about in the same way.
Accept(c) ==
  /\ Main /\ at["run"] = "accept" /\ at[c] = "none"
  /\ at' = [at EXCEPT !["run"] = "accepted", ![c] = "php"]
  /\ now' = c
  /\ UNCHANGED <<own, life, handler, pair, sent, ptvars>>

\* The next datagram, or the null pointer that a reload during onWorkerStart has
\* left where the socket was.  Only TCP sockets do not block: nobody else runs meanwhile,
\* and signals are written to the socket pair, and recvfrom goes on (SA_RESTART).
acceptConnectionUdp ==
  /\ Is("run", "accepted") /\ transport = "udp"
  /\ \/ listening /\ Goto("run", "recvfrom") /\ UNCHANGED exited
     \/ ~ listening /\ exited' = "crashed" /\ UNCHANGED at
  /\ UNCHANGED <<now, own, status, listening, handler, pair, sent, ptvars>>

\* A datagram, with the coroutine that handles it.
wmConnection_recvfrom(c) ==
  /\ Is("run", "recvfrom") /\ at[c] = "none"
  /\ at' = [at EXCEPT !["run"] = "accepted", ![c] = "php"]
  /\ now' = c
  /\ UNCHANGED <<own, life, handler, pair, sent, ptvars>>

(***************************************************************************)
(* The end.                                                                *)
(***************************************************************************)

\* _unlisten: a run coroutine that waits for a connection ends inside.
unlistened(a) == IF a["run"] = "accept" THEN [a EXCEPT !["run"] = "over"] ELSE a

\* Mutant: the process goes on.
exit_not(t) ==
  /\ listening' = FALSE
  /\ at' = unlistened([at EXCEPT ![t] = "handle"])
  /\ now' = t
  /\ UNCHANGED exited

\* What follows onWorkerStop in worker_stop and wmWorker_stopAll.
exit(t) ==
  /\ listening' = FALSE
  /\ at' = unlistened(at)
  /\ now' = t
  /\ exited' = "stopped"

\* onWorkerStop may sleep.  The flag stopping is set after it, when the process
\* exits anyway: two coroutines can be in worker_stop at a time.
wmWorker_stopAll(t) ==
  /\ status' = "SHUTDOWN"
  /\ exit(t) \/ (Bound /\ Yield(t, "onWorkerStop") /\ UNCHANGED <<listening, exited>>)

StopGoesOn(t) ==
  /\ Main /\ at[t] = "onWorkerStop"
  /\ exit(t)
  /\ UNCHANGED <<own, status, handler, pair, sent, ptvars>>

(***************************************************************************)
(* Signals.                                                                *)
(***************************************************************************)

\* The handler of the master, in the child: it needs _main_worker, has no
\* coroutines to wait for, and no callbacks.
signalHandler(s) ==
  IF ~ main_worker
    THEN exited' = "crashed" /\ UNCHANGED <<now, at, status, listening>>
    ELSE IF s = INT \/ reloadable
      THEN status' = "SHUTDOWN" /\ exit(now)
      ELSE UNCHANGED <<now, at, status, listening, exited>>

sig_handler(s) ==
  /\ socketpair' = IF closed THEN socketpair ELSE Append(socketpair, s)
  /\ UNCHANGED <<closed, signals>>

Signalled(s) ==
  /\ exited = "no" /\ sent[s] < MaxSignals
  /\ sent' = [sent EXCEPT ![s] = @ + 1]
  /\ \/ handler[s] = "master" /\ signalHandler(s) /\ UNCHANGED pair
     \/ handler[s] = "ignored" /\ UNCHANGED <<now, at, life, pair>>
     \/ handler[s] = "sig_handler" /\ sig_handler(s) /\ UNCHANGED <<now, at, life>>
  /\ UNCHANGED <<own, handler, ptvars>>

\* Mutant: the event loop ignores the bytes that nobody waits for.
EpollIn_late ==
  /\ Main /\ at["signal"] = "wait" /\ Len(socketpair) > 1
  /\ Resume("signal", "read")
  /\ UNCHANGED <<own, life, handler, pair, sent, ptvars>>

\* The event loop closes the socket when nobody waits for its bytes.
EpollIn ==
  /\ Main /\ at["signal"] # "none" /\ ~ closed /\ socketpair # <<>>
  /\ \/ /\ at["signal"] = "wait"
        /\ Resume("signal", "read")
        /\ UNCHANGED pair
     \/ /\ at["signal"] # "wait"
        /\ closed' = TRUE
        /\ socketpair' = <<>>
        /\ UNCHANGED <<now, at, signals>>
  /\ UNCHANGED <<own, life, handler, sent, ptvars>>

\* wmSignal_wait.  All bytes that are there are read, and handled one by one.
wmSignal_wait ==
  /\ \/ /\ Is("signal", "read") /\ closed
        /\ exited' = "error"
        /\ UNCHANGED <<now, at, pair>>
     \/ /\ Is("signal", "read") /\ ~ closed /\ socketpair = <<>>
        /\ Yield("signal", "wait")
        /\ UNCHANGED <<exited, pair>>
     \/ /\ Is("signal", "read") /\ ~ closed /\ socketpair # <<>>
        /\ Goto("signal", "handle")
        /\ signals' = socketpair
        /\ socketpair' = <<>>
        /\ UNCHANGED <<now, exited, closed>>
     \/ /\ Is("signal", "handle") /\ signals = <<>>
        /\ Goto("signal", "read")
        /\ UNCHANGED <<now, exited, pair>>
  /\ UNCHANGED <<own, status, listening, handler, sent, ptvars>>

Next_signal(s) ==
  /\ Is("signal", "handle")
  /\ signals # <<>> /\ Head(signals) = s
  /\ signals' = Tail(signals)

HandleStop ==
  /\ Next_signal(INT)
  /\ wmWorker_stopAll("signal")
  /\ UNCHANGED <<own, handler, socketpair, closed, sent, ptvars>>

\* Mutant: the listening socket stays.
reloaded_listening ==
  IF reloadable
    THEN /\ status' = "RELOADING"
         /\ Goto("signal", "drain")
         /\ UNCHANGED listening
    ELSE Goto("signal", "handle") /\ UNCHANGED <<status, listening>>

\* reload, from where onWorkerReload has returned.
reloaded ==
  IF reloadable
    THEN /\ status' = "RELOADING"
         /\ listening' = FALSE
         /\ at' = unlistened([at EXCEPT !["signal"] = "drain"])
    ELSE Goto("signal", "handle") /\ UNCHANGED <<status, listening>>

HandleReload ==
  /\ Next_signal(USR1)
  /\ \/ reloaded /\ UNCHANGED now
     \/ Bound /\ Yield("signal", "onWorkerReload") /\ UNCHANGED <<status, listening>>
  /\ UNCHANGED <<own, exited, handler, socketpair, closed, sent, ptvars>>

ReloadGoesOn ==
  /\ Main /\ at["signal"] = "onWorkerReload"
  /\ reloaded
  /\ now' = "signal"
  /\ UNCHANGED <<own, exited, handler, pair, sent, ptvars>>

\* reload waits until the coroutines of the framework are all that is left.
Drain ==
  /\ Is("signal", "drain")
  /\ IF TotalNum <= reload_coro_num
       THEN wmWorker_stopAll("signal")
       ELSE Yield("signal", "sleep") /\ UNCHANGED <<status, listening, exited>>
  /\ UNCHANGED <<own, handler, pair, sent, ptvars>>

DrainGoesOn ==
  /\ Main /\ at["signal"] = "sleep"
  /\ Resume("signal", "drain")
  /\ UNCHANGED <<own, life, handler, pair, sent, ptvars>>

(***************************************************************************)
(* The coroutines that run PHP code, and the timers.                       *)
(***************************************************************************)
PhpYields(c) ==
  /\ Is(c, "php")
  /\ Yield(c, "asleep")
  /\ UNCHANGED <<own, life, handler, pair, sent, ptvars>>

PhpEnds(c) ==
  /\ Is(c, "php")
  /\ Yield(c, "none")
  /\ UNCHANGED <<own, life, handler, pair, sent, ptvars>>

Wakes(c) ==
  /\ Main /\ at[c] = "asleep"
  /\ Resume(c, "php")
  /\ UNCHANGED <<own, life, handler, pair, sent, ptvars>>

\* Who runs PHP code that may add and delete timers, and stop the worker.
Php(t) == Is(t, IF t = "run" THEN "starting" ELSE "php")

PhpStops(c) ==
  /\ Php(c)
  /\ wmWorker_stopAll(c)
  /\ UNCHANGED <<own, handler, pair, sent, ptvars>>

PhpTimers(c) ==
  /\ Php(c)
  /\ \E t \in Timer : del(t) \/ (\E p \in BOOLEAN : add(t, p))
  /\ UNCHANGED <<now, at, own, life, handler, pair, sent>>

Expires(t, c) ==
  /\ Main /\ at[c] = "none"
  /\ expires(t)
  /\ Resume(c, "php")
  /\ UNCHANGED <<own, life, handler, pair, sent>>

\* The second half of timer_add_callback.
Called ==
  /\ now = "main" /\ exited = "no"
  /\ \/ called(status = "RELOADING") /\ UNCHANGED exited
     \/ Dangling /\ exited' = "crashed" /\ UNCHANGED ptvars
  /\ UNCHANGED <<now, at, own, status, listening, handler, pair, sent>>

-----------------------------------------------------------------------------
WkInit ==
  /\ PTInit
  /\ now = "main"
  /\ at = [t \in Task |-> "none"]
  /\ main_worker = FALSE
  /\ status = "STARTING"
  /\ reloadable \in Reloadable
  /\ transport \in Transports
  /\ listening = TRUE
  /\ handler = [s \in Signal |-> "master"]
  /\ socketpair = <<>>
  /\ closed = FALSE
  /\ signals = <<>>
  /\ exited = "no"
  /\ sent = [s \in Signal |-> 0]

Starts ==
  forkOneWorker \/ reinstallSignal \/ resumeAccept \/ acceptConnectionTcp \/ acceptConnectionUdp
Handles == wmSignal_wait \/ HandleStop \/ HandleReload \/ ReloadGoesOn \/ Drain \/ DrainGoesOn

WkNext ==
  \/ Starts \/ StartSleeps \/ StartGoesOn \/ Handles \/ EpollIn \/ Called
  \/ \E t \in Task : StopGoesOn(t)
  \/ \E t \in Coro \cup {"run"} : PhpStops(t) \/ PhpTimers(t)
  \/ \E s \in Signal : Signalled(s)
  \/ \E c \in Coro :
       \/ Accept(c) \/ wmConnection_recvfrom(c) \/ Wakes(c)
       \/ PhpYields(c) \/ PhpEnds(c) \/ StartCreates(c)
       \/ \E t \in Timer : Expires(t, c)

WkSpec == WkInit /\ [][WkNext]_wkvars

\* The C code goes on, the event loop sees what is there, sleeps are over some
\* time, onWorkerStart sleeps no more at last, and the coroutines of PHP code end.
FairWorker ==
  /\ WkSpec
  /\ SF_wkvars(Starts \/ Called) /\ SF_wkvars(Handles \/ EpollIn)
  /\ SF_wkvars(StartGoesOn \/ \E t \in Task : StopGoesOn(t))
  /\ <>[][~ StartSleeps]_wkvars
  /\ SF_wkvars(\E c \in Coro : PhpEnds(c))
  /\ \A c \in Coro : SF_wkvars(Wakes(c))

-----------------------------------------------------------------------------
(***************************************************************************)
(* Properties.                                                             *)
(***************************************************************************)

\* Nobody waits for a connection on a socket that has been freed, or in a
\* worker that reloads.
AcceptsOnlyRunning ==
  at["run"] = "accept" => listening /\ status # "RELOADING"

\* A process that ends because its signal socket was closed is one that may not
\* be reloaded: the others have always stopped before they come back to it.
ErrorOnlyUnreloadable == exited = "error" => ~ reloadable

\* A graceful reload ends, when all coroutines of PHP code do: no connection is
\* accepted any more, and no timer is set again.
ReloadEnds == status = "RELOADING" ~> exited # "no"

\* A SIGINT that finds the signal coroutine waiting ends the process, which does
\* not listen for datagrams.
StopHeard ==
  (transport = "tcp" /\ at["signal"] = "wait" /\ INT \in ToSet(socketpair)) ~> exited # "no"

\* Callbacks are coroutines: in a process that does not listen for datagrams one
\* that sleeps goes on, whatever the others wait for.
CallbacksGoOn ==
  \A c \in Coro :
    transport = "tcp" /\ at[c] = "asleep" ~> (at[c] # "asleep" \/ exited # "no")
=============================================================================
