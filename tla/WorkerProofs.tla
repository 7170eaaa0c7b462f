----------------------------- MODULE WorkerProofs -----------------------------
(***************************************************************************)
(* Proofs about a worker process and its PHP timers, for any number of     *)
(* coroutines, timers and signals.                                         *)
(***************************************************************************)
EXTENDS Worker, FiniteSetTheorems, TLAPS

Place ==
  {"none", "ignore", "add", "booting", "starting", "onWorkerStart", "accepted", "accept", "recvfrom",
   "over",
   "php", "asleep", "read", "wait", "handle", "drain", "sleep", "onWorkerStop",
   "onWorkerReload"}

PhpTimerRecord ==
  [state : {"new", "known", "freed"}, timer : BOOLEAN, persistent : BOOLEAN]

PTTypeOK ==
  /\ timers \in [Timer -> PhpTimerRecord]
  /\ wheel \subseteq Timer
  /\ calling \in Timer \cup {NoTimer}
  /\ misused \in BOOLEAN

WkTypeOK ==
  /\ now \in Task \cup {"main"}
  /\ at \in [Task -> Place]
  /\ status \in {"STARTING", "RUNNING", "RELOADING", "SHUTDOWN"}
  /\ reloadable \in BOOLEAN
  /\ listening \in BOOLEAN
  /\ closed \in BOOLEAN
  /\ exited \in {"no", "stopped", "crashed", "error"}

(***************************************************************************)
(* The inductive invariant.  AcceptsOnlyRunning alone is not inductive:    *)
(* the status a worker starts with would overwrite that of a reload which  *)
(* has come before.  It does not, because until then no coroutine of PHP   *)
(* code runs that the reload could wait for: onWorkerStart, which may      *)
(* start some, comes after it.                                             *)
(***************************************************************************)
Started == at["run"] \notin {"none", "ignore", "add", "booting"}

NothingBeforeStart ==
  ~ Started => /\ \A c \in Coro : at[c] = "none"
               /\ wheel = {} /\ calling = NoTimer

StartUndisturbed ==
  exited = "no" /\ ~ Started =>
    listening \/ (now = "signal" /\ at["signal"] = "drain")

SignalAfterIgnoring ==
  at["run"] \in {"none", "ignore", "add"} => at["signal"] = "none"

SignalPlaces ==
  at["signal"] \in {"none", "read", "wait", "handle", "drain", "sleep", "onWorkerStop",
                    "onWorkerReload"}

RunningListens == exited = "no" /\ status = "RUNNING" => listening

\* ErrorOnlyUnreloadable needs to know that the signal coroutine runs while it
\* handles signals, so that the event loop cannot close its socket then, and
\* that it does not come back from a reload.
SignalRuns ==
  exited = "no" => (now = "signal" <=> at["signal"] \in {"read", "handle", "drain"})

ClosedFarAway ==
  exited = "no" /\ reloadable /\ closed =>
    at["signal"] \in {"onWorkerStop", "onWorkerReload", "drain", "sleep"}

WorkerInv ==
  /\ NothingBeforeStart
  /\ StartUndisturbed
  /\ SignalAfterIgnoring
  /\ SignalPlaces
  /\ RunningListens
  /\ AcceptsOnlyRunning
  /\ SignalRuns
  /\ ClosedFarAway
  /\ ErrorOnlyUnreloadable

IInv == WkTypeOK /\ PTTypeOK /\ TimersExact /\ WorkerInv

LEMMA Tasks ==
  /\ "run" \in Task /\ "signal" \in Task /\ "main" \notin Task
  /\ \A c \in Coro : c \in Task /\ c # "run" /\ c # "signal" /\ c # "main"
  /\ \A t \in Task : t = "run" \/ t = "signal" \/ t \in Coro
BY WorkerAssumption DEF Task

-----------------------------------------------------------------------------
(***************************************************************************)
(* The timers.                                                             *)
(***************************************************************************)

LEMMA TimersInit == PTInit => PTTypeOK /\ TimersExact
<1> SUFFICES ASSUME PTInit PROVE PTTypeOK /\ TimersExact
  OBVIOUS
<1>1. misused \in BOOLEAN
  BY DEF PTInit
<1>2. \A t \in Timer : timers[t].timer = FALSE /\ ~ Known(t)
  BY DEF PTInit, Known
<1>3. timers \in [Timer -> PhpTimerRecord] /\ wheel = {} /\ calling = NoTimer
  BY DEF PTInit, PhpTimerRecord
<1> QED
  BY <1>1, <1>2, <1>3 DEF PTTypeOK, TimersExact

LEMMA TimerStops ==
  ASSUME PTTypeOK, NEW t \in Timer, timer_free(t)
  PROVE  /\ timers' \in [Timer -> PhpTimerRecord] /\ wheel' \subseteq Timer
         /\ timers'[t].state = "freed" /\ timers'[t].timer = FALSE
         /\ t \in wheel => timers[t].timer = FALSE \/ t \notin wheel'
         /\ \A u \in Timer \ {t} : timers'[u] = timers[u] /\ (u \in wheel' <=> u \in wheel)
BY DEF PTTypeOK, PhpTimerRecord, timer_free

LEMMA TimerStarts ==
  ASSUME PTTypeOK, NEW t \in Timer, NEW k \in PhpTimerRecord, wmTimerWheel_add_quick(t, k)
  PROVE  /\ timers' \in [Timer -> PhpTimerRecord] /\ wheel' \subseteq Timer
         /\ timers'[t].state = k.state /\ timers'[t].timer = TRUE /\ t \in wheel'
         /\ \A u \in Timer \ {t} : timers'[u] = timers[u] /\ (u \in wheel' <=> u \in wheel)
BY DEF PTTypeOK, PhpTimerRecord, wmTimerWheel_add_quick

LEMMA AddKeeps ==
  ASSUME PTTypeOK, TimersExact, NEW t \in Timer, NEW p \in BOOLEAN, add(t, p)
  PROVE  PTTypeOK' /\ TimersExact'
<1> DEFINE k == [timers[t] EXCEPT !.state = "known", !.persistent = p]
<1>1. k \in PhpTimerRecord /\ k.state = "known"
  BY DEF PTTypeOK, PhpTimerRecord
<1>2. /\ timers' \in [Timer -> PhpTimerRecord] /\ wheel' \subseteq Timer
      /\ timers'[t].state = "known" /\ timers'[t].timer = TRUE /\ t \in wheel'
      /\ \A u \in Timer \ {t} : timers'[u] = timers[u] /\ (u \in wheel' <=> u \in wheel)
  BY <1>1, TimerStarts DEF add
<1>3. PTTypeOK'
  BY <1>2 DEF PTTypeOK, add
<1>4. calling' = calling /\ misused' = misused
  BY DEF add
<1> QED
  BY <1>2, <1>3, <1>4 DEF TimersExact, Known

LEMMA DelKeeps ==
  ASSUME PTTypeOK, TimersExact, NEW t \in Timer, del(t)
  PROVE  PTTypeOK' /\ TimersExact'
<1>1. /\ timers' \in [Timer -> PhpTimerRecord] /\ wheel' \subseteq Timer
      /\ timers'[t].state = "freed" /\ timers'[t].timer = FALSE
      /\ t \in wheel => timers[t].timer = FALSE \/ t \notin wheel'
      /\ \A u \in Timer \ {t} : timers'[u] = timers[u] /\ (u \in wheel' <=> u \in wheel)
  BY TimerStops DEF del
<1>2. calling' = calling /\ misused' = misused /\ Known(t)
  BY DEF del
<1>3. misused \/ (t \in wheel <=> timers[t].timer)
  BY DEF TimersExact
<1>4. PTTypeOK'
  BY <1>1, <1>2 DEF PTTypeOK
<1>5. wheel' \subseteq wheel
  BY DEF del, timer_free
<1> QED
  BY <1>1, <1>2, <1>3, <1>4, <1>5 DEF TimersExact, Known

LEMMA ExpiresKeeps ==
  ASSUME PTTypeOK, TimersExact, calling = NoTimer, NEW t \in Timer, expires(t)
  PROVE  PTTypeOK' /\ TimersExact'
<1>1. /\ timers' \in [Timer -> PhpTimerRecord] /\ wheel' = wheel \ {t} /\ calling' = t
      /\ misused' = misused
      /\ timers'[t].state = timers[t].state /\ timers'[t].timer = FALSE
      /\ \A u \in Timer \ {t} : timers'[u] = timers[u]
  BY DEF PTTypeOK, PhpTimerRecord, expires
<1>2. t \in wheel
  BY DEF expires
<1>3. PTTypeOK'
  BY <1>1 DEF PTTypeOK
<1>4. \A u \in Timer : u # calling
  BY PhpTimerAssumption
<1> QED
  BY <1>1, <1>2, <1>3, <1>4 DEF TimersExact, Known

LEMMA CalledKeeps ==
  ASSUME PTTypeOK, TimersExact, NEW reloading \in BOOLEAN, called(reloading)
  PROVE  PTTypeOK' /\ TimersExact'
<1>1. /\ calling \in Timer /\ calling' = NoTimer /\ misused' = (misused \/ Dangling)
      /\ \A u \in Timer : u # calling'
  BY PhpTimerAssumption DEF called, PTTypeOK
<1>2. MayBeAt(calling) \subseteq Timer /\ (Known(calling) => MayBeAt(calling) = {calling})
  BY <1>1 DEF MayBeAt
<1>3. misused' \in BOOLEAN /\ (misused \/ ~ Known(calling) => misused')
  BY <1>1, PhpTimerAssumption DEF PTTypeOK, Dangling
<1>4. PICK t \in MayBeAt(calling) : timer_free(t) \/ wmTimerWheel_add_quick(t, timers[t])
  BY DEF called
<1>5. t \in Timer /\ (~ misused' => t = calling /\ Known(t) /\ ~ misused)
  BY <1>2, <1>3, <1>4
<1>6. CASE timer_free(t)
  <2>1. /\ timers' \in [Timer -> PhpTimerRecord] /\ wheel' \subseteq Timer
        /\ timers'[t].state = "freed" /\ timers'[t].timer = FALSE
        /\ t \in wheel => timers[t].timer = FALSE \/ t \notin wheel'
        /\ \A u \in Timer \ {t} : timers'[u] = timers[u] /\ (u \in wheel' <=> u \in wheel)
    BY <1>5, <1>6, TimerStops
  <2>2. wheel' \subseteq wheel
    BY <1>6 DEF timer_free
  <2>3. PTTypeOK'
    BY <1>1, <1>3, <2>1 DEF PTTypeOK
  <2> QED
    BY <1>1, <1>5, <2>1, <2>2, <2>3 DEF TimersExact, Known
<1>7. CASE wmTimerWheel_add_quick(t, timers[t])
  <2>1. timers[t] \in PhpTimerRecord
    BY <1>5 DEF PTTypeOK
  <2>2. /\ timers' \in [Timer -> PhpTimerRecord] /\ wheel' \subseteq Timer
        /\ timers'[t].state = timers[t].state /\ timers'[t].timer = TRUE /\ t \in wheel'
        /\ \A u \in Timer \ {t} : timers'[u] = timers[u] /\ (u \in wheel' <=> u \in wheel)
    BY <1>5, <1>7, <2>1, TimerStarts
  <2>3. PTTypeOK'
    BY <1>1, <1>3, <2>2 DEF PTTypeOK
  <2> QED
    BY <1>1, <1>5, <2>2, <2>3 DEF TimersExact, Known
<1> QED
  BY <1>4, <1>6, <1>7

-----------------------------------------------------------------------------
(***************************************************************************)
(* The types.                                                              *)
(***************************************************************************)

LEMMA BelowType == \A t \in Task : Below(t) \in Task \cup {"main"} /\ Below(t) # "signal"
BY Tasks DEF Below

LEMMA StopType ==
  ASSUME WkTypeOK, NEW t \in Task, wmWorker_stopAll(t)
  PROVE  /\ now' \in Task \cup {"main"} /\ at' \in [Task -> Place]
         /\ status' = "SHUTDOWN" /\ listening' \in BOOLEAN
         /\ exited' \in {"stopped", exited}
BY Tasks, BelowType
DEF wmWorker_stopAll, exit, unlistened, Yield, Goto, Place, WkTypeOK

LEMMA ReloadedType ==
  ASSUME WkTypeOK, reloaded
  PROVE  /\ at' \in [Task -> Place]
         /\ \A c \in Coro : at'[c] = at[c]
         /\ at'["run"] = at["run"] \/ (at["run"] = "accept" /\ at'["run"] = "over")
         /\ \/ /\ reloadable /\ status' = "RELOADING" /\ listening' = FALSE
               /\ at'["signal"] = "drain" /\ at'["run"] # "accept"
            \/ /\ ~ reloadable /\ UNCHANGED <<status, listening>>
               /\ at'["signal"] = "handle" /\ at'["run"] = at["run"]
<1>1. CASE reloadable
  <2> DEFINE drained == [at EXCEPT !["signal"] = "drain"]
  <2>1. /\ drained \in [Task -> Place] /\ drained["signal"] = "drain"
        /\ \A t \in Task \ {"signal"} : drained[t] = at[t]
    BY Tasks DEF WkTypeOK, Place
  <2>2. at' = unlistened(drained) /\ status' = "RELOADING" /\ listening' = FALSE
    BY <1>1 DEF reloaded
  <2> HIDE DEF drained
  <2>3. CASE at["run"] = "accept"
    BY <1>1, <2>1, <2>2, <2>3, Tasks DEF unlistened, Place
  <2>4. CASE at["run"] # "accept"
    BY <1>1, <2>1, <2>2, <2>4, Tasks DEF unlistened
  <2> QED
    BY <2>3, <2>4
<1>2. CASE ~ reloadable
  BY <1>2, Tasks DEF reloaded, Goto, WkTypeOK, Place
<1> QED
  BY <1>1, <1>2

LEMMA Typing ==
  ASSUME WkTypeOK, [WkNext]_wkvars
  PROVE  WkTypeOK'
<1> USE Tasks, BelowType
<1>1. ASSUME forkOneWorker \/ reinstallSignal \/ resumeAccept \/ acceptConnectionTcp
               \/ acceptConnectionUdp
      PROVE  WkTypeOK'
  BY <1>1 DEF forkOneWorker, reinstallSignal, resumeAccept, acceptConnectionTcp,
       acceptConnectionUdp, Yield, Resume, Goto, Place, WkTypeOK, life, own, pair
<1>11. ASSUME \/ StartSleeps \/ StartGoesOn \/ \E c \in Coro : StartCreates(c)
       PROVE  WkTypeOK'
  BY <1>11 DEF StartSleeps, StartGoesOn, StartCreates, Yield, Resume, Goto, Place, WkTypeOK,
       life, own, pair
<1>2. ASSUME wmSignal_wait PROVE WkTypeOK'
  BY <1>2 DEF wmSignal_wait, Yield, Goto, Place, WkTypeOK, own, pair
<1>21. ASSUME HandleReload \/ ReloadGoesOn PROVE WkTypeOK'
  <2>1. now' \in Task \cup {"main"} /\ UNCHANGED <<reloadable, closed, exited>>
    BY <1>21 DEF HandleReload, ReloadGoesOn, Yield, WkTypeOK, own, pair
  <2>2. CASE reloaded
    BY <2>1, <2>2, ReloadedType DEF WkTypeOK
  <2>3. CASE Yield("signal", "onWorkerReload") /\ UNCHANGED <<status, listening>>
    BY <2>1, <2>3 DEF Yield, Goto, Place, WkTypeOK
  <2> QED
    BY <1>21, <2>2, <2>3 DEF HandleReload, ReloadGoesOn
<1>22. ASSUME DrainGoesOn \/ EpollIn PROVE WkTypeOK'
  BY <1>22 DEF DrainGoesOn, EpollIn, Resume, Goto, Place, WkTypeOK, life, own, pair
<1>3. ASSUME HandleStop \/ Drain PROVE WkTypeOK'
  BY <1>3, StopType DEF HandleStop, Drain, Yield, Goto, Place, WkTypeOK, own, pair
<1>4. ASSUME NEW t \in Task, StopGoesOn(t) PROVE WkTypeOK'
  BY <1>4 DEF StopGoesOn, exit, unlistened, Place, WkTypeOK, own, pair
<1>5. ASSUME NEW s \in Signal, Signalled(s) PROVE WkTypeOK'
  BY <1>5 DEF Signalled, signalHandler, sig_handler, exit, unlistened, Place, WkTypeOK,
       life, own, pair
<1>6. ASSUME NEW c \in Coro,
             Accept(c) \/ wmConnection_recvfrom(c) \/ Wakes(c) \/ PhpYields(c) \/ PhpEnds(c)
      PROVE  WkTypeOK'
  BY <1>6 DEF Accept, wmConnection_recvfrom, Wakes, PhpYields, PhpEnds, Yield, Resume, Goto, Place, WkTypeOK,
       life, own, pair
<1>7. ASSUME NEW c \in Coro \cup {"run"}, PhpStops(c) PROVE WkTypeOK'
  BY <1>7, StopType DEF PhpStops, WkTypeOK, own, pair
<1>8. ASSUME NEW c \in Coro \cup {"run"}, PhpTimers(c) PROVE WkTypeOK'
  BY <1>8 DEF PhpTimers, WkTypeOK, life, own, pair
<1>9. ASSUME NEW c \in Coro, NEW t \in Timer, Expires(t, c) PROVE WkTypeOK'
  BY <1>9 DEF Expires, Resume, Goto, Place, WkTypeOK, life, own, pair
<1>10. ASSUME Called \/ UNCHANGED wkvars PROVE WkTypeOK'
  BY <1>10 DEF Called, WkTypeOK, life, own, pair, wkvars
<1> QED
  BY <1>1, <1>11, <1>2, <1>21, <1>22, <1>3, <1>4, <1>5, <1>6, <1>7, <1>8, <1>9, <1>10
  DEF WkNext, Starts, Handles

-----------------------------------------------------------------------------
(***************************************************************************)
(* The timers, whoever runs.                                               *)
(***************************************************************************)

LEMMA TimersStep ==
  ASSUME PTTypeOK, TimersExact, [WkNext]_wkvars
  PROVE  PTTypeOK' /\ TimersExact'
<1>1. ASSUME UNCHANGED ptvars PROVE PTTypeOK' /\ TimersExact'
  BY <1>1 DEF ptvars, PTTypeOK, TimersExact, Known
<1>2. ASSUME NEW c \in Coro \cup {"run"}, PhpTimers(c) PROVE PTTypeOK' /\ TimersExact'
  BY <1>2, AddKeeps, DelKeeps DEF PhpTimers
<1>3. ASSUME NEW c \in Coro, NEW t \in Timer, Expires(t, c)
      PROVE  PTTypeOK' /\ TimersExact'
  BY <1>3, ExpiresKeeps DEF Expires, Main
<1>4. ASSUME Called PROVE PTTypeOK' /\ TimersExact'
  BY <1>1, <1>4, CalledKeeps DEF Called
<1>5. \/ UNCHANGED ptvars \/ Called
      \/ \E c \in Coro \cup {"run"} : PhpTimers(c)
      \/ \E c \in Coro : \E t \in Timer : Expires(t, c)
  BY DEF WkNext, Starts, Handles, wkvars, forkOneWorker, reinstallSignal, resumeAccept,
       acceptConnectionTcp, acceptConnectionUdp, wmSignal_wait, HandleStop, HandleReload,
       ReloadGoesOn, Drain, DrainGoesOn, EpollIn, StopGoesOn, Signalled, Accept,
       wmConnection_recvfrom, Wakes, PhpYields, PhpEnds, PhpStops, StartSleeps, StartGoesOn,
       StartCreates
<1> QED
  BY <1>1, <1>2, <1>3, <1>4, <1>5

-----------------------------------------------------------------------------
(***************************************************************************)
(* Accepting, and the end of the signal coroutine.                         *)
(***************************************************************************)

LEMMA WorkerInvInit == WkInit => WkTypeOK /\ WorkerInv
BY WorkerAssumption, Tasks
DEF WkInit, PTInit, WkTypeOK, Place, WorkerInv, NothingBeforeStart, StartUndisturbed,
    SignalAfterIgnoring, SignalPlaces, RunningListens, AcceptsOnlyRunning, SignalRuns, ClosedFarAway,
    ErrorOnlyUnreloadable, Started

\* Before PHP code runs a reload has nobody to wait for.
LEMMA NobodyToWaitFor ==
  ASSUME WkTypeOK, NothingBeforeStart, ~ Started
  PROVE  TotalNum <= reload_coro_num
<1> DEFINE S == {t \in Task : at[t] \notin {"none", "over"}}
<1>1. S \subseteq {"run", "signal"}
  BY Tasks DEF NothingBeforeStart, Started
<1>2. IsFiniteSet({"run", "signal"}) /\ Cardinality({"run", "signal"}) = 2
  <2>1. IsFiniteSet({"run"}) /\ Cardinality({"run"}) = 1
    BY FS_Singleton
  <2>2. {"run", "signal"} = {"run"} \cup {"signal"} /\ "signal" \notin {"run"}
    OBVIOUS
  <2> QED
    BY <2>1, <2>2, FS_AddElement
<1>3. Cardinality(S) <= 2
  BY <1>1, <1>2, FS_Subset
<1> QED
  BY <1>3 DEF TotalNum, reload_coro_num

LEMMA WorkerStep ==
  ASSUME WkTypeOK, WorkerInv, [WkNext]_wkvars
  PROVE  WorkerInv'
<1> USE Tasks, BelowType
<1> USE DEF WkTypeOK, WorkerInv, NothingBeforeStart, StartUndisturbed, SignalAfterIgnoring,
            SignalPlaces, RunningListens, AcceptsOnlyRunning, SignalRuns, ClosedFarAway,
            ErrorOnlyUnreloadable, Started, Bound
<1>1. ASSUME forkOneWorker PROVE WorkerInv'
  BY <1>1 DEF forkOneWorker, Main, Resume, Goto, life, pair, ptvars
<1>2. ASSUME reinstallSignal PROVE WorkerInv'
  BY <1>2 DEF reinstallSignal, Is, Goto, life, own, pair, ptvars
<1>3. ASSUME resumeAccept PROVE WorkerInv'
  BY <1>3 DEF resumeAccept, Main, Is, Yield, Resume, Goto, own, pair, ptvars
<1>31. ASSUME \/ StartSleeps \/ StartGoesOn \/ \E c \in Coro : StartCreates(c)
       PROVE  WorkerInv'
  BY <1>31 DEF StartSleeps, StartGoesOn, StartCreates, Main, Is, Yield, Resume, Goto, life,
       own, pair, ptvars
<1>4. ASSUME acceptConnectionTcp PROVE WorkerInv'
  BY <1>4 DEF acceptConnectionTcp, Is, Yield, Goto, life, own, pair, ptvars
<1>41. ASSUME acceptConnectionUdp PROVE WorkerInv'
  BY <1>41 DEF acceptConnectionUdp, Is, Goto, life, own, pair, ptvars
<1>5. ASSUME wmSignal_wait PROVE WorkerInv'
  BY <1>5 DEF wmSignal_wait, Is, Yield, Goto, own, pair, ptvars
<1>6. ASSUME EpollIn PROVE WorkerInv'
  <2>1. CASE at["signal"] = "wait"
    <3>1. now = "main" /\ exited = "no" /\ ~ closed /\ now' = "signal"
      BY <1>6, <2>1 DEF EpollIn, Main, Resume
    <3>2. at' = [at EXCEPT !["signal"] = "read"]
      BY <1>6, <2>1 DEF EpollIn, Resume, Goto
    <3>3. /\ at'["signal"] = "read" /\ at'["run"] = at["run"]
          /\ \A c \in Coro : at'[c] = at[c]
      BY <3>2
    <3>4. UNCHANGED <<status, listening, exited, reloadable, closed, wheel, calling>>
      BY <1>6, <2>1 DEF EpollIn, life, own, pair, ptvars
    <3>5. NothingBeforeStart' /\ StartUndisturbed' /\ RunningListens' /\ AcceptsOnlyRunning'
      BY <3>1, <3>3, <3>4
    <3>6. SignalAfterIgnoring' /\ SignalPlaces' /\ SignalRuns'
      BY <2>1, <3>1, <3>3, <3>4
    <3>7. ClosedFarAway' /\ ErrorOnlyUnreloadable'
      BY <3>1, <3>3, <3>4
    <3> QED
      BY <3>5, <3>6, <3>7
  <2>2. CASE at["signal"] # "wait"
    <3>1. now = "main" /\ exited = "no" /\ at["signal"] \in {"sleep", "onWorkerStop", "onWorkerReload"}
      BY <1>6, <2>2 DEF EpollIn, Main
    <3>2. UNCHANGED <<now, at, status, listening, exited, reloadable, wheel, calling>>
      BY <1>6, <2>2 DEF EpollIn, life, own, ptvars
    <3> QED
      BY <3>1, <3>2
  <2> QED
    BY <2>1, <2>2
<1>7. ASSUME HandleReload PROVE WorkerInv'
  <2>1. now = "signal" /\ at["signal"] = "handle" /\ exited = "no"
    BY <1>7 DEF HandleReload, Next_signal, Is
  <2>2. CASE reloaded /\ UNCHANGED now
    <3>1. UNCHANGED <<now, exited, reloadable, closed, wheel, calling>>
      BY <1>7, <2>2 DEF HandleReload, own, ptvars
    <3>2. CASE reloadable
      <4>1. /\ status' = "RELOADING" /\ listening' = FALSE /\ at'["signal"] = "drain"
            /\ at'["run"] # "accept"
            /\ at'["run"] = at["run"] \/ (at["run"] = "accept" /\ at'["run"] = "over")
            /\ \A c \in Coro : at'[c] = at[c]
        BY <2>2, <3>2, ReloadedType
      <4> QED
        BY <2>1, <3>1, <3>2, <4>1
    <3>3. CASE ~ reloadable
      <4>1. /\ UNCHANGED <<status, listening>> /\ at'["signal"] = "handle"
            /\ at'["run"] = at["run"] /\ \A c \in Coro : at'[c] = at[c]
        BY <2>2, <3>3, ReloadedType
      <4> QED
        BY <2>1, <3>1, <3>3, <4>1
    <3> QED
      BY <3>2, <3>3
  <2>3. CASE Bound /\ Yield("signal", "onWorkerReload") /\ UNCHANGED <<status, listening>>
    BY <1>7, <2>1, <2>3 DEF HandleReload, Yield, Goto, own, ptvars
  <2> QED
    BY <1>7, <2>2, <2>3 DEF HandleReload
<1>8. ASSUME ReloadGoesOn PROVE WorkerInv'
  BY <1>8, ReloadedType DEF ReloadGoesOn, Main, own, pair, ptvars
<1>9. ASSUME DrainGoesOn PROVE WorkerInv'
  BY <1>9 DEF DrainGoesOn, Main, Resume, Goto, life, own, pair, ptvars
<1>10. ASSUME HandleStop PROVE WorkerInv'
  BY <1>10 DEF HandleStop, Next_signal, wmWorker_stopAll, exit, unlistened, Is, Yield, Goto,
       own, ptvars
<1>11. ASSUME Drain PROVE WorkerInv'
  <2>1. CASE TotalNum <= reload_coro_num
    BY <1>11, <2>1 DEF Drain, wmWorker_stopAll, exit, unlistened, Is, Yield, Goto, own, pair,
         ptvars
  <2>2. CASE ~ (TotalNum <= reload_coro_num)
    <3>1. Started
      BY <2>2, NobodyToWaitFor
    <3> QED
      BY <1>11, <2>2, <3>1 DEF Drain, Is, Yield, Goto, own, pair, ptvars
  <2> QED
    BY <2>1, <2>2
<1>12. ASSUME NEW t \in Task, StopGoesOn(t) PROVE WorkerInv'
  BY <1>12 DEF StopGoesOn, Main, exit, unlistened, own, pair, ptvars
<1>13. ASSUME NEW s \in Signal, Signalled(s) PROVE WorkerInv'
  BY <1>13 DEF Signalled, signalHandler, sig_handler, exit, unlistened, life, own, pair,
       ptvars
<1>14. ASSUME NEW c \in Coro, Accept(c) PROVE WorkerInv'
  BY <1>14 DEF Accept, Main, life, own, pair, ptvars
<1>141. ASSUME NEW c \in Coro, wmConnection_recvfrom(c) PROVE WorkerInv'
  BY <1>141 DEF wmConnection_recvfrom, Is, life, own, pair, ptvars
<1>15. ASSUME NEW c \in Coro, Wakes(c) \/ PhpYields(c) \/ PhpEnds(c) PROVE WorkerInv'
  BY <1>15 DEF Wakes, PhpYields, PhpEnds, Main, Is, Yield, Resume, Goto, life, own, pair,
       ptvars
<1>16. ASSUME NEW c \in Coro \cup {"run"}, PhpStops(c) PROVE WorkerInv'
  BY <1>16 DEF PhpStops, Php, wmWorker_stopAll, exit, unlistened, Is, Yield, Goto, own, pair,
       ptvars
<1>17. ASSUME NEW c \in Coro \cup {"run"}, PhpTimers(c) PROVE WorkerInv'
  BY <1>17 DEF PhpTimers, Php, Is, life, own, pair
<1>18. ASSUME NEW c \in Coro, NEW t \in Timer, Expires(t, c) PROVE WorkerInv'
  BY <1>18 DEF Expires, expires, Main, Resume, Goto, life, own, pair
<1>19. ASSUME Called PROVE WorkerInv'
  BY <1>19 DEF Called, called, life, own, pair, ptvars
<1>20. ASSUME UNCHANGED wkvars PROVE WorkerInv'
  BY <1>20 DEF wkvars, life, own, pair, ptvars
<1> QED
  BY <1>1, <1>2, <1>3, <1>31, <1>4, <1>41, <1>5, <1>6, <1>7, <1>8, <1>9, <1>10, <1>11, <1>12,
     <1>13, <1>14, <1>141, <1>15, <1>16, <1>17, <1>18, <1>19, <1>20, Zenon DEF WkNext, Starts, Handles

-----------------------------------------------------------------------------
(***************************************************************************)
(* The theorems.                                                           *)
(***************************************************************************)

\* The inductive invariant holds: types, timers, the order of the start and the
\* ways the signal coroutine may go.
THEOREM SpecIInv == WkSpec => []IInv
<1>1. WkInit => IInv
  BY TimersInit, WorkerInvInit DEF WkInit, IInv
<1>2. IInv /\ [WkNext]_wkvars => IInv'
  BY Typing, TimersStep, WorkerStep DEF IInv
<1> QED
  BY <1>1, <1>2, PTL DEF WkSpec

\* Until PHP code has deleted a timer inside its own callback, before this first
\* yields: a PHP timer in the table is set, or its callback has just been started;
\* one that has been freed is not in the wheel (timer_free, timer_add_callback).
THEOREM TimersCorrect == WkSpec => []TimersExact
<1>1. IInv => TimersExact
  BY DEF IInv
<1> QED
  BY <1>1, SpecIInv, PTL

\* Nobody waits for a connection on a socket that has been freed, or in a worker
\* that reloads (acceptConnectionTcp, reload, _unlisten).
THEOREM AcceptsCorrect == WkSpec => []AcceptsOnlyRunning
<1>1. IInv => AcceptsOnlyRunning
  BY DEF IInv, WorkerInv
<1> QED
  BY <1>1, SpecIInv, PTL

\* A reloadable worker never ends because its signal socket was closed
\* (loop_callback_coroutine_resume, wmSignal_wait).
THEOREM ErrorsCorrect == WkSpec => []ErrorOnlyUnreloadable
<1>1. IInv => ErrorOnlyUnreloadable
  BY DEF IInv, WorkerInv
<1> QED
  BY <1>1, SpecIInv, PTL
=============================================================================
