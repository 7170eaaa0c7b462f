-------------------------------- MODULE Command --------------------------------
(***************************************************************************)
(* The commands of a user: php start.php start, stop, restart and reload,  *)
(* from parseCommand to monitorWorkers in src/src/worker.c, and the pid    *)
(* file, through which they find the master process (src/src/core/file.c). *)
(*                                                                         *)
(* Each command is a process.  That of start and restart becomes the       *)
(* master; with -d it forks twice and its grandchild does.  Nothing locks  *)
(* the pid file, and nothing ever removes it.  Pids are not used again,    *)
(* and all have as many digits.                                            *)
(*                                                                         *)
(* Of a master there is only what a command sees of it: whether it lives,  *)
(* whether it hears SIGINT, and how long it then takes.  Master shows the  *)
(* rest.                                                                   *)
(***************************************************************************)
EXTENDS Integers, FiniteSets

CONSTANTS
  Tries,     \* how often a stop looks whether the master is dead (5)
  KillTime,  \* WM_KILL_WORKER_TIMER_TIME, in alarms (2)
  MaxPid,    \* bound on the processes
  MaxOpen,   \* bound on the commands that are given at a time
  MaxDeaths  \* bound on the masters that die

ASSUME CommandAssumption ==
  /\ Tries \in Nat \ {0}
  /\ KillTime \in Nat \ {0}
  /\ MaxPid \in Nat
  /\ MaxOpen \in Nat
  /\ MaxDeaths \in Nat

Pid   == 1 .. MaxPid
NoPid == 0

Absent == -1  \* there is no pid file
Empty  == 0   \* it is empty

VARIABLES
  pid_file,  \* Absent, Empty, or the pid it holds
  proc,      \* the processes, with the variables of each
  last_pid, deaths,
  overlapped \* has a command been given before the last one was through?

cmvars == <<pid_file, proc, last_pid, deaths, overlapped>>

\* at: where it is.  _masterPid: as parseCommand sets it.  tries: how often it
\* has looked.  alarmed: is an alarm pending?  due: the alarms until a master
\* that stops kills its workers.  missed: has a worker that goes on running got
\* neither the SIGINT of that stop nor a kill timer?
NoProcess ==
  [at |-> "nowhere", command |-> "none", daemonize |-> FALSE, masterPid |-> NoPid,
   tries |-> 0, alarmed |-> FALSE, due |-> 0, missed |-> FALSE]

\* Processes that have exited; the second have said "stop success".
Gone    == [NoProcess EXCEPT !.at = "gone"]
Stopped == [NoProcess EXCEPT !.at = "stopped"]

At(p, where)   == proc[p].at = where
set(p, k)      == proc' = [proc EXCEPT ![p] = k]
Goto(p, where) == set(p, [proc[p] EXCEPT !.at = where])

Alive(p) == p \in Pid /\ proc[p].at \notin {"nowhere", "gone", "stopped"}

\* The masters, from where the pid file tells of them.
Masters == {p \in Pid : proc[p].at \in {"fork", "running", "stopping"}}

\* Those that have handlers for the signals.
Installed == Masters \cup {p \in Pid : proc[p].at \in {"save", "write"}}

InProgress == {p \in Pid : Alive(p)} \ Masters

(***************************************************************************)
(* parseCommand.                                                           *)
(***************************************************************************)
Command(c, d) ==
  /\ last_pid < MaxPid /\ Cardinality(InProgress) < MaxOpen
  /\ last_pid' = last_pid + 1
  /\ set(last_pid', [NoProcess EXCEPT !.at = "parse", !.command = c, !.daemonize = d])
  /\ overlapped' = (overlapped \/ InProgress # {})
  /\ UNCHANGED <<pid_file, deaths>>

\* access, and then wm_file_size.  An empty file has no contents: the command
\* reads through the null pointer it gets, and crashes.
wm_file_size(p) ==
  /\ At(p, "parse")
  /\ \/ pid_file = Absent /\ Goto(p, "check")
     \/ pid_file = Empty /\ set(p, Gone)
     \/ pid_file \in Pid /\ Goto(p, "read")
  /\ UNCHANGED <<pid_file, last_pid, deaths, overlapped>>

\* The loop of wm_file_get_contents goes round until all those bytes are there.
wm_file_get_contents(p) ==
  /\ At(p, "read")
  /\ pid_file \in Pid
  /\ set(p, [proc[p] EXCEPT !.at = "check", !.masterPid = pid_file])
  /\ UNCHANGED <<pid_file, last_pid, deaths, overlapped>>

master_is_alive(p) == Alive(proc[p].masterPid)

\* Those that exit say "already running", or "not run".
Check(p) ==
  LET c == proc[p].command IN
  /\ At(p, "check")
  /\ \/ c = "start" /\ master_is_alive(p) /\ set(p, Gone)
     \/ c = "start" /\ ~ master_is_alive(p) /\ Goto(p, "boot")
     \/ c \in {"stop", "reload"} /\ ~ master_is_alive(p) /\ set(p, Gone)
     \/ c \in {"stop", "reload"} /\ master_is_alive(p) /\ Goto(p, "kill")
     \/ c = "restart" /\ Goto(p, "kill")
  /\ UNCHANGED <<pid_file, last_pid, deaths, overlapped>>

\* What a signal makes of q: without a handler it dies; a master that runs stops
\* on SIGINT, and its workers end at once or not before they are killed.  If it
\* was about to restart one, a child whose pid is not stored yet, or that is
\* forked after the handler, is missed; a SIGINT to a master that stops already
\* is for that child too.  A master that has not come to monitorWorkers yet
\* forgets the SIGINT.
stops(q) ==
  {[proc[q] EXCEPT !.at = "stopping", !.due = n, !.missed = m] :
     n \in {0, KillTime}, m \in {proc[q].at = "running", FALSE}}

struck(c, q) ==
  IF q \notin Installed THEN {Gone}
  ELSE IF c # "reload" /\ (At(q, "running") \/ (At(q, "stopping") /\ proc[q].missed))
    THEN stops(q)
  ELSE {proc[q]}

\* The signal is SIGUSR1 or SIGINT; pid 0 is the process group of the caller.
Kill(p) ==
  LET c == proc[p].command
      q == proc[p].masterPid
      caller == IF c = "reload" THEN Gone ELSE [proc[p] EXCEPT !.at = "poll"]
  IN
  /\ At(p, "kill")
  /\ \/ q = NoPid /\ set(p, Gone)
     \/ q # NoPid /\ ~ Alive(q) /\ set(p, caller)
     \/ Alive(q) /\ \E k \in struck(c, q) : proc' = [proc EXCEPT ![p] = caller, ![q] = k]
  /\ UNCHANGED <<pid_file, last_pid, deaths, overlapped>>

Looks(p) ==
  /\ proc[p].tries < Tries /\ master_is_alive(p)
  /\ set(p, [proc[p] EXCEPT !.tries = @ + 1])

\* Mutants: it says so after five looks, whatever they have shown; a restart
\* goes on then, whether the master has stopped or not.
Poll_trusting(p) ==
  /\ At(p, "poll")
  /\ \/ Looks(p)
     \/ /\ proc[p].tries = Tries \/ ~ master_is_alive(p)
        /\ set(p, IF proc[p].command = "stop" THEN Stopped ELSE Gone)
  /\ UNCHANGED <<pid_file, last_pid, deaths, overlapped>>

Poll_restarting(p) ==
  /\ At(p, "poll")
  /\ \/ Looks(p)
     \/ /\ proc[p].tries = Tries \/ ~ master_is_alive(p)
        /\ IF proc[p].command = "stop" THEN set(p, Gone) ELSE Goto(p, "boot")
  /\ UNCHANGED <<pid_file, last_pid, deaths, overlapped>>

\* Once a second, five times: "stop success", or "stop fail".
Poll(p) ==
  /\ At(p, "poll")
  /\ \/ Looks(p)
     \/ /\ proc[p].tries < Tries /\ ~ master_is_alive(p)
        /\ IF proc[p].command = "stop" THEN set(p, Stopped) ELSE Goto(p, "boot")
     \/ proc[p].tries = Tries /\ set(p, Gone)
  /\ UNCHANGED <<pid_file, last_pid, deaths, overlapped>>

(***************************************************************************)
(* The rest of wmWorker_runAll, in this order.                             *)
(***************************************************************************)

\* Mutant: the pid is saved before there are handlers.
runAll_handlers_last ==
  [initWorkers |-> "daemonize", daemonize |-> "save", saveMasterPid |-> "install",
   installSignal |-> "fork"]

runAll ==
  [initWorkers |-> "daemonize", daemonize |-> "install", installSignal |-> "save",
   saveMasterPid |-> "fork"]

\* alarm(1), and the listening sockets.  What parseCommand has kept is done with.
initWorkers(p) ==
  /\ At(p, "boot")
  /\ set(p, [NoProcess EXCEPT !.at = runAll.initWorkers, !.daemonize = proc[p].daemonize,
                              !.alarmed = TRUE])
  /\ UNCHANGED <<pid_file, last_pid, deaths, overlapped>>

\* The child goes on, without the alarm of its parent.
fork(p, where) ==
  /\ last_pid < MaxPid
  /\ last_pid' = last_pid + 1
  /\ proc' = [proc EXCEPT ![p] = Gone,
                          ![last_pid'] = [proc[p] EXCEPT !.at = where, !.alarmed = FALSE]]

daemonize(p) ==
  /\ \/ At(p, "daemonize") /\ ~ proc[p].daemonize
        /\ Goto(p, runAll.daemonize) /\ UNCHANGED last_pid
     \/ At(p, "daemonize") /\ proc[p].daemonize /\ fork(p, "setsid")
     \/ At(p, "setsid") /\ fork(p, runAll.daemonize)
  /\ UNCHANGED <<pid_file, deaths, overlapped>>

installSignal(p) ==
  /\ At(p, "install")
  /\ Goto(p, runAll.installSignal)
  /\ UNCHANGED <<pid_file, last_pid, deaths, overlapped>>

\* The file is truncated, and then written.
wm_file_put_contents(p, then) ==
  \/ At(p, "save") /\ pid_file' = Empty /\ Goto(p, "write")
  \/ At(p, "write") /\ pid_file' = p /\ Goto(p, then)

saveMasterPid(p) ==
  /\ wm_file_put_contents(p, runAll.saveMasterPid)
  /\ UNCHANGED <<last_pid, deaths, overlapped>>

\* forkWorkers, and the start of monitorWorkers.
monitorWorkers(p) ==
  /\ At(p, "fork")
  /\ Goto(p, "running")
  /\ UNCHANGED <<pid_file, last_pid, deaths, overlapped>>

(***************************************************************************)
(* The end of a master.  Its kill timers depend on SIGALRM, whose handler  *)
(* asks for the next one.                                                  *)
(***************************************************************************)

\* Mutant: it does not.
alarm_wait_once(p) ==
  /\ At(p, "stopping") /\ proc[p].due > 0
  /\ proc[p].alarmed
  /\ set(p, [proc[p] EXCEPT !.due = @ - 1, !.alarmed = FALSE])
  /\ UNCHANGED <<pid_file, last_pid, deaths, overlapped>>

alarm_wait(p) ==
  /\ At(p, "stopping") /\ proc[p].due > 0
  /\ proc[p].alarmed
  /\ set(p, [proc[p] EXCEPT !.due = @ - 1])
  /\ UNCHANGED <<pid_file, last_pid, deaths, overlapped>>

Exits(p) ==
  /\ At(p, "stopping") /\ proc[p].due = 0 /\ ~ proc[p].missed
  /\ set(p, Gone)
  /\ UNCHANGED <<pid_file, last_pid, deaths, overlapped>>

\* A master, or one that is about to be, may die at any time.
Dies(p) ==
  /\ p \in Installed
  /\ deaths < MaxDeaths
  /\ deaths' = deaths + 1
  /\ set(p, Gone)
  /\ UNCHANGED <<pid_file, last_pid, overlapped>>

CmInit ==
  /\ pid_file = Absent
  /\ proc = [p \in Pid |-> NoProcess]
  /\ last_pid = 0
  /\ deaths = 0
  /\ overlapped = FALSE

Commands(p) ==
  wm_file_size(p) \/ wm_file_get_contents(p) \/ Check(p) \/ Kill(p) \/ Poll(p)

Starts(p) ==
  \/ initWorkers(p) \/ daemonize(p) \/ installSignal(p) \/ saveMasterPid(p)
  \/ monitorWorkers(p)

CmNext ==
  \/ \E c \in {"start", "restart"}, d \in BOOLEAN : Command(c, d)
  \/ \E c \in {"stop", "reload"} : Command(c, FALSE)
  \/ \E p \in Pid : Commands(p) \/ Starts(p) \/ alarm_wait(p) \/ Exits(p) \/ Dies(p)

CmSpec == CmInit /\ [][CmNext]_cmvars

\* Processes go on, and alarms that are pending are raised.
FairCommand ==
  /\ CmSpec
  /\ \A p \in Pid :
       /\ WF_cmvars(Commands(p) \/ Starts(p))
       /\ WF_cmvars(alarm_wait(p))
       /\ WF_cmvars(Exits(p))

-----------------------------------------------------------------------------
(***************************************************************************)
(* Properties.                                                             *)
(***************************************************************************)

\* As long as one command at a time is given, the pid file leads to the master,
\* so that there is one at most, whatever has died before and however slowly
\* masters stop.  (A start -d returns to the shell before it is through.)
OneMaster == ~ overlapped => \A p \in Masters : pid_file = p

\* Then "stop success" means that no master is left.
StopTrue ==
  [][\A p \in Pid : At(p, "poll") /\ proc'[p] = Stopped => overlapped \/ Masters = {}]_cmvars

\* A signal never meets a process that would die of it before it has become a
\* master, however commands overlap.
SignalsHandled ==
  \A p \in Pid : At(p, "kill") /\ master_is_alive(p) => proc[p].masterPid \in Installed

\* A master that stops comes to its end, also if its workers do not obey,
\* unless the SIGINT has missed a worker that it was just forking.
StopEnds == \A p \in Pid : At(p, "stopping") ~> ~ Alive(p) \/ proc[p].missed

\* That is true of one that has not become a daemon.
DebugStopEnds ==
  \A p \in Pid : At(p, "stopping") ~> ~ Alive(p) \/ proc[p].missed \/ proc[p].daemonize
=============================================================================
