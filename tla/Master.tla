-------------------------------- MODULE Master --------------------------------
(***************************************************************************)
(* The master process of src/src/worker.c, from the first fork on: it      *)
(* keeps every slot of every worker filled with a process, restarts the    *)
(* workers one after another on SIGUSR1, and stops on SIGINT.              *)
(*                                                                         *)
(* One thread runs monitorWorkers; signal handlers run on top of it,       *)
(* between any two of its steps, and share all its data.  A handler, and   *)
(* reload when the main loop calls it, is one step: a handler that         *)
(* interrupts a handler is not modelled.  SIGALRM runs the timer wheel of  *)
(* the master, which holds nothing but kill timers, all of the same delay, *)
(* so that they fire in the order they were set.                           *)
(*                                                                         *)
(* Two of the variables are history: asked and late say which processes    *)
(* have had their notice and which a SIGINT came too early for.            *)
(*                                                                         *)
(* A worker process is here whatever a worker can be: it may end by itself *)
(* at any time, it need not obey SIGINT and SIGUSR1, it dies of SIGKILL.   *)
(***************************************************************************)
EXTENDS Integers, Sequences, FiniteSets, SequencesExt

CONSTANTS
  NWorkers,    \* the Worker objects are 1 .. NWorkers
  Count,       \* processes per worker
  Reloadable,  \* the workers with reloadable set
  MaxPid,      \* bound on the processes ever forked
  MaxFaults,   \* bound on the SIGINTs and crashes of workers, together
  MaxUsr1,     \* bound on the SIGUSR1s of others
  MaxTimers    \* bound on the kill timers pending when the master signals itself

ASSUME MasterAssumption ==
  /\ NWorkers \in Nat \ {0}
  /\ Count \in Nat \ {0}
  /\ Reloadable \subseteq 1 .. NWorkers
  /\ MaxPid \in Nat
  /\ MaxFaults \in Nat
  /\ MaxUsr1 \in Nat
  /\ MaxTimers \in Nat

NoPid  == 0
Pid    == 1 .. MaxPid
Worker == 1 .. NWorkers

\* The slots of worker k in _worker_pids come after those of worker k - 1.
Slot     == 1 .. NWorkers * Count
Owner(s) == ((s - 1) \div Count) + 1

VARIABLES
  proc,          \* per pid: none, alive, zombie or reaped
  status,        \* _status of the master
  pc,            \* where the main thread is
  k,             \* the worker the loop of monitorWorkers is at
  reaped,        \* the pid waitpid has returned
  forking,       \* the slot and the pid between fork and wmArray_set
  hit,           \* the index of the reaped pid in _pidsToReload, once found
  worker_pids,   \* per slot: its pid, or 0
  pid_tmp,       \* the memory of _pid_array_tmp (clearing leaves it as it is)
  pidsToReload,  \* the memory of _pidsToReload
  reload_num,    \* the length of _pidsToReload
  kill_timers,   \* the kill timers: pointers into these two arrays, oldest first
  asked,         \* the pids a SIGINT or a SIGUSR1 has been sent to
  stopped,       \* has a SIGINT been handled?
  late,          \* the children that were in no slot when it was
  pending_usr1,  \* a SIGUSR1 of the master to itself is pending
  last_pid, crashes, ints, usr1s   \* counters for the bounds

arrays  == <<worker_pids, pid_tmp, pidsToReload, reload_num>>
signals == <<kill_timers, asked, stopped, late, pending_usr1>>
bounds  == <<last_pid, crashes, ints, usr1s>>
main    == <<pc, k, reaped, forking, hit>>
mvars   == <<proc, status, main, arrays, signals, bounds>>

Alive == {p \in Pid : proc[p] = "alive"}

\* The processes waitpid knows of.
Children == {p \in Pid : proc[p] \in {"alive", "zombie"}}

NotForking == [slot |-> 0, pid |-> NoPid]

(***************************************************************************)
(* getAllWorkerPids and the copy of an array over another one's memory.    *)
(***************************************************************************)

getAllWorkerPids == SelectSeq(worker_pids, LAMBDA p : p > 0)

InSlots == {worker_pids[s] : s \in Slot} \ {NoPid}

overwrite(mem, seq) ==
  [i \in DOMAIN mem |-> IF i \in DOMAIN seq THEN seq[i] ELSE mem[i]]

\* What a kill timer points to.
deref(t) == IF t.array = "tmp" THEN pid_tmp[t.index] ELSE pidsToReload[t.index]

(***************************************************************************)
(* reload in the master: send SIGUSR1 to the workers that cannot be        *)
(* reloaded and to the first process that is left to reload.  list is      *)
(* _pidsToReload, of which n entries count.  For a slot that holds no pid  *)
(* yet, kill is called with 0, which is the whole process group: every     *)
(* worker, and the master itself.                                          *)
(***************************************************************************)

\* Mutant: only the head of the list is looked at.
first_head(list, n) == {i \in DOMAIN list : i <= n /\ i = 1 /\ list[i] # NoPid}

\* Mutant: all that are left are asked at once.
first_all(list, n) == {i \in DOMAIN list : i <= n /\ list[i] # NoPid}

first(list, n) ==
  {i \in DOMAIN list :
     i <= n /\ list[i] # NoPid /\ \A j \in 1 .. i - 1 : list[j] = NoPid}

\* Mutant: the timer points to the next entry.
kill_timer_next(array, i) == [array |-> array, index |-> (i % Len(worker_pids)) + 1]

kill_timer(array, i) == [array |-> array, index |-> i]

reload(list, n) ==
  LET fixed == {worker_pids[s] : s \in {s \in Slot : Owner(s) \notin Reloadable}}
      loose == {worker_pids[s] : s \in {s \in Slot : Owner(s) \in Reloadable}}
      left  == [i \in Slot |-> IF i <= n /\ list[i] \notin loose
                                 THEN NoPid ELSE list[i]]
      next  == first(left, n)
  IN  /\ pidsToReload' = left
      /\ pending_usr1' = (NoPid \in fixed)
      /\ asked' = asked \cup (fixed \ {NoPid}) \cup {left[i] : i \in next}
                    \cup (IF NoPid \in fixed THEN Alive ELSE {})
      /\ kill_timers' = kill_timers \o
           [i \in 1 .. Cardinality(next) |-> kill_timer("reload", SetToSeq(next)[i])]
      /\ status' = IF status = "SHUTDOWN" THEN status
                   ELSE IF next = {} THEN "RUNNING" ELSE "RELOADING"

(***************************************************************************)
(* The handlers: SIGINT (wmWorker_stopAll), SIGUSR1, SIGALRM (alarm_wait   *)
(* and _kill).  A signal is blocked while its own handler runs, so that a  *)
(* SIGUSR1 the master sends to itself is delivered as soon as the handler  *)
(* returns, before the main thread goes on: see runs_at.                   *)
(***************************************************************************)
SigInt ==
  LET all == getAllWorkerPids IN
  /\ pc # "exited"
  /\ ints + crashes < MaxFaults
  /\ ints' = ints + 1
  /\ status' = "SHUTDOWN"
  /\ stopped' = TRUE
  /\ pid_tmp' = overwrite(pid_tmp, all)
  /\ asked' = asked \cup InSlots
  /\ late' = late \cup ({forking.pid} \ {NoPid})
  /\ kill_timers' = kill_timers \o [i \in DOMAIN all |-> kill_timer("tmp", i)]
  /\ UNCHANGED <<proc, main, worker_pids, pidsToReload, reload_num, pending_usr1,
                 last_pid, crashes, usr1s>>

SigUsr1 ==
  LET all == getAllWorkerPids IN
  /\ pc # "exited"
  /\ \/ usr1s < MaxUsr1 /\ usr1s' = usr1s + 1
     \/ pending_usr1 /\ Len(kill_timers) < MaxTimers /\ UNCHANGED usr1s
  /\ pid_tmp' = overwrite(pid_tmp, all)
  /\ reload_num' = Len(all)
  /\ reload(overwrite(pidsToReload, all), Len(all))
  /\ UNCHANGED <<proc, main, worker_pids, stopped, late, last_pid, crashes, ints>>

SigAlrm ==
  /\ pc # "exited"
  /\ kill_timers # <<>>
  /\ kill_timers' = Tail(kill_timers)
  /\ LET p == deref(Head(kill_timers)) IN
     proc' = IF p \in Alive THEN [proc EXCEPT ![p] = "zombie"] ELSE proc
  /\ UNCHANGED <<status, main, arrays, asked, stopped, late, pending_usr1, bounds>>

(***************************************************************************)
(* forkWorkers and forkOneWorker: the first free slot is filled; the pid   *)
(* is stored after fork has returned.                                      *)
(***************************************************************************)

\* The main thread is at p; it goes on when no signal is pending.
runs_at(p) == pc = p /\ ~ pending_usr1

FreeSlots == {s \in Slot : worker_pids[s] = NoPid}

Fork ==
  /\ runs_at("fork")
  /\ last_pid < MaxPid
  /\ \E s \in FreeSlots :
       /\ \A r \in FreeSlots : s <= r
       /\ forking' = [slot |-> s, pid |-> last_pid + 1]
  /\ last_pid' = last_pid + 1
  /\ proc' = [proc EXCEPT ![last_pid + 1] = "alive"]
  /\ late' = late \cup (IF stopped THEN {last_pid + 1} ELSE {})
  /\ pc' = "store"
  /\ UNCHANGED <<status, k, reaped, hit, arrays, kill_timers, asked, stopped,
                 pending_usr1, crashes, ints, usr1s>>

Store ==
  /\ runs_at("store")
  /\ worker_pids' = [worker_pids EXCEPT ![forking.slot] = forking.pid]
  /\ forking' = NotForking
  /\ pc' = "fork"
  /\ UNCHANGED <<proc, status, k, reaped, hit, pid_tmp, pidsToReload, reload_num,
                 signals, bounds>>

\* No slot is free: back to runAll, which enters monitorWorkers, or to the
\* loop of monitorWorkers.
Forked ==
  /\ runs_at("fork")
  /\ FreeSlots = {}
  /\ pc' = IF reaped = NoPid THEN "monitor" ELSE "scan"
  /\ UNCHANGED <<proc, status, k, reaped, forking, hit, arrays, signals, bounds>>

(***************************************************************************)
(* monitorWorkers.  Children exist whenever it waits, so that waitpid      *)
(* never fails; stopped children (WUNTRACED) are left out.                 *)
(***************************************************************************)
Monitor ==
  /\ runs_at("monitor")
  /\ status' = "RUNNING"
  /\ pc' = "wait"
  /\ UNCHANGED <<proc, k, reaped, forking, hit, arrays, signals, bounds>>

WaitPid ==
  /\ runs_at("wait")
  /\ \E p \in Pid :
       /\ proc[p] = "zombie"
       /\ proc' = [proc EXCEPT ![p] = "reaped"]
       /\ reaped' = p
  /\ k' = 1
  /\ pc' = "search"
  /\ UNCHANGED <<status, forking, hit, arrays, signals, bounds>>

\* The body of the loop, for each worker: free the slot if it is one of this
\* worker's, ...

\* Mutant: a stopping master frees no slots.
Search_running ==
  /\ runs_at("search")
  /\ worker_pids' = [s \in Slot |->
       IF status # "SHUTDOWN" /\ Owner(s) = k /\ worker_pids[s] = reaped
         THEN NoPid ELSE worker_pids[s]]
  /\ pc' = "status"
  /\ UNCHANGED <<proc, status, k, reaped, forking, hit, pid_tmp, pidsToReload,
                 reload_num, signals, bounds>>

Search ==
  /\ runs_at("search")
  /\ worker_pids' = [s \in Slot |->
       IF Owner(s) = k /\ worker_pids[s] = reaped THEN NoPid ELSE worker_pids[s]]
  /\ pc' = "status"
  /\ UNCHANGED <<proc, status, k, reaped, forking, hit, pid_tmp, pidsToReload,
                 reload_num, signals, bounds>>

\* ... and unless the master is stopping fill the free slots (of all workers) ...

NextWorker ==
  IF k < NWorkers THEN pc' = "search" /\ k' = k + 1
                  ELSE pc' = "stopping" /\ UNCHANGED k

\* Mutant: only while it is running, not while it reloads.
Status_running ==
  /\ runs_at("status")
  /\ IF status = "RUNNING" THEN pc' = "fork" /\ UNCHANGED k ELSE NextWorker
  /\ UNCHANGED <<proc, status, reaped, forking, hit, arrays, signals, bounds>>

Status ==
  /\ runs_at("status")
  /\ IF status # "SHUTDOWN" THEN pc' = "fork" /\ UNCHANGED k ELSE NextWorker
  /\ UNCHANGED <<proc, status, reaped, forking, hit, arrays, signals, bounds>>

\* ... and if the process was to be reloaded go on with the next one.  Between
\* the look at an entry and its deletion a SIGUSR1 may refill the list.
ScanHit ==
  /\ runs_at("scan")
  /\ \E i \in 1 .. reload_num :
       /\ pidsToReload[i] = reaped
       /\ \A j \in 1 .. i - 1 : pidsToReload[j] # reaped
       /\ hit' = i
  /\ pc' = "reload"
  /\ UNCHANGED <<proc, status, k, reaped, forking, arrays, signals, bounds>>

ScanMiss ==
  /\ runs_at("scan")
  /\ \A i \in 1 .. reload_num : pidsToReload[i] # reaped
  /\ NextWorker
  /\ UNCHANGED <<proc, status, reaped, forking, hit, arrays, signals, bounds>>

Reload ==
  /\ runs_at("reload")
  /\ reload([pidsToReload EXCEPT ![hit] = NoPid], reload_num)
  /\ hit' = 0
  /\ NextWorker
  /\ UNCHANGED <<proc, reaped, forking, worker_pids, pid_tmp, reload_num, stopped,
                 late, bounds>>

\* A stopping master exits when no slot holds a pid.
Stopping ==
  /\ runs_at("stopping")
  /\ IF status = "SHUTDOWN"
       THEN /\ pid_tmp' = overwrite(pid_tmp, getAllWorkerPids)
            /\ pc' = IF getAllWorkerPids = <<>> THEN "exited" ELSE "wait"
       ELSE pc' = "wait" /\ UNCHANGED pid_tmp
  /\ UNCHANGED <<proc, status, k, reaped, forking, hit, worker_pids, pidsToReload,
                 reload_num, signals, bounds>>

(***************************************************************************)
(* The workers: one that has been asked to ends, if and when it likes to;  *)
(* any may crash.                                                          *)
(***************************************************************************)
Ends(p) ==
  /\ proc[p] = "alive"
  /\ p \in asked
  /\ proc' = [proc EXCEPT ![p] = "zombie"]
  /\ UNCHANGED <<status, main, arrays, signals, bounds>>

Crashes(p) ==
  /\ proc[p] = "alive"
  /\ p \notin asked
  /\ ints + crashes < MaxFaults
  /\ crashes' = crashes + 1
  /\ proc' = [proc EXCEPT ![p] = "zombie"]
  /\ UNCHANGED <<status, main, arrays, signals, last_pid, ints, usr1s>>

MInit ==
  /\ proc = [p \in Pid |-> "none"]
  /\ status = "STARTING"
  /\ pc = "fork"
  /\ k = 1
  /\ reaped = NoPid
  /\ forking = NotForking
  /\ hit = 0
  /\ worker_pids = [s \in Slot |-> NoPid]
  /\ pid_tmp = [s \in Slot |-> NoPid]
  /\ pidsToReload = [s \in Slot |-> NoPid]
  /\ reload_num = 0
  /\ kill_timers = <<>>
  /\ asked = {}
  /\ stopped = FALSE
  /\ late = {}
  /\ pending_usr1 = FALSE
  /\ last_pid = 0
  /\ crashes = 0
  /\ ints = 0
  /\ usr1s = 0

MainStep ==
  \/ Fork \/ Store \/ Forked
  \/ Monitor \/ WaitPid \/ Search \/ Status \/ ScanHit \/ ScanMiss \/ Reload \/ Stopping

MNext ==
  \/ MainStep
  \/ SigInt
  \/ SigUsr1
  \/ SigAlrm
  \/ \E p \in Pid : Ends(p) \/ Crashes(p)

MSpec == MInit /\ [][MNext]_mvars

-----------------------------------------------------------------------------
(***************************************************************************)
(* Properties.                                                             *)
(***************************************************************************)

\* No stray worker: every child process is in exactly one slot, or has just
\* been forked, and a slot holds a child or the process just reaped.  So no
\* child is lost to the master, and no slot to a process that does not exist.
\* After a SIGINT each worker that runs has been told to end, but for those in
\* late: a child between fork and the store of its pid is not seen by the
\* handler, and when the handler has interrupted forkWorkers more are forked
\* after it.  These are neither told nor put under a kill timer.
EachInOneSlot ==
  /\ \A p \in Children : \/ p = forking.pid
                         \/ Cardinality({s \in Slot : worker_pids[s] = p}) = 1
  /\ \A s \in Slot : worker_pids[s] \in Children \cup {NoPid, reaped}

StopSeen == stopped => Alive \subseteq asked \cup late

NoStrayWorker == EachInOneSlot /\ StopSeen

\* A rolling restart: as long as nobody, not even the master, sends a second
\* SIGUSR1, at most one reloadable worker process at a time is under notice.
RollingReload ==
  usr1s <= 1 /\ ~ pending_usr1 /\ ~ stopped =>
    Cardinality({s \in Slot : /\ Owner(s) \in Reloadable
                              /\ worker_pids[s] \in asked \cap Alive}) <= 1

\* A kill timer hits nothing but processes that have had their notice: any
\* other process that ends has crashed.
Spared == \A p \in Alive \ asked : proc'[p] = "zombie" => crashes' # crashes

KillsOnlyAsked == [][Spared]_mvars

\* That holds as long as nobody, not even the master, sends a second SIGUSR1
\* or a SIGINT.
KillsOnRequest == [][usr1s <= 1 /\ ~ pending_usr1 /\ ~ stopped => Spared]_mvars

=============================================================================
