----------------------------- MODULE CommandProofs -----------------------------
(***************************************************************************)
(* Proofs about the commands and the pid file, for any number of processes *)
(* and of commands that overlap, and any times.                            *)
(***************************************************************************)
EXTENDS Command, TLAPS

Where ==
  {"nowhere", "gone", "stopped", "parse", "read", "check", "kill", "poll", "boot",
   "daemonize", "setsid", "install", "save", "write", "fork", "running", "stopping"}

Process ==
  [at : Where, command : {"none", "start", "stop", "restart", "reload"},
   daemonize : BOOLEAN, masterPid : Pid \cup {NoPid}, tries : 0 .. Tries,
   alarmed : BOOLEAN, due : 0 .. KillTime, missed : BOOLEAN]

CmTypeOK ==
  /\ pid_file \in Pid \cup {Absent, Empty}
  /\ proc \in [Pid -> Process]
  /\ last_pid \in 0 .. MaxPid
  /\ deaths \in Nat
  /\ overlapped \in BOOLEAN

\* Those whose pid may have been read from the file, and those that will save
\* theirs.
Saved   == {p \in Pid : proc[p].at \in {"fork", "running", "stopping", "gone", "stopped"}}
Booting ==
  {p \in Pid : proc[p].at \in {"boot", "daemonize", "setsid", "install", "save", "write"}}
Asking  == {p \in Pid : proc[p].at \in {"check", "kill", "poll"}}

(***************************************************************************)
(* The inductive invariant.  The first three parts hold however commands   *)
(* overlap, and carry SignalsHandled: a pid is known to others only when   *)
(* its process has become a master or has died, and no pid is used again.  *)
(* The others carry OneMaster: of commands that do not overlap there is    *)
(* one at a time; what it knows of the master stays true while it asks,    *)
(* and it boots when there is none.                                        *)
(***************************************************************************)
PidsFresh  == \A p \in Pid : p > last_pid => proc[p] = NoProcess
FileSaved  == pid_file \in Pid => pid_file \in Saved
KnownSaved == \A p \in Pid : proc[p].masterPid \in Pid => proc[p].masterPid \in Saved

Alone        == ~ overlapped => \A p, q \in InProgress : p = q
BootsAlone   == ~ overlapped => Booting = {} \/ Masters = {}
KnowsMaster  == ~ overlapped => \A p \in Asking, m \in Masters : proc[p].masterPid = m

IInv ==
  /\ CmTypeOK
  /\ PidsFresh /\ FileSaved /\ KnownSaved
  /\ Alone /\ BootsAlone /\ KnowsMaster /\ OneMaster


LEMMA Numbers ==
  /\ Pid \subseteq Nat /\ NoPid \notin Pid /\ Absent \notin Pid /\ Empty \notin Pid
  /\ Absent # Empty /\ 0 \in 0 .. Tries /\ 0 \in 0 .. KillTime /\ KillTime \in 0 .. KillTime
BY CommandAssumption DEF Pid, NoPid, Absent, Empty

LEMMA Ended == NoProcess \in Process /\ Gone \in Process /\ Stopped \in Process
               /\ Gone.at = "gone" /\ Stopped.at = "stopped" /\ NoProcess.at = "nowhere"
               /\ Gone.masterPid = NoPid /\ Stopped.masterPid = NoPid
               /\ NoProcess.masterPid = NoPid
BY Numbers DEF NoProcess, Gone, Stopped, Process, Where

\* The sets of processes, by where a process is.
LEMMA Sets ==
  \A p \in Pid :
    /\ Alive(p) <=> proc[p].at \notin {"nowhere", "gone", "stopped"}
    /\ p \in Masters <=> proc[p].at \in {"fork", "running", "stopping"}
    /\ p \in InProgress <=> proc[p].at \notin {"nowhere", "gone", "stopped", "fork",
                                               "running", "stopping"}
    /\ p \in Saved <=> proc[p].at \in {"fork", "running", "stopping", "gone", "stopped"}
    /\ p \in Booting <=> proc[p].at \in {"boot", "daemonize", "setsid", "install", "save",
                                         "write"}
    /\ p \in Asking <=> proc[p].at \in {"check", "kill", "poll"}
BY DEF Alive, Masters, InProgress, Saved, Booting, Asking

\* A step that makes nobody a master and gives no command.
LEMMA Shrinks ==
  ASSUME IInv, CmTypeOK', PidsFresh', pid_file' = pid_file, overlapped' = overlapped,
         Saved \subseteq Saved',
         \A p \in Pid : proc'[p].masterPid \in Pid => proc'[p].masterPid \in Saved,
         InProgress' \subseteq InProgress, Masters' \subseteq Masters,
         ~ overlapped => Booting' \subseteq Booting \/ Masters = {},
         ~ overlapped => \A p \in Asking', m \in Masters : proc'[p].masterPid = m
  PROVE  IInv'
<1>1. FileSaved' /\ KnownSaved'
  BY DEF IInv, FileSaved, KnownSaved
<1>2. Alone'
  BY DEF IInv, Alone
<1>3. BootsAlone'
  BY DEF IInv, BootsAlone
<1>4. KnowsMaster'
  BY DEF IInv, KnowsMaster
<1>5. OneMaster'
  BY DEF IInv, OneMaster
<1> QED
  BY <1>1, <1>2, <1>3, <1>4, <1>5 DEF IInv

\* A step of one process, from where it is to k.
LEMMA Moves ==
  ASSUME IInv, NEW p \in Pid, NEW k \in Process, set(p, k),
         UNCHANGED <<pid_file, last_pid, overlapped>>, deaths' \in Nat,
         proc[p].at # "nowhere",
         k.masterPid \in {NoPid, proc[p].masterPid, pid_file},
         p \in Saved => k.at \in {"fork", "running", "stopping", "gone", "stopped"},
         p \notin Masters => k.at \notin {"nowhere", "fork", "running", "stopping"},
         p \in InProgress \/ k.at \in {"gone", "stopped", "fork", "running", "stopping"},
         ~ overlapped /\ p \notin Booting /\ Masters # {} =>
           k.at \notin {"boot", "daemonize", "setsid", "install", "save", "write"},
         ~ overlapped /\ k.at \in {"check", "kill", "poll"} =>
           \A m \in Masters : k.masterPid = m
  PROVE  IInv'
<1> USE DEF set
<1>1. proc'[p] = k /\ \A q \in Pid \ {p} : proc'[q] = proc[q]
  BY DEF IInv, CmTypeOK
<1>2. CmTypeOK'
  BY DEF IInv, CmTypeOK
<1>3. PidsFresh'
  BY <1>1, Ended DEF IInv, PidsFresh
<1>4. Saved \subseteq Saved'
  BY <1>1 DEF Saved
<1>5. \A q \in Pid : proc'[q].masterPid \in Pid => proc'[q].masterPid \in Saved
  BY <1>1, Numbers DEF IInv, KnownSaved, FileSaved
<1>6. InProgress' \subseteq InProgress /\ Masters' \subseteq Masters
  <2>1. k.at \in Where
    BY DEF Process
  <2> QED
    BY <1>1, <2>1 DEF InProgress, Masters, Alive
<1>7. ~ overlapped => Booting' \subseteq Booting \/ Masters = {}
  BY <1>1 DEF Booting
<1>8. ~ overlapped => \A q \in Asking', m \in Masters : proc'[q].masterPid = m
  BY <1>1 DEF Asking, IInv, KnowsMaster
<1> QED
  BY <1>2, <1>3, <1>4, <1>5, <1>6, <1>7, <1>8, Shrinks

-----------------------------------------------------------------------------
(***************************************************************************)
(* The steps of a command until it boots or ends.                          *)
(***************************************************************************)

\* proc[p] with other values is a process.
LEMMA ProcessAt ==
  ASSUME CmTypeOK, NEW p \in Pid, NEW where \in Where
  PROVE  /\ [proc[p] EXCEPT !.at = where] \in Process
         /\ [proc[p] EXCEPT !.at = where].at = where
         /\ [proc[p] EXCEPT !.at = where].masterPid = proc[p].masterPid
BY DEF CmTypeOK, Process

LEMMA Type == IInv => CmTypeOK /\ deaths \in Nat
BY DEF IInv, CmTypeOK

LEMMA FileSizeStep ==
  ASSUME IInv, NEW p \in Pid, wm_file_size(p)
  PROVE  IInv'
<1>1. /\ proc[p].at = "parse" /\ UNCHANGED <<pid_file, last_pid, overlapped>>
      /\ deaths' \in Nat
  BY Type DEF wm_file_size, At
<1>2. p \in InProgress /\ p \notin Saved /\ p \notin Masters
  BY <1>1, Sets
<1>3. CASE pid_file = Absent /\ Goto(p, "check")
  <2>1. ~ overlapped => Masters = {}
    BY <1>3, Numbers DEF IInv, OneMaster, Masters
  <2> QED
    BY <1>1, <1>2, <1>3, <2>1, ProcessAt, Type, Moves DEF Goto, Where
<1>4. CASE set(p, Gone)
  BY <1>1, <1>2, <1>4, Ended, Moves
<1>5. CASE Goto(p, "read")
  BY <1>1, <1>2, <1>5, ProcessAt, Type, Moves DEF Goto, Where
<1> QED
  BY <1>3, <1>4, <1>5 DEF wm_file_size

LEMMA FileContentsStep ==
  ASSUME IInv, NEW p \in Pid, wm_file_get_contents(p)
  PROVE  IInv'
<1> DEFINE k == [proc[p] EXCEPT !.at = "check", !.masterPid = pid_file]
<1>1. /\ proc[p].at = "read" /\ UNCHANGED <<pid_file, last_pid, overlapped>>
      /\ deaths' \in Nat /\ pid_file \in Pid /\ set(p, k)
  BY Type DEF wm_file_get_contents, At
<1>2. p \in InProgress /\ p \notin Saved /\ p \notin Masters
  BY <1>1, Sets
<1>3. k \in Process /\ k.at = "check" /\ k.masterPid = pid_file
  BY <1>1, Type DEF CmTypeOK, Process, Where
<1>4. ~ overlapped => \A m \in Masters : k.masterPid = m
  BY <1>3 DEF IInv, OneMaster
<1> QED
  BY <1>1, <1>2, <1>3, <1>4, Moves

LEMMA NoMasterKnown ==
  ASSUME IInv, ~ overlapped, NEW p \in Asking, ~ master_is_alive(p)
  PROVE  Masters = {}
<1>1. \A m \in Masters : proc[p].masterPid = m /\ Alive(m)
  BY DEF IInv, KnowsMaster, Masters, Alive
<1> QED
  BY <1>1 DEF master_is_alive

LEMMA CheckStep ==
  ASSUME IInv, NEW p \in Pid, Check(p)
  PROVE  IInv'
<1>1. /\ proc[p].at = "check" /\ UNCHANGED <<pid_file, last_pid, overlapped>>
      /\ deaths' \in Nat
  BY Type DEF Check, At
<1>2. p \in InProgress /\ p \notin Saved /\ p \notin Masters /\ p \in Asking
  BY <1>1, Sets
<1>3. CASE set(p, Gone)
  BY <1>1, <1>2, <1>3, Ended, Moves
<1>4. CASE ~ master_is_alive(p) /\ Goto(p, "boot")
  BY <1>1, <1>2, <1>4, NoMasterKnown, ProcessAt, Type, Moves DEF Goto, Where
<1>5. CASE Goto(p, "kill")
  <2>1. ~ overlapped => \A m \in Masters : proc[p].masterPid = m
    BY <1>2 DEF IInv, KnowsMaster
  <2> DEFINE k == [proc[p] EXCEPT !.at = "kill"]
  <2>2. k \in Process /\ k.at = "kill" /\ k.masterPid = proc[p].masterPid /\ set(p, k)
    BY <1>5, ProcessAt, Type DEF Goto, Where
  <2> HIDE DEF k
  <2> QED
    BY <1>1, <1>2, <2>1, <2>2, Moves
<1> QED
  BY <1>3, <1>4, <1>5 DEF Check

LEMMA PollStep ==
  ASSUME IInv, NEW p \in Pid, Poll(p)
  PROVE  IInv'
<1>1. /\ proc[p].at = "poll" /\ UNCHANGED <<pid_file, last_pid, overlapped>>
      /\ deaths' \in Nat
  BY Type DEF Poll, At
<1>2. p \in InProgress /\ p \notin Saved /\ p \notin Masters /\ p \in Asking
  BY <1>1, Sets
<1>3. CASE Looks(p)
  <2> DEFINE n == proc[p].tries + 1
             k == [proc[p] EXCEPT !.tries = n]
  <2>1. proc[p] \in Process /\ proc[p].tries < Tries
    BY <1>3, Type DEF Looks, CmTypeOK
  <2>2. proc[p].tries \in 0 .. Tries
    BY <2>1 DEF Process
  <2>3. n \in 0 .. Tries
    BY <2>1, <2>2, CommandAssumption
  <2>6. set(p, k)
    BY <1>3 DEF Looks
  <2> HIDE DEF n
  <2>4. k \in Process /\ k.at = "poll" /\ k.masterPid = proc[p].masterPid
    BY <1>1, <2>1, <2>3 DEF Process
  <2>5. ~ overlapped => \A m \in Masters : proc[p].masterPid = m
    BY <1>2 DEF IInv, KnowsMaster
  <2> HIDE DEF k
  <2> QED
    BY <1>1, <1>2, <2>4, <2>5, <2>6, Moves
<1>4. CASE set(p, Gone) \/ set(p, Stopped)
  BY <1>1, <1>2, <1>4, Ended, Moves
<1>5. CASE ~ master_is_alive(p) /\ Goto(p, "boot")
  BY <1>1, <1>2, <1>5, NoMasterKnown, ProcessAt, Type, Moves DEF Goto, Where
<1> QED
  BY <1>3, <1>4, <1>5 DEF Poll

\* What a signal makes of a process: it stays what it is, dies, or stops.
LEMMA Struck ==
  ASSUME IInv, NEW q \in Pid, Alive(q), NEW c, NEW k \in struck(c, q)
  PROVE  /\ k \in Process /\ k.masterPid \in {NoPid, proc[q].masterPid}
         /\ \/ k.at = "gone" /\ q \notin Installed
            \/ proc[q].at \in {"running", "stopping"} /\ k.at = "stopping"
            \/ k = proc[q] /\ q \in Installed
<1>1. CASE q \notin Installed
  BY <1>1, Ended DEF struck
<1>2. CASE q \in Installed /\ k \in stops(q) /\ proc[q].at \in {"running", "stopping"}
  <2>1. PICK n \in {0, KillTime}, m \in {proc[q].at = "running", FALSE} :
          k = [proc[q] EXCEPT !.at = "stopping", !.due = n, !.missed = m]
    BY <1>2 DEF stops
  <2>2. proc[q] \in Process /\ n \in 0 .. KillTime /\ m \in BOOLEAN
    BY Type, Numbers DEF CmTypeOK
  <2>3. k \in Process /\ k.at = "stopping" /\ k.masterPid = proc[q].masterPid
    BY <2>1, <2>2 DEF Process, Where
  <2> QED
    BY <1>2, <2>3 DEF At
<1>3. CASE q \in Installed /\ k = proc[q]
  BY <1>3, Type DEF CmTypeOK
<1> QED
  BY <1>1, <1>2, <1>3 DEF struck, At

LEMMA KillStep ==
  ASSUME IInv, NEW p \in Pid, Kill(p)
  PROVE  IInv'
<1> DEFINE q == proc[p].masterPid
           caller == IF proc[p].command = "reload" THEN Gone ELSE [proc[p] EXCEPT !.at = "poll"]
<1>1. /\ proc[p].at = "kill" /\ UNCHANGED <<pid_file, last_pid, overlapped>>
      /\ deaths' \in Nat
  BY Type DEF Kill, At
<1>2. p \in InProgress /\ p \notin Saved /\ p \notin Masters /\ p \in Asking
  BY <1>1, Sets
<1>3. /\ caller \in Process /\ caller.at \in {"gone", "poll"}
      /\ caller.masterPid \in {NoPid, q}
      /\ caller.at = "poll" => caller.masterPid = q
  BY ProcessAt, Type, Ended DEF Where
<1>4. ~ overlapped => \A m \in Masters : q = m
  BY <1>2 DEF IInv, KnowsMaster
<1>5. CASE set(p, Gone)
  BY <1>1, <1>2, <1>5, Ended, Moves
<1>6. CASE set(p, caller)
  <2> HIDE DEF caller
  <2> QED
    BY <1>1, <1>2, <1>3, <1>4, <1>6, Moves
<1>7. ASSUME Alive(q),
             NEW k \in struck(proc[p].command, q),
             proc' = [proc EXCEPT ![p] = caller, ![q] = k]
      PROVE  IInv'
  <2>1. q \in Pid
    BY <1>7 DEF Alive
  <2>2. q \in Saved
    BY <2>1 DEF IInv, KnownSaved
  <2>3. q \in Masters /\ q \in Installed
    BY <1>7, <2>1, <2>2, Sets DEF Installed
  <2>4. /\ k \in Process /\ k.masterPid \in {NoPid, proc[q].masterPid}
        /\ (proc[q].at \in {"running", "stopping"} /\ k.at = "stopping") \/ k = proc[q]
    BY <1>7, <2>1, <2>3, Struck
  <2>5. p # q
    BY <1>2, <2>3
  <2> HIDE DEF q, caller
  <2>6. /\ proc'[p] = caller /\ proc'[q] = k
        /\ \A r \in Pid \ {p, q} : proc'[r] = proc[r]
    BY <1>7, <2>1, <2>5, Type DEF CmTypeOK
  <2>7. CmTypeOK'
    BY <1>1, <1>3, <1>7, <2>1, <2>4, Type DEF CmTypeOK
  <2>8. PidsFresh'
    BY <1>1, <2>3, <2>6, Sets, Ended DEF IInv, PidsFresh
  <2>9. /\ k.at \in {"fork", "running", "stopping"}
        /\ proc[q].at \in {"fork", "running", "stopping"}
    BY <2>1, <2>3, <2>4, Sets
  <2>10. Saved \subseteq Saved'
    BY <1>2, <2>6, <2>9 DEF Saved
  <2>11. \A r \in Pid : proc'[r].masterPid \in Pid => proc'[r].masterPid \in Saved
    <3>1. \A r \in Pid : proc'[r].masterPid \in {NoPid, proc[r].masterPid}
      BY <1>3, <2>1, <2>4, <2>6 DEF q
    <3> QED
      BY <3>1, Numbers DEF IInv, KnownSaved
  <2>12. InProgress' \subseteq InProgress /\ Masters' \subseteq Masters
    BY <1>2, <1>3, <2>1, <2>3, <2>6, <2>9 DEF InProgress, Masters, Alive
  <2>13. Booting' \subseteq Booting
    BY <1>3, <2>6, <2>9 DEF Booting
  <2>14. ~ overlapped => \A r \in Asking', m \in Masters : proc'[r].masterPid = m
    BY <1>3, <1>4, <2>6, <2>9 DEF Asking, IInv, KnowsMaster
  <2> QED
    BY <1>1, <2>7, <2>8, <2>10, <2>11, <2>12, <2>13, <2>14, Shrinks
<1> QED
  BY <1>5, <1>6, <1>7 DEF Kill

-----------------------------------------------------------------------------
(***************************************************************************)
(* Booting, and the life of a master.                                      *)
(***************************************************************************)

LEMMA InitWorkersStep ==
  ASSUME IInv, NEW p \in Pid, initWorkers(p)
  PROVE  IInv'
<1> DEFINE k == [NoProcess EXCEPT !.at = "daemonize", !.daemonize = proc[p].daemonize,
                                  !.alarmed = TRUE]
<1>1. /\ proc[p].at = "boot" /\ UNCHANGED <<pid_file, last_pid, overlapped>>
      /\ deaths' \in Nat /\ set(p, k)
  BY Type DEF initWorkers, At, runAll
<1>2. p \in InProgress /\ p \notin Saved /\ p \notin Masters /\ p \in Booting
  BY <1>1, Sets
<1>3. proc[p].daemonize \in BOOLEAN
  BY Type DEF CmTypeOK, Process
<1>4. k \in Process /\ k.at = "daemonize" /\ k.masterPid = NoPid
  BY <1>3, Numbers DEF Process, Where, NoProcess
<1> HIDE DEF k
<1> QED
  BY <1>1, <1>2, <1>4, Moves

LEMMA BootMoves ==
  ASSUME IInv, NEW p \in Booting,
         NEW where \in {"boot", "daemonize", "setsid", "install", "save", "write"},
         Goto(p, where), UNCHANGED <<pid_file, last_pid, deaths, overlapped>>
  PROVE  IInv'
<1>1. p \in Pid
  BY DEF Booting
<1>2. /\ p \in InProgress /\ p \notin Saved /\ p \notin Masters
      /\ proc[p].at # "nowhere" /\ deaths' \in Nat
  BY <1>1, Sets, Type
<1> DEFINE k == [proc[p] EXCEPT !.at = where]
<1>3. k \in Process /\ k.at = where /\ k.masterPid = proc[p].masterPid /\ set(p, k)
  <2>1. where \in Where
    BY DEF Where
  <2>2. set(p, k)
    BY DEF Goto
  <2> QED
    BY <1>1, <2>1, <2>2, ProcessAt, Type
<1> HIDE DEF k
<1> QED
  BY <1>1, <1>2, <1>3, Moves

LEMMA MasterMoves ==
  ASSUME IInv, NEW p \in Pid, NEW k \in Process, set(p, k),
         UNCHANGED <<pid_file, last_pid, overlapped>>, deaths' \in Nat,
         \/ p \in Masters /\ k.at \in {"running", "stopping", "gone"}
         \/ p \in Installed /\ k.at = "gone",
         k.masterPid \in {NoPid, proc[p].masterPid}
  PROVE  IInv'
<1>1. proc[p].at # "nowhere" /\ (p \in Saved => p \in Masters)
  BY Sets DEF Installed, Saved, Masters
<1> QED
  BY <1>1, Moves DEF Installed

LEMMA MonitorStep ==
  ASSUME IInv, NEW p \in Pid, monitorWorkers(p)
  PROVE  IInv'
<1>1. p \in Masters /\ deaths' \in Nat
  BY Sets, Type DEF monitorWorkers, At
<1> QED
  BY <1>1, ProcessAt, Type, MasterMoves DEF monitorWorkers, Goto, Where

LEMMA EndSteps ==
  ASSUME IInv, NEW p \in Pid, Exits(p) \/ Dies(p)
  PROVE  IInv'
<1>1. /\ set(p, Gone) /\ UNCHANGED <<pid_file, last_pid, overlapped>>
      /\ deaths' \in Nat /\ p \in Installed
  BY Type, Sets DEF Exits, Dies, Installed, At
<1> QED
  BY <1>1, Ended, MasterMoves

LEMMA AlarmStep ==
  ASSUME IInv, NEW p \in Pid, alarm_wait(p)
  PROVE  IInv'
<1> DEFINE n == proc[p].due - 1
           k == [proc[p] EXCEPT !.due = n]
<1>1. /\ proc[p].at = "stopping" /\ UNCHANGED <<pid_file, last_pid, overlapped>>
      /\ deaths' \in Nat /\ set(p, k) /\ proc[p].due > 0
  BY Type DEF alarm_wait, At
<1>2. proc[p] \in Process /\ proc[p].due \in 0 .. KillTime
  BY Type DEF CmTypeOK, Process
<1>3. n \in 0 .. KillTime
  BY <1>1, <1>2, CommandAssumption
<1> HIDE DEF n
<1>4. k \in Process /\ k.at = "stopping" /\ k.masterPid = proc[p].masterPid
  BY <1>1, <1>2, <1>3 DEF Process
<1>5. p \in Masters
  BY <1>1, Sets
<1> HIDE DEF k
<1> QED
  BY <1>1, <1>4, <1>5, MasterMoves

\* A fork by which a process becomes a daemon: the child takes its place.
LEMMA ForkStep ==
  ASSUME IInv, NEW p \in Booting, NEW where \in {"setsid", "install"},
         fork(p, where), UNCHANGED <<pid_file, deaths, overlapped>>
  PROVE  IInv'
<1> DEFINE n == last_pid + 1
           k == [proc[p] EXCEPT !.at = where, !.alarmed = FALSE]
<1>1. /\ n \in Pid /\ last_pid' = n /\ proc' = [proc EXCEPT ![p] = Gone, ![n] = k]
      /\ n > last_pid /\ last_pid \in Nat
  BY Type, CommandAssumption DEF fork, CmTypeOK, Pid
<1>2. p \in Pid /\ p \in InProgress /\ p \notin Saved /\ proc[p].at # "nowhere"
  BY Sets DEF Booting
<1>3. proc[n].at = "nowhere"
  BY <1>1, Ended DEF IInv, PidsFresh
<1>4. n # p /\ n \notin Saved /\ n \notin Masters
  BY <1>1, <1>2, <1>3, Sets
<1>5. k \in Process /\ k.at = where /\ k.masterPid = proc[p].masterPid
  BY <1>2, Type DEF CmTypeOK, Process, Where
<1>6. \A q \in Pid : q > n => q > last_pid
  BY <1>1, Numbers
<1> HIDE DEF n, k
<1>7. /\ proc'[p] = Gone /\ proc'[n] = k
      /\ \A q \in Pid \ {p, n} : proc'[q] = proc[q]
  BY <1>1, <1>2, <1>4, Type DEF CmTypeOK
<1>8. CmTypeOK'
  BY <1>1, <1>2, <1>5, Ended, Type DEF CmTypeOK, Pid
<1>9. PidsFresh'
  <2>1. \A q \in Pid : q > last_pid => q # p
    BY <1>2, Ended DEF IInv, PidsFresh
  <2>2. ~ (n > n)
    BY <1>1, Numbers
  <2> QED
    BY <1>1, <1>6, <1>7, <2>1, <2>2 DEF IInv, PidsFresh
<1>10. Saved \subseteq Saved'
  BY <1>2, <1>4, <1>7, Ended DEF Saved
<1>11. FileSaved'
  BY <1>10 DEF IInv, FileSaved
<1>12. KnownSaved'
  BY <1>1, <1>2, <1>5, <1>7, <1>10, Ended, Numbers DEF IInv, KnownSaved
<1>13. Masters' \subseteq Masters
  BY <1>5, <1>7, Ended DEF Masters
<1>14. InProgress' \subseteq (InProgress \ {p}) \cup {n}
  BY <1>7, Ended DEF InProgress, Masters, Alive
<1>15. Alone'
  BY <1>2, <1>14 DEF IInv, Alone
<1>16. BootsAlone'
  BY <1>13 DEF IInv, BootsAlone
<1>17. KnowsMaster'
  BY <1>5, <1>7, <1>13, Ended DEF IInv, KnowsMaster, Asking
<1>18. OneMaster'
  BY <1>13 DEF IInv, OneMaster
<1> QED
  BY <1>8, <1>9, <1>11, <1>12, <1>15, <1>16, <1>17, <1>18 DEF IInv

LEMMA DaemonizeStep ==
  ASSUME IInv, NEW p \in Pid, daemonize(p)
  PROVE  IInv'
<1>1. p \in Booting
  BY Sets DEF daemonize, At
<1> QED
  BY <1>1, BootMoves, ForkStep DEF daemonize, runAll

LEMMA InstallStep ==
  ASSUME IInv, NEW p \in Pid, installSignal(p)
  PROVE  IInv'
<1>1. p \in Booting
  BY Sets DEF installSignal, At
<1> QED
  BY <1>1, BootMoves DEF installSignal, runAll

\* The pid file is emptied when there is no master, and then names the new one.
LEMMA SaveStep ==
  ASSUME IInv, NEW p \in Pid, saveMasterPid(p)
  PROVE  IInv'
<1> DEFINE where == IF proc[p].at = "save" THEN "write" ELSE "fork"
           k == [proc[p] EXCEPT !.at = where]
<1>1. /\ set(p, k) /\ UNCHANGED <<last_pid, deaths, overlapped>>
      /\ \/ proc[p].at = "save" /\ pid_file' = Empty
         \/ proc[p].at = "write" /\ pid_file' = p
  BY DEF saveMasterPid, wm_file_put_contents, At, Goto, runAll
<1>2. k \in Process /\ k.at = where /\ k.masterPid = proc[p].masterPid
  <2>1. where \in Where
    BY DEF Where
  <2> HIDE DEF where
  <2> QED
    BY <2>1, ProcessAt, Type
<1>3. p \in InProgress /\ p \in Booting /\ p \notin Saved
  BY <1>1, Sets
<1> HIDE DEF k
<1>4. proc'[p] = k /\ \A q \in Pid \ {p} : proc'[q] = proc[q]
  BY <1>1, Type DEF CmTypeOK, set
<1>5. CmTypeOK'
  BY <1>1, <1>2, Type DEF CmTypeOK, set
<1>6. PidsFresh'
  BY <1>1, <1>4, Ended DEF IInv, PidsFresh
<1>7. Saved \subseteq Saved'
  BY <1>3, <1>4 DEF Saved
<1>8. FileSaved'
  BY <1>1, <1>2, <1>4, Numbers DEF FileSaved, Saved
<1>9. KnownSaved'
  BY <1>2, <1>4, <1>7 DEF IInv, KnownSaved
<1>10. InProgress' \subseteq InProgress
  BY <1>3, <1>4 DEF InProgress, Masters, Alive
<1>11. Alone'
  BY <1>1, <1>10 DEF IInv, Alone
<1>12. ~ overlapped => Masters = {}
  BY <1>3 DEF IInv, BootsAlone
<1>13. ~ overlapped => Masters' \subseteq {q \in {p} : proc[p].at = "write"}
  BY <1>1, <1>2, <1>4, <1>12 DEF Masters
<1>14. OneMaster'
  BY <1>1, <1>13 DEF OneMaster
<1>15. ~ overlapped => \A q \in InProgress : q = p
  BY <1>3 DEF IInv, Alone
<1>16. ~ overlapped => Asking' = {}
  <2>1. \A q \in Pid : q \in Asking => q \in InProgress
    BY Sets
  <2> QED
    BY <1>2, <1>3, <1>4, <1>15, <2>1 DEF Asking
<1>17. KnowsMaster'
  BY <1>1, <1>16 DEF KnowsMaster
<1>18. BootsAlone'
  <2>1. CASE proc[p].at = "save"
    BY <1>1, <1>13, <2>1 DEF BootsAlone
  <2>2. CASE proc[p].at = "write"
    <3>1. \A q \in Pid : q \in Booting => q \in InProgress
      BY Sets
    <3>2. ~ overlapped => Booting' = {}
      BY <1>2, <1>4, <1>15, <2>2, <3>1 DEF Booting
    <3> QED
      BY <1>1, <3>2 DEF BootsAlone
  <2> QED
    BY <1>1, <2>1, <2>2
<1> QED
  BY <1>5, <1>6, <1>8, <1>9, <1>11, <1>14, <1>17, <1>18 DEF IInv

-----------------------------------------------------------------------------
(***************************************************************************)
(* A new command, and every step.                                          *)
(***************************************************************************)

LEMMA CommandStep ==
  ASSUME IInv, NEW c \in {"start", "stop", "restart", "reload"}, NEW d \in BOOLEAN,
         Command(c, d)
  PROVE  IInv'
<1> DEFINE n == last_pid + 1
           k == [NoProcess EXCEPT !.at = "parse", !.command = c, !.daemonize = d]
<1>1. /\ n \in Pid /\ last_pid' = n /\ set(n, k)
      /\ n > last_pid /\ last_pid \in Nat /\ UNCHANGED <<pid_file, deaths>>
      /\ overlapped' = (overlapped \/ InProgress # {})
  BY Type, CommandAssumption DEF Command, CmTypeOK, Pid
<1>2. k \in Process /\ k.at = "parse" /\ k.masterPid = NoPid
  BY Numbers DEF Process, Where, NoProcess
<1>3. proc[n].at = "nowhere"
  BY <1>1, Ended DEF IInv, PidsFresh
<1>4. n \notin Saved /\ n \notin Masters /\ n \notin Booting
  BY <1>1, <1>3, Sets
<1>5. \A q \in Pid : q > n => q > last_pid
  BY <1>1, Numbers
<1> HIDE DEF n, k
<1>6. proc'[n] = k /\ \A q \in Pid \ {n} : proc'[q] = proc[q]
  BY <1>1, Type DEF CmTypeOK, set
<1>7. CmTypeOK'
  <2>1. overlapped' \in BOOLEAN
    BY <1>1
  <2> QED
    BY <1>1, <1>2, <2>1, Type DEF CmTypeOK, Pid, set
<1>8. PidsFresh'
  <2>1. ~ (n > n)
    BY <1>1, Numbers
  <2> QED
    BY <1>1, <1>5, <1>6, <2>1 DEF IInv, PidsFresh
<1>9. Saved \subseteq Saved'
  BY <1>4, <1>6 DEF Saved
<1>10. FileSaved'
  BY <1>1, <1>9 DEF IInv, FileSaved
<1>11. KnownSaved'
  BY <1>2, <1>6, <1>9, Numbers DEF IInv, KnownSaved
<1>12. Masters' \subseteq Masters /\ Booting' \subseteq Booting /\ Asking' \subseteq Asking
  BY <1>2, <1>6 DEF Masters, Booting, Asking
<1>13. InProgress' \subseteq InProgress \cup {n}
  BY <1>6 DEF InProgress, Masters, Alive
<1>14. ~ overlapped' => ~ overlapped /\ InProgress = {}
  BY <1>1, Type DEF CmTypeOK
<1>15. Alone'
  BY <1>13, <1>14 DEF Alone
<1>16. BootsAlone'
  BY <1>12, <1>14 DEF IInv, BootsAlone
<1>17. KnowsMaster'
  BY <1>4, <1>6, <1>12, <1>14, <1>2 DEF IInv, KnowsMaster, Asking
<1>18. OneMaster'
  BY <1>1, <1>12, <1>14 DEF IInv, OneMaster
<1> QED
  BY <1>7, <1>8, <1>10, <1>11, <1>15, <1>16, <1>17, <1>18 DEF IInv

\* Only its own look at the master lets a command say "stop success".
LEMMA SaysItself ==
  ASSUME IInv, CmNext, NEW p \in Pid, proc[p].at = "poll", proc'[p] = Stopped
  PROVE  ~ master_is_alive(p)
<1> USE Type DEF CmTypeOK
<1>1. \A q \in Pid : \A k : ~ (set(q, k) /\ q # p)
  BY Ended DEF set
<1>2. \A k : set(p, k) => k = Stopped
  BY DEF set
<1>3. ASSUME NEW c, NEW d, Command(c, d) PROVE FALSE
  <2>1. last_pid + 1 \in Pid /\ last_pid + 1 # p
    BY <1>3, CommandAssumption, Ended DEF Command, Pid, IInv, PidsFresh
  <2> QED
    BY <1>3, <1>1, <2>1 DEF Command
<1>4. ASSUME NEW q \in Pid, NEW where, fork(q, where), proc[q].at # "poll" PROVE FALSE
  <2>1. last_pid + 1 \in Pid /\ last_pid + 1 # p /\ q # p
    BY <1>4, CommandAssumption, Ended DEF fork, Pid, IInv, PidsFresh
  <2> QED
    BY <1>4, <2>1, Ended DEF fork
<1>5. ASSUME NEW q \in Pid, Kill(q) PROVE FALSE
  <2>1. q # p
    BY <1>5 DEF Kill, At
  <2>2. CASE \E k : set(q, k)
    BY <1>1, <2>1, <2>2
  <2>3. ASSUME NEW r, Alive(r), NEW k \in struck(proc[q].command, r), NEW l,
               proc' = [proc EXCEPT ![q] = l, ![r] = k]
        PROVE  FALSE
    <3>1. r = p
      BY <2>1, <2>3, Ended DEF Alive
    <3>2. p \notin Installed /\ k = Gone
      BY <2>3, <3>1 DEF struck, Installed, Masters
    <3> QED
      BY <2>1, <2>3, <3>1, <3>2, Ended
  <2> QED
    BY <1>5, <2>2, <2>3 DEF Kill
<1>6. ASSUME NEW q \in Pid, Poll(q) PROVE ~ master_is_alive(p)
  <2>1. q = p
    BY <1>6, <1>1 DEF Poll, Looks, Goto
  <2>2. ~ Looks(p)
    <3>1. ASSUME Looks(p) PROVE FALSE
      <4>1. Stopped = [proc[p] EXCEPT !.tries = @ + 1]
        BY <3>1, <1>2 DEF Looks
      <4>2. [proc[p] EXCEPT !.tries = @ + 1].at = "poll"
        BY DEF Process
      <4> QED
        BY <4>1, <4>2, Ended
    <3> QED
      BY <3>1
  <2>3. ~ set(p, Gone)
    BY <1>2, Ended
  <2> QED
    BY <1>6, <2>1, <2>2, <2>3 DEF Poll
<1>7. ASSUME NEW q \in Pid,
             \/ wm_file_size(q) \/ wm_file_get_contents(q) \/ Check(q)
             \/ initWorkers(q) \/ installSignal(q) \/ saveMasterPid(q)
             \/ monitorWorkers(q) \/ alarm_wait(q) \/ Exits(q)
      PROVE  FALSE
  <2>1. (\E k : set(q, k)) /\ proc[q].at # "poll"
    BY <1>7 DEF wm_file_size, wm_file_get_contents, Check, initWorkers, installSignal,
         saveMasterPid, wm_file_put_contents, monitorWorkers, alarm_wait, Exits, Goto, At
  <2> QED
    BY <1>1, <2>1
<1>8. ASSUME NEW q \in Pid, Dies(q) PROVE FALSE
  <2>1. set(q, Gone)
    BY <1>8 DEF Dies
  <2> QED
    BY <1>1, <1>2, <2>1, Ended
<1>9. ASSUME NEW q \in Pid, daemonize(q) PROVE FALSE
  <2>1. CASE \E where : fork(q, where)
    BY <1>4, <1>9, <2>1 DEF daemonize, At
  <2>2. CASE \E k : set(q, k)
    BY <1>1, <1>9, <2>2 DEF daemonize, At
  <2> QED
    BY <1>9, <2>1, <2>2 DEF daemonize, Goto
<1> QED
  BY <1>3, <1>5, <1>6, <1>7, <1>8, <1>9 DEF CmNext, Commands, Starts

LEMMA Stutter == IInv /\ UNCHANGED cmvars => IInv'
BY DEF cmvars, IInv, CmTypeOK, PidsFresh, FileSaved, KnownSaved, Alone, BootsAlone,
       KnowsMaster, OneMaster, Saved, Booting, Asking, Masters, InProgress, Alive

LEMMA Inductive == IInv /\ [CmNext]_cmvars => IInv'
BY Stutter, CommandStep, FileSizeStep, FileContentsStep, CheckStep, KillStep, PollStep,
   InitWorkersStep, DaemonizeStep, InstallStep, SaveStep, MonitorStep, AlarmStep, EndSteps
DEF CmNext, Commands, Starts

-----------------------------------------------------------------------------
(***************************************************************************)
(* The theorems.                                                           *)
(***************************************************************************)

\* The inductive invariant holds, however commands overlap.
THEOREM SpecIInv == CmSpec => []IInv
<1>1. CmInit => IInv
  <2> SUFFICES ASSUME CmInit PROVE IInv
    OBVIOUS
  <2>1. /\ pid_file = Absent /\ last_pid = 0 /\ deaths = 0 /\ overlapped = FALSE
        /\ proc = [p \in Pid |-> NoProcess]
    BY DEF CmInit
  <2>2. CmTypeOK /\ FileSaved
    <3>1. proc \in [Pid -> Process]
      BY <2>1, Ended
    <3>2. 0 \in 0 .. MaxPid /\ 0 \in Nat
      BY CommandAssumption
    <3> QED
      BY <2>1, <3>1, <3>2, Numbers DEF CmTypeOK, FileSaved
  <2>3. \A p \in Pid : proc[p] = NoProcess /\ proc[p].at = "nowhere"
    BY <2>1, Ended
  <2>4. Masters = {} /\ InProgress = {} /\ Asking = {}
    BY <2>3 DEF Masters, InProgress, Alive, Asking
  <2>5. PidsFresh /\ KnownSaved
    BY <2>3, Ended, Numbers DEF PidsFresh, KnownSaved
  <2> QED
    BY <2>2, <2>4, <2>5 DEF IInv, Alone, BootsAlone, KnowsMaster, OneMaster
<1> QED
  BY <1>1, Inductive, PTL DEF CmSpec

\* As long as commands do not overlap, the pid file leads to the master, so that
\* there is one at most (saveMasterPid, parseCommand).
THEOREM OneMasterAtMost == CmSpec => []OneMaster
<1>1. IInv => OneMaster
  BY DEF IInv
<1> QED
  BY <1>1, SpecIInv, PTL

\* A signal of a command meets a process that has its handlers, however commands
\* overlap and masters die (runAll installs them before it saves the pid).
THEOREM SignalsMeetHandlers == CmSpec => []SignalsHandled
<1>1. IInv => SignalsHandled
  <2> SUFFICES ASSUME IInv, NEW p \in Pid, master_is_alive(p)
               PROVE  proc[p].masterPid \in Installed
    BY DEF SignalsHandled
  <2> DEFINE q == proc[p].masterPid
  <2>1. q \in Pid /\ Alive(q)
    BY DEF master_is_alive, Alive
  <2>2. q \in Saved
    BY <2>1 DEF IInv, KnownSaved
  <2> QED
    BY <2>1, <2>2, Sets DEF Installed
<1> QED
  BY <1>1, SpecIInv, PTL

\* "stop success" is true, as long as commands do not overlap: when a stop says so
\* there is no master (parseCommand).
THEOREM StopIsTrue == CmSpec => StopTrue
<1> DEFINE Says == \A p \in Pid : At(p, "poll") /\ proc'[p] = Stopped =>
                     overlapped \/ Masters = {}
<1>1. IInv /\ [CmNext]_cmvars => [Says]_cmvars
  <2> SUFFICES ASSUME IInv, CmNext, NEW p \in Pid, At(p, "poll"), proc'[p] = Stopped,
                      ~ overlapped
               PROVE  Masters = {}
    BY DEF cmvars
  <2>1. p \in Asking
    BY Sets DEF At
  <2>2. ~ master_is_alive(p)
    BY SaysItself DEF At
  <2> QED
    BY <2>1, <2>2, NoMasterKnown
<1> QED
  BY <1>1, SpecIInv, PTL DEF CmSpec, StopTrue
=============================================================================
