------------------------------- MODULE MCMaster -------------------------------
(***************************************************************************)
(* Model checking of Master under fairness: the main thread goes on, and   *)
(* kill timers fire.  Nothing is asked of the workers.                     *)
(***************************************************************************)
EXTENDS Master

FairMaster == MSpec /\ WF_mvars(MainStep) /\ WF_mvars(SigAlrm)

\* A rolling restart comes to its end, also if workers ignore SIGUSR1 or
\* crash meanwhile.  It does not when the SIGUSR1 came while a slot of a worker
\* that is not reloadable held no pid: the kill for that slot (worker.c:1118)
\* sends SIGUSR1 to the master itself, whose handler does so again, and for
\* ever, because the main thread never gets to fill the slot.
ReloadEnds == status = "RELOADING" ~> status # "RELOADING" \/ pending_usr1

\* Each process that is listed for a reload ends, so that no worker goes on
\* with the code of before.
ReloadReachesAll ==
  \A p \in Pid :
    p \in Alive /\ (\E i \in 1 .. reload_num : pidsToReload[i] = p)
      ~> p \notin Alive \/ stopped \/ pending_usr1

=============================================================================
