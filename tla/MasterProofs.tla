----------------------------- MODULE MasterProofs -----------------------------
(***************************************************************************)
(* Proofs about the master process, for any number of workers, of          *)
(* processes and of signals.                                               *)
(***************************************************************************)
EXTENDS Master, TLAPS, FiniteSetTheorems, SequenceTheorems

USE DEF runs_at

MTypeOK ==
  /\ proc \in [Pid -> {"none", "alive", "zombie", "reaped"}]
  /\ k \in Worker
  /\ reaped \in Pid \cup {NoPid}
  /\ forking \in [slot : Slot \cup {0}, pid : Pid \cup {NoPid}]
  /\ worker_pids \in [Slot -> Pid \cup {NoPid}]
  /\ last_pid \in 0 .. MaxPid

(***************************************************************************)
(* The inductive invariant.  NoStrayWorker says where each process is; to  *)
(* keep that, pids must be fresh, the slot of a process that is being      *)
(* forked must stay free until the pid is stored, and the process that has *)
(* been reaped must be out of its slot before the next one is waited for.  *)
(* The main loop frees the slots worker by worker and forks in between, so *)
(* what holds on the way is that the reaped pid is in no slot of a worker  *)
(* the loop has passed.                                                    *)
(***************************************************************************)
PidsFresh == \A p \in Pid : p > last_pid => proc[p] = "none"

ReapedGone == reaped # NoPid => proc[reaped] = "reaped"

ForkingHeld ==
  IF pc = "store"
    THEN /\ forking.slot \in Slot /\ worker_pids[forking.slot] = NoPid
         /\ forking.pid \in Children /\ \A s \in Slot : worker_pids[s] # forking.pid
    ELSE forking = NotForking

ChildrenHeld ==
  \A p \in Children : p = forking.pid \/ \E s \in Slot : worker_pids[s] = p

SlotsHoldChildren == \A s \in Slot : worker_pids[s] \in Children \cup {NoPid, reaped}

SlotsDiffer ==
  \A r, s \in Slot : worker_pids[r] = worker_pids[s] /\ worker_pids[r] # NoPid => r = s

ReapedAhead ==
  \A s \in Slot : reaped # NoPid /\ worker_pids[s] = reaped =>
    \/ pc = "search" /\ k <= Owner(s)
    \/ pc \in {"status", "fork", "store", "scan", "reload"} /\ k < Owner(s)

IInv ==
  /\ MTypeOK
  /\ PidsFresh /\ ReapedGone /\ ForkingHeld
  /\ ChildrenHeld /\ SlotsHoldChildren /\ SlotsDiffer /\ ReapedAhead

LEMMA OwnerIsWorker == \A s \in Slot : Owner(s) \in Nat /\ 1 <= Owner(s) /\ Owner(s) <= NWorkers
<1> SUFFICES ASSUME NEW s \in Slot
             PROVE  Owner(s) \in Nat /\ 1 <= Owner(s) /\ Owner(s) <= NWorkers
  OBVIOUS
<1> DEFINE q == (s - 1) \div Count
           r == (s - 1) % Count
<1>1. /\ NWorkers \in Nat /\ NWorkers > 0 /\ Count \in Nat /\ Count > 0
      /\ s \in Nat /\ 1 <= s /\ s <= NWorkers * Count
  BY MasterAssumption DEF Slot
<1>2. s - 1 \in Int /\ q \in Int /\ r \in 0 .. Count - 1 /\ s - 1 = Count * q + r
  BY <1>1
<1>3. Owner(s) = q + 1
  BY DEF Owner
<1> HIDE DEF q, r
<1>4. q >= 0
  <2> SUFFICES ASSUME q <= -1 PROVE FALSE
    BY <1>2
  <2>1. Count * q <= -Count
    BY <1>1, <1>2
  <2> QED BY <1>1, <1>2, <2>1
<1>5. q < NWorkers
  <2> SUFFICES ASSUME q >= NWorkers PROVE FALSE
    BY <1>1, <1>2
  <2>1. Count * q >= NWorkers * Count
    BY <1>1, <1>2
  <2> QED BY <1>1, <1>2, <2>1
<1> QED BY <1>1, <1>2, <1>3, <1>4, <1>5

LEMMA EarlierSlots == \A i \in Slot : \A j \in 1 .. i - 1 : j \in Slot
BY MasterAssumption DEF Slot

LEMMA InitIInv == MInit => IInv
<1> SUFFICES ASSUME MInit PROVE IInv
  OBVIOUS
<1> USE DEF MInit
<1>1. 1 \in Worker /\ 0 \in 0 .. MaxPid /\ NotForking \in [slot : Slot \cup {0}, pid : Pid \cup {NoPid}]
  BY MasterAssumption DEF Worker, NotForking
<1>2. MTypeOK
  BY <1>1 DEF MTypeOK
<1>3. Children = {}
  BY DEF Children
<1> QED BY <1>2, <1>3 DEF IInv, PidsFresh, ReapedGone, ForkingHeld, ChildrenHeld,
           SlotsHoldChildren, SlotsDiffer, ReapedAhead

(***************************************************************************)
(* The steps that leave pids and slots alone: the handlers of SIGINT and   *)
(* SIGUSR1, and what the main thread does besides.                         *)
(***************************************************************************)
LEMMA Elsewhere ==
  ASSUME IInv, UNCHANGED <<proc, worker_pids, forking, last_pid, reaped>>, k' \in Worker,
         pc' = "store" <=> pc = "store", ReapedAhead'
  PROVE  IInv'
<1> USE DEF IInv
<1>1. MTypeOK'
  BY DEF MTypeOK
<1>2. Children' = Children
  BY DEF Children
<1> QED BY <1>1, <1>2 DEF PidsFresh, ReapedGone, ForkingHeld, ChildrenHeld,
           SlotsHoldChildren, SlotsDiffer

\* The loop goes on to the next worker, or has been through them all.
LEMMA Onwards ==
  ASSUME IInv, pc \in {"status", "scan", "reload"}, NextWorker,
         UNCHANGED <<proc, worker_pids, forking, last_pid, reaped>>
  PROVE  IInv'
<1>1. k \in Nat /\ k <= NWorkers /\ k' \in Worker
  BY MasterAssumption DEF NextWorker, IInv, MTypeOK, Worker
<1>2. pc' # "store" /\ pc # "store"
  BY DEF NextWorker
<1>3. ASSUME NEW s \in Slot, reaped # NoPid, worker_pids[s] = reaped
      PROVE  pc' = "search" /\ k' <= Owner(s)
  <2>1. k < Owner(s)
    BY <1>3 DEF IInv, ReapedAhead
  <2> QED BY <1>1, <2>1, OwnerIsWorker, MasterAssumption DEF NextWorker
<1>4. ReapedAhead'
  BY <1>3 DEF ReapedAhead
<1> QED BY <1>1, <1>2, <1>4, Elsewhere

LEMMA QuietStep ==
  ASSUME IInv, SigInt \/ SigUsr1 \/ Forked \/ Monitor \/ Status \/ ScanHit \/ ScanMiss
                 \/ Reload \/ Stopping \/ UNCHANGED mvars
  PROVE  IInv'
<1>1. CASE SigInt \/ SigUsr1 \/ UNCHANGED mvars
  <2>1. UNCHANGED <<proc, main, worker_pids, last_pid>>
    BY <1>1 DEF SigInt, SigUsr1, mvars, arrays, bounds
  <2>2. UNCHANGED <<proc, worker_pids, forking, last_pid, reaped>> /\ k' = k /\ pc' = pc
    BY <2>1 DEF main
  <2>3. k' \in Worker /\ ReapedAhead'
    BY <2>2 DEF IInv, MTypeOK, ReapedAhead
  <2> QED BY <2>2, <2>3, Elsewhere
<1>2. CASE Forked \/ Monitor \/ ScanHit \/ Stopping
  <2>1. UNCHANGED <<proc, worker_pids, forking, last_pid, reaped>> /\ k' = k
    BY <1>2 DEF Forked, Monitor, ScanHit, Stopping, arrays, bounds
  <2>2. pc # "store" /\ pc' # "store" /\ k' \in Worker
    BY <1>2, <2>1 DEF Forked, Monitor, ScanHit, Stopping, IInv, MTypeOK
  <2>3. ReapedAhead'
    BY <1>2, <2>1 DEF Forked, Monitor, ScanHit, Stopping, IInv, ReapedAhead
  <2> QED BY <2>1, <2>2, <2>3, Elsewhere
<1>3. CASE ScanMiss \/ Reload
  <2>1. UNCHANGED <<proc, worker_pids, forking, last_pid, reaped>> /\ NextWorker
    BY <1>3 DEF ScanMiss, Reload, arrays, bounds
  <2>2. pc \in {"scan", "reload"}
    BY <1>3 DEF ScanMiss, Reload
  <2> QED BY <2>1, <2>2, Onwards
<1>4. CASE Status
  <2>1. UNCHANGED <<proc, worker_pids, forking, last_pid, reaped>> /\ pc = "status"
    BY <1>4 DEF Status, arrays, bounds
  <2>2. CASE status # "SHUTDOWN"
    <3>1. pc' = "fork" /\ k' = k
      BY <1>4, <2>2 DEF Status
    <3>2. k' \in Worker /\ ReapedAhead'
      BY <2>1, <3>1 DEF IInv, MTypeOK, ReapedAhead
    <3> QED BY <2>1, <3>1, <3>2, Elsewhere
  <2>3. CASE status = "SHUTDOWN"
    BY <1>4, <2>1, <2>3, Onwards DEF Status
  <2> QED BY <2>2, <2>3
<1> QED BY <1>1, <1>2, <1>3, <1>4

\* A process that ends stays a child until it is reaped.
LEMMA EndsStep ==
  ASSUME IInv, SigAlrm \/ \E p \in Pid : Ends(p) \/ Crashes(p)
  PROVE  IInv'
<1> USE DEF IInv
<1>1. /\ UNCHANGED <<main, worker_pids, last_pid>>
      /\ proc' = proc \/ \E p \in Alive : proc' = [proc EXCEPT ![p] = "zombie"]
  BY DEF SigAlrm, Ends, Crashes, arrays, bounds, Alive
<1>2. pc' = pc /\ k' = k /\ reaped' = reaped /\ forking' = forking /\ worker_pids' = worker_pids
  BY <1>1 DEF main
<1>3. /\ proc' \in [Pid -> {"none", "alive", "zombie", "reaped"}]
      /\ Children' = Children
      /\ \A p \in Pid : proc[p] \in {"none", "reaped"} => proc'[p] = proc[p]
  BY <1>1 DEF MTypeOK, Alive, Children
<1>4. MTypeOK'
  BY <1>1, <1>2, <1>3 DEF MTypeOK
<1>5. PidsFresh' /\ ReapedGone'
  BY <1>1, <1>2, <1>3 DEF PidsFresh, ReapedGone, MTypeOK
<1>6. ForkingHeld' /\ ChildrenHeld' /\ SlotsHoldChildren' /\ SlotsDiffer' /\ ReapedAhead'
  BY <1>2, <1>3 DEF ForkingHeld, ChildrenHeld, SlotsHoldChildren, SlotsDiffer, ReapedAhead
<1> QED BY <1>4, <1>5, <1>6

LEMMA ForkStep == ASSUME IInv, Fork PROVE IInv'
<1> USE DEF IInv
<1> DEFINE new == last_pid + 1
<1>1. /\ new \in Pid /\ new # NoPid /\ last_pid \in Nat /\ last_pid' = new
      /\ proc' = [proc EXCEPT ![new] = "alive"]
  BY MasterAssumption DEF Fork, MTypeOK, Pid, NoPid
<1>2. /\ pc = "fork" /\ pc' = "store"
      /\ k' = k /\ reaped' = reaped /\ worker_pids' = worker_pids
  BY DEF Fork, arrays
<1>3. PICK free \in FreeSlots : forking' = [slot |-> free, pid |-> new]
  BY DEF Fork
<1>4. proc[new] = "none"
  BY <1>1 DEF PidsFresh
<1>5. Children' = Children \cup {new} /\ new \notin Children /\ new # reaped
  BY <1>1, <1>4 DEF Children, ReapedGone, MTypeOK
<1>6. \A s \in Slot : worker_pids[s] # new
  BY <1>1, <1>5 DEF SlotsHoldChildren
<1>7. MTypeOK'
  <2>1. free \in Slot
    BY <1>3 DEF FreeSlots
  <2>2. last_pid' \in 0 .. MaxPid
    BY <1>1 DEF Pid
  <2> QED BY <1>1, <1>2, <1>3, <2>1, <2>2 DEF MTypeOK
<1>8. PidsFresh'
  BY <1>1 DEF PidsFresh, MTypeOK, Pid
<1>9. ReapedGone'
  BY <1>1, <1>2, <1>5 DEF ReapedGone, MTypeOK
<1>10. ForkingHeld'
  BY <1>2, <1>3, <1>5, <1>6 DEF ForkingHeld, FreeSlots
<1>11. ChildrenHeld'
  <2>1. forking.pid = NoPid /\ NoPid \notin Children
    BY <1>2 DEF ForkingHeld, NotForking, Children, Pid, NoPid
  <2> QED BY <1>2, <1>3, <1>5, <2>1 DEF ChildrenHeld
<1>12. SlotsHoldChildren' /\ SlotsDiffer' /\ ReapedAhead'
  BY <1>2, <1>5 DEF SlotsHoldChildren, SlotsDiffer, ReapedAhead
<1> QED BY <1>7, <1>8, <1>9, <1>10, <1>11, <1>12

LEMMA StoreStep == ASSUME IInv, Store PROVE IInv'
<1> USE DEF IInv
<1> DEFINE slot == forking.slot
           pid == forking.pid
<1>1. /\ pc = "store" /\ pc' = "fork" /\ forking' = NotForking
      /\ worker_pids' = [worker_pids EXCEPT ![slot] = pid]
      /\ proc' = proc /\ k' = k /\ reaped' = reaped /\ last_pid' = last_pid
  BY DEF Store, bounds
<1>2. /\ slot \in Slot /\ worker_pids[slot] = NoPid /\ pid \in Children /\ pid \in Pid
      /\ \A s \in Slot : worker_pids[s] # pid
  BY <1>1 DEF ForkingHeld, Children
<1> HIDE DEF slot, pid
<1>3. worker_pids'[slot] = pid /\ \A s \in Slot : s # slot => worker_pids'[s] = worker_pids[s]
  BY <1>1, <1>2 DEF MTypeOK
<1>4. Children' = Children /\ NoPid \notin Children
  BY <1>1 DEF Children, Pid, NoPid
<1>5. MTypeOK'
  <2>1. NotForking \in [slot : Slot \cup {0}, pid : Pid \cup {NoPid}]
    BY DEF NotForking
  <2> QED BY <1>1, <1>2, <2>1 DEF MTypeOK
<1>6. PidsFresh' /\ ReapedGone' /\ ForkingHeld'
  BY <1>1 DEF PidsFresh, ReapedGone, ForkingHeld
<1>7. ChildrenHeld'
  <2> SUFFICES ASSUME NEW p \in Children PROVE \E s \in Slot : worker_pids'[s] = p
    BY <1>4 DEF ChildrenHeld
  <2>1. CASE p = pid
    BY <1>2, <1>3, <2>1
  <2>2. CASE p # pid
    <3>1. PICK s \in Slot : worker_pids[s] = p
      BY <2>2 DEF ChildrenHeld, pid
    <3>2. s # slot
      BY <1>2, <1>4, <3>1
    <3> QED BY <1>3, <3>1, <3>2
  <2> QED BY <2>1, <2>2
<1>8. SlotsHoldChildren'
  BY <1>1, <1>2, <1>3, <1>4 DEF SlotsHoldChildren
<1>9. SlotsDiffer'
  BY <1>2, <1>3 DEF SlotsDiffer
<1>10. ReapedAhead'
  <2>1. reaped # NoPid => pid # reaped
    BY <1>2 DEF ReapedGone, Children
  <2> QED BY <1>1, <1>3, <2>1 DEF ReapedAhead
<1> QED BY <1>5, <1>6, <1>7, <1>8, <1>9, <1>10

LEMMA WaitPidStep == ASSUME IInv, WaitPid PROVE IInv'
<1> USE DEF IInv
<1>1. PICK p \in Pid : /\ proc[p] = "zombie"
                       /\ proc' = [proc EXCEPT ![p] = "reaped"]
                       /\ reaped' = p
  BY DEF WaitPid
<1>2. /\ pc = "wait" /\ pc' = "search" /\ k' = 1
      /\ forking' = forking /\ worker_pids' = worker_pids /\ last_pid' = last_pid
  BY DEF WaitPid, arrays, bounds
<1>3. Children' = Children \ {p} /\ p # NoPid /\ 1 \in Worker
  BY <1>1, MasterAssumption DEF Children, MTypeOK, Pid, NoPid, Worker
<1>4. MTypeOK'
  BY <1>1, <1>2, <1>3 DEF MTypeOK
<1>5. PidsFresh' /\ ReapedGone' /\ ForkingHeld'
  BY <1>1, <1>2 DEF PidsFresh, ReapedGone, ForkingHeld, MTypeOK
<1>6. ChildrenHeld'
  BY <1>2, <1>3 DEF ChildrenHeld
<1>7. SlotsHoldChildren'
  <2>1. \A s \in Slot : worker_pids[s] \in Children \cup {NoPid}
    BY <1>2 DEF SlotsHoldChildren, ReapedAhead
  <2> QED BY <1>1, <1>2, <1>3, <2>1 DEF SlotsHoldChildren
<1>8. SlotsDiffer' /\ ReapedAhead'
  BY <1>2, OwnerIsWorker DEF SlotsDiffer, ReapedAhead
<1> QED BY <1>4, <1>5, <1>6, <1>7, <1>8

LEMMA SearchStep == ASSUME IInv, Search PROVE IInv'
<1> USE DEF IInv
<1>1. /\ pc = "search" /\ pc' = "status" /\ k' = k /\ k \in Nat
      /\ proc' = proc /\ forking' = forking /\ reaped' = reaped /\ last_pid' = last_pid
      /\ forking = NotForking
  BY DEF Search, bounds, ForkingHeld, MTypeOK, Worker
<1>2. worker_pids' = [s \in Slot |->
        IF Owner(s) = k /\ worker_pids[s] = reaped THEN NoPid ELSE worker_pids[s]]
  BY DEF Search
<1>3. Children' = Children /\ reaped \notin Children
  BY <1>1 DEF Children, ReapedGone, MTypeOK, Pid, NoPid
<1>4. \A s \in Slot : worker_pids'[s] \in {NoPid, worker_pids[s]}
  BY <1>2
<1>5. MTypeOK'
  BY <1>1, <1>2, <1>4 DEF MTypeOK
<1>6. PidsFresh' /\ ReapedGone' /\ ForkingHeld'
  BY <1>1 DEF PidsFresh, ReapedGone, ForkingHeld
<1>7. ChildrenHeld'
  BY <1>1, <1>2, <1>3 DEF ChildrenHeld
<1>8. SlotsHoldChildren' /\ SlotsDiffer'
  BY <1>1, <1>3, <1>4 DEF SlotsHoldChildren, SlotsDiffer
<1>9. ReapedAhead'
  <2> SUFFICES ASSUME NEW s \in Slot, reaped # NoPid, worker_pids'[s] = reaped
               PROVE  k < Owner(s)
    BY <1>1 DEF ReapedAhead
  <2>1. worker_pids[s] = reaped /\ Owner(s) # k
    BY <1>2
  <2>2. k <= Owner(s)
    BY <1>1, <2>1 DEF ReapedAhead
  <2> QED BY <1>1, <2>1, <2>2, OwnerIsWorker
<1> QED BY <1>5, <1>6, <1>7, <1>8, <1>9

LEMMA IInvStep == IInv /\ [MNext]_mvars => IInv'
BY QuietStep, EndsStep, ForkStep, StoreStep, WaitPidStep, SearchStep DEF MNext, MainStep

-----------------------------------------------------------------------------
\* The inductive invariant holds of every master.
THEOREM SpecIInv == MSpec => []IInv
<1> QED BY InitIInv, IInvStep, PTL DEF MSpec

-----------------------------------------------------------------------------
(***************************************************************************)
(* Rolling restarts: as long as nobody sends a second SIGUSR1 or a SIGINT. *)
(* The one reloadable process that is under notice is the first that is    *)
(* left in _pidsToReload.                                                  *)
(***************************************************************************)
Calm == usr1s <= 1 /\ ~ pending_usr1 /\ ~ stopped

\* Before the first SIGUSR1 there is nothing to do.
NothingAsked ==
  usr1s = 0 => asked = {} /\ reload_num = 0 /\ kill_timers = <<>> /\ pc # "reload"

\* Who is asked to end has been in a slot.
AskedKnown == \A p \in asked : p \in Pid /\ proc[p] # "none" /\ p # forking.pid

HitReaped == pc = "reload" => pidsToReload[hit] = reaped

Leads(p) ==
  \E i \in Slot : /\ i <= reload_num /\ pidsToReload[i] = p
                  /\ \A j \in 1 .. i - 1 : pidsToReload[j] = NoPid

OnlyFirstAsked ==
  \A s \in Slot :
    Owner(s) \in Reloadable /\ worker_pids[s] \in asked \cap Alive => Leads(worker_pids[s])

\* A kill timer points to somebody who has been asked, or to an entry that has been
\* deleted since.
ReloadTimer == [array : {"reload"}, index : Slot]

TimersAsked ==
  /\ kill_timers \in Seq(ReloadTimer)
  /\ \A i \in 1 .. Len(kill_timers) :
       pidsToReload[kill_timers[i].index] \in asked \cup {NoPid}

InLoose(p) == \E s \in Slot : Owner(s) \in Reloadable /\ worker_pids[s] = p
InFixed(p) == \E s \in Slot : Owner(s) \notin Reloadable /\ worker_pids[s] = p

\* A master that has signalled itself does nothing else any more: no slot changes.
PendingForEver == pending_usr1 => InFixed(NoPid)

RollInv ==
  /\ PendingForEver
  /\ usr1s \in Nat /\ pidsToReload = [i \in Slot |-> pidsToReload[i]]
  /\ Calm => NothingAsked /\ AskedKnown /\ HitReaped /\ OnlyFirstAsked /\ TimersAsked

LEMMA InitRoll == MInit => RollInv
<1> SUFFICES ASSUME MInit PROVE RollInv
  OBVIOUS
<1> USE DEF MInit
<1>1. TimersAsked
  BY DEF TimersAsked
<1> QED
  BY <1>1 DEF RollInv, NothingAsked, AskedKnown, HitReaped, OnlyFirstAsked, PendingForEver

\* A set of one element at most, as a sequence.
LEMMA FewToSeq ==
  ASSUME NEW S, \A x, y \in S : x = y
  PROVE  /\ Cardinality(S) \in {0, 1}
         /\ \A i \in 1 .. Cardinality(S) : SetToSeq(S)[i] \in S
<1>1. CASE S = {}
  BY <1>1, FS_EmptySet
<1>2. ASSUME NEW x \in S
      PROVE  /\ Cardinality(S) \in {0, 1}
             /\ \A i \in 1 .. Cardinality(S) : SetToSeq(S)[i] \in S
  <2>1. S = {x}
    OBVIOUS
  <2>2. Cardinality(S) = 1
    BY <2>1, FS_Singleton
  <2>3. [i \in 1 .. 1 |-> x] \in [1 .. 1 -> S] /\ IsInjective([i \in 1 .. 1 |-> x])
    BY DEF IsInjective
  <2>4. SetToSeq(S) \in [1 .. 1 -> S]
    BY <2>2, <2>3 DEF SetToSeq
  <2> QED
    BY <2>2, <2>4
<1> QED
  BY <1>1, <1>2

\* What reload does.
Next1(i, n) ==
  /\ i \in Slot /\ i <= n /\ pidsToReload'[i] # NoPid /\ InLoose(pidsToReload'[i])
  /\ \A j \in 1 .. i - 1 : pidsToReload'[j] = NoPid

LEMMA ReloadDoes ==
  ASSUME NEW list, NEW n, reload(list, n)
  PROVE  /\ pidsToReload' = [i \in Slot |-> pidsToReload'[i]]
         /\ \A i \in Slot : /\ pidsToReload'[i] \in {list[i], NoPid}
                            /\ InLoose(list[i]) => pidsToReload'[i] = list[i]
         /\ (pending_usr1' <=> InFixed(NoPid))
         /\ ~ InFixed(NoPid) =>
              \A p \in asked' : \/ p \in asked
                                \/ p # NoPid /\ InFixed(p)
                                \/ \E i \in Slot : Next1(i, n) /\ pidsToReload'[i] = p
         /\ asked \subseteq asked'
         /\ kill_timers \in Seq(ReloadTimer) =>
              /\ kill_timers' \in Seq(ReloadTimer)
              /\ \A i \in 1 .. Len(kill_timers') :
                   \/ i \in 1 .. Len(kill_timers) /\ kill_timers'[i] = kill_timers[i]
                   \/ pidsToReload'[kill_timers'[i].index] \in asked'
<1> DEFINE fixed == {worker_pids[s] : s \in {s \in Slot : Owner(s) \notin Reloadable}}
           loose == {worker_pids[s] : s \in {s \in Slot : Owner(s) \in Reloadable}}
           left  == [i \in Slot |-> IF i <= n /\ list[i] \notin loose
                                      THEN NoPid ELSE list[i]]
           next  == first(left, n)
           new   == [i \in 1 .. Cardinality(next) |-> kill_timer("reload", SetToSeq(next)[i])]
<1>1. /\ pidsToReload' = left
      /\ pending_usr1' = (NoPid \in fixed)
      /\ asked' = asked \cup (fixed \ {NoPid}) \cup {left[i] : i \in next}
                    \cup (IF NoPid \in fixed THEN Alive ELSE {})
      /\ kill_timers' = kill_timers \o new
  BY DEF reload
<1>2. /\ \A p : p \in fixed <=> InFixed(p)
      /\ \A p : p \in loose <=> InLoose(p)
  BY DEF InFixed, InLoose
<1>3. \A i \in Slot : left[i] = IF i <= n /\ ~ InLoose(list[i]) THEN NoPid ELSE list[i]
  BY <1>2
<1>4. DOMAIN left = Slot /\ left = [i \in Slot |-> left[i]]
  OBVIOUS
<1>5. \A i \in next : /\ i \in Slot /\ i <= n /\ left[i] # NoPid
                      /\ \A j \in 1 .. i - 1 : left[j] = NoPid
  BY DEF first
<1> HIDE DEF fixed, loose, left, next, new
<1>6. \A i \in next : Next1(i, n)
  <2> SUFFICES ASSUME NEW i \in next
               PROVE  Next1(i, n)
    OBVIOUS
  <2>1. /\ i \in Slot /\ i <= n /\ left[i] # NoPid
        /\ \A j \in 1 .. i - 1 : left[j] = NoPid
    BY <1>5
  <2>2. InLoose(left[i])
    BY <1>3, <2>1
  <2> QED
    BY <1>1, <2>1, <2>2 DEF Next1
<1>7. /\ pidsToReload' = [i \in Slot |-> pidsToReload'[i]]
      /\ \A i \in Slot : /\ pidsToReload'[i] \in {list[i], NoPid}
                         /\ InLoose(list[i]) => pidsToReload'[i] = list[i]
  BY <1>1, <1>3, <1>4
<1>8. /\ (pending_usr1' <=> InFixed(NoPid))
      /\ asked \subseteq asked'
  BY <1>1, <1>2
<1>9. ASSUME ~ InFixed(NoPid), NEW p \in asked'
      PROVE  \/ p \in asked
             \/ p # NoPid /\ InFixed(p)
             \/ \E i \in Slot : Next1(i, n) /\ pidsToReload'[i] = p
  <2>1. p \in asked \/ p \in fixed \ {NoPid} \/ p \in {left[i] : i \in next}
    BY <1>1, <1>2, <1>9
  <2>2. CASE p \in {left[i] : i \in next}
    <3>1. PICK i \in next : p = left[i]
      BY <2>2
    <3> QED
      BY <1>1, <1>5, <1>6, <3>1
  <2> QED
    BY <1>2, <2>1, <2>2
<1>10. ASSUME kill_timers \in Seq(ReloadTimer)
       PROVE  /\ kill_timers' \in Seq(ReloadTimer)
              /\ \A i \in 1 .. Len(kill_timers') :
                   \/ i \in 1 .. Len(kill_timers) /\ kill_timers'[i] = kill_timers[i]
                   \/ pidsToReload'[kill_timers'[i].index] \in asked'
  <2>1. \A x, y \in next : x = y
    <3> SUFFICES ASSUME NEW x \in next, NEW y \in next, x < y
                 PROVE  FALSE
      BY <1>5 DEF Slot
    <3>1. x \in 1 .. y - 1
      BY <1>5 DEF Slot
    <3> QED
      BY <1>5, <3>1
  <2>2. /\ Cardinality(next) \in {0, 1}
        /\ \A i \in 1 .. Cardinality(next) : SetToSeq(next)[i] \in next
    BY <2>1, FewToSeq
  <2>3. /\ new \in Seq(ReloadTimer) /\ Len(new) = Cardinality(next)
        /\ \A i \in 1 .. Len(new) : new[i].index \in next
    <3>1. \A i \in 1 .. Cardinality(next) :
            kill_timer("reload", SetToSeq(next)[i]) \in ReloadTimer
      BY <1>5, <2>2 DEF kill_timer, ReloadTimer
    <3>2. new \in [1 .. Cardinality(next) -> ReloadTimer]
      BY <3>1 DEF new
    <3>3. new \in Seq(ReloadTimer) /\ Len(new) = Cardinality(next)
      BY <2>2, <3>2
    <3> QED
      BY <2>2, <3>3 DEF new, kill_timer
  <2>4. /\ kill_timers \o new \in Seq(ReloadTimer)
        /\ Len(kill_timers \o new) = Len(kill_timers) + Len(new)
        /\ \A i \in 1 .. Len(kill_timers) + Len(new) :
             (kill_timers \o new)[i] =
               IF i <= Len(kill_timers) THEN kill_timers[i] ELSE new[i - Len(kill_timers)]
    BY <1>10, <2>3, ConcatProperties
  <2>5. ASSUME NEW i \in 1 .. Len(kill_timers')
        PROVE  \/ i \in 1 .. Len(kill_timers) /\ kill_timers'[i] = kill_timers[i]
               \/ kill_timers'[i].index \in next
    <3> DEFINE m == Len(kill_timers)  w == Len(new)
    <3>1. m \in Nat /\ w \in Nat /\ i \in 1 .. m + w
      BY <1>1, <1>10, <2>3, <2>4, <2>5, LenProperties
    <3>2. kill_timers'[i] = IF i <= m THEN kill_timers[i] ELSE new[i - m]
      BY <1>1, <2>4, <3>1
    <3>3. \A j \in 1 .. w : new[j].index \in next
      BY <2>3
    <3> HIDE DEF m, w
    <3>4. i \in 1 .. m \/ (i - m \in 1 .. w /\ ~ (i <= m))
      BY <3>1
    <3>5. CASE i \in 1 .. m
      BY <3>1, <3>2, <3>5 DEF m
    <3>6. CASE i - m \in 1 .. w /\ ~ (i <= m)
      BY <3>2, <3>3, <3>6
    <3> QED
      BY <3>4, <3>5, <3>6
  <2>6. \A i \in next : pidsToReload'[i] \in asked'
    BY <1>1
  <2> QED
    BY <1>1, <2>4, <2>5, <2>6
<1> QED
  BY <1>7, <1>8, <1>9, <1>10

\* Most steps ask nobody, and nobody is put in a slot or comes to life who has been
\* asked.
LEMMA RollKeeps ==
  ASSUME RollInv, pending_usr1 => UNCHANGED worker_pids,
         UNCHANGED <<usr1s, pending_usr1, stopped, pidsToReload, reload_num, kill_timers, asked>>,
         \A p \in Pid : proc[p] # "none" => proc'[p] # "none",
         \A p \in asked : Calm => p # forking'.pid,
         \A s \in Slot : Calm /\ worker_pids'[s] \in asked \cap Alive' =>
                           worker_pids'[s] = worker_pids[s] /\ worker_pids[s] \in Alive,
         Calm /\ pc' = "reload" => usr1s # 0 /\ pidsToReload[hit'] = reaped'
  PROVE  RollInv'
<1>1. Calm' <=> Calm
  BY DEF Calm
<1>2. ASSUME Calm
      PROVE  NothingAsked' /\ AskedKnown' /\ HitReaped' /\ OnlyFirstAsked' /\ TimersAsked'
  <2>1. NothingAsked' /\ AskedKnown' /\ HitReaped'
    BY <1>2 DEF RollInv, NothingAsked, AskedKnown, HitReaped
  <2>2. TimersAsked'
    BY <1>2 DEF RollInv, TimersAsked
  <2>3. OnlyFirstAsked'
    <3>1. \A p : Leads(p)' <=> Leads(p)
      BY DEF Leads
    <3> QED
      BY <1>2, <3>1 DEF RollInv, OnlyFirstAsked
  <2> QED
    BY <2>1, <2>2, <2>3
<1>3. PendingForEver'
  BY DEF RollInv, PendingForEver, InFixed
<1> QED
  BY <1>1, <1>2, <1>3 DEF RollInv

\* A reload leaves the first that has been asked where it is, if it still runs.
LEMMA RollReload ==
  ASSUME IInv, NEW list, NEW n, reload(list, n), Calm', reload_num' = n,
         pc' # "reload", usr1s' # 0, usr1s' \in Nat,
         UNCHANGED <<proc, forking, worker_pids>>,
         AskedKnown, kill_timers \in Seq(ReloadTimer),
         \A i \in 1 .. Len(kill_timers) :
           list[kill_timers[i].index] \in asked \cup {NoPid},
         \A s \in Slot : Owner(s) \in Reloadable /\ worker_pids[s] \in asked \cap Alive =>
           \E i \in Slot : /\ i <= n /\ list[i] = worker_pids[s]
                           /\ \A j \in 1 .. i - 1 : list[j] = NoPid
  PROVE  RollInv'
<1> DEFINE new(p) == \/ p \in asked
                     \/ p # NoPid /\ InFixed(p)
                     \/ \E i \in Slot : Next1(i, n) /\ pidsToReload'[i] = p
<1>1. /\ pidsToReload' = [i \in Slot |-> pidsToReload'[i]]
      /\ \A i \in Slot : /\ pidsToReload'[i] \in {list[i], NoPid}
                         /\ InLoose(list[i]) => pidsToReload'[i] = list[i]
      /\ asked \subseteq asked'
      /\ \A p \in asked' : new(p)
  BY ReloadDoes DEF Calm
<1>2. /\ kill_timers' \in Seq(ReloadTimer)
      /\ \A i \in 1 .. Len(kill_timers') :
           \/ i \in 1 .. Len(kill_timers) /\ kill_timers'[i] = kill_timers[i]
           \/ pidsToReload'[kill_timers'[i].index] \in asked'
  BY ReloadDoes
<1>3. NothingAsked' /\ HitReaped'
  BY DEF NothingAsked, HitReaped
<1>4. ASSUME NEW p, p # NoPid, \E s \in Slot : worker_pids[s] = p
      PROVE  p \in Pid /\ proc[p] # "none" /\ p # forking.pid
  <2>1. p \in Pid
    BY <1>4 DEF IInv, MTypeOK
  <2>2. p \in Children \/ p = reaped
    BY <1>4 DEF IInv, SlotsHoldChildren
  <2>3. proc[p] # "none"
    BY <1>4, <2>1, <2>2 DEF IInv, ReapedGone, Children
  <2>4. p # forking.pid
    BY <1>4 DEF IInv, ForkingHeld, NotForking
  <2> QED
    BY <2>1, <2>3, <2>4
<1>5. AskedKnown'
  <2> SUFFICES ASSUME NEW p \in asked'
               PROVE  p \in Pid /\ proc[p] # "none" /\ p # forking.pid
    BY DEF AskedKnown
  <2>1. CASE p \in asked
    BY <2>1 DEF AskedKnown
  <2>2. CASE p # NoPid /\ InFixed(p)
    BY <1>4, <2>2 DEF InFixed
  <2>3. CASE \E i \in Slot : Next1(i, n) /\ pidsToReload'[i] = p
    BY <1>4, <2>3 DEF Next1, InLoose
  <2> QED
    BY <1>1, <2>1, <2>2, <2>3
<1>6. OnlyFirstAsked'
  <2> SUFFICES ASSUME NEW s \in Slot, Owner(s) \in Reloadable, worker_pids[s] \in asked' \cap Alive
               PROVE  \E i \in Slot : /\ i <= n /\ pidsToReload'[i] = worker_pids[s]
                                      /\ \A j \in 1 .. i - 1 : pidsToReload'[j] = NoPid
    BY DEF OnlyFirstAsked, Leads, Alive
  <2> DEFINE p == worker_pids[s]
  <2>1. InLoose(p) /\ p # NoPid
    BY DEF InLoose, Alive, Pid, NoPid
  <2>2. CASE p \in asked
    <3>1. PICK i \in Slot : i <= n /\ list[i] = p /\ \A j \in 1 .. i - 1 : list[j] = NoPid
      BY <2>2
    <3>2. pidsToReload'[i] = p
      BY <1>1, <2>1, <3>1
    <3>3. \A j \in 1 .. i - 1 : j \in Slot
      BY EarlierSlots
    <3>4. \A j \in 1 .. i - 1 : pidsToReload'[j] = NoPid
      BY <1>1, <3>1, <3>3
    <3> QED
      BY <3>1, <3>2, <3>4
  <2>3. ~ InFixed(p)
    BY <2>1 DEF InFixed, IInv, SlotsDiffer
  <2>4. CASE \E i \in Slot : Next1(i, n) /\ pidsToReload'[i] = p
    BY <2>4 DEF Next1
  <2> QED
    BY <1>1, <2>2, <2>3, <2>4
<1>7. TimersAsked'
  <2>1. ASSUME NEW i \in 1 .. Len(kill_timers), kill_timers'[i] = kill_timers[i]
        PROVE  pidsToReload'[kill_timers'[i].index] \in asked' \cup {NoPid}
    <3>1. kill_timers[i] \in ReloadTimer
      BY ElementOfSeq
    <3>2. kill_timers[i].index \in Slot
      BY <3>1 DEF ReloadTimer
    <3> QED
      BY <1>1, <2>1, <3>2
  <2> QED
    BY <1>2, <2>1 DEF TimersAsked
<1>8. PendingForEver'
  <2>1. pending_usr1' <=> InFixed(NoPid)
    BY ReloadDoes
  <2> QED
    BY <2>1 DEF PendingForEver, InFixed
<1> QED
  BY <1>1, <1>3, <1>5, <1>6, <1>7, <1>8 DEF RollInv

LEMMA RollStep == IInv /\ RollInv /\ [MNext]_mvars => RollInv'
<1> SUFFICES ASSUME IInv, RollInv, [MNext]_mvars
             PROVE  RollInv'
  OBVIOUS
<1>1. CASE Fork
  <2> DEFINE new == last_pid + 1
  <2>1. /\ proc' = [proc EXCEPT ![new] = "alive"] /\ forking'.pid = new
        /\ UNCHANGED <<arrays, kill_timers, asked, stopped, pending_usr1, usr1s>> /\ pc' = "store"
    BY <1>1 DEF Fork
  <2>2. new \in Pid /\ proc[new] = "none"
    BY <1>1, MasterAssumption DEF Fork, IInv, MTypeOK, PidsFresh, Pid
  <2> HIDE DEF new
  <2>3. /\ \A p \in Pid : proc[p] # "none" => proc'[p] # "none"
        /\ \A p \in Alive' : p = new \/ p \in Alive
    BY <2>1, <2>2 DEF Alive, IInv, MTypeOK
  <2>4. Calm => new \notin asked
    BY <2>2 DEF RollInv, AskedKnown
  <2> QED
    BY <2>1, <2>3, <2>4, RollKeeps DEF arrays
<1>2. CASE Store
  <2> DEFINE s == forking.slot  p == forking.pid
  <2>1. /\ worker_pids' = [worker_pids EXCEPT ![s] = p] /\ forking' = NotForking
        /\ UNCHANGED <<proc, pidsToReload, reload_num, signals, usr1s>> /\ pc' = "fork"
        /\ ~ pending_usr1
    BY <1>2 DEF Store, bounds
  <2>2. Alive' = Alive
    BY <2>1 DEF Alive
  <2>3. Calm => p \notin asked /\ \A q \in asked : q # NoPid
    BY DEF RollInv, AskedKnown, Pid, NoPid
  <2>4. \A r \in Slot : worker_pids'[r] \in {worker_pids[r], p}
    BY <2>1 DEF IInv, MTypeOK
  <2> QED
    BY <2>1, <2>2, <2>3, <2>4, RollKeeps DEF signals, NotForking
<1>3. CASE Forked \/ Monitor \/ Status \/ ScanMiss \/ Stopping \/ UNCHANGED mvars
  <2>1. /\ UNCHANGED <<proc, forking, worker_pids, pidsToReload, reload_num, signals, usr1s>>
        /\ pc' = "reload" => UNCHANGED <<pc, hit, reaped>>
    BY <1>3 DEF Forked, Monitor, Status, ScanMiss, Stopping, NextWorker, mvars, main, arrays, bounds
  <2>2. Alive' = Alive
    BY <2>1 DEF Alive
  <2>3. Calm => \A p \in asked : p # forking.pid
    BY DEF RollInv, AskedKnown
  <2>4. Calm /\ pc' = "reload" => usr1s # 0 /\ pidsToReload[hit'] = reaped'
    BY <2>1 DEF RollInv, NothingAsked, HitReaped
  <2> QED
    BY <2>1, <2>2, <2>3, <2>4, RollKeeps DEF signals
<1>4. CASE WaitPid
  <2>1. /\ UNCHANGED <<forking, arrays, signals, bounds>> /\ pc' = "search"
        /\ \E p \in Pid : proc' = [proc EXCEPT ![p] = "reaped"]
    BY <1>4 DEF WaitPid
  <2>2. /\ \A p \in Pid : proc[p] # "none" => proc'[p] # "none"
        /\ Alive' \subseteq Alive
    BY <2>1 DEF Alive, IInv, MTypeOK
  <2>3. Calm => \A p \in asked : p # forking.pid
    BY DEF RollInv, AskedKnown
  <2> QED
    BY <2>1, <2>2, <2>3, RollKeeps DEF arrays, signals, bounds
<1>5. CASE Search
  <2>1. /\ UNCHANGED <<proc, forking, pidsToReload, reload_num, signals, bounds>> /\ pc' = "status"
        /\ \A s \in Slot : worker_pids'[s] \in {worker_pids[s], NoPid}
        /\ ~ pending_usr1
    BY <1>5 DEF Search
  <2>2. Alive' = Alive
    BY <2>1 DEF Alive
  <2>3. Calm => \A p \in asked : p # forking.pid /\ p # NoPid
    BY DEF RollInv, AskedKnown, Pid, NoPid
  <2> QED
    BY <2>1, <2>2, <2>3, RollKeeps DEF signals, bounds
<1>6. CASE ScanHit
  <2>1. /\ UNCHANGED <<proc, reaped, forking, arrays, signals, bounds>> /\ pc' = "reload"
        /\ \E i \in 1 .. reload_num : pidsToReload[i] = reaped /\ hit' = i
    BY <1>6 DEF ScanHit
  <2>2. Alive' = Alive
    BY <2>1 DEF Alive
  <2>3. Calm => \A p \in asked : p # forking.pid
    BY DEF RollInv, AskedKnown
  <2>4. Calm => usr1s # 0 /\ pidsToReload[hit'] = reaped
    BY <2>1 DEF RollInv, NothingAsked
  <2> QED
    BY <2>1, <2>2, <2>3, <2>4, RollKeeps DEF arrays, signals, bounds
<1>7. CASE Reload
  <2> DEFINE list == [pidsToReload EXCEPT ![hit] = NoPid]
  <2>1. /\ reload(list, reload_num) /\ pc = "reload" /\ ~ pending_usr1 /\ NextWorker
        /\ UNCHANGED <<proc, forking, worker_pids, reload_num, stopped, usr1s>>
    BY <1>7 DEF Reload, bounds
  <2>2. /\ pidsToReload = [i \in Slot |-> pidsToReload[i]] /\ usr1s \in Nat
        /\ \A i \in Slot : list[i] = IF i = hit THEN NoPid ELSE pidsToReload[i]
    BY DEF RollInv
  <2> HIDE DEF list
  <2>3. pc' # "reload"
    BY <2>1 DEF NextWorker
  <2>4. (pending_usr1' <=> InFixed(NoPid)) /\ pidsToReload' = [i \in Slot |-> pidsToReload'[i]]
    BY <2>1, ReloadDoes
  <2>5. CASE ~ Calm'
    BY <2>1, <2>2, <2>4, <2>5 DEF RollInv, PendingForEver, InFixed
  <2>6. CASE Calm'
    <3>1. Calm
      BY <2>1, <2>4, <2>6 DEF Calm
    <3>2. /\ usr1s # 0 /\ pidsToReload[hit] = reaped
          /\ AskedKnown /\ OnlyFirstAsked /\ TimersAsked
      BY <2>1, <3>1 DEF RollInv, NothingAsked, HitReaped
    <3>3. ASSUME NEW i \in 1 .. Len(kill_timers)
          PROVE  list[kill_timers[i].index] \in asked \cup {NoPid}
      <4>1. kill_timers[i] \in ReloadTimer
        BY <3>2, ElementOfSeq DEF TimersAsked
      <4>2. kill_timers[i].index \in Slot
        BY <4>1 DEF ReloadTimer
      <4> QED
        BY <2>2, <3>2, <4>2 DEF TimersAsked
    <3>4. ASSUME NEW s \in Slot, Owner(s) \in Reloadable, worker_pids[s] \in asked \cap Alive
          PROVE  \E i \in Slot : /\ i <= reload_num /\ list[i] = worker_pids[s]
                                 /\ \A j \in 1 .. i - 1 : list[j] = NoPid
      <4>1. PICK i \in Slot : /\ i <= reload_num /\ pidsToReload[i] = worker_pids[s]
                              /\ \A j \in 1 .. i - 1 : pidsToReload[j] = NoPid
        BY <3>2, <3>4 DEF OnlyFirstAsked, Leads
      <4>2. worker_pids[s] # reaped
        BY <3>4 DEF IInv, ReapedGone, Alive, Pid, NoPid
      <4>3. \A j \in 1 .. i - 1 : j \in Slot
        BY EarlierSlots
      <4> QED
        BY <2>2, <3>2, <4>1, <4>2, <4>3
    <3>5. kill_timers \in Seq(ReloadTimer)
      BY <3>2 DEF TimersAsked
    <3>6. reload_num' = reload_num /\ usr1s' # 0 /\ usr1s' \in Nat
      BY <2>1, <2>2, <3>2
    <3> QED
      BY <2>1, <2>3, <2>6, <3>2, <3>3, <3>4, <3>5, <3>6, RollReload
  <2> QED
    BY <2>5, <2>6
<1>8. CASE SigInt
  <2>1. /\ stopped' /\ usr1s' = usr1s /\ pidsToReload' = pidsToReload
        /\ UNCHANGED <<worker_pids, pending_usr1>>
    BY <1>8 DEF SigInt
  <2> QED
    BY <2>1 DEF RollInv, Calm, PendingForEver, InFixed
<1>9. CASE SigUsr1
  <2> DEFINE n == Len(getAllWorkerPids)
             list == overwrite(pidsToReload, getAllWorkerPids)
  <2>1. /\ reload(list, n) /\ reload_num' = n
        /\ usr1s' = usr1s + 1 \/ (pending_usr1 /\ usr1s' = usr1s)
        /\ UNCHANGED <<proc, main, worker_pids, stopped>>
    <3>1. /\ reload(list, n) /\ reload_num' = n
          /\ UNCHANGED <<proc, main, worker_pids, stopped>>
      BY <1>9 DEF SigUsr1
    <3>2. usr1s' = usr1s + 1 \/ (pending_usr1 /\ usr1s' = usr1s)
      BY <1>9 DEF SigUsr1
    <3> QED
      BY <3>1, <3>2
  <2> HIDE DEF n, list
  <2>2. (pending_usr1' <=> InFixed(NoPid)) /\ pidsToReload' = [i \in Slot |-> pidsToReload'[i]]
    BY <2>1, ReloadDoes
  <2>3. /\ usr1s \in Nat /\ usr1s' \in Nat
        /\ Calm' => usr1s' = usr1s + 1 /\ usr1s' # 0
    BY <2>1, <2>2 DEF RollInv, PendingForEver, Calm
  <2>4. CASE ~ Calm'
    BY <2>1, <2>2, <2>3, <2>4 DEF RollInv, PendingForEver, InFixed
  <2>5. CASE Calm'
    <3>1. Calm /\ usr1s = 0
      <4>1. usr1s' <= 1 /\ ~ pending_usr1' /\ ~ stopped'
        BY <2>5 DEF Calm
      <4>2. usr1s = 0 /\ usr1s <= 1
        BY <2>3, <2>5, <4>1
      <4>3. ~ pending_usr1 /\ ~ stopped
        BY <2>1, <2>2, <4>1 DEF RollInv, PendingForEver
      <4> QED
        BY <4>2, <4>3 DEF Calm
    <3>2. asked = {} /\ kill_timers = <<>> /\ pc # "reload" /\ AskedKnown
      BY <3>1 DEF RollInv, NothingAsked
    <3>3. kill_timers \in Seq(ReloadTimer) /\ 1 .. Len(kill_timers) = {}
      BY <3>2
    <3>4. pc' # "reload" /\ UNCHANGED <<proc, forking, worker_pids>>
      BY <2>1, <3>2 DEF main
    <3> QED
      BY <2>1, <2>3, <2>5, <3>2, <3>3, <3>4, RollReload
  <2> QED
    BY <2>4, <2>5
<1>10. CASE SigAlrm
  <2>1. /\ UNCHANGED <<main, arrays, asked, stopped, late, pending_usr1, bounds>>
        /\ kill_timers # <<>> /\ kill_timers' = Tail(kill_timers)
        /\ proc' = proc \/ \E p \in Pid : proc[p] = "alive" /\ proc' = [proc EXCEPT ![p] = "zombie"]
    BY <1>10 DEF SigAlrm, Alive
  <2>2. /\ UNCHANGED <<pc, hit, reaped, forking, worker_pids, pidsToReload, reload_num, usr1s>>
        /\ (Calm' <=> Calm)
    BY <2>1 DEF main, arrays, bounds, Calm
  <2>3. /\ \A p \in Pid : proc[p] # "none" => proc'[p] # "none"
        /\ Alive' \subseteq Alive
    BY <2>1 DEF Alive, IInv, MTypeOK
  <2>4. ASSUME Calm
        PROVE  NothingAsked' /\ AskedKnown' /\ HitReaped' /\ OnlyFirstAsked'
    <3>1. NothingAsked' /\ AskedKnown' /\ HitReaped'
      BY <2>1, <2>2, <2>3, <2>4 DEF RollInv, NothingAsked, AskedKnown, HitReaped
    <3>2. \A p : Leads(p)' <=> Leads(p)
      BY <2>2 DEF Leads
    <3> QED
      BY <2>1, <2>2, <2>3, <2>4, <3>1, <3>2 DEF RollInv, OnlyFirstAsked
  <2>5. ASSUME Calm
        PROVE  TimersAsked'
    <3>1. /\ kill_timers \in Seq(ReloadTimer)
          /\ \A i \in 1 .. Len(kill_timers) :
               pidsToReload[kill_timers[i].index] \in asked \cup {NoPid}
      BY <2>5 DEF RollInv, TimersAsked
    <3>2. /\ kill_timers' \in Seq(ReloadTimer) /\ Len(kill_timers') = Len(kill_timers) - 1
          /\ \A i \in 1 .. Len(kill_timers') : kill_timers'[i] = kill_timers[i + 1]
      BY <2>1, <3>1, HeadTailProperties
    <3>3. Len(kill_timers) \in Nat
      BY <3>1, LenProperties
    <3>4. \A i \in 1 .. Len(kill_timers') : i + 1 \in 1 .. Len(kill_timers)
      BY <3>2, <3>3
    <3> QED
      BY <2>1, <2>2, <3>1, <3>2, <3>4 DEF TimersAsked
  <2> QED
    BY <2>1, <2>2, <2>4, <2>5 DEF RollInv, PendingForEver, InFixed
<1>11. ASSUME NEW p \in Pid, Ends(p) \/ Crashes(p)
       PROVE  RollInv'
  <2>1. /\ UNCHANGED <<main, arrays, signals, usr1s>> /\ proc' = [proc EXCEPT ![p] = "zombie"]
    BY <1>11 DEF Ends, Crashes, bounds
  <2>2. UNCHANGED <<pc, hit, reaped, forking, worker_pids, pidsToReload, reload_num>>
    BY <2>1 DEF main, arrays
  <2>3. /\ \A q \in Pid : proc[q] # "none" => proc'[q] # "none"
        /\ Alive' \subseteq Alive
    BY <2>1 DEF Alive, IInv, MTypeOK
  <2>4. Calm => \A q \in asked : q # forking.pid
    BY DEF RollInv, AskedKnown
  <2>5. Calm /\ pc' = "reload" => usr1s # 0 /\ pidsToReload[hit'] = reaped'
    BY <2>2 DEF RollInv, NothingAsked, HitReaped
  <2> QED
    BY <2>1, <2>2, <2>3, <2>4, <2>5, RollKeeps DEF signals
<1> QED
  BY <1>1, <1>2, <1>3, <1>4, <1>5, <1>6, <1>7, <1>8, <1>9, <1>10, <1>11 DEF MNext, MainStep

LEMMA CrashesCounted == crashes \in Nat /\ [MNext]_mvars => crashes' \in Nat
BY DEF MNext, MainStep, Fork, Store, Forked, Monitor, WaitPid, Search, Status, ScanHit, ScanMiss,
   Reload, Stopping, SigInt, SigUsr1, SigAlrm, Ends, Crashes, mvars, bounds

\* As long as nobody sends a second SIGUSR1 or a SIGINT, one reloadable process at
\* most is under notice.
THEOREM RollsOneByOne == MSpec => []RollingReload
<1>1. IInv /\ RollInv => RollingReload
  <2> SUFFICES ASSUME IInv, RollInv, Calm
               PROVE  Cardinality({s \in Slot : /\ Owner(s) \in Reloadable
                                                /\ worker_pids[s] \in asked \cap Alive}) <= 1
    BY DEF RollingReload, Calm
  <2> DEFINE S == {s \in Slot : Owner(s) \in Reloadable /\ worker_pids[s] \in asked \cap Alive}
  <2>1. ASSUME NEW r \in S, NEW s \in S
        PROVE  r = s
    <3>1. Leads(worker_pids[r]) /\ Leads(worker_pids[s])
      BY DEF RollInv, OnlyFirstAsked
    <3>2. PICK i \in Slot : /\ pidsToReload[i] = worker_pids[r]
                            /\ \A j \in 1 .. i - 1 : pidsToReload[j] = NoPid
      BY <3>1 DEF Leads
    <3>3. PICK h \in Slot : /\ pidsToReload[h] = worker_pids[s]
                            /\ \A j \in 1 .. h - 1 : pidsToReload[j] = NoPid
      BY <3>1 DEF Leads
    <3>4. worker_pids[r] # NoPid /\ worker_pids[s] # NoPid
      BY DEF Alive, Pid, NoPid
    <3>5. i = h \/ i \in 1 .. h - 1 \/ h \in 1 .. i - 1
      BY DEF Slot
    <3>6. i = h
      BY <3>2, <3>3, <3>4, <3>5
    <3> QED
      BY <3>2, <3>3, <3>4, <3>6 DEF IInv, SlotsDiffer
  <2>2. Cardinality(S) \in {0, 1}
    BY <2>1, FewToSeq
  <2> QED
    BY <2>2
<1>2. MInit => IInv /\ RollInv
  BY InitIInv, InitRoll
<1>3. IInv /\ RollInv /\ [MNext]_mvars => (IInv /\ RollInv)'
  BY IInvStep, RollStep
<1> QED
  BY <1>1, <1>2, <1>3, PTL DEF MSpec

\* Until then a kill timer hits nobody who has not been asked to end.
THEOREM KillsTheAsked == MSpec => KillsOnRequest
<1>1. IInv /\ RollInv /\ crashes \in Nat /\ [MNext]_mvars => [Calm => Spared]_mvars
  <2> SUFFICES ASSUME IInv, RollInv, crashes \in Nat, MNext, Calm, NEW p \in Alive \ asked, proc'[p] = "zombie"
               PROVE  crashes' # crashes
    BY DEF Spared
  <2>1. p \in Pid /\ proc[p] = "alive"
    BY DEF Alive
  <2>2. CASE MainStep \/ SigInt \/ SigUsr1
    <3>1. \/ proc' = proc
          \/ \E q \in Nat : proc' = [proc EXCEPT ![q] = "alive"]
          \/ \E q \in Pid : proc' = [proc EXCEPT ![q] = "reaped"]
      BY <2>2 DEF MainStep, Fork, Store, Forked, Monitor, WaitPid, Search, Status, ScanHit,
         ScanMiss, Reload, Stopping, SigInt, SigUsr1, IInv, MTypeOK
    <3> QED
      BY <2>1, <3>1 DEF IInv, MTypeOK
  <2>3. CASE SigAlrm
    <3> DEFINE t == Head(kill_timers)
    <3>1. kill_timers # <<>> /\ (proc' = proc \/ proc' = [proc EXCEPT ![deref(t)] = "zombie"])
      BY <2>3 DEF SigAlrm
    <3>2. /\ kill_timers \in Seq(ReloadTimer)
          /\ \A i \in 1 .. Len(kill_timers) :
               pidsToReload[kill_timers[i].index] \in asked \cup {NoPid}
      BY DEF RollInv, TimersAsked
    <3>3. t \in ReloadTimer /\ t = kill_timers[1] /\ 1 \in 1 .. Len(kill_timers)
      BY <3>1, <3>2, HeadTailProperties, EmptySeq
    <3>4. deref(t) \in asked \cup {NoPid}
      BY <3>2, <3>3 DEF deref, ReloadTimer
    <3>5. p # deref(t)
      BY <2>1, <3>4 DEF Pid, NoPid
    <3> QED
      BY <2>1, <3>1, <3>5 DEF IInv, MTypeOK
  <2>4. ASSUME NEW q \in Pid, Ends(q)
        PROVE  FALSE
    BY <2>1, <2>4 DEF Ends, IInv, MTypeOK
  <2>5. ASSUME NEW q \in Pid, Crashes(q)
        PROVE  crashes' # crashes
    BY <2>5 DEF Crashes
  <2> QED
    BY <2>2, <2>3, <2>4, <2>5 DEF MNext
<1>2. MInit => IInv /\ RollInv /\ crashes \in Nat
  BY InitIInv, InitRoll DEF MInit
<1>3. IInv /\ RollInv /\ crashes \in Nat /\ [MNext]_mvars => (IInv /\ RollInv /\ crashes \in Nat)'
  BY IInvStep, RollStep, CrashesCounted
<1> QED
  BY <1>1, <1>2, <1>3, PTL DEF MSpec, KillsOnRequest, Calm

-----------------------------------------------------------------------------
(***************************************************************************)
(* A SIGINT is seen by all but the late.                                   *)
(***************************************************************************)
LEMMA StopSeenStep == IInv /\ StopSeen /\ [MNext]_mvars => StopSeen'
<1> SUFFICES ASSUME IInv, StopSeen, [MNext]_mvars
             PROVE  StopSeen'
  OBVIOUS
<1>1. CASE SigInt
  <2>1. /\ asked' = asked \cup InSlots /\ late' = late \cup ({forking.pid} \ {NoPid})
        /\ proc' = proc
    BY <1>1 DEF SigInt
  <2>2. \A p \in Alive : p # NoPid /\ (p = forking.pid \/ p \in InSlots)
    BY DEF IInv, ChildrenHeld, Children, Alive, InSlots, Pid, NoPid
  <2> QED
    BY <2>1, <2>2 DEF StopSeen, Alive
<1>2. CASE Fork
  <2>1. /\ late' = late \cup (IF stopped THEN {last_pid + 1} ELSE {})
        /\ proc' = [proc EXCEPT ![last_pid + 1] = "alive"]
        /\ stopped' = stopped /\ asked' = asked
    BY <1>2 DEF Fork
  <2>2. Alive' \subseteq Alive \cup {last_pid + 1}
    BY <2>1 DEF Alive, IInv, MTypeOK
  <2> QED
    BY <2>1, <2>2 DEF StopSeen
<1>3. CASE SigUsr1 \/ Reload
  <2>1. /\ UNCHANGED <<proc, stopped, late>>
        /\ asked \subseteq asked'
    BY <1>3, ReloadDoes DEF SigUsr1, Reload
  <2> QED
    BY <2>1 DEF StopSeen, Alive
<1>4. CASE \/ Store \/ Forked \/ Monitor \/ WaitPid \/ Search \/ Status \/ ScanHit \/ ScanMiss
           \/ Stopping \/ SigAlrm \/ UNCHANGED mvars \/ \E p \in Pid : Ends(p) \/ Crashes(p)
  <2>1. /\ UNCHANGED <<asked, stopped, late>>
        /\ \/ proc' = proc
           \/ \E p \in Pid : proc' = [proc EXCEPT ![p] = "zombie"] /\ p \in Alive
           \/ \E p \in Pid : proc' = [proc EXCEPT ![p] = "reaped"]
    BY <1>4 DEF Store, Forked, Monitor, WaitPid, Search, Status, ScanHit, ScanMiss, Stopping,
                SigAlrm, Ends, Crashes, mvars, signals, Alive
  <2>2. Alive' \subseteq Alive
    BY <2>1 DEF Alive, IInv, MTypeOK
  <2> QED
    BY <2>1, <2>2 DEF StopSeen
<1> QED
  BY <1>1, <1>2, <1>3, <1>4 DEF MNext, MainStep

\* No child process is lost: each is in exactly one slot, or has just been forked,
\* and each slot holds a child or the process that has just been reaped.  After a
\* SIGINT each child that runs has been told to end, but for the late ones.
THEOREM NoneStray == MSpec => []NoStrayWorker
<1>1. IInv => EachInOneSlot
  <2> SUFFICES ASSUME IInv PROVE EachInOneSlot
    OBVIOUS
  <2> USE DEF IInv
  <2>1. ASSUME NEW p \in Children, p # forking.pid
        PROVE  Cardinality({s \in Slot : worker_pids[s] = p}) = 1
    <3>1. PICK s \in Slot : worker_pids[s] = p
      BY <2>1 DEF ChildrenHeld
    <3>2. p # NoPid
      BY DEF Children, Pid, NoPid
    <3>3. {r \in Slot : worker_pids[r] = p} = {s}
      BY <3>1, <3>2 DEF SlotsDiffer
    <3> QED BY <3>3, FS_Singleton
  <2> QED BY <2>1 DEF EachInOneSlot, SlotsHoldChildren
<1>2. MInit => StopSeen
  BY DEF MInit, StopSeen
<1>3. IInv /\ StopSeen => NoStrayWorker
  BY <1>1 DEF NoStrayWorker
<1> QED BY <1>2, <1>3, InitIInv, IInvStep, StopSeenStep, PTL DEF MSpec
===============================================================================
