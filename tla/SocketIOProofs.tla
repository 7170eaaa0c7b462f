----------------------------- MODULE SocketIOProofs -----------------------------
(***************************************************************************)
(* Proofs about the sockets of coroutines, for any number of coroutines    *)
(* and of bytes.                                                           *)
(***************************************************************************)
EXTENDS SocketIO, TLAPS, SequenceTheorems

-----------------------------------------------------------------------------
(***************************************************************************)
(* The inductive invariant.                                                *)
(***************************************************************************)

\* The tasks that are running.
Running == {stack[i] : i \in 1 .. Len(stack)}

\* The tasks on the stack differ, have been entered, and are not suspended; the
\* main task is the first of them.
StackInv ==
  /\ stack \in Seq(Task) /\ Len(stack) > 0 /\ stack[1] = Bottom
  /\ seen \subseteq Other /\ suspended \subseteq seen
  /\ \A i \in 1 .. Len(stack) : stack[i] \in {Bottom} \cup seen /\ stack[i] \notin suspended
  /\ \A i, j \in 1 .. Len(stack) : stack[i] = stack[j] => i = j

WritePcs == {"write", "write_wait"}   \* of a stream
SendPcs  == {"send", "send_wait"}     \* of a connection
ClosePcs == {"close_read", "close_write", "close_fd"}
OtherPcs == Reading \cup Writing \cup ClosePcs \cup {"php", "over"}

\* A stream is written to, data is sent over a connection.
PcsOf(t) ==
  IF t = Bottom THEN {"loop", "batch"} \cup ClosePcs
  ELSE OtherPcs \ (IF loop_type = "AUTO" THEN SendPcs ELSE WritePcs)

PcTypeOK ==
  /\ loop_type \in {"SEMI_AUTO", "AUTO"}
  /\ pc \in [Task -> {"loop", "batch"} \cup OtherPcs]
  /\ \A t \in Task : pc[t] \in PcsOf(t)

SoTypeOK ==
  /\ PcTypeOK
  /\ events \subseteq Event /\ epoll \subseteq Event /\ batch \subseteq Event
  /\ closed \in BOOLEAN /\ freed \in BOOLEAN /\ read_timer \in BOOLEAN
  /\ removed \in BOOLEAN
  /\ read_co \in Other \cup {NoCo} /\ write_co \in Other \cup {NoCo}
  /\ freeing \in Other \cup {NoCo}

\* From one yield to the next nothing comes in between, but what
\* onBufferWillFull starts, and the coroutines a close resumes.
PlaceInv ==
  /\ \A c \in Other : c \notin seen => pc[c] = "php"
  /\ \A t \in Task : pc[t] \in {"read", "write", "close_read"} => t = Now
  /\ \A t \in Task : pc[t] \in {"send", "close_write", "close_fd"} => t \in Running
  /\ \A c \in Other : pc[c] \in {"read_wait", "send_wait", "write_wait"} => c \in suspended \/ c = Now

\* One coroutine per direction, one per stream; a connection may have several
\* writers once they have overlapped, but never a second reader.
ExclInv ==
  /\ loop_type = "SEMI_AUTO" => \A c \in Other : pc[c] \in Reading => c = Reader
  /\ \A c, d \in Other : pc[c] \in Reading /\ pc[d] \in Reading => c = d
  /\ WRITE \notin overlapped =>
       \A c, d \in Other : pc[c] \in Writing /\ pc[d] \in Writing => c = d
  /\ loop_type = "AUTO" =>
       \A c, d \in Other :
         pc[c] \in Reading \cup Writing /\ pc[d] \in Reading \cup Writing => c = d

\* The coroutines that are bound wait, and a read timer is that of a reader.
BoundInv ==
  /\ \A c \in Other : read_co = c => pc[c] = "read_wait"
  /\ \A c \in Other : write_co = c => pc[c] \in {"send_wait", "write_wait"}
  /\ read_timer => \E c \in Other : pc[c] \in Reading

WaitPcs(e) == IF e = READ THEN {"read_wait"} ELSE {"send_wait", "write_wait"}

Waits(c, e) == c \in suspended /\ pc[c] \in WaitPcs(e)

\* Who waits will be heard of by epoll or by a task that closes the socket.
HeardInv ==
  \A c \in Other :
    /\ Waits(c, READ) => read_co = c /\ (READ \in events \/ Closing({"close_read"}))
    /\ Waits(c, WRITE) /\ WRITE \notin overlapped =>
         write_co = c /\ (WRITE \in events \/ Closing({"close_read", "close_write"}))

\* What epoll looks for is what the socket says, but for a stream that is being
\* closed.  A connection looks for data till it is closed, a stream only for
\* what somebody waits for.
EventsInv ==
  /\ events # {} => epoll = events
  /\ loop_type = "SEMI_AUTO" /\ events = {} => closed
  /\ loop_type = "SEMI_AUTO" /\ events # {} => READ \in events
  /\ loop_type = "AUTO" => \A e \in events : \E c \in Other : Waits(c, e)
  /\ pc[Bottom] = "loop" => batch = {}
  /\ loop_type = "AUTO" /\ freeing = NoCo =>
       epoll = events /\ \A e \in batch : \E c \in Other : Waits(c, e)

\* A stream is closed by the task that frees it.  While a connection is freed
\* nobody uses it, a stream is not used when it is freed.
CloseInv ==
  /\ \A t \in Task : pc[t] \in ClosePcs =>
       /\ closed /\ events = {} /\ ~ freed
       /\ (loop_type = "AUTO" \/ freeing # NoCo) => t = freeing
  /\ freeing # NoCo => closed /\ (freed \/ pc[freeing] \in ClosePcs)
  /\ freed => freeing # NoCo
  /\ freeing # NoCo /\ (loop_type = "SEMI_AUTO" \/ freed) =>
       \A c \in Other : pc[c] \notin Reading \cup Writing

\* Calls that overlap unnoticed concern a stream as a whole, but only the writers
\* of a connection.
OverlapInv ==
  /\ loop_type \in {"SEMI_AUTO", "AUTO"}
  /\ overlapped \in IF loop_type = "AUTO" THEN {{}, Event} ELSE {{}, {WRITE}}

\* What holds as long as the readers have not overlapped with anybody.
IInv ==
  /\ StackInv /\ SoTypeOK /\ PlaceInv
  /\ ExclInv /\ BoundInv
  /\ HeardInv /\ EventsInv /\ CloseInv

FullInv == OverlapInv /\ (READ \notin overlapped => IInv)

\* What a step of the invariant may rely on.
Apart ==
  /\ READ \notin overlapped' /\ overlapped \subseteq overlapped'
  /\ loop_type = "AUTO" => WRITE \notin overlapped

\* The elements of s are the numbers after k.
Up(s, k) == \A i \in 1 .. Len(s) : s[i] = k + i

\* The bytes of a connection are sent, in order, or wait in its buffer.
SendInv ==
  loop_type = "SEMI_AUTO" =>
    /\ given \in Nat /\ room \in Nat /\ wire \in Seq(Nat) /\ write_buffer \in Seq(Nat)
    /\ Len(wire) + Len(write_buffer) = given
    /\ Up(wire, 0) /\ Up(write_buffer, Len(wire))

\* A stream has one writer: it runs, or the socket knows it.
WriterInv ==
  loop_type = "AUTO" =>
    /\ \A c, d \in Other : pc[c] \in WritePcs /\ pc[d] \in WritePcs => c = d
    /\ \A c \in Other : pc[c] = "write" => c = Now
    /\ \A c \in Other : pc[c] = "write_wait" => write_co = c

\* Until a part of a buffer has been sent the writer of a stream has sent nothing,
\* and has the next bytes.
WriteInv ==
  loop_type = "AUTO" /\ ~ torn =>
    /\ given \in Nat /\ room \in Nat /\ wire \in Seq(Nat)
    /\ ret_num = [c \in Other |-> 0] /\ todo = [c \in Other |-> todo[c]]
    /\ Up(wire, 0)
    /\ \A c \in Other : pc[c] \in WritePcs =>
         /\ todo[c] \in Seq(Nat) /\ Up(todo[c], Len(wire))
         /\ given = Len(wire) + Len(todo[c])
    /\ ~ closed /\ (\A c \in Other : pc[c] \notin WritePcs) => given = Len(wire)

-----------------------------------------------------------------------------
(***************************************************************************)
(* Names, and the stack.                                                   *)
(***************************************************************************)

LEMMA Names ==
  /\ Task = {Bottom} \cup Other /\ Other \subseteq Task /\ Bottom \in Task
  /\ Bottom \notin Other /\ NoCo \notin Task /\ Reader \in Other
BY SocketAssumption, NoCoAssumption DEF Task

\* What a step may do to the stack: nothing, put a coroutine on it, or take off
\* the one that runs.
Stays ==
  /\ StackInv' /\ Now' = Now
  /\ Running' = Running /\ suspended' = suspended /\ seen' = seen

Pushes(c) ==
  /\ StackInv' /\ Now' = c
  /\ Running' = Running \cup {c} /\ suspended' = suspended \ {c} /\ seen' = seen \cup {c}

Pops(S) ==
  /\ StackInv'
  /\ Running' = Running \ {Now} /\ suspended' = suspended \cup S /\ seen' = seen

LEMMA StackFacts ==
  ASSUME StackInv
  PROVE  /\ Now \in Running /\ Running \subseteq {Bottom} \cup seen
         /\ Running \cap suspended = {}
         /\ seen \subseteq Other /\ suspended \subseteq seen
         /\ Now = Bottom => Running = {Bottom}
<1>1. Len(stack) \in Nat /\ Len(stack) \in 1 .. Len(stack) /\ 1 \in 1 .. Len(stack)
  BY DEF StackInv
<1>2. Now = stack[Len(stack)]
  BY DEF Now, Last
<1>3. ASSUME Now = Bottom
      PROVE  Running = {Bottom}
  <2>1. Len(stack) = 1
    BY <1>1, <1>2, <1>3 DEF StackInv
  <2> QED
    BY <2>1 DEF Running, StackInv
<1> QED
  BY <1>1, <1>2, <1>3 DEF StackInv, Running

LEMMA StaysStep ==
  ASSUME StackInv, UNCHANGED sched
  PROVE  Stays
BY DEF StackInv, sched, csvars, Now, Running, Stays

LEMMA PushStep ==
  ASSUME StackInv, NEW c \in Other, c \notin Running, stack' = Append(stack, c),
         seen' = seen \cup {c}, suspended' = suspended \ {c}
  PROVE  Pushes(c)
<1>1. c \in Task /\ stack \in Seq(Task) /\ Len(stack) \in Nat /\ 1 \in 1 .. Len(stack)
  BY Names DEF StackInv
<1>2. /\ stack' \in Seq(Task) /\ Len(stack') = Len(stack) + 1
      /\ \A i \in 1 .. Len(stack) : stack'[i] = stack[i]
      /\ stack'[Len(stack) + 1] = c
  BY <1>1, AppendProperties
<1>3. \A m \in 1 .. Len(stack') : m \in 1 .. Len(stack) \/ m = Len(stack) + 1
  BY <1>1, <1>2
<1>4. \A i \in 1 .. Len(stack) : i \in 1 .. Len(stack')
  BY <1>1, <1>2
<1>5. Len(stack) + 1 \in 1 .. Len(stack') /\ Len(stack') > 0
  BY <1>1, <1>2
<1>6. stack'[1] = Bottom
  BY <1>1, <1>2 DEF StackInv
<1>7. Now' = c
  BY <1>2 DEF Now, Last
<1>8. \A i, j \in 1 .. Len(stack') : stack'[i] = stack'[j] => i = j
  <2> SUFFICES ASSUME NEW i \in 1 .. Len(stack'), NEW j \in 1 .. Len(stack'),
                      stack'[i] = stack'[j], i # j
               PROVE  FALSE
    OBVIOUS
  <2> QED
    BY <1>2, <1>3 DEF StackInv, Running
<1>9. \A i \in 1 .. Len(stack') : stack'[i] \in {Bottom} \cup seen' /\ stack'[i] \notin suspended'
  <2> SUFFICES ASSUME NEW i \in 1 .. Len(stack')
               PROVE  stack'[i] \in {Bottom} \cup seen' /\ stack'[i] \notin suspended'
    OBVIOUS
  <2> QED
    BY <1>2, <1>3 DEF StackInv
<1>10. StackInv'
  BY <1>2, <1>5, <1>6, <1>8, <1>9 DEF StackInv
<1>11. Running' = Running \cup {c}
  BY <1>2, <1>3, <1>4, <1>5 DEF Running
<1> QED
  BY <1>7, <1>10, <1>11 DEF Pushes

LEMMA EnterStep ==
  ASSUME StackInv, NEW c \in Other, Enter(c)
  PROVE  Pushes(c) /\ c \notin seen
<1>1. /\ c \notin seen /\ stack' = Append(stack, c)
      /\ seen' = seen \cup {c} /\ suspended' = suspended
  BY DEF Enter
<1>2. c \notin suspended /\ c \notin Running
  BY <1>1, StackFacts, Names
<1>3. suspended' = suspended \ {c}
  BY <1>1, <1>2
<1>4. Pushes(c)
  BY <1>1, <1>2, <1>3, PushStep
<1> QED
  BY <1>1, <1>4

LEMMA ReenterStep ==
  ASSUME StackInv, NEW c, Reenter(c)
  PROVE  Pushes(c) /\ c \in suspended /\ c \in Other
<1>1. /\ c \in suspended /\ stack' = Append(stack, c)
      /\ seen' = seen /\ suspended' = suspended \ {c}
  BY DEF Reenter
<1>2. c \in Other /\ c \in seen /\ c \notin Running
  BY <1>1, StackFacts
<1>3. seen' = seen \cup {c}
  BY <1>1, <1>2
<1>4. Pushes(c)
  BY <1>1, <1>2, <1>3, PushStep
<1> QED
  BY <1>1, <1>2, <1>4

LEMMA PopStep ==
  ASSUME StackInv, Len(stack) > 1, stack' = Front(stack), seen' = seen,
         NEW S \in SUBSET {Now}, suspended' = suspended \cup S
  PROVE  Pops(S) /\ Now \in Other
<1>1. /\ stack \in Seq(Task) /\ Len(stack) \in Nat /\ 1 \in 1 .. Len(stack)
      /\ stack' = SubSeq(stack, 1, Len(stack) - 1)
  BY DEF StackInv, Front
<1>2. /\ stack' \in Seq(Task) /\ Len(stack') = Len(stack) - 1
      /\ \A i \in 1 .. Len(stack) - 1 : stack'[i] = stack[i]
  BY <1>1
<1>3. /\ Now = stack[Len(stack)] /\ Len(stack) \in 1 .. Len(stack)
      /\ \A i \in 1 .. Len(stack') : i \in 1 .. Len(stack) /\ i # Len(stack)
      /\ \A i \in 1 .. Len(stack) : i \in 1 .. Len(stack') \/ i = Len(stack)
  BY <1>1, <1>2 DEF Now, Last
<1>4. \A i \in 1 .. Len(stack') : stack'[i] = stack[i] /\ stack'[i] # Now
  BY <1>2, <1>3 DEF StackInv
<1>5. Now # Bottom
  BY <1>1, <1>3 DEF StackInv
<1>6. Now \in seen /\ Now \in Other
  BY <1>3, <1>5 DEF StackInv
<1>7. Len(stack') > 0 /\ stack'[1] = Bottom
  BY <1>1, <1>2 DEF StackInv
<1>8. /\ \A i \in 1 .. Len(stack') : stack'[i] \in {Bottom} \cup seen' /\ stack'[i] \notin suspended'
      /\ \A i, j \in 1 .. Len(stack') : stack'[i] = stack'[j] => i = j
  BY <1>3, <1>4 DEF StackInv
<1>9. seen' \subseteq Other /\ suspended' \subseteq seen'
  BY <1>6 DEF StackInv
<1>10. StackInv'
  BY <1>2, <1>7, <1>8, <1>9 DEF StackInv
<1>11. Running' = Running \ {Now}
  BY <1>3, <1>4 DEF Running
<1> QED
  BY <1>6, <1>10, <1>11 DEF Pops

LEMMA SuspendStep ==
  ASSUME StackInv, Suspend
  PROVE  Pops({Now}) /\ Now \in Other
<1>1. Len(stack) > 1 /\ stack' = Front(stack) /\ seen' = seen /\ suspended' = suspended \cup {Now}
  BY DEF Suspend, Now
<1>2. {Now} \in SUBSET {Now}
  OBVIOUS
<1> QED
  BY <1>1, <1>2, PopStep

LEMMA LeaveStep ==
  ASSUME StackInv, Leave
  PROVE  Pops({}) /\ Now \in Other
<1>1. Len(stack) > 1 /\ stack' = Front(stack) /\ seen' = seen /\ suspended' = suspended \cup {}
  BY DEF Leave
<1>2. {} \in SUBSET {Now}
  OBVIOUS
<1> QED
  BY <1>1, <1>2, PopStep

-----------------------------------------------------------------------------
(***************************************************************************)
(* The steps.                                                              *)
(***************************************************************************)

Moves(t, p) == pc'[t] = p /\ \A u \in Task : u # t => pc'[u] = pc[u]

LEMMA GotoStep ==
  ASSUME PcTypeOK, NEW t \in Task, NEW p \in PcsOf(t), Goto(t, p), loop_type' = loop_type
  PROVE  Moves(t, p) /\ PcTypeOK'
<1>1. p \in {"loop", "batch"} \cup OtherPcs
  BY DEF PcsOf, OtherPcs
<1>2. Moves(t, p) /\ pc' \in [Task -> {"loop", "batch"} \cup OtherPcs]
  BY <1>1 DEF Goto, PcTypeOK, Moves
<1>3. \A u \in Task : PcsOf(u)' = PcsOf(u)
  BY DEF PcsOf
<1> QED
  BY <1>2, <1>3 DEF PcTypeOK, Moves

LEMMA PcStays ==
  ASSUME PcTypeOK, pc' = pc, loop_type' = loop_type
  PROVE  PcTypeOK'
BY DEF PcTypeOK, PcsOf

\* Nothing changes but places of tasks and the stack.
Quiet ==
  /\ loop_type' = loop_type /\ events' = events /\ epoll' = epoll /\ batch' = batch
  /\ closed' = closed /\ freed' = freed /\ removed' = removed /\ freeing' = freeing
  /\ read_co' = read_co /\ write_co' = write_co /\ read_timer' = read_timer

LEMMA QuietStep ==
  ASSUME UNCHANGED <<flags, waits, batch>>
  PROVE  Quiet
BY DEF flags, waits, Quiet

LEMMA SameStep ==
  ASSUME Apart, IInv, Quiet, UNCHANGED <<sched, pc>>
  PROVE  IInv'
<1>1. Stays /\ PcTypeOK'
  BY StaysStep, PcStays DEF IInv, SoTypeOK, Quiet
<1>2. StackInv' /\ SoTypeOK'
  BY <1>1 DEF IInv, SoTypeOK, Quiet, Stays
<1>3. PlaceInv' /\ ExclInv' /\ BoundInv'
  BY <1>1 DEF IInv, PlaceInv, ExclInv, BoundInv, Quiet, Stays, Apart
<1>4. HeardInv' /\ EventsInv' /\ CloseInv'
  BY <1>1 DEF IInv, HeardInv, EventsInv, CloseInv, Waits, Closing, Quiet, Stays, Apart
<1> QED
  BY <1>2, <1>3, <1>4 DEF IInv

LEMMA ReadStep ==
  ASSUME Apart, IInv, NEW c \in Other, Read(c)
  PROVE  IInv'
<1>1. /\ c \in Task /\ c # Bottom /\ Now = c /\ pc[c] = "php" /\ ~ closed /\ freeing = NoCo
      /\ loop_type = "SEMI_AUTO" => c = Reader
      /\ \A d \in Other : pc[d] \notin Reading
      /\ loop_type = "AUTO" => \A d \in Other : pc[d] \notin Reading \cup Writing
  <2>1. /\ c \in Task /\ c # Bottom /\ Now = c /\ pc[c] = "php" /\ ~ closed /\ freeing = NoCo
        /\ c = Reader \/ loop_type = "AUTO"
    BY Names DEF Read, MayCall, At
  <2>2. loop_type = "AUTO" => \A d \in Other : pc[d] \notin Reading \cup Writing
    BY DEF Read, Overlap, Overlaps, InUse, Apart, Event
  <2>3. loop_type # "AUTO" => \A d \in Other : pc[d] \notin Reading
    BY <2>1 DEF IInv, SoTypeOK, PcTypeOK, ExclInv, Reading
  <2> QED
    BY <2>1, <2>2, <2>3
<1>2. Quiet
  BY QuietStep DEF Read
<1>3. Moves(c, "read") /\ PcTypeOK'
  <2>1. "read" \in PcsOf(c)
    BY <1>1 DEF PcsOf, OtherPcs, Reading, SendPcs, WritePcs
  <2> QED
    BY <1>1, <1>2, <2>1, GotoStep DEF IInv, SoTypeOK, Read, Quiet
<1>4. Stays
  BY StaysStep DEF IInv, Read
<1>5. StackInv' /\ SoTypeOK'
  BY <1>2, <1>3, <1>4 DEF IInv, SoTypeOK, Stays, Quiet
<1>6. PlaceInv'
  BY <1>1, <1>3, <1>4, Names, StackFacts DEF IInv, PlaceInv, Stays, Moves
<1>7. ExclInv'
  BY <1>1, <1>2, <1>3, Names DEF IInv, ExclInv, Moves, Reading, Writing, Quiet, Apart
<1>8. BoundInv'
  BY <1>1, <1>2, <1>3, Names DEF IInv, BoundInv, Moves, Reading, Quiet
<1>9. HeardInv'
  BY <1>1, <1>2, <1>3, <1>4, Names
  DEF IInv, HeardInv, Waits, WaitPcs, Closing, Moves, Stays, Quiet, Apart
<1>10. EventsInv'
  BY <1>1, <1>2, <1>3, <1>4, Names DEF IInv, EventsInv, Waits, WaitPcs, Moves, Stays, Quiet
<1>11. CloseInv'
  BY <1>1, <1>2, <1>3, Names DEF IInv, CloseInv, Moves, ClosePcs, Reading, Writing, Quiet
<1> QED
  BY <1>5, <1>6, <1>7, <1>8, <1>9, <1>10, <1>11 DEF IInv

\* A writer starts; onBufferWillFull may start a coroutine.
LEMMA WritesStep ==
  ASSUME Apart, IInv, NEW c \in Other, MayCall(c), Overlap(WRITE), Quiet,
         NEW p \in {"send", "write"} \cap PcsOf(c), Goto(c, p),
         \/ UNCHANGED sched
         \/ p = "send" /\ \E d \in Other : Enter(d)
  PROVE  IInv'
<1>1. /\ c \in Task /\ c # Bottom /\ Now = c /\ pc[c] = "php" /\ freeing = NoCo
      /\ WRITE \notin overlapped' => \A d \in Other : pc[d] \notin Writing
      /\ loop_type = "AUTO" => \A d \in Other : pc[d] \notin Reading \cup Writing
  <2>1. loop_type = "AUTO" => \A d \in Other : pc[d] \notin Reading \cup Writing
    BY DEF Overlap, Overlaps, InUse, Apart, Event
  <2>2. loop_type # "AUTO" /\ WRITE \notin overlapped' => \A d \in Other : pc[d] \notin Writing
    BY DEF Overlap, Overlaps, InUse
  <2> QED
    BY <2>1, <2>2, Names DEF MayCall, At
<1>2. Quiet
  OBVIOUS
<1>3. Moves(c, p) /\ PcTypeOK'
  BY <1>1, <1>2, GotoStep DEF IInv, SoTypeOK, Quiet
<1>4. Stays \/ (p = "send" /\ \E d \in Other : Pushes(d) /\ d \notin seen)
  BY StaysStep, EnterStep DEF IInv
<1>5. \/ /\ StackInv' /\ suspended' = suspended /\ seen' = seen
         /\ Running' = Running /\ Now' = Now
      \/ /\ p = "send" /\ StackInv' /\ \A u \in Other : u \in suspended' <=> u \in suspended
         /\ seen \subseteq seen' /\ Running \subseteq Running'
  <2>1. ASSUME NEW d \in Other, Pushes(d), d \notin seen
        PROVE  d \notin suspended
    BY <2>1, StackFacts DEF IInv
  <2> QED
    BY <1>4, <2>1 DEF Stays, Pushes
<1>6. \A u \in Other : u \in suspended' <=> u \in suspended
  BY <1>5
<1>7. StackInv' /\ SoTypeOK'
  BY <1>2, <1>3, <1>5 DEF IInv, SoTypeOK, Quiet
<1>8. PlaceInv'
  BY <1>1, <1>3, <1>5, Names, StackFacts DEF IInv, PlaceInv, Moves
<1>9. ExclInv'
  BY <1>1, <1>2, <1>3, Names DEF IInv, ExclInv, Moves, Reading, Writing, Quiet, Apart
<1>10. BoundInv'
  BY <1>1, <1>2, <1>3, Names DEF IInv, BoundInv, Moves, Reading, Quiet
<1>11. HeardInv'
  BY <1>1, <1>2, <1>3, <1>6, Names
  DEF IInv, HeardInv, Waits, WaitPcs, Closing, Moves, Quiet, Apart
<1>12. EventsInv'
  BY <1>1, <1>2, <1>3, <1>6, Names DEF IInv, EventsInv, Waits, WaitPcs, Moves, Quiet
<1>13. CloseInv'
  BY <1>1, <1>2, <1>3, Names DEF IInv, CloseInv, Moves, ClosePcs, Reading, Writing, Quiet
<1> QED
  BY <1>7, <1>8, <1>9, <1>10, <1>11, <1>12, <1>13 DEF IInv

LEMMA SendStep ==
  ASSUME Apart, IInv, NEW c \in Other, NEW n \in Nat, Send(c, n)
  PROVE  IInv'
<1>1. MayCall(c) /\ Overlap(WRITE) /\ Quiet /\ Goto(c, "send") /\ loop_type = "SEMI_AUTO"
  BY QuietStep DEF Send
<1>2. "send" \in {"send", "write"} \cap PcsOf(c)
  BY <1>1, Names DEF PcsOf, OtherPcs, Writing, WritePcs
<1>3. UNCHANGED sched \/ \E d \in Other : Enter(d)
  BY DEF Send
<1> QED
  BY <1>1, <1>2, <1>3, WritesStep

LEMMA WriteStep ==
  ASSUME Apart, IInv, NEW c \in Other, NEW n \in Nat, Write(c, n)
  PROVE  IInv'
<1>1. MayCall(c) /\ Overlap(WRITE) /\ Quiet /\ Goto(c, "write") /\ loop_type = "AUTO" /\ UNCHANGED sched
  BY QuietStep DEF Write
<1>2. "write" \in {"send", "write"} \cap PcsOf(c)
  BY <1>1, Names DEF PcsOf, OtherPcs, Writing, SendPcs
<1> QED
  BY <1>1, <1>2, WritesStep

\* PHP code starts or resumes a coroutine that is not in a call of the socket.
LEMMA PhpStartsStep ==
  ASSUME Apart, IInv, NEW c \in Other, PhpStarts(c)
  PROVE  IInv'
<1>1. Quiet /\ pc' = pc /\ pc[Now] \in {"php", "loop", "batch"} /\ Now \in Task
  BY QuietStep, StackFacts, Names DEF IInv, PhpStarts
<1>2. Pushes(c) /\ pc[c] = "php"
  BY EnterStep, ReenterStep DEF IInv, PlaceInv, PhpStarts
<1>3. PcTypeOK'
  BY <1>1, PcStays DEF IInv, SoTypeOK, Quiet
<1>4. StackInv' /\ SoTypeOK'
  BY <1>1, <1>2, <1>3 DEF IInv, SoTypeOK, Quiet, Pushes
<1>5. PlaceInv'
  BY <1>1, <1>2, Names, StackFacts DEF IInv, PlaceInv, Pushes
<1>6. ExclInv' /\ BoundInv'
  BY <1>1 DEF IInv, ExclInv, BoundInv, Quiet, Apart
<1>7. HeardInv'
  BY <1>1, <1>2 DEF IInv, HeardInv, Waits, WaitPcs, Closing, Pushes, Quiet, Apart
<1>8. EventsInv'
  BY <1>1, <1>2 DEF IInv, EventsInv, Waits, WaitPcs, Pushes, Quiet
<1>9. CloseInv'
  BY <1>1 DEF IInv, CloseInv, Quiet
<1> QED
  BY <1>4, <1>5, <1>6, <1>7, <1>8, <1>9 DEF IInv

LEMMA PhpStopsStep ==
  ASSUME Apart, IInv, NEW c \in Other, PhpStops(c)
  PROVE  IInv'
<1>1. Quiet /\ pc' = pc /\ pc[Now] \in {"php", "over"} /\ Now = c
  BY QuietStep DEF PhpStops, At
<1>2. Pops({Now}) \/ Pops({})
  BY SuspendStep, LeaveStep DEF IInv, PhpStops
<1>3. PcTypeOK'
  BY <1>1, PcStays DEF IInv, SoTypeOK, Quiet
<1>4. StackInv' /\ SoTypeOK'
  BY <1>1, <1>2, <1>3 DEF IInv, SoTypeOK, Quiet, Pops
<1>5. PlaceInv'
  BY <1>1, <1>2, Names DEF IInv, PlaceInv, Pops
<1>6. ExclInv' /\ BoundInv'
  BY <1>1 DEF IInv, ExclInv, BoundInv, Quiet, Apart
<1>7. HeardInv'
  BY <1>1, <1>2 DEF IInv, HeardInv, Waits, WaitPcs, Closing, Pops, Quiet, Apart
<1>8. EventsInv'
  BY <1>1, <1>2 DEF IInv, EventsInv, Waits, WaitPcs, Pops, Quiet
<1>9. CloseInv'
  BY <1>1 DEF IInv, CloseInv, Quiet
<1> QED
  BY <1>4, <1>5, <1>6, <1>7, <1>8, <1>9 DEF IInv

LEMMA ExitsStep ==
  ASSUME Apart, IInv, NEW c, NEW co, Exits(c, co)
  PROVE  IInv'
BY SameStep DEF Exits, Quiet, waits

\* While the socket is open, epoll takes each event, and looks for it then.
LEMMA AddWorksOpen ==
  ASSUME IInv, ~ closed, NEW e
  PROVE  /\ AddWorks(e)
         /\ loop_add(e) => events' = events \cup {e} /\ epoll' = events'
<1>1. freeing = NoCo
  BY DEF IInv, CloseInv
<1>2. events = {} => epoll = {}
  BY <1>1 DEF IInv, EventsInv, SoTypeOK, PcTypeOK
<1>3. events # {} => epoll = events
  BY DEF IInv, EventsInv
<1>4. AddWorks(e)
  BY <1>2, <1>3 DEF AddWorks
<1>5. ASSUME e \in events
      PROVE  events \cup {e} = events /\ epoll = events
  BY <1>3, <1>5
<1> QED
  BY <1>4, <1>5 DEF loop_add

\* A reader returns to PHP code or ends.
LEMMA FailsStep ==
  ASSUME PcTypeOK, NEW c \in Other, Fails(c) \/ Goto(c, "php"), loop_type' = loop_type
  PROVE  PcTypeOK' /\ (Moves(c, "php") \/ Moves(c, "over"))
<1>1. "php" \in PcsOf(c) /\ "over" \in PcsOf(c) /\ c \in Task
  BY Names DEF PcsOf, OtherPcs, SendPcs, WritePcs
<1>2. Goto(c, "php") \/ Goto(c, "over")
  BY DEF Fails
<1> QED
  BY <1>1, <1>2, GotoStep

LEMMA ReadReturnsStep ==
  ASSUME Apart, IInv, NEW c \in Other, ReadReturns(c)
  PROVE  IInv'
<1>1. c \in Task /\ c # Bottom /\ Now = c /\ pc[c] = "read"
  BY Names DEF ReadReturns, At
<1>2. /\ loop_type' = loop_type /\ batch' = batch /\ freed' = freed /\ removed' = removed
      /\ freeing' = freeing /\ read_co' = read_co /\ write_co' = write_co
      /\ read_timer' = FALSE
  BY DEF ReadReturns, timer_del
<1>3. events' = events /\ epoll' = epoll /\ (closed' = closed \/ closed' = TRUE)
  BY AddWorksOpen DEF ReadReturns
<1>4. PcTypeOK' /\ (Moves(c, "php") \/ Moves(c, "over"))
  <2>1. Fails(c) \/ Goto(c, "php")
    BY DEF ReadReturns
  <2> QED
    BY <1>2, <2>1, FailsStep DEF IInv, SoTypeOK
<1>5. Stays
  BY StaysStep DEF IInv, ReadReturns
<1>6. StackInv' /\ SoTypeOK'
  BY <1>2, <1>3, <1>4, <1>5 DEF IInv, SoTypeOK, Stays
<1>7. PlaceInv'
  BY <1>1, <1>4, <1>5, Names, StackFacts DEF IInv, PlaceInv, Stays, Moves
<1>8. ExclInv'
  BY <1>1, <1>2, <1>4, Names DEF IInv, ExclInv, Moves, Reading, Writing, Apart
<1>9. BoundInv'
  BY <1>1, <1>2, <1>4, Names DEF IInv, BoundInv, Moves
<1>10. HeardInv'
  BY <1>1, <1>2, <1>3, <1>4, <1>5, Names
  DEF IInv, HeardInv, Waits, WaitPcs, Closing, Moves, Stays, READ, WRITE, Apart
<1>11. EventsInv'
  BY <1>1, <1>2, <1>3, <1>4, <1>5, Names
  DEF IInv, EventsInv, Waits, WaitPcs, Moves, Stays, READ, WRITE
<1>12. CloseInv'
  BY <1>1, <1>2, <1>3, <1>4, Names
  DEF IInv, SoTypeOK, CloseInv, Moves, ClosePcs, Reading, Writing
<1> QED
  BY <1>6, <1>7, <1>8, <1>9, <1>10, <1>11, <1>12 DEF IInv

LEMMA ReadBlocksStep ==
  ASSUME Apart, IInv, NEW c \in Other, ReadBlocks(c)
  PROVE  IInv'
<1>1. c \in Task /\ c # Bottom /\ Now = c /\ pc[c] = "read" /\ ~ closed
  BY Names DEF ReadBlocks, At
<1>2. /\ loop_type' = loop_type /\ batch' = batch /\ freed' = freed /\ removed' = removed
      /\ freeing' = freeing /\ closed' = closed /\ read_co' = c /\ write_co' = write_co
      /\ read_timer' = TRUE
  BY DEF ReadBlocks, timer_add, flags
<1>3. events' = events \cup {READ} /\ epoll' = events'
  BY <1>1, AddWorksOpen DEF ReadBlocks
<1>4. Moves(c, "read_wait") /\ PcTypeOK'
  <2>1. "read_wait" \in PcsOf(c)
    BY <1>1 DEF PcsOf, OtherPcs, Reading, SendPcs, WritePcs
  <2> QED
    BY <1>1, <1>2, <2>1, GotoStep DEF IInv, SoTypeOK, ReadBlocks
<1>5. Pops({c})
  BY <1>1, SuspendStep DEF IInv, ReadBlocks
<1>6. StackInv' /\ SoTypeOK'
  BY <1>2, <1>3, <1>4, <1>5 DEF IInv, SoTypeOK, Pops, Event
<1>7. PlaceInv'
  BY <1>1, <1>4, <1>5, Names DEF IInv, PlaceInv, Pops, Moves
<1>8. ExclInv'
  BY <1>1, <1>2, <1>4, Names DEF IInv, ExclInv, Moves, Reading, Writing, Apart
<1>9. BoundInv'
  BY <1>1, <1>2, <1>4, Names DEF IInv, BoundInv, Moves, Reading
<1>10. HeardInv'
  <2> SUFFICES ASSUME NEW d \in Other
               PROVE  /\ Waits(d, READ)' => read_co' = d /\ READ \in events'
                      /\ Waits(d, WRITE)' /\ WRITE \notin overlapped' =>
                           /\ write_co' = d
                           /\ WRITE \in events' \/ Closing({"close_read", "close_write"})'
    BY DEF HeardInv
  <2>1. Waits(d, READ)' => d = c
    BY <1>1, <1>4, <1>5, Names DEF IInv, ExclInv, Waits, WaitPcs, Moves, Reading
  <2>2. Waits(d, WRITE)' => Waits(d, WRITE)
    BY <1>1, <1>4, <1>5, Names DEF Waits, WaitPcs, Moves, Pops, READ, WRITE
  <2>3. Closing({"close_read", "close_write"}) => Closing({"close_read", "close_write"})'
    BY <1>1, <1>4, Names DEF Closing, Moves
  <2> QED
    BY <1>2, <1>3, <2>1, <2>2, <2>3 DEF IInv, HeardInv, Apart
<1>11. EventsInv'
  <2>1. \A e \in Event : (\E d \in Other : Waits(d, e)) => \E d \in Other : Waits(d, e)'
    BY <1>1, <1>4, <1>5, Names DEF Waits, WaitPcs, Moves, Pops
  <2>2. Waits(c, READ)'
    BY <1>4, <1>5 DEF Waits, WaitPcs, Moves, Pops
  <2>3. events \subseteq Event /\ batch \subseteq Event
    BY DEF IInv, SoTypeOK
  <2>4. pc'[Bottom] = pc[Bottom]
    BY <1>1, <1>4, Names DEF Moves
  <2> QED
    BY <1>1, <1>2, <1>3, <2>1, <2>2, <2>3, <2>4 DEF IInv, EventsInv
<1>12. CloseInv'
  BY <1>1, <1>2, <1>4, Names
  DEF IInv, SoTypeOK, CloseInv, Moves, ClosePcs, Reading, Writing
<1> QED
  BY <1>6, <1>7, <1>8, <1>9, <1>10, <1>11, <1>12 DEF IInv

LEMMA ReadGoesOnStep ==
  ASSUME Apart, IInv, NEW c \in Other, ReadGoesOn(c)
  PROVE  IInv'
<1>1. /\ c \in Task /\ c # Bottom /\ Now = c /\ pc[c] = "read_wait"
      /\ c \notin suspended
  BY Names, StackFacts DEF ReadGoesOn, At, IInv
<1>2. /\ loop_type' = loop_type /\ batch' = batch /\ freed' = freed /\ removed' = removed
      /\ freeing' = freeing /\ closed' = closed /\ read_co' = NoCo /\ write_co' = write_co
      /\ read_timer' = read_timer /\ events' = events /\ epoll' = epoll
  BY DEF ReadGoesOn, flags
<1>3. /\ PcTypeOK'
      /\ Moves(c, "read") \/ (~ read_timer /\ (Moves(c, "php") \/ Moves(c, "over")))
  <2>1. CASE read_timer
    <3>1. "read" \in PcsOf(c)
      BY <1>1 DEF PcsOf, OtherPcs, Reading, SendPcs, WritePcs
    <3> QED
      BY <1>1, <1>2, <2>1, <3>1, GotoStep DEF IInv, SoTypeOK, ReadGoesOn
  <2>2. CASE ~ read_timer
    BY <1>2, <2>2, FailsStep DEF IInv, SoTypeOK, ReadGoesOn
  <2> QED
    BY <2>1, <2>2
<1>4. Stays
  BY StaysStep DEF IInv, ReadGoesOn
<1>5. StackInv' /\ SoTypeOK'
  BY <1>2, <1>3, <1>4 DEF IInv, SoTypeOK, Stays
<1>6. PlaceInv'
  BY <1>1, <1>3, <1>4, Names, StackFacts DEF IInv, PlaceInv, Stays, Moves
<1>7. ExclInv'
  BY <1>1, <1>2, <1>3, Names DEF IInv, ExclInv, Moves, Reading, Writing, Apart
<1>8. BoundInv'
  BY <1>1, <1>2, <1>3, Names DEF IInv, BoundInv, Moves, Reading
<1>9. HeardInv'
  <2>1. \A d \in Other : ~ Waits(d, READ)'
    BY <1>1, <1>3, <1>4, Names DEF IInv, ExclInv, Waits, WaitPcs, Moves, Reading, Stays
  <2>2. \A d \in Other : Waits(d, WRITE)' => Waits(d, WRITE)
    BY <1>1, <1>3, <1>4, Names DEF Waits, WaitPcs, Moves, Stays, READ, WRITE
  <2>3. Closing({"close_read", "close_write"}) => Closing({"close_read", "close_write"})'
    BY <1>1, <1>3, Names DEF Closing, Moves
  <2> QED
    BY <1>2, <2>1, <2>2, <2>3 DEF IInv, HeardInv, Apart
<1>10. EventsInv'
  BY <1>1, <1>2, <1>3, <1>4, Names
  DEF IInv, EventsInv, Waits, WaitPcs, Moves, Stays, READ, WRITE
<1>11. CloseInv'
  BY <1>1, <1>2, <1>3, Names
  DEF IInv, SoTypeOK, CloseInv, Moves, ClosePcs, Reading, Writing
<1> QED
  BY <1>5, <1>6, <1>7, <1>8, <1>9, <1>10, <1>11 DEF IInv

\* All is sent, or the socket is closed.
LEMMA WriteDoneStep ==
  ASSUME Apart, IInv, NEW c \in Other, Now = c, pc[c] \in {"send", "write"},
         loop_remove(WRITE), Goto(c, "php"), UNCHANGED sched,
         UNCHANGED <<flags, read_co, write_co, read_timer, batch>>
  PROVE  IInv'
<1>1. c \in Task /\ c # Bottom /\ c \notin suspended
  BY Names, StackFacts DEF IInv
<1>2. /\ loop_type' = loop_type /\ batch' = batch /\ freed' = freed /\ removed' = removed
      /\ freeing' = freeing /\ closed' = closed /\ read_co' = read_co /\ write_co' = write_co
      /\ read_timer' = read_timer
  BY DEF flags
<1>3. Moves(c, "php") /\ PcTypeOK'
  <2>1. "php" \in PcsOf(c)
    BY <1>1 DEF PcsOf, OtherPcs, SendPcs, WritePcs
  <2> QED
    BY <1>1, <1>2, <2>1, GotoStep DEF IInv, SoTypeOK
<1>4. Stays
  BY StaysStep DEF IInv
<1>5. loop_type = "AUTO" \/ WRITE \notin overlapped' => \A d \in Other : ~ Waits(d, WRITE)
  BY <1>1 DEF IInv, ExclInv, Waits, WaitPcs, Writing, READ, WRITE, Apart
<1>6. /\ events' = events \ {WRITE}
      /\ events' # {} => epoll' = events'
      /\ epoll' = events' \/ epoll' = epoll
      /\ WRITE \notin events => epoll' = epoll
  <2>1. events # {} => epoll = events
    BY DEF IInv, EventsInv
  <2> QED
    BY <2>1 DEF loop_remove
<1>7. loop_type = "AUTO" => WRITE \notin events
  BY <1>5 DEF IInv, EventsInv
<1>8. StackInv' /\ SoTypeOK'
  BY <1>2, <1>3, <1>4, <1>6 DEF IInv, SoTypeOK, Stays
<1>9. PlaceInv'
  BY <1>1, <1>3, <1>4, Names, StackFacts DEF IInv, PlaceInv, Stays, Moves
<1>10. ExclInv'
  BY <1>1, <1>2, <1>3, Names DEF IInv, ExclInv, Moves, Reading, Writing, Apart
<1>11. BoundInv'
  BY <1>1, <1>2, <1>3, Names DEF IInv, BoundInv, Moves, Reading
<1>12. HeardInv'
  <2>1. \A d \in Other : Waits(d, WRITE)' => Waits(d, WRITE)
    BY <1>1, <1>3, <1>4, Names DEF Waits, WaitPcs, Moves, Stays, READ, WRITE
  <2>2. \A d \in Other : Waits(d, READ)' => Waits(d, READ)
    BY <1>1, <1>3, <1>4, Names DEF Waits, WaitPcs, Moves, Stays, READ, WRITE
  <2>3. Closing({"close_read"}) => Closing({"close_read"})'
    BY <1>1, <1>3, Names DEF Closing, Moves
  <2>4. READ \in events => READ \in events'
    BY <1>6 DEF READ, WRITE
  <2> QED
    BY <1>2, <1>5, <2>1, <2>2, <2>3, <2>4 DEF IInv, HeardInv, Apart
<1>13. EventsInv'
  <2>1. \A e \in Event : (\E d \in Other : Waits(d, e)) => \E d \in Other : Waits(d, e)'
    BY <1>1, <1>3, <1>4, Names DEF Waits, WaitPcs, Moves, Stays
  <2>2. events \subseteq Event /\ batch \subseteq Event /\ WRITE # READ
    BY DEF IInv, SoTypeOK, READ, WRITE
  <2>3. pc'[Bottom] = pc[Bottom]
    BY <1>1, <1>3, Names DEF Moves
  <2>4. CASE loop_type = "AUTO"
    <3>1. events' = events /\ epoll' = epoll
      BY <1>6, <1>7, <2>4
    <3> QED
      BY <1>2, <2>1, <2>2, <2>3, <2>4, <3>1 DEF IInv, EventsInv
  <2>5. CASE loop_type # "AUTO"
    BY <1>2, <1>6, <2>2, <2>3, <2>5 DEF IInv, EventsInv
  <2> QED
    BY <2>4, <2>5
<1>14. CloseInv'
  BY <1>1, <1>2, <1>3, <1>6, Names DEF IInv, SoTypeOK, CloseInv, Moves, ClosePcs, Reading, Writing
<1> QED
  BY <1>8, <1>9, <1>10, <1>11, <1>12, <1>13, <1>14 DEF IInv

\* The writer waits for room.
LEMMA WriteWaitStep ==
  ASSUME Apart, IInv, NEW c \in Other, Now = c, pc[c] \in {"send", "write"}, ~ closed,
         NEW p \in {"send_wait", "write_wait"} \cap PcsOf(c), write_wait(c, p),
         UNCHANGED <<flags, read_co, read_timer, batch>>
  PROVE  IInv'
<1>1. c \in Task /\ c # Bottom
  BY Names
<1>2. /\ loop_type' = loop_type /\ batch' = batch /\ freed' = freed /\ removed' = removed
      /\ freeing' = freeing /\ closed' = closed /\ read_co' = read_co /\ write_co' = c
      /\ read_timer' = read_timer
  BY AddWorksOpen DEF flags, write_wait
<1>3. events' = events \cup {WRITE} /\ epoll' = events'
  BY AddWorksOpen DEF write_wait
<1>4. Goto(c, p) /\ Suspend
  BY AddWorksOpen DEF write_wait
<1>5. Moves(c, p) /\ PcTypeOK'
  BY <1>1, <1>2, <1>4, GotoStep DEF IInv, SoTypeOK
<1>6. Pops({c})
  BY <1>1, <1>4, SuspendStep DEF IInv
<1>7. StackInv' /\ SoTypeOK'
  BY <1>2, <1>3, <1>5, <1>6 DEF IInv, SoTypeOK, Pops, Event
<1>8. PlaceInv'
  BY <1>1, <1>5, <1>6, Names DEF IInv, PlaceInv, Pops, Moves
<1>9. ExclInv'
  BY <1>1, <1>2, <1>5, Names DEF IInv, ExclInv, Moves, Reading, Writing, Apart
<1>10. BoundInv'
  BY <1>1, <1>2, <1>5, Names DEF IInv, BoundInv, Moves, Reading
<1>11. HeardInv'
  <2> SUFFICES ASSUME NEW d \in Other
               PROVE  /\ Waits(d, WRITE)' /\ WRITE \notin overlapped' =>
                           write_co' = d /\ WRITE \in events'
                      /\ Waits(d, READ)' => /\ read_co' = d
                                            /\ READ \in events' \/ Closing({"close_read"})'
    BY DEF HeardInv
  <2>1. Waits(d, WRITE)' /\ WRITE \notin overlapped' => d = c
    BY <1>1, <1>5, <1>6, Names DEF Apart, IInv, ExclInv, Waits, WaitPcs, Moves, Writing, READ, WRITE
  <2>2. Waits(d, READ)' => Waits(d, READ)
    BY <1>1, <1>5, <1>6, Names DEF Waits, WaitPcs, Moves, Pops, READ, WRITE
  <2>3. Closing({"close_read"}) => Closing({"close_read"})'
    BY <1>1, <1>5, Names DEF Closing, Moves
  <2> QED
    BY <1>2, <1>3, <2>1, <2>2, <2>3 DEF IInv, HeardInv, Apart
<1>12. EventsInv'
  <2>1. \A e \in Event : (\E d \in Other : Waits(d, e)) => \E d \in Other : Waits(d, e)'
    BY <1>1, <1>5, <1>6, Names DEF Waits, WaitPcs, Moves, Pops
  <2>2. Waits(c, WRITE)'
    BY <1>5, <1>6 DEF Waits, WaitPcs, Moves, Pops, READ, WRITE
  <2>3. events \subseteq Event /\ batch \subseteq Event
    BY DEF IInv, SoTypeOK
  <2>4. pc'[Bottom] = pc[Bottom]
    BY <1>1, <1>5, Names DEF Moves
  <2> QED
    BY <1>1, <1>2, <1>3, <2>1, <2>2, <2>3, <2>4 DEF IInv, EventsInv
<1>13. CloseInv'
  BY <1>1, <1>2, <1>5, Names DEF IInv, SoTypeOK, CloseInv, Moves, ClosePcs, Reading, Writing
<1> QED
  BY <1>7, <1>8, <1>9, <1>10, <1>11, <1>12, <1>13 DEF IInv

LEMMA SendSomeStep ==
  ASSUME Apart, IInv, NEW c \in Other, SendSome(c)
  PROVE  IInv'
<1>1. Now = c /\ pc[c] = "send" /\ ~ closed
  BY DEF SendSome, At
<1>2. UNCHANGED <<flags, read_co, read_timer, batch>>
  BY DEF SendSome
<1>3. write_done(c) \/ write_wait(c, "send_wait")
  BY DEF SendSome
<1>4. loop_type # "AUTO"
  BY <1>1, Names DEF IInv, SoTypeOK, PcTypeOK, PcsOf, SendPcs
<1>5. "send_wait" \in {"send_wait", "write_wait"} \cap PcsOf(c)
  BY <1>4, Names DEF PcsOf, OtherPcs, Writing, WritePcs
<1>6. CASE write_done(c)
  BY <1>1, <1>2, <1>6, WriteDoneStep DEF write_done
<1>7. CASE write_wait(c, "send_wait")
  BY <1>1, <1>2, <1>5, <1>7, WriteWaitStep
<1> QED
  BY <1>3, <1>6, <1>7

LEMMA WriteSomeStep ==
  ASSUME Apart, IInv, NEW c \in Other, WriteSome(c)
  PROVE  IInv'
<1>1. Now = c /\ pc[c] = "write" /\ ~ closed
  BY DEF WriteSome, At
<1>2. UNCHANGED <<flags, read_co, read_timer, batch>>
  BY DEF WriteSome
<1>3. write_done(c) \/ write_wait(c, "write_wait")
  BY DEF WriteSome
<1>4. loop_type = "AUTO"
  BY <1>1, Names DEF IInv, SoTypeOK, PcTypeOK, PcsOf, WritePcs
<1>5. "write_wait" \in {"send_wait", "write_wait"} \cap PcsOf(c)
  BY <1>4, Names DEF PcsOf, OtherPcs, Writing, SendPcs
<1>6. CASE write_done(c)
  BY <1>1, <1>2, <1>6, WriteDoneStep DEF write_done
<1>7. CASE write_wait(c, "write_wait")
  BY <1>1, <1>2, <1>5, <1>7, WriteWaitStep
<1> QED
  BY <1>3, <1>6, <1>7

LEMMA SendClosedStep ==
  ASSUME Apart, IInv, NEW c \in Other, SendClosed(c)
  PROVE  IInv'
BY WriteDoneStep DEF SendClosed, At

\* The writer gives up: the socket is closed, or is closed now.
LEMMA WriteEndsStep ==
  ASSUME Apart, IInv, NEW c \in Other, WriteClosed(c) \/ WriteFails(c)
  PROVE  IInv'
<1>1. /\ c \in Task /\ c # Bottom /\ Now = c /\ pc[c] \in {"send", "write"}
      /\ c \notin suspended
  BY Names, StackFacts DEF WriteClosed, WriteFails, At, IInv
<1>2. /\ loop_type' = loop_type /\ batch' = batch /\ freed' = freed /\ removed' = removed
      /\ freeing' = freeing /\ read_co' = read_co /\ write_co' = write_co
      /\ read_timer' = read_timer /\ events' = events /\ epoll' = epoll
      /\ closed' = closed \/ closed' = TRUE
  BY DEF WriteClosed, WriteFails, flags, waits
<1>3. Moves(c, "php") /\ PcTypeOK'
  <2>1. "php" \in PcsOf(c)
    BY <1>1 DEF PcsOf, OtherPcs, SendPcs, WritePcs
  <2> QED
    BY <1>1, <1>2, <2>1, GotoStep DEF IInv, SoTypeOK, WriteClosed, WriteFails
<1>4. Stays
  BY StaysStep DEF IInv, WriteClosed, WriteFails
<1>5. StackInv' /\ SoTypeOK'
  BY <1>2, <1>3, <1>4 DEF IInv, SoTypeOK, Stays
<1>6. PlaceInv'
  BY <1>1, <1>3, <1>4, Names, StackFacts DEF IInv, PlaceInv, Stays, Moves
<1>7. ExclInv'
  BY <1>1, <1>2, <1>3, Names DEF IInv, ExclInv, Moves, Reading, Writing, Apart
<1>8. BoundInv'
  BY <1>1, <1>2, <1>3, Names DEF IInv, BoundInv, Moves, Reading
<1>9. HeardInv'
  BY <1>1, <1>2, <1>3, <1>4, Names
  DEF IInv, HeardInv, Waits, WaitPcs, Closing, Moves, Stays, READ, WRITE, Apart
<1>10. EventsInv'
  BY <1>1, <1>2, <1>3, <1>4, Names DEF IInv, EventsInv, Waits, WaitPcs, Moves, Stays
<1>11. CloseInv'
  BY <1>1, <1>2, <1>3, Names DEF IInv, SoTypeOK, CloseInv, Moves, ClosePcs, Reading, Writing
<1> QED
  BY <1>5, <1>6, <1>7, <1>8, <1>9, <1>10, <1>11 DEF IInv

LEMMA WriteGoesOnStep ==
  ASSUME Apart, IInv, NEW c \in Other, WriteGoesOn(c)
  PROVE  IInv'
<1>1. /\ c \in Task /\ c # Bottom /\ Now = c /\ pc[c] \in {"send_wait", "write_wait"}
      /\ c \notin suspended
  BY Names, StackFacts DEF WriteGoesOn, At, IInv
<1>2. /\ loop_type' = loop_type /\ batch' = batch /\ freed' = freed /\ removed' = removed
      /\ freeing' = freeing /\ read_co' = read_co /\ write_co' = NoCo /\ closed' = closed
      /\ read_timer' = read_timer /\ events' = events /\ epoll' = epoll
  BY DEF WriteGoesOn, flags
<1>3. PcTypeOK' /\ (Moves(c, "send") \/ Moves(c, "write"))
  <2>1. CASE pc[c] = "send_wait"
    <3>1. "send" \in PcsOf(c) /\ Goto(c, "send")
      BY <1>1, <2>1 DEF IInv, SoTypeOK, PcTypeOK, PcsOf, OtherPcs, Writing, SendPcs, WritePcs,
                        WriteGoesOn, At
    <3> QED
      BY <1>1, <1>2, <3>1, GotoStep DEF IInv, SoTypeOK
  <2>2. CASE pc[c] = "write_wait"
    <3>1. "write" \in PcsOf(c) /\ Goto(c, "write")
      BY <1>1, <2>2 DEF IInv, SoTypeOK, PcTypeOK, PcsOf, OtherPcs, Writing, SendPcs, WritePcs,
                        WriteGoesOn, At
    <3> QED
      BY <1>1, <1>2, <3>1, GotoStep DEF IInv, SoTypeOK
  <2> QED
    BY <1>1, <2>1, <2>2
<1>4. Stays
  BY StaysStep DEF IInv, WriteGoesOn
<1>5. StackInv' /\ SoTypeOK'
  BY <1>2, <1>3, <1>4 DEF IInv, SoTypeOK, Stays
<1>6. PlaceInv'
  BY <1>1, <1>3, <1>4, Names, StackFacts DEF IInv, PlaceInv, Stays, Moves
<1>7. ExclInv'
  BY <1>1, <1>2, <1>3, Names DEF IInv, ExclInv, Moves, Reading, Writing, Apart
<1>8. BoundInv'
  BY <1>1, <1>2, <1>3, Names DEF IInv, BoundInv, Moves, Reading
<1>9. HeardInv'
  <2>1. WRITE \notin overlapped' => \A d \in Other : ~ Waits(d, WRITE)'
    BY <1>1, <1>3, <1>4, Names
    DEF Apart, IInv, ExclInv, Waits, WaitPcs, Moves, Writing, Stays, READ, WRITE
  <2>2. \A d \in Other : Waits(d, READ)' => Waits(d, READ)
    BY <1>1, <1>3, <1>4, Names DEF Waits, WaitPcs, Moves, Stays, READ, WRITE
  <2>3. Closing({"close_read"}) => Closing({"close_read"})'
    BY <1>1, <1>3, Names DEF Closing, Moves
  <2> QED
    BY <1>2, <2>1, <2>2, <2>3 DEF IInv, HeardInv, Apart
<1>10. EventsInv'
  BY <1>1, <1>2, <1>3, <1>4, Names
  DEF IInv, EventsInv, Waits, WaitPcs, Moves, Stays, READ, WRITE
<1>11. CloseInv'
  BY <1>1, <1>2, <1>3, Names DEF IInv, SoTypeOK, CloseInv, Moves, ClosePcs, Reading, Writing
<1> QED
  BY <1>5, <1>6, <1>7, <1>8, <1>9, <1>10, <1>11 DEF IInv

\* PHP code closes or frees the socket.
LEMMA ClosesStep ==
  ASSUME Apart, IInv, NEW c \in Other, At(c, "php"), ~ freed, freeing = NoCo, close(c, events),
         UNCHANGED <<sched, loop_type, removed, freed, epoll, read_co, write_co, read_timer, batch>>,
         \/ freeing' = NoCo /\ loop_type = "SEMI_AUTO"
         \/ freeing' = c /\ loop_type = "AUTO"
         \/ freeing' = c /\ \A t \in Task : pc[t] \in {"php", "over", "loop", "batch"}
  PROVE  IInv'
<1>1. /\ c \in Task /\ c # Bottom /\ c # NoCo /\ Now = c /\ pc[c] = "php"
      /\ events' = {} /\ closed' = TRUE
  BY Names DEF At, close
<1>2. /\ loop_type' = loop_type /\ batch' = batch /\ freed' = freed /\ removed' = removed
      /\ read_co' = read_co /\ write_co' = write_co /\ read_timer' = read_timer /\ epoll' = epoll
  OBVIOUS
<1>3. /\ PcTypeOK' /\ (Moves(c, "close_read") \/ (events = {} /\ Moves(c, "close_fd")))
  <2>1. "close_read" \in PcsOf(c) /\ "close_fd" \in PcsOf(c)
    BY <1>1 DEF PcsOf, OtherPcs, ClosePcs, SendPcs, WritePcs
  <2>2. Goto(c, "close_read") \/ (events = {} /\ Goto(c, "close_fd"))
    BY DEF close
  <2> QED
    BY <1>1, <1>2, <2>1, <2>2, GotoStep DEF IInv, SoTypeOK
<1>4. Stays
  BY StaysStep DEF IInv
<1>5. \A t \in Task : pc[t] \in ClosePcs => loop_type = "SEMI_AUTO"
  BY Names DEF IInv, CloseInv, SoTypeOK, PcTypeOK
<1>6. StackInv' /\ SoTypeOK'
  BY <1>1, <1>2, <1>3, <1>4 DEF IInv, SoTypeOK, Stays
<1>7. PlaceInv'
  BY <1>1, <1>3, <1>4, Names, StackFacts DEF IInv, PlaceInv, Stays, Moves
<1>8. ExclInv'
  BY <1>1, <1>2, <1>3, Names DEF IInv, ExclInv, Moves, Reading, Writing, Apart
<1>9. BoundInv'
  BY <1>1, <1>2, <1>3, Names DEF IInv, BoundInv, Moves, Reading
<1>10. HeardInv'
  <2>1. \A d \in Other, e \in Event : Waits(d, e)' => Waits(d, e)
    BY <1>1, <1>3, <1>4, Names DEF Waits, WaitPcs, Moves, Stays
  <2>2. ~ Closing({"close_read"})
    BY <1>1 DEF Closing, IInv, PlaceInv
  <2>3. CASE Moves(c, "close_read")
    <3>1. Closing({"close_read"})' /\ Closing({"close_read", "close_write"})'
      BY <1>1, <2>3 DEF Closing, Moves
    <3> QED
      BY <1>2, <2>1, <3>1 DEF Apart, IInv, HeardInv, Event
  <2>4. CASE events = {} /\ Moves(c, "close_fd")
    <3>1. Closing({"close_read", "close_write"}) => Closing({"close_read", "close_write"})'
      BY <1>1, <2>4 DEF Closing, Moves
    <3> QED
      BY <1>2, <2>1, <2>2, <2>4, <3>1 DEF Apart, IInv, HeardInv, Event
  <2> QED
    BY <1>3, <2>3, <2>4
<1>11. EventsInv'
  <2>1. pc'[Bottom] = pc[Bottom]
    BY <1>1, <1>3, Names DEF Moves
  <2> QED
    BY <1>1, <1>2, <2>1 DEF IInv, EventsInv, SoTypeOK, PcTypeOK
<1>12. CloseInv'
  <2>1. \A t \in Task : pc'[t] \in ClosePcs => t = c \/ pc[t] \in ClosePcs
    BY <1>3 DEF Moves
  <2>2. pc'[c] \in ClosePcs
    BY <1>3 DEF Moves, ClosePcs
  <2>3. ASSUME \A t \in Task : pc[t] \in {"php", "over", "loop", "batch"}
        PROVE  /\ \A t \in Task : pc'[t] \in ClosePcs => t = c
               /\ \A d \in Other : pc'[d] \notin Reading \cup Writing
    BY <1>3, <2>1, <2>3, Names DEF Moves, ClosePcs, Reading, Writing
  <2>4. ~ freed'
    BY <1>2
  <2> QED
    BY <1>1, <1>2, <1>5, <2>1, <2>2, <2>3, <2>4, Names DEF CloseInv
<1> QED
  BY <1>6, <1>7, <1>8, <1>9, <1>10, <1>11, <1>12 DEF IInv

LEMMA CloseStep ==
  ASSUME Apart, IInv, NEW c \in Other, Close(c)
  PROVE  IInv'
BY ClosesStep DEF Close

LEMMA FreeStep ==
  ASSUME Apart, IInv, NEW c \in Other, Free(c)
  PROVE  IInv'
<1>1. loop_type \in {"SEMI_AUTO", "AUTO"}
  BY DEF IInv, SoTypeOK, PcTypeOK
<1> QED
  BY <1>1, ClosesStep DEF Free

\* A closer resumes the reader, then the writer.
LEMMA CloseResumesStep ==
  ASSUME Apart, IInv, NEW t \in Task, CloseResumes(t)
  PROVE  IInv'
<1>1. /\ Now = t /\ Quiet
      /\ \/ pc[t] = "close_read" /\ resume(read_co) /\ Goto(t, "close_write")
         \/ pc[t] = "close_write" /\ resume(write_co) /\ Goto(t, "close_fd")
  BY QuietStep DEF CloseResumes, At
<1>2. /\ PcTypeOK'
      /\ pc[t] = "close_read" => Moves(t, "close_write")
      /\ pc[t] = "close_write" => Moves(t, "close_fd")
  <2>1. "close_write" \in PcsOf(t) /\ "close_fd" \in PcsOf(t)
    BY DEF PcsOf, OtherPcs, ClosePcs, SendPcs, WritePcs
  <2> QED
    BY <1>1, <2>1, GotoStep DEF IInv, SoTypeOK, Quiet
<1>3. /\ Stays \/ (\E d \in Other : Pushes(d) /\ d \in suspended)
      /\ pc[t] = "close_read" => read_co \notin suspended'
      /\ pc[t] = "close_write" => write_co \notin suspended'
  <2>1. ASSUME NEW d, resume(d)
        PROVE  (Stays \/ (Pushes(d) /\ d \in suspended /\ d \in Other)) /\ d \notin suspended'
    <3>1. CASE d \in suspended
      BY <2>1, <3>1, ReenterStep DEF IInv, resume, Pushes
    <3>2. CASE d \notin suspended
      BY <2>1, <3>2, StaysStep DEF IInv, resume, Stays
    <3> QED
      BY <3>1, <3>2
  <2> QED
    BY <1>1, <2>1
<1>4. /\ StackInv' /\ suspended' \subseteq suspended /\ seen' = seen /\ Running \subseteq Running'
      /\ \A d \in suspended : d \in suspended' \/ d = Now'
  BY <1>3, StackFacts DEF IInv, Stays, Pushes
<1>5. t \in Running /\ closed /\ events = {} /\ ~ freed /\ (loop_type = "AUTO" => t = freeing)
  BY <1>1, StackFacts DEF IInv, CloseInv, ClosePcs
<1>6. SoTypeOK'
  BY <1>1, <1>2 DEF IInv, SoTypeOK, Quiet
<1>7. PlaceInv'
  BY <1>1, <1>2, <1>4, <1>5, Names, StackFacts DEF IInv, PlaceInv, Moves
<1>8. ExclInv'
  BY <1>1, <1>2, Names DEF IInv, ExclInv, Moves, Reading, Writing, Quiet, Apart
<1>9. BoundInv'
  BY <1>1, <1>2, Names DEF IInv, BoundInv, Moves, Reading, Quiet
<1>10. HeardInv'
  <2>1. \A d \in Other, e \in Event : Waits(d, e)' => Waits(d, e) /\ d \in suspended'
    BY <1>1, <1>2, <1>4, Names DEF Waits, WaitPcs, Moves
  <2>2. CASE pc[t] = "close_read"
    <3>1. Closing({"close_read", "close_write"})'
      BY <1>2, <2>2 DEF Closing, Moves
    <3>2. \A d \in Other : ~ Waits(d, READ)'
      BY <1>3, <2>1, <2>2 DEF IInv, HeardInv, Event
    <3> QED
      BY <1>1, <2>1, <3>1, <3>2 DEF Apart, IInv, HeardInv, Event, Quiet
  <2>3. CASE pc[t] = "close_write"
    <3>1. ~ Closing({"close_read"})
      BY <1>1, <2>3 DEF Closing, IInv, PlaceInv
    <3>2. WRITE \notin overlapped' => \A d \in Other : ~ Waits(d, WRITE)'
      BY <1>3, <2>1, <2>3 DEF Apart, IInv, HeardInv, Event
    <3> QED
      BY <1>5, <2>1, <3>1, <3>2 DEF Apart, IInv, HeardInv, Event
  <2> QED
    BY <1>1, <2>2, <2>3, Apart
<1>11. EventsInv'
  <2>1. pc'[Bottom] = pc[Bottom] \/ pc'[Bottom] # "loop"
    BY <1>1, <1>2, Names DEF Moves
  <2>2. loop_type = "AUTO" => freeing # NoCo
    BY <1>5, Names
  <2> QED
    BY <1>1, <1>5, <2>1, <2>2 DEF IInv, EventsInv, Quiet
<1>12. CloseInv'
  BY <1>1, <1>2, Names DEF IInv, SoTypeOK, CloseInv, Moves, ClosePcs, Reading, Writing, Quiet
<1> QED
  BY <1>4, <1>6, <1>7, <1>8, <1>9, <1>10, <1>11, <1>12 DEF IInv

\* When the fd is closed all who waited have been resumed.
LEMMA CloseFdStep ==
  ASSUME Apart, IInv, NEW t \in Task, CloseFd(t)
  PROVE  IInv'
<1>1. /\ Now = t /\ pc[t] = "close_fd"
      /\ loop_type' = loop_type /\ batch' = batch /\ removed' = TRUE /\ freeing' = freeing
      /\ closed' = closed /\ freed' = (freeing = t) /\ events' = events
      /\ read_co' = read_co /\ write_co' = write_co
      /\ read_timer' = (IF freeing = t THEN FALSE ELSE read_timer)
      /\ epoll' = epoll \/ epoll' = {}
  BY DEF CloseFd, At
<1>2. PcTypeOK' /\ Moves(t, Home(t))
  <2>1. Home(t) \in PcsOf(t)
    BY DEF PcsOf, OtherPcs, ClosePcs, SendPcs, WritePcs, Home
  <2> QED
    BY <1>1, <2>1, GotoStep DEF IInv, SoTypeOK, CloseFd
<1>3. Stays
  BY StaysStep DEF IInv, CloseFd
<1>4. /\ closed /\ events = {} /\ ~ freed
      /\ (loop_type = "AUTO" \/ freeing # NoCo) => t = freeing
  BY <1>1 DEF IInv, CloseInv, ClosePcs
<1>5. Home(t) \in {"php", "batch"}
  BY DEF Home
<1>6. StackInv' /\ SoTypeOK'
  BY <1>1, <1>2, <1>3 DEF IInv, SoTypeOK, Stays
<1>7. PlaceInv'
  <2>1. t \in seen \/ t = Bottom
    BY <1>1, StackFacts DEF IInv
  <2> QED
    BY <1>1, <1>2, <1>3, <1>5, <2>1, Names DEF IInv, PlaceInv, Stays, Moves
<1>8. ExclInv'
  BY <1>1, <1>2, <1>5, Names DEF IInv, ExclInv, Moves, Reading, Writing, Apart
<1>9. BoundInv'
  BY <1>1, <1>2, <1>5, Names DEF IInv, BoundInv, Moves, Reading
<1>10. HeardInv'
  <2>1. \A d \in Other, e \in Event : Waits(d, e)' => Waits(d, e)
    BY <1>1, <1>2, <1>3, <1>5, Names DEF Waits, WaitPcs, Moves, Stays
  <2>2. /\ Closing({"close_read"}) => Closing({"close_read"})'
        /\ Closing({"close_read", "close_write"}) => Closing({"close_read", "close_write"})'
    BY <1>1, <1>2 DEF Closing, Moves
  <2> QED
    BY <1>1, <2>1, <2>2 DEF IInv, HeardInv, Event, Apart
<1>11. EventsInv'
  <2>1. pc'[Bottom] = pc[Bottom] \/ pc'[Bottom] # "loop"
    BY <1>2, <1>5, Names DEF Moves
  <2>2. loop_type = "AUTO" => freeing # NoCo
    BY <1>4, Names
  <2> QED
    BY <1>1, <1>4, <2>1, <2>2 DEF IInv, EventsInv
<1>12. \A c \in Other : loop_type = "AUTO" => pc[c] \notin Reading \cup Writing
  <2> SUFFICES ASSUME NEW c \in Other, loop_type = "AUTO", pc[c] \in Reading \cup Writing
               PROVE  FALSE
    OBVIOUS
  <2>1. ~ Closing({"close_read"}) /\ ~ Closing({"close_read", "close_write"})
    BY <1>1, <1>4, Names DEF IInv, CloseInv, ClosePcs, Closing
  <2>2. c # t /\ c \in Task
    BY <1>1, Names DEF Reading, Writing
  <2>3. pc[c] \notin {"send", "send_wait"}
    BY <2>2, Names DEF IInv, SoTypeOK, PcTypeOK, PcsOf, SendPcs
  <2>4. pc[c] \in {"read_wait", "write_wait"} /\ c \in suspended
    BY <1>1, <2>2, <2>3 DEF IInv, PlaceInv, Reading, Writing
  <2>5. Waits(c, READ) \/ Waits(c, WRITE)
    BY <2>4 DEF Waits, WaitPcs, READ, WRITE
  <2> QED
    BY <1>4, <2>1, <2>5 DEF IInv, HeardInv, Apart
<1>13. CloseInv'
  <2>1. \A u \in Task : pc'[u] \in ClosePcs => u # t /\ pc[u] \in ClosePcs
    BY <1>2, <1>5 DEF Moves, ClosePcs
  <2>2. \A c \in Other : pc'[c] \in Reading \cup Writing => pc[c] \in Reading \cup Writing
    BY <1>2, <1>5, Names DEF Moves, Reading, Writing
  <2>3. loop_type \in {"SEMI_AUTO", "AUTO"}
    BY DEF IInv, SoTypeOK, PcTypeOK
  <2>4. CASE freeing = t
    <3>1. \A u \in Task : pc'[u] \notin ClosePcs
      BY <2>1, <2>4, Names DEF IInv, CloseInv
    <3>2. \A c \in Other : pc'[c] \notin Reading \cup Writing
      BY <1>12, <2>2, <2>3, <2>4, Names DEF IInv, CloseInv
    <3> QED
      BY <1>1, <1>4, <2>4, <3>1, <3>2, Names DEF CloseInv
  <2>5. CASE freeing # t
    <3>1. freeing = NoCo /\ loop_type # "AUTO" /\ freed' = FALSE
      BY <1>1, <1>4, <2>5
    <3> QED
      BY <1>1, <1>4, <2>1, <3>1 DEF IInv, CloseInv
  <2> QED
    BY <2>4, <2>5
<1> QED
  BY <1>6, <1>7, <1>8, <1>9, <1>10, <1>11, <1>13 DEF IInv

\* While the event loop runs no task is inside a call but those that wait.
LEMMA LoopFacts ==
  ASSUME IInv, Now = Bottom, pc[Bottom] \in {"loop", "batch"}
  PROVE  /\ \A t \in Task : pc[t] \notin ClosePcs
         /\ \A c \in Other : pc[c] \notin {"read", "write", "send"}
         /\ \A c \in Other : pc[c] \in {"read_wait", "send_wait", "write_wait"} => c \in suspended
         /\ ~ freed => freeing = NoCo
<1>1. Running = {Bottom}
  BY StackFacts DEF IInv
<1>2. \A t \in Task : pc[t] \notin ClosePcs
  BY <1>1 DEF IInv, PlaceInv, ClosePcs
<1>3. /\ \A c \in Other : pc[c] \notin {"read", "write", "send"}
      /\ \A c \in Other : pc[c] \in {"read_wait", "send_wait", "write_wait"} => c \in suspended
  BY <1>1, Names DEF IInv, PlaceInv
<1>4. ~ freed => freeing = NoCo
  BY <1>2, Names DEF IInv, CloseInv, SoTypeOK
<1> QED
  BY <1>2, <1>3, <1>4

\* A socket is ready, or its timer has fired.
LEMMA HandleStep ==
  ASSUME Apart, IInv, Now = Bottom, pc[Bottom] \in {"loop", "batch"}, ~ freed,
         NEW e \in Event, handle(e),
         loop_type = "AUTO" => \E d \in Other : Waits(d, e),
         UNCHANGED <<loop_type, removed, freeing, freed, read_co, write_co>>,
         read_timer' = read_timer \/ read_timer' = FALSE,
         batch' \subseteq batch, e \notin batch'
  PROVE  IInv'
<1> DEFINE co == IF e = READ THEN read_co ELSE write_co
<1>1. /\ loop_type' = loop_type /\ removed' = removed /\ freeing' = freeing /\ freed' = freed
      /\ read_co' = read_co /\ write_co' = write_co /\ freeing = NoCo
      /\ pc[Bottom] = "loop" => batch' = {}
  BY LoopFacts DEF IInv, EventsInv
<1>2. /\ \A t \in Task : pc[t] \notin ClosePcs
      /\ \A c \in Other : pc[c] \notin {"read", "write", "send"}
      /\ \A c \in Other : pc[c] \in {"read_wait", "send_wait", "write_wait"} => c \in suspended
  BY LoopFacts
<1>3. \A steps : steps \subseteq ClosePcs => ~ Closing(steps)
  BY <1>2 DEF Closing
<1>4. loop_type = "AUTO" \/ WRITE \notin overlapped \/ e = READ =>
        \A d \in Other : Waits(d, e) => co = d
  BY DEF IInv, HeardInv, Event, Apart
<1>5. CASE co # NoCo
  <2>1. co \in Other /\ pc[co] \in WaitPcs(e)
    BY <1>5 DEF IInv, SoTypeOK, BoundInv, WaitPcs
  <2>2. co \in suspended
    BY <1>2, <2>1 DEF WaitPcs
  <2>3. /\ pc' = pc /\ closed' = closed /\ resume(co)
        /\ loop_type = "AUTO" => events' = {} /\ epoll' = loop_del
        /\ loop_type # "AUTO" => events' = events /\ epoll' = epoll
    BY <1>5 DEF handle
  <2>4. Pushes(co)
    BY <2>2, <2>3, ReenterStep DEF resume, IInv
  <2> HIDE DEF co
  <2>5. loop_type = "AUTO" => epoll' = {}
    BY <1>1, <2>3 DEF loop_del, IInv, EventsInv
  <2>6. PcTypeOK'
    BY <1>1, <2>3, PcStays DEF IInv, SoTypeOK
  <2>7. StackInv' /\ SoTypeOK'
    BY <1>1, <2>3, <2>4, <2>5, <2>6 DEF IInv, SoTypeOK, Pushes
  <2>8. PlaceInv'
    BY <1>2, <2>1, <2>3, <2>4, Names DEF IInv, PlaceInv, Pushes, ClosePcs
  <2>9. ExclInv'
    BY <1>1, <2>3 DEF Apart, IInv, ExclInv
  <2>10. BoundInv'
    BY <1>1, <2>3 DEF IInv, BoundInv
  <2>11. \A d \in Other, f \in Event : Waits(d, f)' => Waits(d, f) /\ d # co
    BY <2>3, <2>4 DEF Waits, WaitPcs, Pushes
  <2>13. loop_type = "AUTO" => \A d \in Other, f \in Event : ~ Waits(d, f)'
    BY <2>1, <2>11 DEF IInv, ExclInv, Waits, WaitPcs, Reading, Writing
  <2>14. HeardInv'
    <3>1. loop_type # "AUTO" => events' = events
      BY <2>3
    <3>2. ~ Closing({"close_read"}) /\ ~ Closing({"close_read", "close_write"})
      BY <1>3 DEF ClosePcs
    <3>3. READ \in Event /\ WRITE \in Event
      BY DEF Event
    <3> QED
      BY <1>1, <2>11, <2>13, <3>1, <3>2, <3>3 DEF Apart, IInv, HeardInv
  <2>15. EventsInv'
    <3>1. CASE loop_type = "AUTO"
      <4>1. \A f \in batch' : \E d \in Other : Waits(d, f)
        BY <1>1, <3>1 DEF IInv, EventsInv
      <4>2. \A d \in Other, f \in Event : Waits(d, f) => f = e
        BY <2>1, <3>1 DEF IInv, ExclInv, Waits, WaitPcs, Reading, Writing, Event, READ, WRITE
      <4>3. batch' = {}
        BY <4>1, <4>2 DEF IInv, SoTypeOK
      <4> QED
        BY <1>1, <2>3, <2>5, <3>1, <4>3 DEF EventsInv
    <3>2. CASE loop_type # "AUTO"
      BY <1>1, <2>3, <3>2 DEF IInv, EventsInv
    <3> QED
      BY <3>1, <3>2
  <2>16. CloseInv'
    BY <1>1, <1>2, <2>3 DEF CloseInv, IInv
  <2> QED
    BY <2>7, <2>8, <2>9, <2>10, <2>14, <2>15, <2>16 DEF IInv, Apart
<1>6. CASE co = NoCo
  <2>1. loop_type # "AUTO"
    BY <1>4, <1>6, Names
  <2>2. /\ closed' = TRUE /\ events' = {} /\ epoll' = epoll /\ UNCHANGED sched
        /\ Goto(Bottom, "close_read") \/ (events = {} /\ Goto(Bottom, "close_fd"))
    BY <1>6, <2>1 DEF handle, close
  <2>3. PcTypeOK' /\ (Moves(Bottom, "close_read") \/ (events = {} /\ Moves(Bottom, "close_fd")))
    <3>1. "close_read" \in PcsOf(Bottom) /\ "close_fd" \in PcsOf(Bottom)
      BY DEF PcsOf, ClosePcs
    <3> QED
      BY <1>1, <2>2, <3>1, Names, GotoStep DEF IInv, SoTypeOK
  <2>4. Stays
    BY <2>2, StaysStep DEF IInv
  <2> HIDE DEF co
  <2>5. StackInv' /\ SoTypeOK'
    BY <1>1, <2>2, <2>3, <2>4 DEF IInv, SoTypeOK, Stays
  <2>6. PlaceInv'
    BY <2>3, <2>4, Names, StackFacts DEF IInv, PlaceInv, Stays, Moves
  <2>7. ExclInv'
    BY <1>1, <2>3, Names DEF Apart, IInv, ExclInv, Moves
  <2>8. BoundInv'
    BY <1>1, <2>3, Names DEF IInv, BoundInv, Moves
  <2>9. HeardInv'
    <3>1. \A d \in Other, f \in Event : Waits(d, f)' => Waits(d, f)
      BY <2>3, <2>4, Names DEF Waits, WaitPcs, Moves, Stays
    <3>2. ~ Closing({"close_read"}) /\ ~ Closing({"close_read", "close_write"})
      BY <1>3 DEF ClosePcs
    <3>3. CASE events = {}
      BY <3>1, <3>2, <3>3 DEF Apart, IInv, HeardInv, Event
    <3>4. CASE Moves(Bottom, "close_read")
      <4>1. Closing({"close_read"})' /\ Closing({"close_read", "close_write"})'
        BY <3>4, Names DEF Closing, Moves
      <4> QED
        BY <1>1, <3>1, <4>1 DEF Apart, IInv, HeardInv, Event
    <3> QED
      BY <2>3, <3>3, <3>4
  <2>10. EventsInv'
    BY <1>1, <2>1, <2>2, <2>3 DEF IInv, EventsInv, Moves
  <2>11. CloseInv'
    BY <1>1, <1>2, <2>1, <2>2, <2>3, Names DEF CloseInv, IInv, Moves
  <2> QED
    BY <2>5, <2>6, <2>7, <2>8, <2>9, <2>10, <2>11 DEF IInv, Apart
<1> QED
  BY <1>5, <1>6

LEMMA DispatchStep ==
  ASSUME Apart, IInv, NEW e \in Event, Dispatch(e)
  PROVE  IInv'
<1>1. /\ Now = Bottom /\ pc[Bottom] = "batch" /\ e \in batch /\ batch' = batch \ {e}
      /\ UNCHANGED <<loop_type, removed, freeing, freed, read_co, write_co>>
      /\ read_timer' = read_timer
  BY DEF Dispatch, At
<1>2. CASE ~ freed
  <2>1. handle(e)
    BY <1>2 DEF Dispatch
  <2>2. loop_type = "AUTO" => \E d \in Other : Waits(d, e)
    BY <1>1, <1>2, LoopFacts DEF IInv, EventsInv
  <2> QED
    BY <1>1, <1>2, <2>1, <2>2, HandleStep
<1>3. CASE freed
  <2>1. UNCHANGED sched /\ pc' = pc /\ closed' = closed /\ events' = events /\ epoll' = epoll
    BY <1>3 DEF Dispatch
  <2>2. Stays /\ PcTypeOK'
    BY <1>1, <2>1, StaysStep, PcStays DEF IInv, SoTypeOK
  <2>3. StackInv' /\ SoTypeOK'
    BY <1>1, <2>1, <2>2 DEF IInv, SoTypeOK, Stays
  <2>4. PlaceInv' /\ ExclInv' /\ BoundInv'
    BY <1>1, <2>1, <2>2 DEF Apart, IInv, PlaceInv, ExclInv, BoundInv, Stays
  <2>5. HeardInv' /\ CloseInv'
    BY <1>1, <2>1, <2>2 DEF Apart, IInv, HeardInv, CloseInv, Waits, Closing, Stays
  <2>6. EventsInv'
    BY <1>1, <1>3, <2>1, <2>2 DEF IInv, EventsInv, CloseInv, Waits, Stays
  <2> QED
    BY <2>3, <2>4, <2>5, <2>6 DEF IInv, Apart
<1> QED
  BY <1>2, <1>3

LEMMA TimerStep ==
  ASSUME Apart, IInv, timer_read_callback
  PROVE  IInv'
<1>1. /\ Now = Bottom /\ pc[Bottom] = "loop" /\ read_timer /\ read_timer' = FALSE /\ handle(READ)
      /\ UNCHANGED <<loop_type, removed, freeing, freed, read_co, write_co>> /\ batch' = batch
  BY DEF timer_read_callback, At
<1>2. PICK c \in Other : pc[c] \in Reading
  BY <1>1 DEF IInv, BoundInv
<1>3. Waits(c, READ)
  BY <1>1, <1>2, LoopFacts DEF Waits, WaitPcs, Reading
<1>4. ~ freed
  BY <1>2 DEF IInv, CloseInv
<1>5. batch = {} /\ READ \in Event
  BY <1>1 DEF IInv, EventsInv, Event
<1> QED
  BY <1>1, <1>3, <1>4, <1>5, HandleStep

LEMMA BatchStep ==
  ASSUME Apart, IInv, EpollWait \/ BatchDone
  PROVE  IInv'
<1>1. /\ Now = Bottom /\ pc[Bottom] \in {"loop", "batch"} /\ Bottom \in Task
      /\ UNCHANGED <<flags, waits>> /\ UNCHANGED sched
      /\ \/ batch' \subseteq epoll /\ Goto(Bottom, "batch")
         \/ batch' = {} /\ Goto(Bottom, "loop")
  BY Names DEF EpollWait, BatchDone, At, Ready
<1>2. /\ loop_type' = loop_type /\ events' = events /\ epoll' = epoll
      /\ closed' = closed /\ freed' = freed /\ removed' = removed /\ freeing' = freeing
      /\ read_co' = read_co /\ write_co' = write_co /\ read_timer' = read_timer
  BY <1>1 DEF flags, waits
<1>3. PcTypeOK' /\ (Moves(Bottom, "batch") \/ (batch' = {} /\ Moves(Bottom, "loop")))
  <2>1. "loop" \in PcsOf(Bottom) /\ "batch" \in PcsOf(Bottom)
    BY DEF PcsOf
  <2> QED
    BY <1>1, <1>2, <2>1, GotoStep DEF IInv, SoTypeOK
<1>4. Stays
  BY <1>1, StaysStep DEF IInv
<1>5. StackInv' /\ SoTypeOK'
  BY <1>1, <1>2, <1>3, <1>4 DEF IInv, SoTypeOK, Stays
<1>6. PlaceInv'
  BY <1>1, <1>3, <1>4, Names DEF IInv, PlaceInv, Stays, Moves
<1>7. ExclInv'
  BY <1>2, <1>3, Names DEF IInv, ExclInv, Moves, Apart
<1>8. BoundInv'
  BY <1>2, <1>3, Names DEF IInv, BoundInv, Moves
<1>9. HeardInv'
  BY <1>1, <1>2, <1>3, <1>4, Names
  DEF IInv, HeardInv, Waits, WaitPcs, Closing, Moves, Stays, Apart
<1>10. EventsInv'
  <2>1. \A e, d : d \in Other /\ Waits(d, e) => Waits(d, e)'
    BY <1>3, <1>4, Names DEF Waits, WaitPcs, Moves, Stays
  <2> QED
    BY <1>1, <1>2, <1>3, <2>1 DEF IInv, EventsInv, Moves
<1>11. CloseInv'
  BY <1>1, <1>2, <1>3, Names DEF IInv, SoTypeOK, CloseInv, Moves, ClosePcs
<1> QED
  BY <1>5, <1>6, <1>7, <1>8, <1>9, <1>10, <1>11 DEF IInv

-----------------------------------------------------------------------------
(***************************************************************************)
(* The invariant.                                                          *)
(***************************************************************************)

LEMMA InitIInv ==
  ASSUME SIOInit
  PROVE  IInv
<1>1. loop_type \in {"SEMI_AUTO", "AUTO"}
  BY SocketAssumption DEF SIOInit
<1>2. StackInv /\ Running = {Bottom} /\ Now = Bottom
  BY Names DEF SIOInit, StackInv, Running, Now, Last
<1>3. /\ pc = [t \in Task |-> IF t = Bottom THEN "loop"
                              ELSE IF loop_type = "SEMI_AUTO" /\ t = Reader THEN "read_wait" ELSE "php"]
      /\ seen = (IF loop_type = "SEMI_AUTO" THEN {Reader} ELSE {}) /\ suspended = seen
      /\ events = (IF loop_type = "SEMI_AUTO" THEN {READ} ELSE {}) /\ epoll = events
      /\ read_co = (IF loop_type = "SEMI_AUTO" THEN Reader ELSE NoCo) /\ write_co = NoCo
      /\ read_timer = (loop_type = "SEMI_AUTO")
      /\ closed = FALSE /\ removed = FALSE /\ batch = {} /\ freeing = NoCo /\ freed = FALSE
  BY DEF SIOInit
<1>4. PcTypeOK
  BY <1>1, <1>3, Names DEF PcTypeOK, PcsOf, OtherPcs, Reading, SendPcs, WritePcs
<1>5. SoTypeOK
  BY <1>1, <1>3, <1>4, Names DEF SoTypeOK, Event
<1>6. \A t \in Task : pc[t] \in {"loop", "php"} \/ (pc[t] = "read_wait" /\ t = Reader /\ loop_type = "SEMI_AUTO")
  BY <1>3
<1>7. PlaceInv
  BY <1>1, <1>3, <1>6, Names DEF PlaceInv
<1>8. ExclInv
  BY <1>6, Names DEF ExclInv, Reading, Writing
<1>9. BoundInv
  BY <1>3, Names DEF BoundInv, Reading
<1>10. HeardInv
  BY <1>1, <1>3, <1>6, Names DEF HeardInv, Waits, WaitPcs, READ, WRITE
<1>11. EventsInv
  BY <1>1, <1>3 DEF EventsInv
<1>12. CloseInv
  BY <1>3, <1>6 DEF CloseInv, ClosePcs
<1> QED
  BY <1>2, <1>5, <1>7, <1>8, <1>9, <1>10, <1>11, <1>12 DEF IInv

LEMMA NextStep ==
  ASSUME Apart, IInv, SIONext
  PROVE  IInv'
<1>1. ASSUME NEW c \in Other, Read(c) \/ ReadExits(c) \/ WriteExits(c) \/ Close(c) \/ Free(c)
      PROVE  IInv'
  BY <1>1, ReadStep, ExitsStep, CloseStep, FreeStep DEF ReadExits, WriteExits
<1>2. ASSUME NEW c \in Other, NEW n \in 1 .. MaxBytes, Send(c, n) \/ Write(c, n)
      PROVE  IInv'
  <2>1. n \in Nat
    OBVIOUS
  <2> QED
    BY <1>2, <2>1, SendStep, WriteStep
<1>3. ASSUME NEW c \in Other, Calls(c)
      PROVE  IInv'
  BY <1>3, ReadReturnsStep, ReadBlocksStep, ReadGoesOnStep, SendSomeStep, SendClosedStep,
     WriteSomeStep, WriteEndsStep, WriteGoesOnStep DEF Calls
<1>4. ASSUME NEW c \in Other, PhpStarts(c) \/ PhpStops(c)
      PROVE  IInv'
  BY <1>4, PhpStartsStep, PhpStopsStep
<1>5. ASSUME NEW t \in Task, CloseResumes(t) \/ CloseFd(t)
      PROVE  IInv'
  BY <1>5, CloseResumesStep, CloseFdStep
<1>6. ASSUME Loop \/ timer_read_callback
      PROVE  IInv'
  BY <1>6, BatchStep, DispatchStep, TimerStep DEF Loop
<1>7. ASSUME Peer \/ PeerReads
      PROVE  IInv'
  <2>1. Quiet /\ UNCHANGED <<sched, pc>>
    BY <1>7, QuietStep DEF Peer, PeerReads
  <2> QED
    BY <2>1, SameStep
<1> QED
  BY <1>1, <1>2, <1>3, <1>4, <1>5, <1>6, <1>7 DEF SIONext

\* Calls overlap at the start of a read, of a send or of a write, and what has
\* overlapped once is not forgotten.
LEMMA OverlapStep ==
  ASSUME OverlapInv, [SIONext]_sovars
  PROVE  OverlapInv' /\ overlapped \subseteq overlapped'
<1>1. \/ UNCHANGED <<loop_type, overlapped>>
      \/ loop_type' = loop_type /\ \E e \in Event : overlapped' = overlapped \cup Overlaps(e)
  <2>1. ASSUME NEW c \in Other, Read(c) \/ \E n \in 1 .. MaxBytes : Send(c, n) \/ Write(c, n)
        PROVE  loop_type' = loop_type /\ \E e \in Event : overlapped' = overlapped \cup Overlaps(e)
    BY <2>1 DEF Read, Send, Write, Overlap, flags, Event
  <2>2. ASSUME NEW c \in Other, ReadExits(c) \/ WriteExits(c) \/ Close(c) \/ Free(c)
        PROVE  UNCHANGED <<loop_type, overlapped>>
    BY <2>2 DEF ReadExits, WriteExits, Exits, Close, Free, history
  <2>3. ASSUME NEW c \in Other, Calls(c)
        PROVE  UNCHANGED <<loop_type, overlapped>>
    BY <2>3 DEF Calls, ReadReturns, ReadBlocks, ReadGoesOn, SendSome, SendClosed,
                WriteSome, WriteClosed, WriteFails, WriteGoesOn, flags, history
  <2>4. ASSUME NEW c \in Other, PhpStarts(c) \/ PhpStops(c)
        PROVE  UNCHANGED <<loop_type, overlapped>>
    BY <2>4 DEF PhpStarts, PhpStops, flags, history
  <2>5. ASSUME NEW t \in Task, CloseResumes(t) \/ CloseFd(t)
        PROVE  UNCHANGED <<loop_type, overlapped>>
    BY <2>5 DEF CloseResumes, CloseFd, flags, history
  <2>6. ASSUME Loop \/ timer_read_callback \/ Peer \/ PeerReads
        PROVE  UNCHANGED <<loop_type, overlapped>>
    BY <2>6 DEF Loop, EpollWait, BatchDone, Dispatch, timer_read_callback, Peer, PeerReads,
                flags, history
  <2>7. ASSUME UNCHANGED sovars
        PROVE  UNCHANGED <<loop_type, overlapped>>
    BY <2>7 DEF sovars, flags, history
  <2> QED
    BY <2>1, <2>2, <2>3, <2>4, <2>5, <2>6, <2>7 DEF SIONext
<1>2. \A e \in Event : Overlaps(e) \in IF loop_type = "AUTO" THEN {{}, Event} ELSE {{}, {WRITE}}
  BY DEF Overlaps
<1> QED
  BY <1>1, <1>2 DEF OverlapInv, Event

\* The inductive invariant holds in every state, whatever PHP code does: on a
\* connection whoever reads and sends, on a stream until it is read and written at
\* a time.
THEOREM SoInvariant == SIOSpec => []FullInv
<1>1. SIOInit => FullInv
  <2>1. SIOInit => OverlapInv
    BY SocketAssumption DEF SIOInit, OverlapInv
  <2> QED
    BY <2>1, InitIInv DEF FullInv
<1>2. FullInv /\ [SIONext]_sovars => FullInv'
  <2> SUFFICES ASSUME FullInv, [SIONext]_sovars
               PROVE  FullInv'
    OBVIOUS
  <2>1. OverlapInv' /\ overlapped \subseteq overlapped'
    BY OverlapStep DEF FullInv
  <2>2. ASSUME READ \notin overlapped'
        PROVE  IInv'
    <3>1. Apart /\ IInv
      BY <2>1, <2>2 DEF FullInv, OverlapInv, Apart, Event
    <3>2. CASE UNCHANGED sovars
      <4>1. Quiet /\ UNCHANGED <<sched, pc>>
        BY <3>2, QuietStep DEF sovars
      <4> QED
        BY <3>1, <4>1, SameStep
    <3>3. CASE SIONext
      BY <3>1, <3>3, NextStep
    <3> QED
      BY <3>2, <3>3
  <2> QED
    BY <2>1, <2>2 DEF FullInv
<1> QED
  BY <1>1, <1>2, PTL DEF SIOSpec

\* A coroutine suspended in read, send or write will be woken: the socket knows
\* it, and epoll looks for its event or a closer is about to come to it; as long
\* as calls for that event have not overlapped unnoticed.
THEOREM SoWaitersHeard == SIOSpec => []WaitersHeard
<1>1. FullInv => WaitersHeard
  <2> SUFFICES ASSUME FullInv, NEW c \in suspended
               PROVE  /\ pc[c] = "read_wait" /\ READ \notin overlapped =>
                           read_co = c /\ (READ \in epoll \/ Closing({"close_read"}))
                      /\ pc[c] \in {"send_wait", "write_wait"} /\ WRITE \notin overlapped =>
                           write_co = c /\ (WRITE \in epoll \/ Closing({"close_read", "close_write"}))
    BY DEF WaitersHeard
  <2>1. CASE READ \in overlapped
    BY <2>1 DEF FullInv, OverlapInv, Event, READ, WRITE
  <2>2. CASE READ \notin overlapped
    <3>1. IInv /\ c \in Other
      BY <2>2, StackFacts DEF FullInv, IInv
    <3>2. pc[c] = "read_wait" => Waits(c, READ)
      BY DEF Waits, WaitPcs
    <3>3. pc[c] \in {"send_wait", "write_wait"} => Waits(c, WRITE)
      BY DEF Waits, WaitPcs, READ, WRITE
    <3>4. \A e \in events : e \in epoll
      BY <3>1 DEF IInv, EventsInv
    <3> QED
      BY <3>1, <3>2, <3>3, <3>4 DEF IInv, HeardInv
  <2> QED
    BY <2>1, <2>2
<1> QED
  BY <1>1, SoInvariant, PTL

\* When wmSocket_free is done no coroutine is left in a call of the socket, unless
\* it is a stream that was read and written at a time.
THEOREM SoNobodyLeftInside == SIOSpec => []NobodyLeftInside
<1>1. FullInv => NobodyLeftInside
  BY DEF FullInv, IInv, CloseInv, NobodyLeftInside, InUse
<1> QED
  BY <1>1, SoInvariant, PTL

-----------------------------------------------------------------------------
(***************************************************************************)
(* The bytes that are sent.                                                *)
(***************************************************************************)

LEMMA UpConcat ==
  ASSUME NEW s \in Seq(Nat), NEW q \in Seq(Nat), NEW k \in Nat, Up(s, k), Up(q, k + Len(s))
  PROVE  s \o q \in Seq(Nat) /\ Len(s \o q) = Len(s) + Len(q) /\ Up(s \o q, k)
<1>1. /\ Len(s) \in Nat /\ Len(q) \in Nat /\ Len(s \o q) = Len(s) + Len(q)
      /\ s \o q \in Seq(Nat)
      /\ \A i \in 1 .. Len(s) + Len(q) : (s \o q)[i] = IF i <= Len(s) THEN s[i] ELSE q[i - Len(s)]
  BY ConcatProperties, LenProperties
<1>2. ASSUME NEW i \in 1 .. Len(s) + Len(q)
      PROVE  (s \o q)[i] = k + i
  <2>1. CASE i <= Len(s)
    <3>1. i \in 1 .. Len(s)
      BY <1>1, <2>1
    <3> QED
      BY <1>1, <2>1, <3>1 DEF Up
  <2>2. CASE ~ (i <= Len(s))
    <3>1. i - Len(s) \in 1 .. Len(q) /\ (k + Len(s)) + (i - Len(s)) = k + i
      BY <1>1, <2>2
    <3> QED
      BY <1>1, <2>2, <3>1 DEF Up
  <2> QED
    BY <2>1, <2>2
<1> QED
  BY <1>1, <1>2 DEF Up

LEMMA UpSplit ==
  ASSUME NEW s \in Seq(Nat), NEW k \in Nat, Up(s, k), NEW n \in Nat, n <= Len(s)
  PROVE  /\ SubSeq(s, 1, n) \in Seq(Nat) /\ Len(SubSeq(s, 1, n)) = n /\ Up(SubSeq(s, 1, n), k)
         /\ SubSeq(s, n + 1, Len(s)) \in Seq(Nat)
         /\ Len(SubSeq(s, n + 1, Len(s))) = Len(s) - n
         /\ Up(SubSeq(s, n + 1, Len(s)), k + n)
<1> DEFINE a == SubSeq(s, 1, n)
           b == SubSeq(s, n + 1, Len(s))
<1>1. Len(s) \in Nat
  BY LenProperties
<1>2. a \in Seq(Nat) /\ Len(a) = n /\ \A i \in 1 .. n : a[i] = s[i]
  BY <1>1
<1>3. b \in Seq(Nat) /\ Len(b) = Len(s) - n /\ \A i \in 1 .. Len(s) - n : b[i] = s[n + i]
  BY <1>1
<1> HIDE DEF a, b
<1>4. Up(a, k)
  <2>1. \A i \in 1 .. n : i \in 1 .. Len(s)
    BY <1>1
  <2> QED
    BY <1>2, <2>1 DEF Up
<1>5. Up(b, k + n)
  <2>1. \A i \in 1 .. Len(s) - n : n + i \in 1 .. Len(s) /\ (k + n) + i = k + (n + i)
    BY <1>1
  <2> QED
    BY <1>3, <2>1 DEF Up
<1> QED
  BY <1>2, <1>3, <1>4, <1>5 DEF a, b

LEMMA BytesUp ==
  ASSUME given \in Nat, NEW n \in Nat
  PROVE  Bytes(n) \in Seq(Nat) /\ Len(Bytes(n)) = n /\ Up(Bytes(n), given)
<1>1. \A i \in 1 .. n : given + i \in Nat
  OBVIOUS
<1>2. Bytes(n) \in Seq(Nat) /\ Len(Bytes(n)) = n /\ \A i \in 1 .. n : Bytes(n)[i] = given + i
  BY <1>1 DEF Bytes
<1> QED
  BY <1>2 DEF Up

LEMMA AcceptsSome ==
  ASSUME room \in Nat, NEW n \in Nat
  PROVE  Accepts(n) \in Nat /\ Accepts(n) <= n /\ room - Accepts(n) \in Nat
BY DEF Accepts

\* The steps that hand no bytes over and send none: the task that runs goes to
\* another place, but does not start or end a write.
Turns ==
  \/ pc' = pc
  \/ /\ Now \in Task
     /\ \E p \in PcsOf(Now) : Goto(Now, p) /\ (p \in WritePcs <=> pc[Now] \in WritePcs)

\* Who waits to write goes on only when it is woken.
Holds ==
  \/ UNCHANGED <<sched, pc, write_co>>
  \/ pc[Now] \notin WritePcs /\ write_co' = write_co
  \/ Now \in Other /\ pc[Now] = "write_wait" /\ Goto(Now, "write") /\ UNCHANGED sched

Aside ==
  /\ wire' = wire /\ write_buffer' = write_buffer /\ given' = given
  /\ todo' = todo /\ ret_num' = ret_num /\ torn' = torn
  /\ room' = room \/ room' = Room
  /\ closed' = closed \/ closed' = TRUE
  /\ loop_type' = loop_type
  /\ Turns
  /\ loop_type = "AUTO" => Holds

Outputs(c) ==
  SendSome(c) \/ WriteSome(c) \/ WriteClosed(c) \/ WriteFails(c)

LEMMA PlainPcs ==
  /\ \A c \in Other : {"php", "over", "read", "read_wait"} \subseteq PcsOf(c) \ WritePcs
  /\ \A t \in Task : ClosePcs \cup {Home(t)} \subseteq PcsOf(t) \ WritePcs
  /\ {"loop", "batch"} \subseteq PcsOf(Bottom) \ WritePcs
BY Names DEF PcsOf, OtherPcs, Reading, ClosePcs, SendPcs, WritePcs, Home

LEMMA FailsMove ==
  ASSUME NEW c \in Other, Now = c, pc[c] \notin WritePcs, Fails(c) \/ Goto(c, "php")
  PROVE  Turns
BY PlainPcs, Names DEF Fails, Turns

LEMMA CloseMove ==
  ASSUME NEW t \in Task, Now = t, pc[t] \notin WritePcs, NEW evs, close(t, evs)
  PROVE  closed' = TRUE /\ Turns
BY PlainPcs DEF close, ClosePcs, Turns

LEMMA HandleMove ==
  ASSUME NEW e, handle(e), Now = Bottom, pc[Bottom] \notin WritePcs
  PROVE  (closed' = closed \/ closed' = TRUE) /\ Turns
BY CloseMove, Names DEF handle, Turns

LEMMA AsideCalls ==
  ASSUME PcTypeOK, NEW c \in Other,
         \/ Read(c) \/ ReadExits(c) \/ WriteExits(c) \/ Close(c) \/ Free(c)
         \/ ReadReturns(c) \/ ReadBlocks(c) \/ ReadGoesOn(c) \/ SendClosed(c) \/ WriteGoesOn(c)
         \/ PhpStarts(c) \/ PhpStops(c)
  PROVE  Aside
<1> USE DEF history
<1>1. c \in Task
  BY Names
<1>2. CASE Read(c)
  <2>1. Now = c /\ Goto(c, "read") /\ pc[c] \notin WritePcs
    BY <1>2 DEF Read, MayCall, At, WritePcs
  <2>2. Turns /\ Holds
    BY <1>1, <1>2, <2>1, PlainPcs DEF Read, Turns, Holds, waits
  <2> QED
    BY <1>2, <2>2 DEF Read, Overlap, Aside, flags, output
<1>3. CASE ReadExits(c) \/ WriteExits(c)
  <2>1. Turns /\ Holds
    BY <1>3 DEF ReadExits, WriteExits, Exits, Turns, Holds, waits
  <2> QED
    BY <1>3, <2>1 DEF ReadExits, WriteExits, Exits, Aside, output
<1>4. CASE PhpStarts(c) \/ PhpStops(c)
  <2>1. pc[Now] \notin WritePcs
    BY <1>4 DEF PhpStarts, PhpStops, At, WritePcs
  <2>2. Turns /\ Holds
    BY <1>4, <2>1 DEF PhpStarts, PhpStops, Turns, Holds, waits
  <2> QED
    BY <1>4, <2>2 DEF PhpStarts, PhpStops, Aside, flags, output
<1>5. CASE Close(c) \/ Free(c)
  <2>1. Now = c /\ close(c, events) /\ pc[c] \notin WritePcs
    BY <1>5 DEF Close, Free, At, WritePcs
  <2>2. closed' = TRUE /\ Turns
    BY <1>1, <2>1, CloseMove
  <2>3. Holds
    BY <1>5, <2>1 DEF Close, Free, Holds
  <2> QED
    BY <1>5, <2>2, <2>3 DEF Close, Free, Aside, output
<1>6. CASE ReadReturns(c)
  <2>1. /\ Now = c /\ (Fails(c) \/ Goto(c, "php")) /\ pc[c] \notin WritePcs
        /\ closed' = closed \/ closed' = TRUE
    BY <1>6 DEF ReadReturns, At, WritePcs
  <2>2. Turns
    BY <2>1, FailsMove
  <2>3. Holds
    BY <1>6, <2>1 DEF ReadReturns, Holds
  <2> QED
    BY <1>6, <2>1, <2>2, <2>3 DEF ReadReturns, Aside, output
<1>7. CASE ReadBlocks(c)
  <2>1. Now = c /\ Goto(c, "read_wait") /\ pc[c] \notin WritePcs
    BY <1>7 DEF ReadBlocks, At, WritePcs
  <2>2. Turns /\ Holds
    BY <1>1, <1>7, <2>1, PlainPcs DEF ReadBlocks, Turns, Holds
  <2> QED
    BY <1>7, <2>2 DEF ReadBlocks, Aside, flags, output
<1>8. CASE ReadGoesOn(c)
  <2>1. Now = c /\ (Fails(c) \/ Goto(c, "read")) /\ pc[c] \notin WritePcs
    BY <1>8 DEF ReadGoesOn, At, WritePcs
  <2>2. Turns
    BY <1>1, <2>1, FailsMove, PlainPcs DEF Turns
  <2>3. Holds
    BY <1>8, <2>1 DEF ReadGoesOn, Holds
  <2> QED
    BY <1>8, <2>2, <2>3 DEF ReadGoesOn, Aside, flags, output
<1>9. CASE SendClosed(c)
  <2>1. Now = c /\ Goto(c, "php") /\ pc[c] \notin WritePcs
    BY <1>9 DEF SendClosed, At, WritePcs
  <2>2. Turns /\ Holds
    BY <1>1, <1>9, <2>1, PlainPcs DEF SendClosed, Turns, Holds
  <2> QED
    BY <1>9, <2>2 DEF SendClosed, Aside, flags, output
<1>10. CASE WriteGoesOn(c)
  <2>1. /\ Now = c /\ UNCHANGED sched
        /\ \/ pc[c] = "send_wait" /\ Goto(c, "send")
           \/ pc[c] = "write_wait" /\ Goto(c, "write")
    BY <1>10 DEF WriteGoesOn, At
  <2>2. /\ pc[c] = "send_wait" => "send" \in PcsOf(c) /\ loop_type # "AUTO"
        /\ pc[c] = "write_wait" => "write" \in PcsOf(c)
    BY <1>1, Names DEF PcTypeOK, PcsOf, OtherPcs, Writing, SendPcs, WritePcs
  <2>3. Turns /\ (loop_type = "AUTO" => Holds)
    BY <1>1, <2>1, <2>2 DEF WritePcs, Turns, Holds
  <2> QED
    BY <1>10, <2>3 DEF WriteGoesOn, Aside, flags, output
<1> QED
  BY <1>2, <1>3, <1>4, <1>5, <1>6, <1>7, <1>8, <1>9, <1>10

LEMMA AsideLoop ==
  ASSUME PcTypeOK,
         \/ \E t \in Task : CloseResumes(t) \/ CloseFd(t)
         \/ Loop \/ timer_read_callback \/ Peer \/ PeerReads
  PROVE  Aside
<1> USE DEF history
<1>1. ASSUME NEW t \in Task, CloseResumes(t)
      PROVE  Aside
  <2>1. Now = t /\ (Goto(t, "close_write") \/ Goto(t, "close_fd")) /\ pc[t] \notin WritePcs
    BY <1>1 DEF CloseResumes, At, WritePcs
  <2>2. Turns /\ Holds
    BY <1>1, <2>1, PlainPcs DEF CloseResumes, ClosePcs, Turns, Holds, waits
  <2> QED
    BY <1>1, <2>2 DEF CloseResumes, Aside, flags, output
<1>2. ASSUME NEW t \in Task, CloseFd(t)
      PROVE  Aside
  <2>1. Now = t /\ Goto(t, Home(t)) /\ pc[t] \notin WritePcs
    BY <1>2 DEF CloseFd, At, WritePcs
  <2>2. Turns /\ Holds
    BY <1>2, <2>1, PlainPcs DEF CloseFd, Turns, Holds
  <2> QED
    BY <1>2, <2>2 DEF CloseFd, Aside, flags, output
<1>3. CASE EpollWait \/ BatchDone
  <2>1. /\ Now = Bottom /\ (Goto(Bottom, "batch") \/ Goto(Bottom, "loop"))
        /\ pc[Bottom] \notin WritePcs
    BY <1>3 DEF EpollWait, BatchDone, At, WritePcs
  <2>2. Turns /\ Holds
    BY <1>3, <2>1, PlainPcs, Names DEF EpollWait, BatchDone, Turns, Holds, waits
  <2> QED
    BY <1>3, <2>2 DEF EpollWait, BatchDone, Aside, flags, output
<1>4. ASSUME NEW e, Dispatch(e)
      PROVE  Aside
  <2>1. /\ Now = Bottom /\ pc[Bottom] \notin WritePcs
        /\ handle(e) \/ (pc' = pc /\ closed' = closed)
    BY <1>4 DEF Dispatch, At, WritePcs
  <2>2. (closed' = closed \/ closed' = TRUE) /\ Turns
    BY <2>1, HandleMove DEF Turns
  <2>3. Holds
    BY <1>4, <2>1 DEF Dispatch, Holds
  <2> QED
    BY <1>4, <2>2, <2>3 DEF Dispatch, Aside, output
<1>5. CASE timer_read_callback
  <2>1. Now = Bottom /\ pc[Bottom] \notin WritePcs /\ handle(READ)
    BY <1>5 DEF timer_read_callback, At, WritePcs
  <2>2. (closed' = closed \/ closed' = TRUE) /\ Turns
    BY <2>1, HandleMove
  <2>3. Holds
    BY <1>5, <2>1 DEF timer_read_callback, Holds
  <2> QED
    BY <1>5, <2>2, <2>3 DEF timer_read_callback, Aside, output
<1>6. CASE Peer \/ PeerReads
  <2>1. Turns /\ Holds
    BY <1>6 DEF Peer, PeerReads, Turns, Holds, waits
  <2> QED
    BY <1>6, <2>1 DEF Peer, PeerReads, Aside, flags, output
<1> QED
  BY <1>1, <1>2, <1>3, <1>4, <1>5, <1>6 DEF Loop

LEMMA Split ==
  ASSUME PcTypeOK, SIONext
  PROVE  \/ Aside
         \/ \E c \in Other, n \in Nat : Send(c, n) \/ Write(c, n)
         \/ \E c \in Other : Outputs(c)
<1>1. \A n \in 1 .. MaxBytes : n \in Nat
  BY SocketAssumption
<1>2. ASSUME NEW c \in Other, Calls(c)
      PROVE  Aside \/ Outputs(c)
  BY <1>2, AsideCalls DEF Calls, Outputs
<1> QED
  BY <1>1, <1>2, AsideCalls, AsideLoop DEF SIONext

LEMMA AsideTypes ==
  ASSUME PcTypeOK, Aside
  PROVE  /\ PcTypeOK' /\ loop_type' = loop_type /\ (room \in Nat => room' \in Nat)
         /\ \A c \in Other : pc'[c] \in WritePcs <=> pc[c] \in WritePcs
         /\ \A c \in Other : pc'[c] # pc[c] => c = Now
<1>1. CASE pc' = pc
  BY <1>1, PcStays, SocketAssumption DEF Aside
<1>2. ASSUME Now \in Task, NEW p \in PcsOf(Now), Goto(Now, p),
             p \in WritePcs <=> pc[Now] \in WritePcs
      PROVE  /\ PcTypeOK' /\ \A c \in Other : pc'[c] \in WritePcs <=> pc[c] \in WritePcs
             /\ \A c \in Other : pc'[c] # pc[c] => c = Now
  <2>1. PcTypeOK' /\ Moves(Now, p)
    BY <1>2, GotoStep DEF Aside
  <2> QED
    BY <1>2, <2>1, Names DEF Moves
<1> QED
  BY <1>1, <1>2, SocketAssumption DEF Aside, Turns

LEMMA SendTypes ==
  ASSUME PcTypeOK, NEW c \in Other, NEW n, Send(c, n) \/ Write(c, n)
  PROVE  /\ PcTypeOK' /\ loop_type' = loop_type
         /\ Send(c, n) => loop_type = "SEMI_AUTO"
         /\ Write(c, n) => loop_type = "AUTO" /\ Moves(c, "write")
<1>1. loop_type' = loop_type /\ c \in Task
  BY Names DEF Send, Write, flags
<1>2. CASE Send(c, n)
  <2>1. "send" \in PcsOf(c) /\ Goto(c, "send") /\ loop_type = "SEMI_AUTO"
    BY <1>2, Names DEF Send, PcsOf, OtherPcs, Writing, WritePcs
  <2> QED
    BY <1>1, <2>1, GotoStep DEF Write
<1>3. CASE Write(c, n)
  <2>1. "write" \in PcsOf(c) /\ Goto(c, "write") /\ loop_type = "AUTO"
    BY <1>3, Names DEF Write, PcsOf, OtherPcs, Writing, SendPcs
  <2> QED
    BY <1>1, <2>1, GotoStep DEF Send
<1> QED
  BY <1>1, <1>2, <1>3

LEMMA OutputTypes ==
  ASSUME PcTypeOK, NEW c \in Other, Outputs(c)
  PROVE  /\ PcTypeOK' /\ loop_type' = loop_type /\ pc[c] \in {"send", "write"}
         /\ pc[c] = "send" => loop_type = "SEMI_AUTO" /\ ~ WriteSome(c) /\ ~ WriteClosed(c)
         /\ pc[c] = "write" => loop_type = "AUTO" /\ ~ SendSome(c)
         /\ WriteClosed(c) \/ WriteFails(c) => Moves(c, "php")
         /\ WriteSome(c) => Moves(c, "php") \/ Moves(c, "write_wait") \/ pc' = pc
<1>1. /\ loop_type' = loop_type /\ c \in Task /\ pc[c] \in {"send", "write"}
      /\ SendSome(c) => pc[c] = "send"
      /\ WriteSome(c) \/ WriteClosed(c) => pc[c] = "write"
  BY Names DEF Outputs, SendSome, WriteSome, WriteClosed, WriteFails, At, flags
<1>2. /\ pc[c] = "send" => loop_type = "SEMI_AUTO" /\ "send_wait" \in PcsOf(c)
      /\ pc[c] = "write" => loop_type = "AUTO" /\ "write_wait" \in PcsOf(c)
      /\ "php" \in PcsOf(c)
  BY <1>1, Names DEF PcTypeOK, PcsOf, OtherPcs, Writing, SendPcs, WritePcs
<1>3. ASSUME WriteClosed(c) \/ WriteFails(c)
      PROVE  PcTypeOK' /\ Moves(c, "php")
  BY <1>1, <1>2, <1>3, GotoStep DEF WriteClosed, WriteFails
<1>4. ASSUME WriteSome(c)
      PROVE  PcTypeOK' /\ (Moves(c, "php") \/ Moves(c, "write_wait") \/ pc' = pc)
  <2>1. Goto(c, "php") \/ Goto(c, "write_wait") \/ pc' = pc
    BY <1>4 DEF WriteSome, write_done, write_wait
  <2> QED
    BY <1>1, <1>2, <1>4, <2>1, GotoStep, PcStays
<1>5. ASSUME SendSome(c)
      PROVE  PcTypeOK'
  <2>1. Goto(c, "php") \/ Goto(c, "send_wait") \/ pc' = pc
    BY <1>5 DEF SendSome, write_done, write_wait
  <2> QED
    BY <1>1, <1>2, <1>5, <2>1, GotoStep, PcStays
<1> QED
  BY <1>1, <1>2, <1>3, <1>4, <1>5 DEF Outputs

LEMMA KindStep ==
  ASSUME PcTypeOK, SIONext
  PROVE  PcTypeOK'
BY Split, AsideTypes, SendTypes, OutputTypes

\* What is handed over goes to the end of the buffer, what is sent is taken from
\* its start, by whoever comes first.
LEMMA SendInvStep ==
  ASSUME PcTypeOK, SendInv, SIONext
  PROVE  SendInv'
<1>1. CASE Aside
  <2>1. /\ wire' = wire /\ write_buffer' = write_buffer /\ given' = given
        /\ loop_type' = loop_type /\ (room \in Nat => room' \in Nat)
    BY <1>1, AsideTypes DEF Aside
  <2> QED
    BY <2>1 DEF SendInv, Up
<1>2. ASSUME NEW c \in Other, NEW n \in Nat, Send(c, n)
      PROVE  SendInv'
  <2>1. /\ given \in Nat /\ room \in Nat /\ wire \in Seq(Nat) /\ write_buffer \in Seq(Nat)
        /\ Len(wire) + Len(write_buffer) = given
        /\ Up(wire, 0) /\ Up(write_buffer, Len(wire))
        /\ Len(wire) \in Nat
    BY <1>2, SendTypes, LenProperties DEF SendInv
  <2>2. /\ write_buffer' = write_buffer \o Bytes(n) /\ given' = given + n
        /\ room' = room /\ wire' = wire
    BY <1>2 DEF Send
  <2>3. /\ Bytes(n) \in Seq(Nat) /\ Len(Bytes(n)) = n
        /\ Up(Bytes(n), Len(wire) + Len(write_buffer))
    BY <2>1, BytesUp
  <2>4. /\ write_buffer' \in Seq(Nat) /\ Len(write_buffer') = Len(write_buffer) + Len(Bytes(n))
        /\ Up(write_buffer \o Bytes(n), Len(wire))
    BY <2>1, <2>2, <2>3, UpConcat
  <2>5. Len(write_buffer) \in Nat
    BY <2>1, LenProperties
  <2>6. given' \in Nat /\ Len(wire) + Len(write_buffer') = given'
    <3> DEFINE k == Len(wire)  m == Len(write_buffer)  h == Len(Bytes(n))
    <3>1. /\ k \in Nat /\ m \in Nat /\ k + m = given /\ h = n
          /\ given' = given + n /\ Len(write_buffer') = m + h
      BY <2>1, <2>2, <2>3, <2>4, <2>5
    <3> HIDE DEF k, m, h
    <3>2. given' \in Nat /\ k + (m + h) = given'
      BY <1>2, <3>1
    <3>3. Len(write_buffer') = m + h
      BY <3>1
    <3> QED
      BY <3>2, <3>3 DEF k
  <2>7. Up(write_buffer, Len(wire))' /\ Up(wire, 0)'
    BY <2>1, <2>2, <2>4 DEF Up
  <2> QED
    BY <2>1, <2>2, <2>4, <2>6, <2>7 DEF SendInv
<1>3. ASSUME NEW c \in Other, NEW n \in Nat, Write(c, n)
      PROVE  SendInv'
  BY <1>3, SendTypes DEF SendInv
<1>4. ASSUME NEW c \in Other, Outputs(c)
      PROVE  SendInv'
  <2>1. CASE pc[c] = "write"
    BY <1>4, <2>1, OutputTypes DEF SendInv
  <2>2. CASE WriteFails(c)
    <3>1. /\ wire' = wire /\ write_buffer' = write_buffer /\ given' = given /\ room' = room
          /\ loop_type' = loop_type
      BY <2>2 DEF WriteFails
    <3> QED
      BY <3>1 DEF SendInv, Up
  <2>3. CASE SendSome(c) /\ pc[c] = "send"
    <3> DEFINE m == Len(write_buffer)
               n == Accepts(m)
               k == Len(wire)
    <3>1. /\ given \in Nat /\ room \in Nat /\ wire \in Seq(Nat) /\ write_buffer \in Seq(Nat)
          /\ k + m = given /\ Up(wire, 0) /\ Up(write_buffer, k) /\ k \in Nat /\ m \in Nat
      BY <1>4, <2>3, OutputTypes, LenProperties DEF SendInv
    <3>2. n \in Nat /\ n <= m /\ room - n \in Nat
      BY <3>1, AcceptsSome
    <3>3. /\ wire' = wire \o SubSeq(write_buffer, 1, n) /\ room' = room - n
          /\ write_buffer' = SubSeq(write_buffer, n + 1, m) /\ given' = given
      BY <2>3 DEF SendSome
    <3> DEFINE a == SubSeq(write_buffer, 1, n)
               b == SubSeq(write_buffer, n + 1, m)
    <3> HIDE DEF n
    <3>4. /\ a \in Seq(Nat) /\ Len(a) = n /\ Up(a, k)
          /\ b \in Seq(Nat) /\ Len(b) = m - n /\ Up(b, k + n)
      BY <3>1, <3>2, UpSplit
    <3> HIDE DEF a, b, m
    <3>5. Up(a, 0 + Len(wire))
      BY <3>1, <3>4
    <3>6. wire \o a \in Seq(Nat) /\ Len(wire \o a) = Len(wire) + Len(a) /\ Up(wire \o a, 0)
      BY <3>1, <3>4, <3>5, UpConcat
    <3>7. wire' = wire \o a /\ write_buffer' = b
      BY <3>3 DEF a, b, m
    <3>8. Len(wire') = k + n /\ Len(write_buffer') = m - n
      BY <3>4, <3>6, <3>7
    <3> HIDE DEF k
    <3>9. (k + n) + (m - n) = given
      BY <3>1, <3>2
    <3>10. /\ wire' \in Seq(Nat) /\ write_buffer' \in Seq(Nat)
           /\ Len(wire') + Len(write_buffer') = given'
      BY <3>3, <3>4, <3>6, <3>7, <3>8, <3>9
    <3>11. Up(wire, 0)' /\ Up(write_buffer, Len(wire))'
      BY <3>4, <3>6, <3>7, <3>8 DEF Up
    <3> QED
      BY <3>1, <3>2, <3>3, <3>10, <3>11 DEF SendInv
  <2> QED
    BY <1>4, <2>1, <2>2, <2>3, OutputTypes DEF Outputs
<1> QED
  BY <1>1, <1>2, <1>3, <1>4, Split

LEMMA SendInit ==
  ASSUME SIOInit
  PROVE  SendInv /\ WriterInv /\ WriteInv
<1>1. /\ write_buffer = <<>> /\ wire = <<>> /\ given = 0 /\ room = Room
      /\ ret_num = [c \in Other |-> 0] /\ todo = [c \in Other |-> <<>>]
      /\ \A c \in Other : pc[c] \notin WritePcs
  BY Names DEF SIOInit, WritePcs
<1>2. <<>> \in Seq(Nat) /\ Len(<<>>) = 0 /\ Room \in Nat /\ \A k : Up(<<>>, k)
  BY SocketAssumption DEF Up
<1> QED
  BY <1>1, <1>2 DEF SendInv, WriterInv, WriteInv, WritePcs

\* A coroutine starts to write when the socket knows no writer, and waits only
\* after it has made itself known.
LEMMA NobodyWrites ==
  ASSUME PcTypeOK, WriterInv, NEW c \in Other, NEW n, Write(c, n)
  PROVE  \A d \in Other : pc[d] \notin WritePcs
BY Names DEF WriterInv, Write, MayCall, At, WritePcs

LEMMA WriterInvStep ==
  ASSUME PcTypeOK, WriterInv, SIONext
  PROVE  WriterInv'
<1> USE DEF WritePcs
<1>1. CASE Aside /\ loop_type = "AUTO"
  <2>1. /\ loop_type' = loop_type /\ Holds
        /\ \A c \in Other : pc'[c] \in WritePcs <=> pc[c] \in WritePcs
        /\ \A c \in Other : pc'[c] # pc[c] => c = Now
    BY <1>1, AsideTypes DEF Aside
  <2>2. CASE UNCHANGED <<sched, pc, write_co>>
    BY <2>1, <2>2 DEF WriterInv, sched, csvars, Now
  <2>3. CASE pc[Now] \notin WritePcs /\ write_co' = write_co
    <3>1. \A c \in Other : pc'[c] \in WritePcs => pc'[c] = pc[c] /\ pc[c] = "write_wait"
      BY <1>1, <2>1, <2>3 DEF WriterInv
    <3> QED
      BY <1>1, <2>1, <2>3, <3>1 DEF WriterInv
  <2>4. CASE Now \in Other /\ pc[Now] = "write_wait" /\ Goto(Now, "write") /\ UNCHANGED sched
    <3>1. Now' = Now
      BY <2>4 DEF sched, csvars, Now
    <3>2. \A c \in Other : pc'[c] \in WritePcs => c = Now /\ pc'[c] = "write"
      <4> SUFFICES ASSUME NEW c \in Other, pc'[c] \in WritePcs
                   PROVE  c = Now /\ pc'[c] = "write"
        OBVIOUS
      <4>1. pc[c] \in WritePcs
        BY <2>1
      <4>3. c = Now
        BY <1>1, <2>4, <4>1 DEF WriterInv
      <4> QED
        BY <2>4, <4>3, Names DEF Goto, PcTypeOK
    <3> QED
      BY <2>1, <3>1, <3>2 DEF WriterInv
  <2> QED
    BY <2>1, <2>2, <2>3, <2>4 DEF Holds
<1>2. ASSUME NEW c \in Other, NEW n \in Nat, Write(c, n)
      PROVE  WriterInv'
  <2>1. /\ loop_type' = loop_type /\ Moves(c, "write") /\ Now = c /\ UNCHANGED sched
    BY <1>2, SendTypes DEF Write, MayCall, At
  <2>2. \A d \in Other : pc'[d] \in WritePcs => d = c /\ pc'[d] = "write"
    BY <1>2, <2>1, NobodyWrites, Names DEF Moves
  <2>3. Now' = Now
    BY <2>1 DEF sched, csvars, Now
  <2> QED
    BY <2>1, <2>2, <2>3 DEF WriterInv
<1>3. ASSUME NEW c \in Other, Outputs(c), loop_type = "AUTO"
      PROVE  WriterInv'
  <2>1. pc[c] = "write" /\ loop_type' = loop_type
    BY <1>3, OutputTypes
  <2>2. \A d \in Other : pc[d] \in WritePcs => d = c
    BY <1>3, <2>1 DEF WriterInv
  <2>3. Moves(c, "php") \/ (Moves(c, "write_wait") /\ write_co' = c) \/ UNCHANGED <<sched, pc>>
    <3>1. CASE WriteClosed(c) \/ WriteFails(c)
      BY <1>3, <3>1, OutputTypes
    <3>2. CASE WriteSome(c)
      <4>1. \/ Goto(c, "php")
            \/ write_co' = c /\ Goto(c, "write_wait")
            \/ UNCHANGED <<sched, pc>>
        BY <3>2 DEF WriteSome, write_done, write_wait
      <4>2. "write_wait" \in PcsOf(c) /\ "php" \in PcsOf(c) /\ c \in Task
        BY <1>3, Names DEF PcsOf, OtherPcs, Writing, SendPcs
      <4> QED
        BY <2>1, <4>1, <4>2, GotoStep
    <3> QED
      BY <1>3, <2>1, <3>1, <3>2, OutputTypes DEF Outputs
  <2>4. CASE Moves(c, "php")
    <3>1. \A d \in Other : pc'[d] \notin WritePcs
      BY <2>2, <2>4, Names DEF Moves
    <3> QED
      BY <3>1 DEF WriterInv
  <2>5. CASE Moves(c, "write_wait") /\ write_co' = c
    <3>1. \A d \in Other : pc'[d] \in WritePcs => d = c /\ pc'[d] = "write_wait"
      BY <2>2, <2>5, Names DEF Moves
    <3> QED
      BY <2>5, <3>1 DEF WriterInv
  <2>6. CASE UNCHANGED <<sched, pc>>
    <3>1. Now' = Now /\ pc' = pc
      BY <2>6 DEF sched, csvars, Now
    <3>2. \A d \in Other : pc[d] \in WritePcs => d = c
      BY <2>2
    <3> QED
      BY <1>3, <2>1, <3>1, <3>2 DEF WriterInv
  <2> QED
    BY <2>3, <2>4, <2>5, <2>6
<1>4. CASE loop_type' # "AUTO"
  BY <1>4 DEF WriterInv
<1>5. loop_type' = loop_type
  BY Split, AsideTypes, SendTypes, OutputTypes
<1>6. ASSUME NEW c \in Other, NEW n \in Nat, Send(c, n)
      PROVE  WriterInv'
  BY <1>6, SendTypes DEF WriterInv
<1> QED
  BY <1>1, <1>2, <1>3, <1>4, <1>5, <1>6, Split

\* The bytes of a stream are sent, or wait with its writer, until one writer has to
\* wait that has sent a part of its own.
LEMMA WriteInvStep ==
  ASSUME PcTypeOK, WriterInv, WriteInv, SIONext
  PROVE  WriteInv'
<1> USE DEF WritePcs
<1>1. loop_type = "AUTO" => \A c, d \in Other : pc[c] \in WritePcs /\ pc[d] \in WritePcs => c = d
  BY DEF WriterInv
<1>2. CASE Aside
  <2>1. \A c \in Other : pc'[c] \in WritePcs <=> pc[c] \in WritePcs
    BY <1>2, AsideTypes
  <2>2. /\ wire' = wire /\ given' = given /\ todo' = todo /\ ret_num' = ret_num
        /\ loop_type' = loop_type /\ (room \in Nat => room' \in Nat) /\ torn' = torn
        /\ closed' = closed \/ closed' = TRUE
    BY <1>2, AsideTypes DEF Aside
  <2>3. Up(wire, 0) => Up(wire, 0)'
    BY <2>2 DEF Up
  <2>4. \A c \in Other : Up(todo[c], Len(wire)) => Up(todo[c], Len(wire))'
    BY <2>2 DEF Up
  <2> QED
    BY <2>1, <2>2, <2>3, <2>4 DEF WriteInv
<1>3. ASSUME NEW c \in Other, NEW n \in Nat, Send(c, n)
      PROVE  WriteInv'
  BY <1>3, SendTypes DEF WriteInv
<1>4. ASSUME NEW c \in Other, NEW n \in Nat, Write(c, n), ~ torn'
      PROVE  WriteInv'
  <2>1. /\ ~ closed /\ (\A d \in Other : pc[d] \notin WritePcs)
        /\ loop_type = "AUTO" /\ loop_type' = loop_type /\ Moves(c, "write") /\ ~ torn
    BY <1>4, NobodyWrites, SendTypes DEF Write, Overlap
  <2>2. /\ todo' = [todo EXCEPT ![c] = Bytes(n)] /\ given' = given + n
        /\ wire' = wire /\ ret_num' = ret_num /\ room' = room
    BY <1>4 DEF Write
  <2>3. /\ given = Len(wire) /\ wire \in Seq(Nat) /\ given \in Nat /\ room \in Nat
        /\ todo = [d \in Other |-> todo[d]] /\ ret_num = [d \in Other |-> 0] /\ Up(wire, 0)
    BY <2>1 DEF WriteInv
  <2>4. Bytes(n) \in Seq(Nat) /\ Len(Bytes(n)) = n /\ Up(Bytes(n), given)
    BY <2>3, BytesUp
  <2>5. todo'[c] = Bytes(n) /\ todo' = [d \in Other |-> todo'[d]]
    BY <2>2, <2>3
  <2>6. \A d \in Other : pc'[d] \in WritePcs <=> d = c
    BY <2>1, Names DEF Moves
  <2>7. /\ todo'[c] \in Seq(Nat) /\ given' = Len(wire') + Len(todo'[c]) /\ given' \in Nat
    <3>1. Len(wire') = given /\ Len(todo'[c]) = n /\ given' = given + n /\ todo'[c] \in Seq(Nat)
      BY <2>2, <2>3, <2>4, <2>5
    <3>2. given + n \in Nat
      BY <2>3
    <3> QED
      BY <3>1, <3>2
  <2>8. Up(todo[c], Len(wire))' /\ Up(wire, 0)'
    BY <2>2, <2>3, <2>4, <2>5 DEF Up
  <2> QED
    BY <2>1, <2>2, <2>3, <2>5, <2>6, <2>7, <2>8 DEF WriteInv
<1>5. ASSUME NEW c \in Other, WriteClosed(c) \/ WriteFails(c), loop_type = "AUTO"
      PROVE  WriteInv'
  <2>1. /\ wire' = wire /\ given' = given /\ room' = room /\ forget(c)
    BY <1>5 DEF WriteClosed, WriteFails, flags, history
  <2>2. Moves(c, "php") /\ loop_type' = loop_type /\ pc[c] \in WritePcs
    BY <1>5, OutputTypes DEF Outputs
  <2>3. \A d \in Other : pc'[d] \notin WritePcs
    BY <1>1, <1>5, <2>2, Names DEF Moves
  <2>4. ~ torn => ret_num' = [d \in Other |-> 0] /\ todo' = [d \in Other |-> todo'[d]]
    BY <1>5, <2>1 DEF WriteInv, forget
  <2>5. torn' = torn /\ closed' = TRUE
    BY <1>5 DEF WriteClosed, WriteFails, flags, history
  <2> QED
    BY <1>5, <2>1, <2>2, <2>3, <2>4, <2>5 DEF WriteInv, Up
<1>6. ASSUME NEW c \in Other, WriteSome(c), ~ torn'
      PROVE  WriteInv'
  <2> DEFINE len == Len(todo[c])
             n   == Accepts(len)
  <2>1. loop_type = "AUTO" /\ loop_type' = loop_type /\ pc[c] = "write" /\ ~ torn
    BY <1>6, OutputTypes DEF Outputs, WriteSome, At
  <2>2. /\ given \in Nat /\ room \in Nat /\ wire \in Seq(Nat) /\ Up(wire, 0)
        /\ ret_num = [d \in Other |-> 0] /\ todo = [d \in Other |-> todo[d]]
        /\ todo[c] \in Seq(Nat) /\ Up(todo[c], Len(wire)) /\ given = Len(wire) + len
    BY <2>1 DEF WriteInv
  <2>3. ret_num[c] = 0 /\ len \in Nat /\ Len(wire) \in Nat /\ len - 0 = len
    BY <2>2, LenProperties
  <2>4. n \in Nat /\ n <= len /\ room - n \in Nat /\ 0 + n = n
    BY <2>2, <2>3, AcceptsSome
  <2> HIDE DEF n
  <2>5. /\ wire' = wire \o SubSeq(todo[c], 1, n) /\ room' = room - n /\ given' = given
        /\ n >= len => write_done(c) /\ forget(c)
        /\ ~ (n >= len) => /\ write_wait(c, "write_wait")
                           /\ ret_num' = [ret_num EXCEPT ![c] = @ + n] /\ todo' = todo
        /\ ~ (n > 0 /\ n < len)
    <3>1. /\ wire' = wire \o SubSeq(todo[c], 1, Accepts(len - ret_num[c]))
          /\ room' = room - Accepts(len - ret_num[c]) /\ given' = given
          /\ IF ret_num[c] + Accepts(len - ret_num[c]) >= len
               THEN write_done(c) /\ forget(c)
               ELSE /\ write_wait(c, "write_wait")
                    /\ ret_num' = [ret_num EXCEPT ![c] = @ + Accepts(len - ret_num[c])]
                    /\ UNCHANGED todo
          /\ ~ (Accepts(len - ret_num[c]) > 0 /\ ret_num[c] + Accepts(len - ret_num[c]) < len)
      BY <1>6 DEF WriteSome
    <3>2. Accepts(len - ret_num[c]) = n /\ ret_num[c] + n = n
      BY <2>3, <2>4 DEF n
    <3> QED
      BY <3>1, <3>2
  <2>6. CASE n >= len
    <3>0. n = len
      <4> HIDE DEF len
      <4> QED
        BY <2>3, <2>4, <2>6
    <3>1. /\ n = len /\ SubSeq(todo[c], 1, n) \in Seq(Nat) /\ Len(SubSeq(todo[c], 1, n)) = n
          /\ Up(SubSeq(todo[c], 1, n), 0 + Len(wire))
      <4>1. 0 + Len(wire) = Len(wire)
        BY <2>3
      <4> QED
        BY <2>2, <2>3, <2>4, <3>0, <4>1, UpSplit
    <3>2. wire' \in Seq(Nat) /\ Len(wire') = given' /\ Up(wire \o SubSeq(todo[c], 1, n), 0)
      BY <2>2, <2>5, <3>1, UpConcat
    <3>3. Up(wire, 0)'
      BY <2>5, <3>2 DEF Up
    <3>4. Moves(c, "php") /\ forget(c)
      BY <2>5, <2>6, Names DEF write_done, PcTypeOK, Goto, Moves
    <3>5. \A d \in Other : pc'[d] \notin WritePcs
      BY <1>1, <2>1, <3>4, Names DEF Moves
    <3>6. ret_num' = [d \in Other |-> 0] /\ todo' = [d \in Other |-> todo'[d]]
      BY <2>2, <3>4 DEF forget
    <3> QED
      BY <2>1, <2>2, <2>4, <2>5, <3>2, <3>3, <3>5, <3>6 DEF WriteInv
  <2>7. CASE ~ (n >= len)
    <3>1. n = 0
      BY <2>3, <2>4, <2>5, <2>7
    <3>2. wire' = wire
      <4>1. SubSeq(todo[c], 1, n) = <<>> /\ wire \o <<>> = wire
        BY <2>2, <3>1
      <4> QED
        BY <2>5, <4>1
    <3>3. ret_num' = ret_num /\ todo' = todo
      BY <2>2, <2>3, <2>5, <2>7, <3>1
    <3>4. pc' = pc \/ Goto(c, "write_wait")
      BY <2>5, <2>7 DEF write_wait
    <3>5. \A d \in Other : pc'[d] \in WritePcs <=> pc[d] \in WritePcs
      BY <2>1, <3>4, Names DEF PcTypeOK, Goto
    <3>6. \A d \in Other : pc[d] \in WritePcs => d = c
      BY <1>1, <2>1
    <3>7. Up(wire, 0)' /\ Up(todo[c], Len(wire))'
      BY <2>2, <3>2, <3>3 DEF Up
    <3> QED
      BY <2>1, <2>2, <2>4, <2>5, <3>2, <3>3, <3>5, <3>6, <3>7 DEF WriteInv
  <2> QED
    BY <2>6, <2>7
<1>7. ASSUME NEW c \in Other, SendSome(c) \/ WriteClosed(c) \/ WriteFails(c), loop_type # "AUTO"
      PROVE  WriteInv'
  BY <1>7, OutputTypes DEF Outputs, WriteInv
<1>8. CASE torn'
  BY <1>8 DEF WriteInv
<1>9. ASSUME NEW c \in Other, Outputs(c)
      PROVE  WriteInv'
  <2>1. SendSome(c) => loop_type # "AUTO"
    BY <1>9, OutputTypes DEF SendSome, At
  <2> QED
    BY <1>5, <1>6, <1>7, <1>8, <1>9, <2>1 DEF Outputs
<1> QED
  BY <1>2, <1>3, <1>4, <1>8, <1>9, Split

LEMMA StreamStays ==
  ASSUME UNCHANGED sovars
  PROVE  /\ PcTypeOK => PcTypeOK'
         /\ SendInv => SendInv'
         /\ WriterInv => WriterInv'
         /\ WriteInv => WriteInv'
BY DEF sovars, flags, waits, output, history, sched, csvars, Now, PcTypeOK, PcsOf, SendInv,
       WriterInv, WriteInv, Up

LEMMA UpIsIntact ==
  ASSUME wire \in Seq(Nat), Up(wire, 0)
  PROVE  \A i \in DOMAIN wire : wire[i] = i
BY DEF Up

\* Whatever the coroutines do with a connection, its bytes are sent in the order
\* of the calls of wmSocket_send, each once.
THEOREM SoSendsIntact ==
  SIOSpec => [](loop_type = "SEMI_AUTO" => \A i \in DOMAIN wire : wire[i] = i)
<1>1. SIOInit => PcTypeOK /\ SendInv
  BY InitIInv, SendInit DEF IInv, SoTypeOK
<1>2. PcTypeOK /\ SendInv /\ [SIONext]_sovars => PcTypeOK' /\ SendInv'
  BY KindStep, SendInvStep, StreamStays
<1>3. SendInv => (loop_type = "SEMI_AUTO" => \A i \in DOMAIN wire : wire[i] = i)
  BY UpIsIntact DEF SendInv
<1> QED
  BY <1>1, <1>2, <1>3, PTL DEF SIOSpec

\* The bytes of a stream, too, are sent in the order of the calls, each once,
\* whatever their number, until a wmSocket_write has to wait when a part of its
\* buffer is sent.
THEOREM SoStreamIntact == SIOSpec => []StreamIntact
<1>1. SIOInit => PcTypeOK /\ WriterInv /\ WriteInv
  BY InitIInv, SendInit DEF IInv, SoTypeOK
<1>2. /\ PcTypeOK /\ WriterInv /\ WriteInv /\ [SIONext]_sovars
      => PcTypeOK' /\ WriterInv' /\ WriteInv'
  BY KindStep, WriterInvStep, WriteInvStep, StreamStays
<1>3. PcTypeOK /\ WriteInv /\ (loop_type = "SEMI_AUTO" => \A i \in DOMAIN wire : wire[i] = i)
      => StreamIntact
  BY UpIsIntact DEF WriteInv, StreamIntact, PcTypeOK
<1> QED
  BY <1>1, <1>2, <1>3, SoSendsIntact, PTL DEF SIOSpec
=============================================================================
