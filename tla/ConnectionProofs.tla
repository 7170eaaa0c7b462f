--------------------------- MODULE ConnectionProofs ---------------------------
(***************************************************************************)
(* Proofs about connections, for any number of connections, of coroutines, *)
(* of file descriptors and of bytes.                                       *)
(***************************************************************************)
EXTENDS Connection, TLAPS, FiniteSetTheorems, SequenceTheorems

-----------------------------------------------------------------------------
(***************************************************************************)
(* The inductive invariant.                                                *)
(***************************************************************************)

\* The tasks on the stack differ, have been entered, and are not suspended.
StackInv ==
  /\ stack \in Seq(Task) /\ Len(stack) > 0
  /\ seen \subseteq Other /\ suspended \subseteq seen
  /\ \A i \in 1 .. Len(stack) : stack[i] \in {Bottom} \cup seen /\ stack[i] \notin suspended
  /\ \A i, j \in 1 .. Len(stack) : stack[i] = stack[j] => i = j

ClosePcs   == {"close_read", "close_write", "close_fd"}
DestroyPcs == ClosePcs \cup {"destroy", "unpause", "onClose", "drop", "onError", "errored"}
PausedPcs  == {"check_paused", "parse_paused", "got_paused"}
ReaderPcs  == DestroyPcs \cup Checks \cup PausedPcs \cup
                {"gone", "over", "read", "read_wait", "input", "deliver", "keep", "send", "send_wait"}
HandlerPcs == DestroyPcs \cup {"gone", "php", "send", "send_wait"}
BottomPcs  == (DestroyPcs \ {"onError", "errored"}) \cup {"loop", "accepted", "stop"}

ConnRec ==
  [status : {"none", "ESTABLISHED", "CLOSED"}, fd : Nat, isPaused : BOOLEAN,
   pausedCoro : BOOLEAN, closed : BOOLEAN, removed : BOOLEAN, watched : BOOLEAN,
   read_packet_buffer : BOOLEAN, read : Nat, refs : Int, freed : BOOLEAN]

PcsOf(t) ==
  IF t = Bottom THEN BottomPcs ELSE IF t \in Conn THEN ReaderPcs ELSE HandlerPcs

PcTypeOK ==
  /\ DOMAIN pc = Task
  /\ pc = [t \in Task |-> pc[t]]
  /\ \A t \in Task : pc[t] \in PcsOf(t)

PeerTypeOK == peer \in [Conn -> [sent : Nat, end : {"open", "closed", "reset"}]]

CnTypeOK ==
  /\ conn \in [Conn -> ConnRec]
  /\ PcTypeOK
  /\ protocol \in BOOLEAN
  /\ wm_connections \in [Fd -> Conn \cup {NoConn}]
  /\ connections \subseteq Conn
  /\ of \in [Task -> Conn \cup {NoConn}]
  /\ then \in [Task -> {"nowhere", "unpause", "onError", "loop"}]
  /\ told \in [Conn -> Nat]
  /\ PeerTypeOK

\* Where a task can be, and which connection it is at work on: a reader on its
\* own, a coroutine of a callback on the one it holds, the main task on one it
\* closes.
PlaceInv ==
  /\ \A c \in Conn : of[c] = c
  /\ \A h \in Handler : of[h] = NoConn <=> pc[h] = "gone"
  /\ \A t \in Other : t \notin seen => pc[t] = "gone"
  /\ of[Bottom] = NoConn => pc[Bottom] \in {"loop", "accepted", "stop"}
  /\ \A t \in Task : then[t] # "nowhere" <=> pc[t] \in ClosePcs
  /\ \A t \in Task : then[t] = "loop" => t = Bottom
  /\ then[Bottom] # "onError"

\* No connection is used before it is accepted.
UseInv ==
  /\ \A t \in Task \ Conn : of[t] \in Conn => conn[of[t]].status # "none"
  /\ \A c \in Conn : pc[c] # "gone" => conn[c].status # "none"

\* Places where nothing comes in between.
NowPcs == {"close_read", "got", "deliver"}

NowInv == \A t \in Task : pc[t] \in NowPcs => t = Now

\* The task that destroys c: from the closing of its socket to the last step.
Destroys(t) == pc[t] \in {"unpause", "onClose", "drop"} \/ then[t] = "unpause"

Destroyer(t, c) == of[t] = c /\ Destroys(t)

\* A connection that is closed has one destroyer, who calls onClose, or it has
\* had one.
DestroyInv ==
  \A c \in Conn :
    /\ conn[c].status # "CLOSED" => told[c] = 0 /\ \A t \in Task : ~ Destroyer(t, c)
    /\ conn[c].status = "none" => c \notin connections
    /\ conn[c].status = "ESTABLISHED" => c \in connections
    /\ conn[c].status = "CLOSED" /\ (\A t \in Task : ~ Destroyer(t, c)) =>
         told[c] = 1 /\ c \notin connections
    /\ \A t \in Task : Destroyer(t, c) =>
         /\ c \in connections
         /\ told[c] = IF pc[t] = "drop" THEN 1 ELSE 0
         /\ \A u \in Task : Destroyer(u, c) => u = t

\* The references are those of the tables and those of coroutines.
Holders(c) == {h \in Handler : of[h] = c}

RefInv ==
  \A c \in Conn :
    /\ IsFiniteSet(Holders(c))
    /\ conn[c].refs = (IF c \in connections THEN 2 ELSE 0) + Cardinality(Holders(c))
    /\ conn[c].freed <=> conn[c].status = "CLOSED" /\ c \notin connections /\ Holders(c) = {}

TableInv ==
  \A fd \in Fd : wm_connections[fd] # NoConn =>
    LET c == wm_connections[fd] IN
    /\ conn[c].fd = fd /\ c \in connections
    /\ \A d \in Conn : conn[d].fd = fd /\ ~ conn[d].removed => d = c

\* A connection with a socket has its entry, or has lost it to another one's end,
\* or is the one that main is about to destroy.
EntryInv ==
  \A c \in Conn : conn[c].status = "ESTABLISHED" =>
    /\ conn[c].fd \in Fd
    /\ \/ conn[c].removed \/ c \in ousted
       \/ wm_connections[conn[c].fd] = c
       \/ pc[Bottom] = "destroy" /\ of[Bottom] = c

\* A reader that is suspended will be heard of, or its connection is being
\* destroyed and the destroyer has not come to it yet.
CloseInv ==
  /\ \A c \in Conn :
       /\ conn[c].status # "ESTABLISHED" => ~ conn[c].watched
       /\ conn[c].status = "CLOSED" => conn[c].closed
  /\ \A t \in Task \ Conn : pc[t] = "close_read" =>
       then[t] = "unpause" \/ conn[of[t]].status = "ESTABLISHED"

Heard(c) ==
  /\ pc[c] \in {"read_wait", "input", "send_wait"} \cup PausedPcs
  /\ pc[c] = "read_wait" =>
       conn[c].watched \/ \E t \in Task \ Conn : pc[t] = "close_read" /\ of[t] = c
  /\ pc[c] \in PausedPcs =>
       /\ conn[c].pausedCoro
       /\ IF conn[c].status = "ESTABLISHED" THEN conn[c].isPaused ELSE Destroying(c)

HeardInv == \A c \in Conn : c \in suspended => Heard(c)

\* What the reader of c has handed over, d, and what it still holds, p, are the
\* bytes up to the r-th that it has read.
BytesTypeOK ==
  /\ frame \in [Conn -> [ret : Nat, packet : Seq(Conn \X Nat), offset : BOOLEAN,
                          beyond : BOOLEAN, leaves : BOOLEAN]]
  /\ delivered \in [Conn -> Seq(Conn \X Nat)]
  /\ lost \in [Conn -> Nat]
  /\ cut \in [Conn -> BOOLEAN]
  /\ read_buffer_tmp \in Seq(Conn \X Nat)

\* The first n elements of s are the bytes of c from the k-th on.
Run(s, n, c, k) == \A i \in 1 .. n : s[i] = <<c, k + i>>

\* Where a reader is after it has handed over more than there is.
BeyondPcs == {"parse", "parse_paused", "input", "keep", "over"}

BytesOf(c) ==
  LET d == delivered[c]
      p == frame[c].packet
      n == frame[c].ret
      r == conn[c].read
  IN
  /\ c \notin seen => d = <<>> /\ p = <<>> /\ r = 0 /\ lost[c] = 0
  /\ n <= Len(read_buffer_tmp)
  /\ protocol => pc[c] \notin {"got", "got_paused", "deliver"}
  /\ ~ protocol => p = <<>> /\ lost[c] = 0
  /\ frame[c].beyond => p = <<>> /\ pc[c] \in BeyondPcs
  /\ ~ has_paused => ~ conn[c].isPaused /\ pc[c] \notin PausedPcs
  /\ protocol /\ ~ cut[c] /\ pc[c] \notin {"over", "gone"} =>
       /\ r - Len(p) - Len(d) = lost[c]
       /\ Run(d, Len(d), c, r - Len(p) - Len(d))
       /\ Run(p, Len(p), c, r - Len(p))
       /\ d # <<>> => conn[c].read_packet_buffer \/
            (frame[c].offset /\ pc[c] \notin {"check", "check_paused", "read", "read_wait"})
  /\ ~ protocol /\ ~ has_paused /\ pc[c] \notin {"over", "gone"} =>
       /\ Len(d) + (IF pc[c] \in {"got", "deliver"} THEN n ELSE 0) = r
       /\ Run(d, Len(d), c, 0)
       /\ pc[c] \in {"got", "deliver"} => Run(read_buffer_tmp, n, c, r - n)

BytesInv == \A c \in Conn : BytesOf(c)

-----------------------------------------------------------------------------
(***************************************************************************)
(* Names, the stack, and records.                                          *)
(***************************************************************************)

LEMMA Names ==
  /\ Conn \subseteq Task /\ Handler \subseteq Task /\ Bottom \in Task
  /\ Bottom \notin Conn /\ Bottom \notin Handler /\ Bottom \notin Other
  /\ \A t \in Task : t = Bottom \/ t \in Conn \/ t \in Handler
  /\ \A h \in Handler : h \notin Conn /\ h \in Other
  /\ Conn \subseteq Other /\ Other \subseteq Task
  /\ NoConn \notin Conn
  /\ \A t \in Other : PhpOf(t) \in {"php", "input"} /\ (t \in Handler => PhpOf(t) = "php")
BY ConnectionAssumption, NoConnAssumption DEF Task, Handler, PhpOf

\* The task that runs has been entered and is not suspended.
LEMMA NowRuns ==
  ASSUME StackInv
  PROVE  Now \in Task /\ Now \in {Bottom} \cup seen /\ Now \notin suspended
BY DEF StackInv, Last, Now

LEMMA PushKeeps ==
  ASSUME StackInv, NEW c \in Other, c \notin {stack[i] : i \in 1 .. Len(stack)},
         stack' = Append(stack, c)
  PROVE  /\ stack' \in Seq(Task) /\ Len(stack') = Len(stack) + 1
         /\ Now' = c
         /\ \A i \in 1 .. Len(stack) : stack'[i] = stack[i]
         /\ stack'[Len(stack) + 1] = c
         /\ \A i, j \in 1 .. Len(stack') : stack'[i] = stack'[j] => i = j
<1>1. c \in Task /\ stack \in Seq(Task) /\ Len(stack) \in Nat
  BY DEF StackInv, Task
<1>2. /\ stack' \in Seq(Task) /\ Len(stack') = Len(stack) + 1
      /\ \A i \in 1 .. Len(stack) : stack'[i] = stack[i]
      /\ stack'[Len(stack) + 1] = c
  BY <1>1, AppendProperties
<1>3. Now' = c
  BY <1>2 DEF Now, Last
<1>4. \A i, j \in 1 .. Len(stack') : stack'[i] = stack'[j] => i = j
  <2> SUFFICES ASSUME NEW i \in 1 .. Len(stack'), NEW j \in 1 .. Len(stack'),
                      stack'[i] = stack'[j], i # j
               PROVE  FALSE
    OBVIOUS
  <2>1. \A m \in 1 .. Len(stack') : m \in 1 .. Len(stack) \/ m = Len(stack) + 1
    BY <1>1, <1>2
  <2> QED
    BY <1>2, <2>1 DEF StackInv
<1> QED
  BY <1>2, <1>3, <1>4

LEMMA EnterStep ==
  ASSUME StackInv, NEW c \in Other, Enter(c)
  PROVE  StackInv' /\ Now' = c /\ c \notin seen /\ seen' = seen \cup {c} /\ suspended' = suspended
<1>1. c \notin seen /\ c # Bottom /\ stack' = Append(stack, c) /\ seen' = seen \cup {c}
      /\ suspended' = suspended
  BY ConnectionAssumption DEF Enter
<1>2. c \notin {stack[i] : i \in 1 .. Len(stack)}
  BY <1>1 DEF StackInv
<1>3. /\ stack' \in Seq(Task) /\ Len(stack') = Len(stack) + 1
      /\ Now' = c
      /\ \A i \in 1 .. Len(stack) : stack'[i] = stack[i]
      /\ stack'[Len(stack) + 1] = c
      /\ \A i, j \in 1 .. Len(stack') : stack'[i] = stack'[j] => i = j
  BY <1>1, <1>2, PushKeeps
<1>4. ASSUME NEW i \in 1 .. Len(stack')
      PROVE  stack'[i] \in {Bottom} \cup seen' /\ stack'[i] \notin suspended'
  <2>1. i \in 1 .. Len(stack) \/ i = Len(stack) + 1
    BY <1>3 DEF StackInv
  <2> QED
    BY <1>1, <1>3, <2>1 DEF StackInv
<1> QED
  BY <1>1, <1>3, <1>4 DEF StackInv

LEMMA ReenterStep ==
  ASSUME StackInv, NEW c, Reenter(c)
  PROVE  /\ StackInv' /\ Now' = c
         /\ c \in Other /\ c \in suspended /\ suspended' = suspended \ {c} /\ seen' = seen
<1>1. c \in suspended /\ c \in Other /\ stack' = Append(stack, c) /\ seen' = seen
      /\ suspended' = suspended \ {c}
  BY DEF Reenter, StackInv
<1>2. c \notin {stack[i] : i \in 1 .. Len(stack)}
  BY <1>1 DEF StackInv
<1>3. /\ stack' \in Seq(Task) /\ Len(stack') = Len(stack) + 1
      /\ Now' = c
      /\ \A i \in 1 .. Len(stack) : stack'[i] = stack[i]
      /\ stack'[Len(stack) + 1] = c
      /\ \A i, j \in 1 .. Len(stack') : stack'[i] = stack'[j] => i = j
  BY <1>1, <1>2, PushKeeps
<1>4. ASSUME NEW i \in 1 .. Len(stack')
      PROVE  stack'[i] \in {Bottom} \cup seen' /\ stack'[i] \notin suspended'
  <2>1. i \in 1 .. Len(stack) \/ i = Len(stack) + 1
    BY <1>3 DEF StackInv
  <2> QED
    BY <1>1, <1>3, <2>1 DEF StackInv
<1> QED
  BY <1>1, <1>3, <1>4 DEF StackInv

LEMMA FrontKeeps ==
  ASSUME StackInv, Len(stack) > 1, stack' = Front(stack)
  PROVE  /\ stack' \in Seq(Task) /\ Len(stack') = Len(stack) - 1
         /\ \A i \in 1 .. Len(stack') : stack'[i] = stack[i] /\ i \in 1 .. Len(stack)
         /\ \A i \in 1 .. Len(stack') : stack'[i] # Now
<1>1. stack \in Seq(Task) /\ Len(stack) \in Nat /\ stack' = SubSeq(stack, 1, Len(stack) - 1)
  BY DEF StackInv, Front
<1>2. /\ stack' \in Seq(Task) /\ Len(stack') = Len(stack) - 1
      /\ \A i \in 1 .. Len(stack) - 1 : stack'[i] = stack[i]
  BY <1>1
<1> QED
  BY <1>1, <1>2 DEF StackInv, Now, Last

\* Only a coroutine can be suspended or end, so that the bottom task stays.
LEMMA SuspendStep ==
  ASSUME StackInv, Suspend, Now # Bottom
  PROVE  StackInv' /\ suspended' = suspended \cup {Now} /\ seen' = seen
<1>1. Len(stack) > 1 /\ stack' = Front(stack) /\ suspended' = suspended \cup {Now}
      /\ seen' = seen
  BY DEF Suspend, Now
<1>2. /\ stack' \in Seq(Task) /\ Len(stack') = Len(stack) - 1
      /\ \A i \in 1 .. Len(stack') : stack'[i] = stack[i] /\ i \in 1 .. Len(stack)
      /\ \A i \in 1 .. Len(stack') : stack'[i] # Now
  BY <1>1, FrontKeeps
<1>3. Now \in seen
  BY NowRuns
<1> QED
  BY <1>1, <1>2, <1>3 DEF StackInv

LEMMA LeaveStep ==
  ASSUME StackInv, Leave
  PROVE  StackInv' /\ suspended' = suspended /\ seen' = seen
<1>1. Len(stack) > 1 /\ stack' = Front(stack) /\ suspended' = suspended /\ seen' = seen
  BY DEF Leave
<1>2. /\ stack' \in Seq(Task) /\ Len(stack') = Len(stack) - 1
      /\ \A i \in 1 .. Len(stack') : stack'[i] = stack[i] /\ i \in 1 .. Len(stack)
  BY <1>1, FrontKeeps
<1>3. Len(stack') > 0
  BY <1>1, <1>2 DEF StackInv
<1>4. /\ \A i \in 1 .. Len(stack') : stack'[i] \in {Bottom} \cup seen /\ stack'[i] \notin suspended
      /\ \A i, j \in 1 .. Len(stack') : stack'[i] = stack'[j] => i = j
  BY <1>2 DEF StackInv
<1> QED
  BY <1>1, <1>2, <1>3, <1>4 DEF StackInv

LEMMA StayStep ==
  ASSUME StackInv, UNCHANGED sched
  PROVE  StackInv' /\ Now' = Now /\ suspended' = suspended /\ seen' = seen
BY DEF StackInv, sched, csvars, Now

LEMMA ResumeStep ==
  ASSUME StackInv, NEW c, resume(c)
  PROVE  /\ StackInv' /\ suspended' = suspended \ {c} /\ seen' = seen
         /\ Now' = Now \/ (c \in Other /\ c \in suspended /\ Now' = c)
<1>1. CASE c \in suspended
  BY <1>1, ReenterStep DEF resume
<1>2. CASE c \notin suspended
  <2>1. UNCHANGED sched
    BY <1>2 DEF resume
  <2>2. StackInv' /\ Now' = Now /\ suspended' = suspended /\ seen' = seen
    BY <2>1, StayStep
  <2>3. suspended' = suspended \ {c}
    BY <1>2, <2>1 DEF sched, csvars
  <2> QED
    BY <2>1, <2>2, <2>3
<1> QED
  BY <1>1, <1>2

\* What an update of a connection leaves as it is.
SameLife(k, l) ==
  k.status = l.status /\ k.fd = l.fd /\ k.refs = l.refs /\ k.freed = l.freed
SameEar(k, l) ==
  /\ k.watched = l.watched /\ k.closed = l.closed
  /\ k.isPaused = l.isPaused /\ k.pausedCoro = l.pausedCoro
SameInput(k, l) == k.read = l.read /\ k.read_packet_buffer = l.read_packet_buffer

LEMMA SetStep ==
  ASSUME conn \in [Conn -> ConnRec], NEW c \in Conn, NEW k \in ConnRec, set(c, k)
  PROVE  /\ conn' \in [Conn -> ConnRec] /\ conn'[c] = k
         /\ \A d \in Conn : d # c => conn'[d] = conn[d]
BY DEF set

\* start: one more reference.
LEMMA HoldRec ==
  ASSUME NEW k \in ConnRec
  PROVE  LET l == [k EXCEPT !.refs = @ + 1] IN
         /\ l \in ConnRec /\ SameEar(l, k) /\ SameInput(l, k) /\ l.removed = k.removed
         /\ l.status = k.status /\ l.fd = k.fd /\ l.freed = k.freed /\ l.refs = k.refs + 1
BY DEF ConnRec, SameEar, SameInput

LEMMA ReleaseRec ==
  ASSUME NEW k \in ConnRec, NEW n \in Nat
  PROVE  /\ release(k, n) \in ConnRec
         /\ SameEar(release(k, n), k) /\ SameInput(release(k, n), k)
         /\ release(k, n).removed = k.removed
         /\ release(k, n).status = k.status /\ release(k, n).fd = k.fd
         /\ release(k, n).refs = k.refs - n /\ (release(k, n).freed <=> k.refs = n)
<1>1. k.refs - n \in Int /\ (k.refs = n) \in BOOLEAN
  BY DEF ConnRec
<1> DEFINE l == [k EXCEPT !.refs = k.refs - n]
           m == [l EXCEPT !.freed = (k.refs = n)]
<1>2. release(k, n) = m
  BY DEF release, ConnRec
<1>3. /\ l \in ConnRec /\ SameEar(l, k) /\ SameInput(l, k) /\ l.removed = k.removed
      /\ l.status = k.status /\ l.fd = k.fd /\ l.refs = k.refs - n
  BY <1>1 DEF ConnRec, SameEar, SameInput
<1> HIDE DEF l
<1>4. /\ m \in ConnRec /\ SameEar(m, l) /\ SameInput(m, l) /\ m.removed = l.removed
      /\ m.status = l.status /\ m.fd = l.fd /\ m.refs = l.refs
  BY <1>1, <1>3 DEF ConnRec, SameEar, SameInput
<1>5. m.freed = (k.refs = n)
  BY <1>3 DEF ConnRec
<1> HIDE DEF m
<1> QED
  BY <1>2, <1>3, <1>4, <1>5 DEF SameEar, SameInput

\* wmSocket_close, and before it what wmConnection_destroy does.
LEMMA CloseRec ==
  ASSUME NEW k \in ConnRec
  PROVE  LET l == [k EXCEPT !.closed = TRUE, !.watched = FALSE] IN
         /\ l \in ConnRec /\ SameLife(l, k) /\ SameInput(l, k) /\ l.removed = k.removed
         /\ l.closed /\ ~ l.watched /\ l.isPaused = k.isPaused /\ l.pausedCoro = k.pausedCoro
BY DEF ConnRec, SameLife, SameInput

LEMMA DestroyRec ==
  ASSUME NEW k \in ConnRec
  PROVE  LET l == [k EXCEPT !.status = "CLOSED", !.isPaused = FALSE] IN
         /\ l \in ConnRec /\ SameInput(l, k) /\ l.removed = k.removed
         /\ l.fd = k.fd /\ l.refs = k.refs /\ l.freed = k.freed /\ l.status = "CLOSED"
         /\ l.closed = k.closed /\ l.watched = k.watched /\ l.pausedCoro = k.pausedCoro
         /\ l.isPaused = FALSE
BY DEF ConnRec, SameInput

LEMMA RemovedRec ==
  ASSUME NEW k \in ConnRec
  PROVE  LET l == [k EXCEPT !.removed = TRUE] IN
         l \in ConnRec /\ SameLife(l, k) /\ SameEar(l, k) /\ SameInput(l, k) /\ l.removed
BY DEF ConnRec, SameLife, SameEar, SameInput

LEMMA PausedCoroRec ==
  ASSUME NEW k \in ConnRec, NEW b \in BOOLEAN
  PROVE  LET l == [k EXCEPT !.pausedCoro = b] IN
         /\ l \in ConnRec /\ SameLife(l, k) /\ SameInput(l, k) /\ l.removed = k.removed
         /\ l.closed = k.closed /\ l.watched = k.watched /\ l.isPaused = k.isPaused
         /\ l.pausedCoro = b
BY DEF ConnRec, SameLife, SameInput

LEMMA IsPausedRec ==
  ASSUME NEW k \in ConnRec, NEW b \in BOOLEAN
  PROVE  LET l == [k EXCEPT !.isPaused = b] IN
         /\ l \in ConnRec /\ SameLife(l, k) /\ SameInput(l, k) /\ l.removed = k.removed
         /\ l.closed = k.closed /\ l.watched = k.watched /\ l.pausedCoro = k.pausedCoro
         /\ l.isPaused = b
BY DEF ConnRec, SameLife, SameInput

LEMMA ReadRec ==
  ASSUME NEW k \in ConnRec, NEW n \in Nat
  PROVE  LET l == [k EXCEPT !.read = @ + n] IN
         /\ l \in ConnRec /\ SameLife(l, k) /\ SameEar(l, k) /\ l.removed = k.removed
         /\ l.read = k.read + n /\ l.read_packet_buffer = k.read_packet_buffer
BY DEF ConnRec, SameLife, SameEar

LEMMA BufferRec ==
  ASSUME NEW k \in ConnRec, NEW b \in BOOLEAN
  PROVE  LET l == [k EXCEPT !.read_packet_buffer = b] IN
         /\ l \in ConnRec /\ SameLife(l, k) /\ SameEar(l, k) /\ l.removed = k.removed
         /\ l.read = k.read /\ l.read_packet_buffer = b
BY DEF ConnRec, SameLife, SameEar

LEMMA ClosedRec ==
  ASSUME NEW k \in ConnRec
  PROVE  LET l == [k EXCEPT !.closed = TRUE] IN
         /\ l \in ConnRec /\ SameLife(l, k) /\ SameInput(l, k) /\ l.removed = k.removed
         /\ l.closed /\ l.watched = k.watched /\ l.isPaused = k.isPaused
         /\ l.pausedCoro = k.pausedCoro
BY DEF ConnRec, SameLife, SameInput

LEMMA WatchedRec ==
  ASSUME NEW k \in ConnRec
  PROVE  LET l == [k EXCEPT !.watched = TRUE] IN
         /\ l \in ConnRec /\ SameLife(l, k) /\ SameInput(l, k) /\ l.removed = k.removed
         /\ l.watched /\ l.closed = k.closed /\ l.isPaused = k.isPaused
         /\ l.pausedCoro = k.pausedCoro
BY DEF ConnRec, SameLife, SameInput

LEMMA AcceptRec ==
  ASSUME NEW k \in ConnRec, NEW fd \in Nat
  PROVE  LET l == [k EXCEPT !.status = "ESTABLISHED", !.fd = fd, !.removed = FALSE, !.refs = 2] IN
         /\ l \in ConnRec /\ SameEar(l, k) /\ SameInput(l, k)
         /\ l.status = "ESTABLISHED" /\ l.fd = fd /\ l.removed = FALSE /\ l.refs = 2
         /\ l.freed = k.freed
<1> DEFINE l == [k EXCEPT !.status = "ESTABLISHED", !.fd = fd]
           j == [l EXCEPT !.removed = FALSE]
           m == [j EXCEPT !.refs = 2]
<1>1. /\ l \in ConnRec /\ SameEar(l, k) /\ SameInput(l, k)
      /\ l.status = "ESTABLISHED" /\ l.fd = fd /\ l.freed = k.freed
  BY DEF ConnRec, SameEar, SameInput
<1>2. [k EXCEPT !.status = "ESTABLISHED", !.fd = fd, !.removed = FALSE, !.refs = 2] = m
  BY DEF ConnRec
<1> HIDE DEF l
<1>3. /\ j \in ConnRec /\ SameEar(j, l) /\ SameInput(j, l)
      /\ j.status = l.status /\ j.fd = l.fd /\ j.freed = l.freed /\ j.removed = FALSE
  BY <1>1 DEF ConnRec, SameEar, SameInput
<1> HIDE DEF j
<1>4. /\ m \in ConnRec /\ SameEar(m, j) /\ SameInput(m, j)
      /\ m.status = j.status /\ m.fd = j.fd /\ m.freed = j.freed /\ m.removed = j.removed
      /\ m.refs = 2
  BY <1>3 DEF ConnRec, SameEar, SameInput
<1> HIDE DEF m
<1> QED
  BY <1>1, <1>2, <1>3, <1>4 DEF SameEar, SameInput

\* Where tasks are.
LEMMA PcFacts ==
  ASSUME PcTypeOK, NEW t \in Task, NEW w \in PcsOf(t), Goto(t, w)
  PROVE  PcTypeOK' /\ pc'[t] = w /\ \A u \in Task : u # t => pc'[u] = pc[u]
<1>1. pc' = [pc EXCEPT ![t] = w]
  BY DEF Goto
<1>2. DOMAIN pc' = Task /\ pc' = [u \in Task |-> pc'[u]]
  BY <1>1 DEF PcTypeOK
<1>3. pc'[t] = w /\ \A u \in Task : u # t => pc'[u] = pc[u]
  BY <1>1 DEF PcTypeOK
<1>4. \A u \in Task : pc'[u] \in PcsOf(u)
  BY <1>3 DEF PcTypeOK
<1> QED
  BY <1>2, <1>3, <1>4 DEF PcTypeOK, PcsOf

LEMMA PcSets ==
  /\ \A t \in Conn : PcsOf(t) = ReaderPcs
  /\ \A t \in Handler : PcsOf(t) = HandlerPcs
  /\ PcsOf(Bottom) = BottomPcs
  /\ \A t \in Task : {"close_read", "close_write", "close_fd", "destroy", "unpause",
                      "onClose", "drop"} \subseteq PcsOf(t)
  /\ \A t \in Task : Home(t) \in PcsOf(t) /\ Home(t) \notin DestroyPcs \cup NowPcs \cup {"gone"}
  /\ Home(Bottom) \in {"loop", "stop"}
  /\ \A t \in Task : t # Bottom => {"onError", "errored"} \subseteq PcsOf(t)
  /\ "onError" \notin BottomPcs /\ "errored" \notin BottomPcs
<1> USE Names DEF PcsOf, ReaderPcs, HandlerPcs, BottomPcs, DestroyPcs, ClosePcs,
           NowPcs, Checks, PausedPcs
<1>1. /\ \A t \in Conn : PcsOf(t) = ReaderPcs
      /\ \A t \in Handler : PcsOf(t) = HandlerPcs
      /\ PcsOf(Bottom) = BottomPcs
  OBVIOUS
<1>2. \A t \in Task : {"close_read", "close_write", "close_fd", "destroy", "unpause",
                      "onClose", "drop"} \subseteq PcsOf(t)
  OBVIOUS
<1>3. \A t \in Task : Home(t) \in PcsOf(t) /\ Home(t) \notin DestroyPcs \cup NowPcs \cup {"gone"}
  BY DEF Home, PhpOf
<1>4. \A t \in Task : t # Bottom => {"onError", "errored"} \subseteq PcsOf(t)
  OBVIOUS
<1>5. Home(Bottom) \in {"loop", "stop"}
  BY DEF Home
<1> QED
  BY <1>1, <1>2, <1>3, <1>4, <1>5


-----------------------------------------------------------------------------
(***************************************************************************)
(* Effects of the actions.                                                 *)
(***************************************************************************)
BaseInv == StackInv /\ CnTypeOK /\ PlaceInv /\ NowInv

Moves(t, w) == PcTypeOK' /\ pc'[t] = w /\ \A u \in Task : u # t => pc'[u] = pc[u]

Becomes(c, k) ==
  conn' \in [Conn -> ConnRec] /\ conn'[c] = k /\ \A d \in Conn : d # c => conn'[d] = conn[d]

Stays    == StackInv' /\ Now' = Now /\ suspended' = suspended /\ seen' = seen
Subsides == StackInv' /\ Now # Bottom /\ suspended' = suspended \cup {Now} /\ seen' = seen

Resumes(c) ==
  /\ StackInv' /\ suspended' = suspended \ {c} /\ seen' = seen
  /\ Now' = Now \/ (c \in suspended /\ Now' = c)

\* What no action of a coroutine changes at all.
SameTables ==
  /\ wm_connections' = wm_connections /\ connections' = connections /\ ousted' = ousted
  /\ protocol' = protocol
SameBytes  ==
  /\ frame' = frame /\ delivered' = delivered
  /\ read_buffer_tmp' = read_buffer_tmp /\ has_paused' = has_paused
  /\ lost' = lost /\ cut' = cut

\* A callback of c, which becomes k, in the coroutine h.
Starts(h, t, c, back, k) ==
  /\ h \in Handler /\ h \notin seen /\ h # t /\ pc[h] = "gone" /\ of[h] = NoConn /\ ~ k.freed
  /\ StackInv' /\ Now' = h /\ seen' = seen \cup {h} /\ suspended' = suspended
  /\ PcTypeOK' /\ pc'[h] = "php" /\ pc'[t] = back
  /\ \A u \in Task : u # t /\ u # h => pc'[u] = pc[u]
  /\ of' \in [Task -> Conn \cup {NoConn}] /\ of'[h] = c
  /\ \A u \in Task : u # h => of'[u] = of[u]
  /\ \E l \in ConnRec :
       /\ Becomes(c, l)
       /\ SameEar(l, k) /\ SameInput(l, k) /\ l.removed = k.removed
       /\ l.status = k.status /\ l.fd = k.fd /\ l.freed = k.freed /\ l.refs = k.refs + 1

LEMMA AtWork ==
  ASSUME CnTypeOK, PlaceInv, NEW t \in Task,
         pc[t] \in DestroyPcs \cup {"php", "input", "send", "send_wait"}
  PROVE  of[t] \in Conn
BY Names DEF CnTypeOK, PcTypeOK, PcsOf, PlaceInv, DestroyPcs, ClosePcs

LEMMA CallbackDoes ==
  ASSUME BaseInv, NEW t \in Task, t = Now, NEW c \in Conn, NEW back \in PcsOf(t),
         NEW k \in ConnRec, Callback(t, c, back, k)
  PROVE  \/ \E h \in Handler : Starts(h, t, c, back, k)
         \/ Moves(t, back) /\ Becomes(c, k) /\ Stays /\ of' = of
<1>1. CASE Goto(t, back) /\ set(c, k) /\ UNCHANGED <<sched, of>>
  BY <1>1, PcFacts, SetStep, StayStep DEF Moves, Becomes, Stays, BaseInv, CnTypeOK
<1>2. CASE start(t, c, back, k)
  <2>1. PICK h \in Handler :
          /\ ~ k.freed
          /\ Enter(h)
          /\ pc' = [pc EXCEPT ![h] = "php", ![t] = back]
          /\ of' = [of EXCEPT ![h] = c]
          /\ set(c, [k EXCEPT !.refs = @ + 1])
    BY <1>2 DEF start
  <2>2. StackInv' /\ Now' = h /\ h \notin seen /\ seen' = seen \cup {h} /\ suspended' = suspended
    BY <2>1, EnterStep, Names DEF BaseInv
  <2>3. h # t /\ pc[h] = "gone" /\ of[h] = NoConn
    BY <2>2, NowRuns, Names DEF BaseInv, PlaceInv
  <2>4. /\ PcTypeOK' /\ pc'[h] = "php" /\ pc'[t] = back
        /\ \A u \in Task : u # t /\ u # h => pc'[u] = pc[u]
    <3>1. h \in Task /\ "php" \in PcsOf(h)
      BY Names DEF PcsOf, HandlerPcs
    <3>2. DOMAIN pc' = Task /\ pc' = [u \in Task |-> pc'[u]]
      BY <2>1 DEF BaseInv, CnTypeOK, PcTypeOK
    <3>3. /\ pc'[h] = "php" /\ pc'[t] = back
          /\ \A u \in Task : u # t /\ u # h => pc'[u] = pc[u]
      BY <2>1, <2>3, <3>1 DEF BaseInv, CnTypeOK, PcTypeOK
    <3>4. \A u \in Task : pc'[u] \in PcsOf(u)
      BY <3>1, <3>3 DEF BaseInv, CnTypeOK, PcTypeOK
    <3> QED
      BY <3>2, <3>3, <3>4 DEF PcTypeOK, PcsOf
  <2>5. /\ of' \in [Task -> Conn \cup {NoConn}] /\ of'[h] = c
        /\ \A u \in Task : u # h => of'[u] = of[u]
    BY <2>1, Names DEF BaseInv, CnTypeOK
  <2> DEFINE l == [k EXCEPT !.refs = @ + 1]
  <2>6. /\ l \in ConnRec
        /\ SameEar(l, k) /\ SameInput(l, k) /\ l.removed = k.removed
        /\ l.status = k.status /\ l.fd = k.fd /\ l.freed = k.freed /\ l.refs = k.refs + 1
    BY HoldRec
  <2> HIDE DEF l
  <2>7. Becomes(c, l)
    BY <2>1, <2>6, SetStep DEF l, BaseInv, CnTypeOK, Becomes
  <2> QED
    BY <2>1, <2>2, <2>3, <2>4, <2>5, <2>6, <2>7 DEF Starts
<1> QED
  BY <1>1, <1>2 DEF Callback

\* then, of, and the rest.
ThenMoves(t, back) ==
  /\ then' \in [Task -> {"nowhere", "unpause", "onError", "loop"}]
  /\ then'[t] = back /\ \A u \in Task : u # t => then'[u] = then[u]

Closing(t, c, k, back) ==
  \E w \in {"close_read", "close_fd"}, l \in ConnRec :
    /\ Moves(t, w) /\ ThenMoves(t, back) /\ Becomes(c, l)
    /\ w = "close_fd" => ~ k.watched
    /\ SameLife(l, k) /\ SameInput(l, k) /\ l.removed = k.removed
    /\ l.closed /\ ~ l.watched /\ l.isPaused = k.isPaused /\ l.pausedCoro = k.pausedCoro

LEMMA CloseDoes ==
  ASSUME BaseInv, NEW t \in Task, NEW c \in Conn, NEW k \in ConnRec,
         NEW back \in {"unpause", "onError", "loop"}, close(t, c, k, back)
  PROVE  Closing(t, c, k, back)
<1> DEFINE l == [k EXCEPT !.closed = TRUE, !.watched = FALSE]
           w == IF k.watched \/ Senders(c) # {} THEN "close_read" ELSE "close_fd"
<1>1. /\ l \in ConnRec /\ SameLife(l, k) /\ SameInput(l, k) /\ l.removed = k.removed
      /\ l.closed /\ ~ l.watched /\ l.isPaused = k.isPaused /\ l.pausedCoro = k.pausedCoro
  BY CloseRec
<1>2. set(c, l) /\ Goto(t, w) /\ then' = [then EXCEPT ![t] = back]
  BY DEF close
<1>3. w \in {"close_read", "close_fd"} /\ (w = "close_fd" => ~ k.watched)
  OBVIOUS
<1> HIDE DEF l, w
<1>4. Becomes(c, l)
  BY <1>1, <1>2, SetStep DEF BaseInv, CnTypeOK, Becomes
<1>5. w \in PcsOf(t)
  BY <1>3, PcSets
<1>6. Moves(t, w)
  BY <1>2, <1>5, PcFacts DEF BaseInv, CnTypeOK, Moves
<1>7. ThenMoves(t, back)
  BY <1>2 DEF BaseInv, CnTypeOK, ThenMoves
<1> QED
  BY <1>1, <1>3, <1>4, <1>6, <1>7 DEF Closing

\* A step of a task to another place, and what it leaves alone.
LEMMA MoveDoes ==
  ASSUME BaseInv, NEW t \in Task, NEW w \in PcsOf(t), Goto(t, w)
  PROVE  Moves(t, w)
BY PcFacts DEF BaseInv, CnTypeOK, Moves

LEMMA SetDoes ==
  ASSUME BaseInv, NEW c \in Conn, NEW k \in ConnRec, set(c, k)
  PROVE  Becomes(c, k)
BY SetStep DEF BaseInv, CnTypeOK, Becomes

LEMMA AtIs ==
  ASSUME NEW t, NEW w, At(t, w)
  PROVE  t = Now /\ pc[t] = w
BY DEF At

LEMMA ResumeDoes ==
  ASSUME BaseInv, NEW c, resume(c)
  PROVE  Resumes(c)
BY ResumeStep DEF BaseInv, Resumes

LEMMA ReenterDoes ==
  ASSUME BaseInv, NEW c, Reenter(c)
  PROVE  Resumes(c) /\ Now' = c /\ c \in suspended
BY ReenterStep DEF BaseInv, Resumes

LEMMA StayDoes ==
  ASSUME BaseInv, UNCHANGED sched
  PROVE  Stays
BY StayStep DEF BaseInv, Stays

LEMMA SuspendDoes ==
  ASSUME BaseInv, Suspend, Now # Bottom
  PROVE  Subsides
BY SuspendStep DEF BaseInv, Subsides

Else == SameTables /\ SameBytes /\ told' = told /\ peer' = peer

LEMMA CloseResumesDoes ==
  ASSUME BaseInv, NEW t \in Task, CloseResumes(t)
  PROVE  /\ t = Now /\ of[t] \in Conn
         /\ conn' = conn /\ of' = of /\ then' = then /\ Else
         /\ \/ /\ pc[t] = "close_read" /\ Moves(t, "close_write")
               /\ IF pc[of[t]] = "read_wait" THEN Resumes(of[t]) ELSE Stays
            \/ /\ pc[t] = "close_write" /\ Moves(t, "close_fd")
               /\ Stays \/ \E h \in Other : Resumes(h)
<1>1. /\ conn' = conn /\ of' = of /\ then' = then /\ Else
  BY DEF CloseResumes, worker, tables, world, amiss, Else, SameTables, SameBytes
<1>2. t = Now /\ pc[t] \in {"close_read", "close_write"}
  BY DEF CloseResumes, At
<1>3. of[t] \in Conn
  BY <1>2, AtWork DEF BaseInv, DestroyPcs, ClosePcs
<1>4. CASE At(t, "close_read")
  <2>1. Goto(t, "close_write") /\ IF pc[of[t]] = "read_wait" THEN resume(of[t]) ELSE UNCHANGED sched
    BY <1>4 DEF CloseResumes, At
  <2>2. Moves(t, "close_write")
    BY <2>1, MoveDoes, PcSets
  <2> QED
    BY <1>1, <1>3, <1>4, <2>1, <2>2, AtIs, ResumeDoes, StayDoes
<1>5. CASE At(t, "close_write")
  <2>1. Goto(t, "close_fd") /\ (UNCHANGED sched \/ \E h \in Senders(of[t]) : Reenter(h))
    BY <1>5 DEF CloseResumes, At
  <2>2. Moves(t, "close_fd")
    BY <2>1, MoveDoes, PcSets
  <2>3. Stays \/ \E h \in Other : Resumes(h)
    BY <2>1, StayDoes, ReenterDoes DEF Senders, Reenter, BaseInv, StackInv
  <2> QED
    BY <1>1, <1>3, <1>5, <2>2, <2>3, AtIs
<1> QED
  BY <1>4, <1>5 DEF CloseResumes

LEMMA CloseFdDoes ==
  ASSUME BaseInv, NEW t \in Task, CloseFd(t)
  PROVE  /\ t = Now /\ of[t] \in Conn /\ pc[t] = "close_fd"
         /\ Moves(t, then[t]) /\ ThenMoves(t, "nowhere") /\ then[t] \in PcsOf(t)
         /\ Stays /\ of' = of /\ Else
         /\ \E k \in ConnRec :
              /\ Becomes(of[t], k) /\ SameLife(k, conn[of[t]]) /\ SameEar(k, conn[of[t]])
              /\ SameInput(k, conn[of[t]]) /\ k.removed
<1>1. /\ t = Now /\ pc[t] = "close_fd" /\ of' = of /\ Else /\ UNCHANGED sched
      /\ Goto(t, then[t]) /\ then' = [then EXCEPT ![t] = "nowhere"]
      /\ set(of[t], [conn[of[t]] EXCEPT !.removed = TRUE])
  BY DEF CloseFd, At, worker, tables, world, amiss, Else, SameTables, SameBytes
<1>2. of[t] \in Conn
  BY <1>1, AtWork DEF BaseInv, DestroyPcs, ClosePcs
<1>3. then[t] \in PcsOf(t)
  BY <1>1, PcSets, Names DEF BaseInv, CnTypeOK, PlaceInv, ClosePcs, BottomPcs
<1>4. Moves(t, then[t]) /\ Stays
  BY <1>1, <1>3, MoveDoes, StayDoes
<1>5. ThenMoves(t, "nowhere")
  BY <1>1 DEF BaseInv, CnTypeOK, ThenMoves
<1> DEFINE k == [conn[of[t]] EXCEPT !.removed = TRUE]
<1>6. conn[of[t]] \in ConnRec
  BY <1>2 DEF BaseInv, CnTypeOK
<1>7. k \in ConnRec /\ SameLife(k, conn[of[t]]) /\ SameEar(k, conn[of[t]])
      /\ SameInput(k, conn[of[t]]) /\ k.removed
  BY <1>6, RemovedRec
<1>8. set(of[t], k)
  BY <1>1
<1> HIDE DEF k
<1>9. Becomes(of[t], k)
  BY <1>2, <1>7, <1>8, SetDoes
<1> QED
  BY <1>1, <1>2, <1>3, <1>4, <1>5, <1>7, <1>9

LEMMA DestroyDoes ==
  ASSUME BaseInv, NEW t \in Task, Destroy(t)
  PROVE  /\ t = Now /\ of[t] \in Conn /\ pc[t] = "destroy" /\ Stays /\ of' = of /\ Else
         /\ \/ /\ conn[of[t]].status # "ESTABLISHED" /\ Moves(t, Home(t))
               /\ conn' = conn /\ then' = then
            \/ /\ conn[of[t]].status = "ESTABLISHED"
               /\ \E k \in ConnRec :
                    /\ SameInput(k, conn[of[t]]) /\ k.removed = conn[of[t]].removed
                    /\ k.fd = conn[of[t]].fd /\ k.refs = conn[of[t]].refs
                    /\ k.freed = conn[of[t]].freed /\ k.status = "CLOSED"
                    /\ k.closed = conn[of[t]].closed /\ k.watched = conn[of[t]].watched
                    /\ k.pausedCoro = conn[of[t]].pausedCoro
                    /\ Closing(t, of[t], k, "unpause")
<1>1. /\ t = Now /\ pc[t] = "destroy" /\ of' = of /\ Else /\ UNCHANGED sched
  BY DEF Destroy, At, worker, tables, world, amiss, Else, SameTables, SameBytes
<1>2. of[t] \in Conn
  BY <1>1, AtWork DEF BaseInv, DestroyPcs, ClosePcs
<1>3. Stays
  BY <1>1, StayDoes
<1>4. CASE Established(of[t])
  <2> DEFINE k == [conn[of[t]] EXCEPT !.status = "CLOSED", !.isPaused = FALSE]
  <2>1. conn[of[t]] \in ConnRec
    BY <1>2 DEF BaseInv, CnTypeOK
  <2>2. /\ k \in ConnRec /\ SameInput(k, conn[of[t]]) /\ k.removed = conn[of[t]].removed
        /\ k.fd = conn[of[t]].fd /\ k.refs = conn[of[t]].refs
        /\ k.freed = conn[of[t]].freed /\ k.status = "CLOSED"
        /\ k.closed = conn[of[t]].closed /\ k.watched = conn[of[t]].watched
        /\ k.pausedCoro = conn[of[t]].pausedCoro
    BY <2>1, DestroyRec
  <2>3. close(t, of[t], k, "unpause")
    BY <1>4 DEF Destroy
  <2> HIDE DEF k
  <2>4. Closing(t, of[t], k, "unpause")
    BY <1>2, <2>2, <2>3, CloseDoes
  <2>5. conn[of[t]].status = "ESTABLISHED"
    BY <1>4 DEF Established
  <2> QED
    BY <1>1, <1>2, <1>3, <2>2, <2>4, <2>5
<1>5. CASE ~ Established(of[t])
  <2>1. Goto(t, Home(t)) /\ conn' = conn /\ then' = then
    BY <1>5 DEF Destroy
  <2>2. Moves(t, Home(t))
    BY <2>1, MoveDoes, PcSets
  <2> QED
    BY <1>1, <1>2, <1>3, <1>5, <2>1, <2>2 DEF Established
<1> QED
  BY <1>4, <1>5

LEMMA DestroyResumesDoes ==
  ASSUME BaseInv, NEW t \in Task, DestroyResumes(t)
  PROVE  /\ t = Now /\ of[t] \in Conn /\ pc[t] = "unpause" /\ Moves(t, "onClose")
         /\ conn' = conn /\ of' = of /\ then' = then /\ Else
         /\ IF conn[of[t]].pausedCoro THEN Resumes(of[t]) ELSE Stays
<1>1. /\ t = Now /\ pc[t] = "unpause" /\ conn' = conn /\ of' = of /\ then' = then /\ Else
      /\ Goto(t, "onClose")
      /\ IF conn[of[t]].pausedCoro THEN resume(of[t]) ELSE UNCHANGED sched
  BY DEF DestroyResumes, At, worker, tables, world, amiss, Else, SameTables, SameBytes
<1>2. of[t] \in Conn
  BY <1>1, AtWork DEF BaseInv, DestroyPcs, ClosePcs
<1>3. Moves(t, "onClose")
  BY <1>1, MoveDoes, PcSets
<1> QED
  BY <1>1, <1>2, <1>3, ResumeDoes, StayDoes

LEMMA OnCloseDoes ==
  ASSUME BaseInv, NEW t \in Task, OnClose(t)
  PROVE  /\ t = Now /\ of[t] \in Conn /\ pc[t] = "onClose"
         /\ then' = then /\ SameTables /\ SameBytes /\ peer' = peer
         /\ told' \in [Conn -> Nat] /\ told'[of[t]] = told[of[t]] + 1
         /\ \A d \in Conn : d # of[t] => told'[d] = told[d]
         /\ \/ \E h \in Handler : Starts(h, t, of[t], "drop", conn[of[t]])
            \/ Moves(t, "drop") /\ Becomes(of[t], conn[of[t]]) /\ Stays /\ of' = of
<1>1. /\ t = Now /\ pc[t] = "onClose" /\ then' = then /\ SameTables /\ SameBytes /\ peer' = peer
      /\ told' = [told EXCEPT ![of[t]] = @ + 1]
      /\ Callback(t, of[t], "drop", conn[of[t]])
  BY DEF OnClose, At, worker, tables, amiss, SameTables, SameBytes
<1>2. of[t] \in Conn
  BY <1>1, AtWork DEF BaseInv, DestroyPcs, ClosePcs
<1>3. /\ told' \in [Conn -> Nat] /\ told'[of[t]] = told[of[t]] + 1
      /\ \A d \in Conn : d # of[t] => told'[d] = told[d]
  BY <1>1, <1>2 DEF BaseInv, CnTypeOK
<1>4. "drop" \in PcsOf(t) /\ conn[of[t]] \in ConnRec
  BY <1>2, PcSets DEF BaseInv, CnTypeOK
<1> QED
  BY <1>1, <1>2, <1>3, <1>4, CallbackDoes

LEMMA DestroyDropsDoes ==
  ASSUME BaseInv, NEW t \in Task, DestroyDrops(t)
  PROVE  /\ t = Now /\ of[t] \in Conn /\ pc[t] = "drop" /\ Moves(t, Home(t)) /\ Stays
         /\ of' = of /\ then' = then /\ SameBytes /\ told' = told /\ peer' = peer
         /\ protocol' = protocol
         /\ connections' = connections \ {of[t]}
         /\ wm_connections' \in [Fd -> Conn \cup {NoConn}]
         /\ \A fd \in Fd : wm_connections'[fd] =
              IF fd = conn[of[t]].fd THEN NoConn ELSE wm_connections[fd]
         /\ ousted' = ousted \cup ({wm_connections[conn[of[t]].fd]} \ {of[t], NoConn})
         /\ \E n \in {1, 2}, k \in ConnRec :
              /\ n = IF of[t] \in connections THEN 2 ELSE 1
              /\ Becomes(of[t], k) /\ SameEar(k, conn[of[t]]) /\ SameInput(k, conn[of[t]])
              /\ k.removed = conn[of[t]].removed /\ k.status = conn[of[t]].status
              /\ k.fd = conn[of[t]].fd /\ k.refs = conn[of[t]].refs - n
              /\ k.freed <=> conn[of[t]].refs = n
<1>1. /\ t = Now /\ pc[t] = "drop" /\ of' = of /\ then' = then
      /\ SameBytes /\ told' = told /\ peer' = peer
      /\ protocol' = protocol /\ UNCHANGED sched /\ Goto(t, Home(t))
      /\ connections' = connections \ {of[t]}
      /\ wm_connections' = [wm_connections EXCEPT ![conn[of[t]].fd] = NoConn]
      /\ ousted' = ousted \cup ({wm_connections[conn[of[t]].fd]} \ {of[t], NoConn})
      /\ set(of[t], release(conn[of[t]], IF of[t] \in connections THEN 2 ELSE 1))
  BY DEF DestroyDrops, At, world, amiss, SameBytes
<1>2. of[t] \in Conn
  BY <1>1, AtWork DEF BaseInv, DestroyPcs, ClosePcs
<1>3. Moves(t, Home(t)) /\ Stays
  BY <1>1, MoveDoes, PcSets, StayDoes
<1>4. /\ wm_connections' \in [Fd -> Conn \cup {NoConn}]
      /\ \A fd \in Fd : wm_connections'[fd] =
           IF fd = conn[of[t]].fd THEN NoConn ELSE wm_connections[fd]
  BY <1>1 DEF BaseInv, CnTypeOK
<1> DEFINE n == IF of[t] \in connections THEN 2 ELSE 1
           k == release(conn[of[t]], n)
<1>5. n \in {1, 2} /\ n \in Nat /\ conn[of[t]] \in ConnRec
  BY <1>2 DEF BaseInv, CnTypeOK
<1>6. set(of[t], k)
  BY <1>1
<1>7. n = IF of[t] \in connections THEN 2 ELSE 1
  OBVIOUS
<1> HIDE DEF n
<1>8. /\ k \in ConnRec /\ SameEar(k, conn[of[t]]) /\ SameInput(k, conn[of[t]])
      /\ k.removed = conn[of[t]].removed /\ k.status = conn[of[t]].status
      /\ k.fd = conn[of[t]].fd /\ k.refs = conn[of[t]].refs - n
      /\ k.freed <=> conn[of[t]].refs = n
  BY <1>5, ReleaseRec
<1> HIDE DEF k
<1>9. Becomes(of[t], k)
  BY <1>2, <1>6, <1>8, SetDoes
<1> QED
  BY <1>1, <1>2, <1>3, <1>4, <1>5, <1>7, <1>8, <1>9

LEMMA OnErrorDoes ==
  ASSUME BaseInv, NEW t \in Task, OnError(t)
  PROVE  /\ t = Now /\ of[t] \in Conn /\ t # Bottom /\ then' = then /\ Else
         /\ \/ /\ pc[t] = "onError"
               /\ \/ \E h \in Handler : Starts(h, t, of[t], "errored", conn[of[t]])
                  \/ Moves(t, "errored") /\ Becomes(of[t], conn[of[t]]) /\ Stays /\ of' = of
            \/ /\ pc[t] = "errored" /\ conn' = conn /\ of' = of /\ Stays
               /\ Moves(t, "destroy") \/ Moves(t, Home(t))
<1>1. t = Now /\ then' = then /\ Else /\ pc[t] \in {"onError", "errored"}
  BY DEF OnError, At, worker, tables, world, amiss, Else, SameTables, SameBytes
<1>2. of[t] \in Conn
  BY <1>1, AtWork DEF BaseInv, DestroyPcs
<1>3. t # Bottom
  BY <1>1, PcSets DEF BaseInv, CnTypeOK, PcTypeOK
<1>4. CASE At(t, "onError") /\ Callback(t, of[t], "errored", conn[of[t]])
  <2>1. "errored" \in PcsOf(t) /\ conn[of[t]] \in ConnRec
    BY <1>2, <1>3, PcSets DEF BaseInv, CnTypeOK
  <2> QED
    BY <1>1, <1>2, <1>3, <1>4, <2>1, AtIs, CallbackDoes
<1>5. CASE /\ At(t, "errored")
           /\ Goto(t, IF conn[of[t]].closed THEN "destroy" ELSE Home(t))
           /\ UNCHANGED <<sched, conn, of>>
  <2>1. Goto(t, "destroy") \/ Goto(t, Home(t))
    BY <1>5
  <2>2. Moves(t, "destroy") \/ Moves(t, Home(t))
    BY <2>1, MoveDoes, PcSets
  <2> QED
    BY <1>1, <1>2, <1>3, <1>5, <2>2, AtIs, StayDoes
<1> QED
  BY <1>4, <1>5 DEF OnError

LEMMA ReaderIs ==
  ASSUME BaseInv, NEW c \in Conn
  PROVE  c \in Task /\ c # Bottom /\ of[c] = c /\ conn[c] \in ConnRec /\ PcsOf(c) = ReaderPcs
BY Names, PcSets DEF BaseInv, CnTypeOK, PlaceInv

LEMMA CheckDoes ==
  ASSUME BaseInv, NEW c \in Conn, NEW at \in Checks, check_read_status(c, at)
  PROVE  /\ c = Now /\ pc[c] = at /\ of' = of /\ then' = then /\ Else
         /\ at = "parse" => frame[c].packet # <<>> \/ frame[c].beyond
         /\ \/ /\ Readable(c) /\ conn[c].isPaused
               /\ Subsides /\ Moves(c, Paused(at))
               /\ \E k \in ConnRec :
                    /\ Becomes(c, k) /\ SameLife(k, conn[c]) /\ SameInput(k, conn[c])
                    /\ k.removed = conn[c].removed /\ k.closed = conn[c].closed
                    /\ k.watched = conn[c].watched /\ k.isPaused = conn[c].isPaused
                    /\ k.pausedCoro = TRUE
            \/ /\ conn' = conn /\ Stays
               /\ Moves(c, true(at)) \/ Moves(c, false(at))
<1>1. /\ c = Now /\ pc[c] = at /\ of' = of /\ then' = then /\ Else
      /\ at = "parse" => frame[c].packet # <<>> \/ frame[c].beyond
  BY DEF check_read_status, At, worker, tables, world, amiss, Else, SameTables, SameBytes
<1>2. /\ Paused(at) \in PcsOf(c) /\ true(at) \in PcsOf(c) /\ false(at) \in PcsOf(c)
  BY ReaderIs DEF ReaderPcs, Checks, PausedPcs, Paused, true, false
<1>3. CASE Readable(c) /\ conn[c].isPaused
  <2> DEFINE k == [conn[c] EXCEPT !.pausedCoro = TRUE]
  <2>1. set(c, k) /\ Suspend /\ Goto(c, Paused(at))
    BY <1>3 DEF check_read_status
  <2>2. /\ k \in ConnRec /\ SameLife(k, conn[c]) /\ SameInput(k, conn[c])
        /\ k.removed = conn[c].removed /\ k.closed = conn[c].closed
        /\ k.watched = conn[c].watched /\ k.isPaused = conn[c].isPaused
        /\ k.pausedCoro = TRUE
    BY ReaderIs, PausedCoroRec
  <2> HIDE DEF k
  <2>3. Becomes(c, k) /\ Subsides /\ Moves(c, Paused(at))
    BY <1>1, <1>2, <2>1, <2>2, SetDoes, SuspendDoes, MoveDoes, ReaderIs
  <2> QED
    BY <1>1, <1>3, <2>2, <2>3
<1>4. CASE ~ (Readable(c) /\ conn[c].isPaused)
  <2>1. /\ Goto(c, true(at)) \/ Goto(c, false(at))
        /\ UNCHANGED <<sched, conn>>
    BY <1>4 DEF check_read_status
  <2>2. Moves(c, true(at)) \/ Moves(c, false(at))
    BY <1>2, <2>1, MoveDoes, ReaderIs
  <2> QED
    BY <1>1, <2>1, <2>2, StayDoes
<1> QED
  BY <1>3, <1>4

LEMMA GoesOnDoes ==
  ASSUME BaseInv, NEW c \in Conn, NEW at \in Checks, GoesOn(c, at)
  PROVE  /\ c = Now /\ pc[c] = Paused(at) /\ of' = of /\ then' = then /\ Else /\ Stays
         /\ \E k \in ConnRec :
              /\ Becomes(c, k) /\ SameLife(k, conn[c]) /\ SameInput(k, conn[c])
              /\ k.removed = conn[c].removed /\ k.closed = conn[c].closed
              /\ k.watched = conn[c].watched /\ k.isPaused = conn[c].isPaused
              /\ k.pausedCoro = FALSE
         /\ Moves(c, true(at)) \/ Moves(c, false(at))
<1> DEFINE k == [conn[c] EXCEPT !.pausedCoro = FALSE]
<1>1. /\ c = Now /\ pc[c] = Paused(at) /\ of' = of /\ then' = then /\ Else
      /\ UNCHANGED sched /\ set(c, k) /\ (Goto(c, true(at)) \/ Goto(c, false(at)))
  BY DEF GoesOn, At, worker, tables, world, amiss, Else, SameTables, SameBytes
<1>2. /\ k \in ConnRec /\ SameLife(k, conn[c]) /\ SameInput(k, conn[c])
      /\ k.removed = conn[c].removed /\ k.closed = conn[c].closed
      /\ k.watched = conn[c].watched /\ k.isPaused = conn[c].isPaused
      /\ k.pausedCoro = FALSE
  BY ReaderIs, PausedCoroRec
<1> HIDE DEF k
<1>3. true(at) \in PcsOf(c) /\ false(at) \in PcsOf(c)
  BY ReaderIs DEF ReaderPcs, Checks, true, false
<1>4. Becomes(c, k) /\ Stays /\ (Moves(c, true(at)) \/ Moves(c, false(at)))
  BY <1>1, <1>2, <1>3, SetDoes, StayDoes, MoveDoes, ReaderIs
<1> QED
  BY <1>1, <1>2, <1>4

SameCoros == of' = of /\ then' = then
SameWorld == told' = told /\ peer' = peer /\ has_paused' = has_paused /\ cut' = cut

\* What ReadData, Input and Keep do to the bytes.
Takes(c, n) ==
  IF protocol
    THEN /\ frame' = [frame EXCEPT ![c].offset = FALSE,
               ![c].packet = @ \o [i \in 1 .. n |-> <<c, conn[c].read + i>>]]
         /\ read_buffer_tmp' = read_buffer_tmp
    ELSE /\ frame' = [frame EXCEPT ![c].ret = n]
         /\ read_buffer_tmp' = Received(c, n)

HandsOver(c, n) ==
  /\ delivered' = [delivered EXCEPT ![c] = @ \o SubSeq(frame[c].packet, 1, n)]
  /\ lost' = lost
  /\ \E beyond \in BOOLEAN :
       /\ beyond => n = Len(frame[c].packet)
       /\ frame' = [frame EXCEPT ![c].offset = TRUE, ![c].beyond = beyond,
                                 ![c].packet = SubSeq(@, n + 1, Len(@))]

HandsOverRest(c) ==
  /\ lost' = lost
  /\ delivered' = [delivered EXCEPT ![c] = @ \o SubSeq(read_buffer_tmp, 1, frame[c].ret)]

Keeps(c) ==
  IF frame[c].offset \/ conn[c].read_packet_buffer
    THEN frame' = frame /\ lost' = lost
    ELSE /\ frame' = [frame EXCEPT ![c].packet = <<>>]
         /\ lost' = [lost EXCEPT ![c] = @ + Len(frame[c].packet)]

\* What ReadFails and InputFails leave as it is.
ElseLeaving(c) ==
  /\ SameTables /\ told' = told /\ peer' = peer /\ leaving(c)
  /\ delivered' = delivered /\ read_buffer_tmp' = read_buffer_tmp
  /\ has_paused' = has_paused /\ lost' = lost /\ cut' = cut

LEMMA ReadDataDoes ==
  ASSUME BaseInv, NEW c \in Conn, ReadData(c)
  PROVE  /\ c = Now /\ pc[c] = "read" /\ SameCoros /\ SameTables /\ SameWorld /\ Stays
         /\ Moves(c, IF protocol THEN "parse" ELSE "got")
         /\ delivered' = delivered /\ lost' = lost
         /\ \E n \in Nat, k \in ConnRec :
              /\ n > 0
              /\ Becomes(c, k) /\ SameLife(k, conn[c]) /\ SameEar(k, conn[c])
              /\ k.removed = conn[c].removed
              /\ k.read = conn[c].read + n /\ k.read_packet_buffer = conn[c].read_packet_buffer
              /\ Takes(c, n)
<1>1. /\ c = Now /\ pc[c] = "read" /\ SameCoros /\ SameTables /\ SameWorld /\ UNCHANGED sched
      /\ delivered' = delivered /\ lost' = lost /\ Goto(c, IF protocol THEN "parse" ELSE "got")
  BY DEF ReadData, At, tables, world, amiss, SameCoros, SameTables, SameWorld
<1>2. (IF protocol THEN "parse" ELSE "got") \in PcsOf(c)
  BY ReaderIs DEF ReaderPcs, Checks
<1>3. Moves(c, IF protocol THEN "parse" ELSE "got") /\ Stays
  BY <1>1, <1>2, MoveDoes, StayDoes, ReaderIs
<1>4. PICK n \in 1 .. Unread(c) :
       /\ set(c, [conn[c] EXCEPT !.read = @ + n])
       /\ Takes(c, n)
  BY DEF ReadData, Takes
<1>5. n \in Nat /\ n > 0
  <2>1. Unread(c) \in Int
    BY ReaderIs DEF Unread, BaseInv, CnTypeOK, PeerTypeOK, ConnRec
  <2> QED
    BY <2>1
<1> DEFINE k == [conn[c] EXCEPT !.read = @ + n]
<1>6. /\ k \in ConnRec /\ SameLife(k, conn[c]) /\ SameEar(k, conn[c])
      /\ k.removed = conn[c].removed
      /\ k.read = conn[c].read + n /\ k.read_packet_buffer = conn[c].read_packet_buffer
  BY <1>5, ReaderIs, ReadRec
<1>7. set(c, k)
  BY <1>4
<1> HIDE DEF k
<1>8. Becomes(c, k)
  BY <1>6, <1>7, SetDoes
<1> QED
  BY <1>1, <1>3, <1>4, <1>5, <1>6, <1>8

LEMMA ReadFailsDoes ==
  ASSUME BaseInv, NEW c \in Conn, ReadFails(c)
  PROVE  /\ c = Now /\ pc[c] = "read" /\ SameCoros /\ ElseLeaving(c)
         /\ \/ Moves(c, "destroy") /\ Stays /\ conn' = conn
            \/ Moves(c, "onError") /\ Stays /\ conn' = conn
            \/ /\ Moves(c, "destroy") /\ Stays
               /\ \E k \in ConnRec :
                    /\ Becomes(c, k) /\ SameLife(k, conn[c]) /\ SameInput(k, conn[c])
                    /\ k.removed = conn[c].removed
                    /\ k.closed /\ k.watched = conn[c].watched
                    /\ k.isPaused = conn[c].isPaused /\ k.pausedCoro = conn[c].pausedCoro
<1>1. c = Now /\ pc[c] = "read" /\ SameCoros /\ ElseLeaving(c)
  BY DEF ReadFails, LeavesBy, At, worker, tables, world, amiss, SameCoros, ElseLeaving, SameTables
<1>2. {"destroy", "onError"} \subseteq PcsOf(c)
  BY ReaderIs DEF ReaderPcs, DestroyPcs
<1>3. ASSUME set(c, [conn[c] EXCEPT !.closed = TRUE])
      PROVE  \E k \in ConnRec :
               /\ Becomes(c, k) /\ SameLife(k, conn[c]) /\ SameInput(k, conn[c])
               /\ k.removed = conn[c].removed
               /\ k.closed /\ k.watched = conn[c].watched
               /\ k.isPaused = conn[c].isPaused /\ k.pausedCoro = conn[c].pausedCoro
  <2> DEFINE k == [conn[c] EXCEPT !.closed = TRUE]
  <2>1. set(c, k)
    BY <1>3
  <2>2. /\ k \in ConnRec /\ SameLife(k, conn[c]) /\ SameInput(k, conn[c])
        /\ k.removed = conn[c].removed
        /\ k.closed /\ k.watched = conn[c].watched
        /\ k.isPaused = conn[c].isPaused /\ k.pausedCoro = conn[c].pausedCoro
    BY ReaderIs, ClosedRec
  <2> HIDE DEF k
  <2> QED
    BY <2>1, <2>2, SetDoes
<1>5. CASE Goto(c, "destroy") /\ UNCHANGED sched /\ UNCHANGED conn
  BY <1>1, <1>2, <1>5, MoveDoes, StayDoes, ReaderIs
<1>6. CASE Goto(c, "onError") /\ UNCHANGED sched /\ UNCHANGED conn
  BY <1>1, <1>2, <1>6, MoveDoes, StayDoes, ReaderIs
<1>7. CASE Goto(c, "destroy") /\ set(c, [conn[c] EXCEPT !.closed = TRUE]) /\ UNCHANGED sched
  BY <1>1, <1>2, <1>3, <1>7, MoveDoes, StayDoes, ReaderIs
<1> QED
  BY <1>1, <1>5, <1>6, <1>7 DEF ReadFails, LeavesBy

LEMMA ReadWaitsDoes ==
  ASSUME BaseInv, NEW c \in Conn, ReadWaits(c)
  PROVE  /\ c = Now /\ pc[c] = "read" /\ SameCoros /\ Else
         /\ Moves(c, "read_wait") /\ Subsides /\ ~ conn[c].closed
         /\ \E k \in ConnRec :
              /\ Becomes(c, k) /\ SameLife(k, conn[c]) /\ SameInput(k, conn[c])
              /\ k.removed = conn[c].removed
              /\ k.watched /\ k.closed = conn[c].closed
              /\ k.isPaused = conn[c].isPaused /\ k.pausedCoro = conn[c].pausedCoro
<1>1. /\ c = Now /\ pc[c] = "read" /\ SameCoros /\ Else /\ ~ conn[c].closed
      /\ Goto(c, "read_wait") /\ Suspend /\ set(c, [conn[c] EXCEPT !.watched = TRUE])
  BY DEF ReadWaits, At, worker, tables, world, amiss, SameCoros, Else, SameTables, SameBytes
<1>2. "read_wait" \in PcsOf(c)
  BY ReaderIs DEF ReaderPcs
<1> DEFINE k == [conn[c] EXCEPT !.watched = TRUE]
<1>3. set(c, k)
  BY <1>1
<1>4. /\ k \in ConnRec /\ SameLife(k, conn[c]) /\ SameInput(k, conn[c])
      /\ k.removed = conn[c].removed
      /\ k.watched /\ k.closed = conn[c].closed
      /\ k.isPaused = conn[c].isPaused /\ k.pausedCoro = conn[c].pausedCoro
  BY ReaderIs, WatchedRec
<1> HIDE DEF k
<1>5. Becomes(c, k)
  BY <1>3, <1>4, SetDoes
<1> QED
  BY <1>1, <1>2, <1>4, <1>5, MoveDoes, SuspendDoes, ReaderIs

LEMMA ReadGoesOnDoes ==
  ASSUME BaseInv, NEW c \in Conn, ReadGoesOn(c)
  PROVE  /\ c = Now /\ pc[c] = "read_wait" /\ SameCoros /\ Else /\ Stays /\ conn' = conn
         /\ Moves(c, "read")
<1>1. /\ c = Now /\ pc[c] = "read_wait" /\ SameCoros /\ Else /\ conn' = conn
      /\ UNCHANGED sched /\ Goto(c, "read")
  BY DEF ReadGoesOn, At, worker, tables, world, amiss, SameCoros, Else, SameTables, SameBytes
<1>2. "read" \in PcsOf(c)
  BY ReaderIs DEF ReaderPcs
<1> QED
  BY <1>1, <1>2, MoveDoes, StayDoes, ReaderIs

LEMMA deliverDoes ==
  ASSUME BaseInv, NEW c \in Conn, c = Now, NEW back \in ReaderPcs, NEW bytes,
         deliver(c, bytes, back)
  PROVE  /\ then' = then /\ SameTables /\ SameWorld /\ read_buffer_tmp' = read_buffer_tmp
         /\ lost' = lost
         /\ \/ \E h \in Handler : Starts(h, c, c, back, conn[c])
            \/ Moves(c, back) /\ Becomes(c, conn[c]) /\ Stays /\ of' = of
         /\ delivered' = [delivered EXCEPT ![c] = @ \o bytes]
<1>1. /\ then' = then /\ SameTables /\ SameWorld /\ read_buffer_tmp' = read_buffer_tmp
      /\ lost' = lost
      /\ delivered' = [delivered EXCEPT ![c] = @ \o bytes]
      /\ Callback(c, c, back, conn[c])
  BY DEF deliver, amiss, worker, tables, SameTables, SameWorld
<1> QED
  BY <1>1, CallbackDoes, ReaderIs

LEMMA DeliverDoes ==
  ASSUME BaseInv, NEW c \in Conn, Deliver(c)
  PROVE  /\ c = Now /\ pc[c] = "deliver" /\ frame' = frame
         /\ then' = then /\ SameTables /\ SameWorld /\ read_buffer_tmp' = read_buffer_tmp
         /\ \/ \E h \in Handler : Starts(h, c, c, "check", conn[c])
            \/ Moves(c, "check") /\ Becomes(c, conn[c]) /\ Stays /\ of' = of
         /\ HandsOverRest(c)
<1>1. /\ c = Now /\ pc[c] = "deliver" /\ frame' = frame
      /\ deliver(c, SubSeq(read_buffer_tmp, 1, frame[c].ret), "check")
  BY DEF Deliver, At
<1>2. "check" \in ReaderPcs
  BY DEF ReaderPcs, Checks
<1> QED
  BY <1>1, <1>2, deliverDoes DEF HandsOverRest

LEMMA InputDoes ==
  ASSUME BaseInv, NEW c \in Conn, Input(c)
  PROVE  /\ c = Now /\ pc[c] = "input" /\ ~ frame[c].beyond
         /\ then' = then /\ SameTables /\ SameWorld
         /\ read_buffer_tmp' = read_buffer_tmp
         /\ \/ /\ Moves(c, "keep") /\ Stays /\ conn' = conn /\ of' = of
               /\ frame' = frame /\ delivered' = delivered /\ lost' = lost
            \/ /\ \/ \E h \in Handler : Starts(h, c, c, "parse", conn[c])
                  \/ Moves(c, "parse") /\ Becomes(c, conn[c]) /\ Stays /\ of' = of
               /\ \E n \in 1 .. Len(frame[c].packet) : HandsOver(c, n)
<1>1. c = Now /\ pc[c] = "input" /\ ~ frame[c].beyond
  BY DEF Input, At
<1>2. "keep" \in ReaderPcs /\ "parse" \in ReaderPcs
  BY DEF ReaderPcs, Checks
<1>3. CASE /\ Goto(c, "keep")
           /\ UNCHANGED <<sched, conn, worker, of, then, frame, world>>
  <2>1. /\ Goto(c, "keep") /\ UNCHANGED sched /\ then' = then /\ SameTables /\ SameWorld
        /\ read_buffer_tmp' = read_buffer_tmp /\ conn' = conn /\ of' = of
        /\ frame' = frame /\ delivered' = delivered /\ lost' = lost
    BY <1>3 DEF worker, tables, world, amiss, SameTables, SameWorld
  <2> QED
    BY <1>1, <1>2, <2>1, MoveDoes, StayDoes, ReaderIs
<1>4. ASSUME NEW n \in 1 .. Len(frame[c].packet), NEW beyond \in BOOLEAN,
             beyond => n = Len(frame[c].packet),
             deliver(c, SubSeq(frame[c].packet, 1, n), "parse"),
             frame' = [frame EXCEPT ![c].offset = TRUE, ![c].beyond = beyond,
                                    ![c].packet = SubSeq(@, n + 1, Len(@))]
      PROVE  /\ then' = then /\ SameTables /\ SameWorld /\ read_buffer_tmp' = read_buffer_tmp
             /\ \/ \E h \in Handler : Starts(h, c, c, "parse", conn[c])
                \/ Moves(c, "parse") /\ Becomes(c, conn[c]) /\ Stays /\ of' = of
             /\ HandsOver(c, n)
  BY <1>1, <1>2, <1>4, deliverDoes DEF HandsOver
<1> QED
  BY <1>1, <1>3, <1>4 DEF Input

LEMMA InputFailsDoes ==
  ASSUME BaseInv, NEW c \in Conn, InputFails(c)
  PROVE  /\ c = Now /\ pc[c] = "input" /\ ~ frame[c].beyond
         /\ of' = of /\ ElseLeaving(c) /\ Stays
         /\ \/ Moves(c, "destroy") /\ conn' = conn /\ then' = then
            \/ Closing(c, c, conn[c], "onError")
<1>1. c = Now /\ pc[c] = "input" /\ ~ frame[c].beyond /\ of' = of /\ ElseLeaving(c)
      /\ UNCHANGED sched
  BY DEF InputFails, At, worker, tables, world, amiss, ElseLeaving, SameTables
<1>2. CASE Goto(c, "destroy") /\ UNCHANGED <<conn, then>>
  BY <1>1, <1>2, MoveDoes, StayDoes, ReaderIs, PcSets
<1>3. CASE close(c, c, conn[c], "onError")
  BY <1>1, <1>3, CloseDoes, StayDoes, ReaderIs
<1> QED
  BY <1>2, <1>3 DEF InputFails

LEMMA KeepDoes ==
  ASSUME BaseInv, NEW c \in Conn, frame[c].offset \in BOOLEAN, frame[c].beyond \in BOOLEAN, Keep(c)
  PROVE  /\ c = Now /\ pc[c] \in {"keep", "parse"} /\ Stays
         /\ Moves(c, IF frame[c].beyond THEN "over" ELSE "check")
         /\ SameCoros /\ SameTables /\ SameWorld
         /\ delivered' = delivered /\ read_buffer_tmp' = read_buffer_tmp
         /\ Keeps(c)
         /\ pc[c] = "parse" => frame[c].packet = <<>>
         /\ \E k \in ConnRec :
              /\ Becomes(c, k) /\ SameLife(k, conn[c]) /\ SameEar(k, conn[c])
              /\ k.removed = conn[c].removed /\ k.read = conn[c].read
              /\ ~ frame[c].beyond =>
                   k.read_packet_buffer = (frame[c].offset \/ conn[c].read_packet_buffer)
<1> DEFINE b == (frame[c].offset \/ conn[c].read_packet_buffer) /\ ~ frame[c].beyond
           k == [conn[c] EXCEPT !.read_packet_buffer = b]
           w == IF frame[c].beyond THEN "over" ELSE "check"
<1>1. /\ c = Now /\ pc[c] \in {"keep", "parse"} /\ Goto(c, w) /\ UNCHANGED sched
      /\ SameCoros /\ SameTables /\ SameWorld /\ set(c, k)
      /\ delivered' = delivered /\ read_buffer_tmp' = read_buffer_tmp
      /\ pc[c] = "parse" => frame[c].packet = <<>>
  BY DEF Keep, LooksDone, At, worker, tables, SameCoros, SameTables, SameWorld
<1>2. Keeps(c)
  BY DEF Keep, Keeps
<1>3. b \in BOOLEAN /\ (~ frame[c].beyond => b = (frame[c].offset \/ conn[c].read_packet_buffer))
  BY ReaderIs DEF ConnRec
<1> HIDE DEF b
<1>4. /\ k \in ConnRec /\ SameLife(k, conn[c]) /\ SameEar(k, conn[c])
      /\ k.removed = conn[c].removed /\ k.read = conn[c].read
      /\ k.read_packet_buffer = b
  BY <1>3, ReaderIs, BufferRec
<1> HIDE DEF k
<1>5. w \in ReaderPcs
  BY DEF ReaderPcs, Checks
<1> HIDE DEF w
<1>6. Becomes(c, k) /\ Moves(c, w) /\ Stays
  BY <1>1, <1>4, <1>5, SetDoes, MoveDoes, StayDoes, ReaderIs
<1> QED
  BY <1>1, <1>2, <1>3, <1>4, <1>6 DEF w

LEMMA ReaderEndsDoes ==
  ASSUME BaseInv, NEW c \in Conn, ReaderEnds(c)
  PROVE  /\ c = Now /\ pc[c] = "over" /\ Moves(c, "gone") /\ conn' = conn
         /\ StackInv' /\ suspended' = suspended /\ seen' = seen
         /\ SameCoros /\ SameTables /\ SameWorld
         /\ delivered' = delivered /\ read_buffer_tmp' = read_buffer_tmp /\ lost' = lost
         /\ frame' = [frame EXCEPT ![c] = NoFrame]
<1>1. /\ c = Now /\ pc[c] = "over" /\ conn' = conn /\ Leave /\ Goto(c, "gone")
      /\ SameCoros /\ SameTables /\ SameWorld
      /\ delivered' = delivered /\ read_buffer_tmp' = read_buffer_tmp /\ lost' = lost
      /\ frame' = [frame EXCEPT ![c] = NoFrame]
  BY DEF ReaderEnds, At, worker, tables, world, amiss, SameCoros, SameTables, SameWorld
<1>2. "gone" \in ReaderPcs
  BY DEF ReaderPcs
<1>3. StackInv' /\ suspended' = suspended /\ seen' = seen
  BY <1>1, LeaveStep DEF BaseInv
<1> QED
  BY <1>1, <1>2, <1>3, MoveDoes, ReaderIs

LEMMA InPhpIs ==
  ASSUME BaseInv, NEW t \in Other, pc[t] \in {PhpOf(t), "send", "send_wait"}
  PROVE  /\ t \in Task /\ t # Bottom /\ of[t] \in Conn /\ conn[of[t]] \in ConnRec
         /\ PhpOf(t) \in {"php", "input"} /\ (t \notin Conn => PhpOf(t) = "php")
         /\ {PhpOf(t), "send", "send_wait", "destroy", "onError"} \subseteq PcsOf(t)
<1>1. PhpOf(t) \in {"php", "input"} /\ (t \notin Conn => PhpOf(t) = "php")
  BY DEF PhpOf
<1>2. t \in Task /\ t # Bottom /\ (t \in Conn \/ t \in Handler)
  BY Names DEF Handler, Task
<1>3. of[t] \in Conn
  BY <1>1, <1>2, AtWork DEF BaseInv, PlaceInv
<1>4. {PhpOf(t), "send", "send_wait", "destroy", "onError"} \subseteq PcsOf(t)
  BY <1>1, <1>2, PcSets DEF ReaderPcs, HandlerPcs, DestroyPcs, PhpOf
<1> QED
  BY <1>1, <1>2, <1>3, <1>4 DEF BaseInv, CnTypeOK

LEMMA SendDoes ==
  ASSUME BaseInv, NEW h \in Other, Send(h)
  PROVE  /\ h = Now /\ pc[h] = PhpOf(h) /\ conn[of[h]].status = "ESTABLISHED" /\ Else
         /\ h \in Conn => ~ frame[h].beyond
         /\ \/ Closing(h, of[h], conn[of[h]], "onError") /\ Stays /\ of' = of
            \/ /\ then' = then
               /\ \/ \E g \in Handler : Starts(g, h, of[h], "send", conn[of[h]])
                  \/ Moves(h, "send") /\ Becomes(of[h], conn[of[h]]) /\ Stays /\ of' = of
<1>1. /\ h = Now /\ pc[h] = PhpOf(h) /\ conn[of[h]].status = "ESTABLISHED" /\ Else
      /\ h \in Conn => ~ frame[h].beyond
  BY DEF Send, InPhp, At, Established, worker, tables, world, amiss, Else, SameTables, SameBytes
<1>2. "send" \in PcsOf(h)
  BY <1>1, InPhpIs
<1>3. CASE close(h, of[h], conn[of[h]], "onError") /\ UNCHANGED <<sched, of>>
  BY <1>1, <1>3, CloseDoes, StayDoes, InPhpIs
<1>4. CASE Callback(h, of[h], "send", conn[of[h]]) /\ UNCHANGED then
  BY <1>1, <1>2, <1>4, CallbackDoes, InPhpIs
<1> QED
  BY <1>3, <1>4 DEF Send

LEMMA SendReturnsDoes ==
  ASSUME BaseInv, NEW h \in Other, SendReturns(h)
  PROVE  /\ h = Now /\ pc[h] = "send" /\ SameCoros /\ Else /\ Stays
         /\ \E w \in {"destroy", PhpOf(h), "onError"} : Moves(h, w)
         /\ \/ conn' = conn
            \/ \E k \in ConnRec :
                 /\ Becomes(of[h], k) /\ SameLife(k, conn[of[h]]) /\ SameInput(k, conn[of[h]])
                 /\ k.removed = conn[of[h]].removed
                 /\ k.closed /\ k.watched = conn[of[h]].watched
                 /\ k.isPaused = conn[of[h]].isPaused /\ k.pausedCoro = conn[of[h]].pausedCoro
<1>1. /\ h = Now /\ pc[h] = "send" /\ SameCoros /\ Else /\ UNCHANGED sched
      /\ \E w \in {"destroy", PhpOf(h), "onError"} : Goto(h, w)
      /\ conn' = conn \/ set(of[h], [conn[of[h]] EXCEPT !.closed = TRUE])
  BY DEF SendReturns, At, Goto, worker, tables, world, amiss, SameCoros, Else, SameTables, SameBytes
<1>2. {"destroy", PhpOf(h), "onError"} \subseteq PcsOf(h)
  BY <1>1, InPhpIs
<1>3. \E w \in {"destroy", PhpOf(h), "onError"} : Moves(h, w)
  BY <1>1, <1>2, MoveDoes, InPhpIs
<1>4. ASSUME set(of[h], [conn[of[h]] EXCEPT !.closed = TRUE])
      PROVE  \E k \in ConnRec :
                 /\ Becomes(of[h], k) /\ SameLife(k, conn[of[h]]) /\ SameInput(k, conn[of[h]])
                 /\ k.removed = conn[of[h]].removed
                 /\ k.closed /\ k.watched = conn[of[h]].watched
                 /\ k.isPaused = conn[of[h]].isPaused /\ k.pausedCoro = conn[of[h]].pausedCoro
  <2> DEFINE k == [conn[of[h]] EXCEPT !.closed = TRUE]
  <2>1. set(of[h], k)
    BY <1>4
  <2>2. of[h] \in Conn /\ conn[of[h]] \in ConnRec
    BY <1>1, InPhpIs
  <2>3. /\ k \in ConnRec /\ SameLife(k, conn[of[h]]) /\ SameInput(k, conn[of[h]])
        /\ k.removed = conn[of[h]].removed
        /\ k.closed /\ k.watched = conn[of[h]].watched
        /\ k.isPaused = conn[of[h]].isPaused /\ k.pausedCoro = conn[of[h]].pausedCoro
    BY <2>2, ClosedRec
  <2> HIDE DEF k
  <2> QED
    BY <2>1, <2>2, <2>3, SetDoes
<1> QED
  BY <1>1, <1>3, <1>4, StayDoes

LEMMA SendWaitsDoes ==
  ASSUME BaseInv, NEW h \in Other, SendWaits(h)
  PROVE  /\ h = Now /\ pc[h] = "send" /\ SameCoros /\ Else /\ Subsides /\ conn' = conn
         /\ Moves(h, "send_wait")
<1>1. /\ h = Now /\ pc[h] = "send" /\ SameCoros /\ Else /\ Suspend /\ conn' = conn
      /\ Goto(h, "send_wait")
  BY DEF SendWaits, At, worker, tables, world, amiss, SameCoros, Else, SameTables, SameBytes
<1>2. "send_wait" \in PcsOf(h)
  BY <1>1, InPhpIs
<1> QED
  BY <1>1, <1>2, MoveDoes, SuspendDoes, InPhpIs

LEMMA SendGoesOnDoes ==
  ASSUME BaseInv, NEW h \in Other, SendGoesOn(h)
  PROVE  /\ h = Now /\ pc[h] = "send_wait" /\ SameCoros /\ Else /\ Stays /\ conn' = conn
         /\ Moves(h, "send")
<1>1. /\ h = Now /\ pc[h] = "send_wait" /\ SameCoros /\ Else /\ UNCHANGED sched /\ conn' = conn
      /\ Goto(h, "send")
  BY DEF SendGoesOn, At, worker, tables, world, amiss, SameCoros, Else, SameTables, SameBytes
<1>2. "send" \in PcsOf(h)
  BY <1>1, InPhpIs
<1> QED
  BY <1>1, <1>2, MoveDoes, StayDoes, InPhpIs

LEMMA CloseCallDoes ==
  ASSUME BaseInv, NEW h \in Other, Close(h)
  PROVE  /\ h = Now /\ pc[h] = PhpOf(h) /\ SameCoros /\ Else /\ Stays /\ conn' = conn
         /\ h \in Conn => ~ frame[h].beyond
         /\ Moves(h, "destroy")
<1>1. /\ h \in Conn => ~ frame[h].beyond
      /\ h = Now /\ pc[h] = PhpOf(h) /\ SameCoros /\ Else /\ UNCHANGED sched /\ conn' = conn
      /\ Goto(h, "destroy")
  BY DEF Close, InPhp, At, worker, tables, world, amiss, SameCoros, Else, SameTables, SameBytes
<1> QED
  BY <1>1, MoveDoes, StayDoes, InPhpIs, PcSets

\* What pauseRecv and resumeRecv make of a connection.
Flagged(c, b) ==
  \E k \in ConnRec :
    /\ Becomes(c, k) /\ SameLife(k, conn[c]) /\ SameInput(k, conn[c])
    /\ k.removed = conn[c].removed /\ k.closed = conn[c].closed
    /\ k.watched = conn[c].watched /\ k.pausedCoro = conn[c].pausedCoro
    /\ k.isPaused = b

LEMMA FlagDoes ==
  ASSUME BaseInv, NEW c \in Conn, NEW b \in BOOLEAN,
         set(c, [conn[c] EXCEPT !.isPaused = b])
  PROVE  Flagged(c, b)
<1> DEFINE k == [conn[c] EXCEPT !.isPaused = b]
<1>1. set(c, k)
  OBVIOUS
<1>2. /\ k \in ConnRec /\ SameLife(k, conn[c]) /\ SameInput(k, conn[c])
      /\ k.removed = conn[c].removed /\ k.closed = conn[c].closed
      /\ k.watched = conn[c].watched /\ k.pausedCoro = conn[c].pausedCoro
      /\ k.isPaused = b
  BY ReaderIs, IsPausedRec
<1> HIDE DEF k
<1> QED
  BY <1>1, <1>2, SetDoes DEF Flagged

LEMMA PauseRecvDoes ==
  ASSUME BaseInv, NEW h \in Other, PauseRecv(h)
  PROVE  /\ h = Now /\ pc[h] = PhpOf(h) /\ of[h] \in Conn /\ SameCoros /\ pc' = pc /\ Stays
         /\ SameTables /\ told' = told /\ peer' = peer
         /\ frame' = frame /\ delivered' = delivered /\ read_buffer_tmp' = read_buffer_tmp
         /\ lost' = lost /\ cut' = cut
         /\ has_paused' = TRUE /\ Flagged(of[h], TRUE)
<1>1. /\ h = Now /\ pc[h] = PhpOf(h) /\ SameCoros /\ pc' = pc /\ UNCHANGED sched
      /\ SameTables /\ told' = told /\ peer' = peer
      /\ frame' = frame /\ delivered' = delivered /\ read_buffer_tmp' = read_buffer_tmp
      /\ lost' = lost /\ cut' = cut
      /\ has_paused' = TRUE /\ set(of[h], [conn[of[h]] EXCEPT !.isPaused = TRUE])
  BY DEF PauseRecv, InPhp, At, worker, tables, coros, amiss, SameCoros, SameTables
<1>2. of[h] \in Conn
  BY <1>1, InPhpIs
<1> QED
  BY <1>1, <1>2, FlagDoes, StayDoes

LEMMA ResumeRecvDoes ==
  ASSUME BaseInv, NEW h \in Other, ResumeRecv(h)
  PROVE  /\ h = Now /\ pc[h] = PhpOf(h) /\ of[h] \in Conn /\ SameCoros /\ pc' = pc /\ Else
         /\ Flagged(of[h], FALSE)
         /\ IF conn[of[h]].pausedCoro THEN Resumes(of[h]) ELSE Stays
<1>1. /\ h = Now /\ pc[h] = PhpOf(h) /\ SameCoros /\ pc' = pc /\ Else
      /\ set(of[h], [conn[of[h]] EXCEPT !.isPaused = FALSE])
      /\ IF conn[of[h]].pausedCoro THEN resume(of[h]) ELSE UNCHANGED sched
  BY DEF ResumeRecv, InPhp, At, worker, tables, coros, world, amiss, SameCoros, Else, SameTables, SameBytes
<1>2. of[h] \in Conn
  BY <1>1, InPhpIs
<1> QED
  BY <1>1, <1>2, FlagDoes, ResumeDoes, StayDoes

LEMMA ConsumeRecvBufferDoes ==
  ASSUME BaseInv, NEW h \in Other, ConsumeRecvBuffer(h)
  PROVE  /\ h = Now /\ of[h] \in Conn /\ SameCoros /\ pc' = pc /\ conn' = conn /\ Stays
         /\ SameTables /\ told' = told /\ peer' = peer /\ has_paused' = has_paused
         /\ delivered' = delivered /\ read_buffer_tmp' = read_buffer_tmp /\ lost' = lost
         /\ cut' = [cut EXCEPT ![of[h]] = TRUE]
         /\ \E n \in 1 .. Len(frame[of[h]].packet) - 1 :
              frame' = [frame EXCEPT ![of[h]].packet = SubSeq(@, 1, Len(@) - n)]
<1>1. /\ h = Now /\ pc[h] = PhpOf(h) /\ SameCoros /\ pc' = pc /\ conn' = conn
      /\ UNCHANGED sched
      /\ SameTables /\ told' = told /\ peer' = peer /\ has_paused' = has_paused
      /\ delivered' = delivered /\ read_buffer_tmp' = read_buffer_tmp /\ lost' = lost
      /\ cut' = [cut EXCEPT ![of[h]] = TRUE]
      /\ \E n \in 1 .. Len(frame[of[h]].packet) - 1 :
           frame' = [frame EXCEPT ![of[h]].packet = SubSeq(@, 1, Len(@) - n)]
  BY DEF ConsumeRecvBuffer, InPhp, At, worker, tables, SameCoros, SameTables
<1> QED
  BY <1>1, StayDoes, InPhpIs

LEMMA SleepsDoes ==
  ASSUME BaseInv, NEW h \in Other, Sleeps(h)
  PROVE  /\ h = Now /\ pc[h] = PhpOf(h) /\ SameCoros /\ pc' = pc /\ conn' = conn /\ Else
         /\ Subsides
<1>1. /\ h = Now /\ pc[h] = PhpOf(h) /\ SameCoros /\ pc' = pc /\ conn' = conn /\ Else /\ Suspend
  BY DEF Sleeps, InPhp, At, worker, tables, coros, world, amiss, SameCoros, Else, SameTables, SameBytes
<1> QED
  BY <1>1, SuspendDoes, InPhpIs

LEMMA EndsDoes ==
  ASSUME BaseInv, NEW h \in Other, Ends(h)
  PROVE  /\ h \in Handler /\ h = Now /\ pc[h] = "php" /\ of[h] \in Conn /\ Moves(h, "gone") /\ then' = then /\ Else
         /\ StackInv' /\ suspended' = suspended /\ seen' = seen
         /\ of' \in [Task -> Conn \cup {NoConn}] /\ of'[h] = NoConn
         /\ \A u \in Task : u # h => of'[u] = of[u]
         /\ \E k \in ConnRec :
              /\ Becomes(of[h], k) /\ SameEar(k, conn[of[h]]) /\ SameInput(k, conn[of[h]])
              /\ k.removed = conn[of[h]].removed /\ k.status = conn[of[h]].status
              /\ k.fd = conn[of[h]].fd /\ k.refs = conn[of[h]].refs - 1
              /\ k.freed <=> conn[of[h]].refs = 1
<1> DEFINE k == release(conn[of[h]], 1)
<1>1. /\ h \in Handler /\ h = Now /\ pc[h] = "php" /\ then' = then /\ Else /\ Leave /\ Goto(h, "gone")
      /\ of' = [of EXCEPT ![h] = NoConn] /\ set(of[h], k)
  BY DEF Ends, InPhp, PhpOf, Handler, At, worker, tables, world, amiss, Else, SameTables, SameBytes
<1>2. of[h] \in Conn /\ conn[of[h]] \in ConnRec /\ h \in Task
  BY <1>1, InPhpIs, Names
<1>3. /\ k \in ConnRec /\ SameEar(k, conn[of[h]]) /\ SameInput(k, conn[of[h]])
      /\ k.removed = conn[of[h]].removed /\ k.status = conn[of[h]].status
      /\ k.fd = conn[of[h]].fd /\ k.refs = conn[of[h]].refs - 1
      /\ k.freed <=> conn[of[h]].refs = 1
  BY <1>2, ReleaseRec
<1> HIDE DEF k
<1>4. Becomes(of[h], k)
  BY <1>1, <1>2, <1>3, SetDoes
<1>5. "gone" \in PcsOf(h)
  BY <1>1, PcSets DEF HandlerPcs
<1>6. Moves(h, "gone")
  BY <1>1, <1>2, <1>5, MoveDoes
<1>7. StackInv' /\ suspended' = suspended /\ seen' = seen
  BY <1>1, LeaveStep DEF BaseInv
<1>8. /\ of' \in [Task -> Conn \cup {NoConn}] /\ of'[h] = NoConn
      /\ \A u \in Task : u # h => of'[u] = of[u]
  BY <1>1, Names DEF BaseInv, CnTypeOK
<1> QED
  BY <1>1, <1>2, <1>3, <1>4, <1>6, <1>7, <1>8

LEMMA EpollInDoes ==
  ASSUME BaseInv, NEW c \in Conn, EpollIn(c)
  PROVE  /\ Bottom = Now /\ pc[Bottom] = "loop" /\ conn[c].watched /\ Else
         /\ \/ pc[c] = "read_wait" /\ Resumes(c) /\ conn' = conn /\ pc' = pc /\ SameCoros
            \/ /\ pc[c] # "read_wait" /\ Stays
               /\ Closing(Bottom, c, conn[c], "loop")
               /\ of' \in [Task -> Conn \cup {NoConn}] /\ of'[Bottom] = c
               /\ \A u \in Task : u # Bottom => of'[u] = of[u]
<1>1. Bottom = Now /\ pc[Bottom] = "loop" /\ conn[c].watched /\ Else
  BY DEF EpollIn, At, worker, tables, world, amiss, coros, Else, SameTables, SameBytes
<1>2. CASE pc[c] = "read_wait"
  <2>1. resume(c) /\ conn' = conn /\ pc' = pc /\ SameCoros
    BY <1>2 DEF EpollIn, coros, SameCoros
  <2> QED
    BY <1>1, <1>2, <2>1, ResumeDoes
<1>3. CASE pc[c] # "read_wait"
  <2>1. close(Bottom, c, conn[c], "loop") /\ of' = [of EXCEPT ![Bottom] = c] /\ UNCHANGED sched
    BY <1>3 DEF EpollIn
  <2>2. Closing(Bottom, c, conn[c], "loop") /\ Stays
    BY <2>1, CloseDoes, StayDoes, ReaderIs, Names
  <2>3. /\ of' \in [Task -> Conn \cup {NoConn}] /\ of'[Bottom] = c
        /\ \A u \in Task : u # Bottom => of'[u] = of[u]
    BY <2>1, Names DEF BaseInv, CnTypeOK
  <2> QED
    BY <1>1, <1>3, <2>2, <2>3
<1> QED
  BY <1>2, <1>3

LEMMA WakesDoes ==
  ASSUME BaseInv, NEW h \in Other, Wakes(h)
  PROVE  /\ Bottom = Now /\ pc[Bottom] = "loop" /\ SameCoros /\ pc' = pc /\ conn' = conn /\ Else
         /\ Resumes(h) /\ pc[h] \in {PhpOf(h), "send_wait"}
<1>1. /\ Bottom = Now /\ pc[Bottom] = "loop" /\ SameCoros /\ pc' = pc /\ conn' = conn /\ Else
      /\ Reenter(h) /\ pc[h] \in {PhpOf(h), "send_wait"}
  BY DEF Wakes, At, worker, tables, coros, world, amiss, SameCoros, Else, SameTables, SameBytes
<1> QED
  BY <1>1, ReenterDoes

LEMMA AcceptDoes ==
  ASSUME BaseInv, NEW c \in Conn, Accept(c)
  PROVE  /\ Bottom = Now /\ pc[Bottom] = "loop" /\ conn[c].status = "none"
         /\ then' = then /\ SameBytes /\ told' = told /\ peer' = peer /\ protocol' = protocol
         /\ connections' = connections \cup {c} /\ ousted' = ousted
         /\ \E fd \in FreeFds, k \in ConnRec :
              /\ wm_connections' \in [Fd -> Conn \cup {NoConn}]
              /\ \A g \in Fd : wm_connections'[g] = IF g = fd THEN c ELSE wm_connections[g]
              /\ SameEar(k, conn[c]) /\ SameInput(k, conn[c])
              /\ k.status = "ESTABLISHED" /\ k.fd = fd /\ k.removed = FALSE /\ k.refs = 2
              /\ k.freed = conn[c].freed
              /\ \/ \E h \in Handler : Starts(h, Bottom, c, "accepted", k)
                 \/ Moves(Bottom, "accepted") /\ Becomes(c, k) /\ Stays /\ of' = of
<1>1. /\ Bottom = Now /\ pc[Bottom] = "loop" /\ conn[c].status = "none"
      /\ then' = then /\ SameBytes /\ told' = told /\ peer' = peer /\ protocol' = protocol
      /\ connections' = connections \cup {c} /\ ousted' = ousted
  BY DEF Accept, At, world, amiss, SameBytes
<1>2. PICK fd \in FreeFds :
        /\ wm_connections' = registered(c, fd)
        /\ Callback(Bottom, c, "accepted",
             [conn[c] EXCEPT !.status = "ESTABLISHED", !.fd = fd, !.removed = FALSE, !.refs = 2])
  BY DEF Accept
<1>3. fd \in Nat
  BY ConnectionAssumption DEF FreeFds, Fd
<1> DEFINE k == [conn[c] EXCEPT !.status = "ESTABLISHED", !.fd = fd, !.removed = FALSE, !.refs = 2]
<1>4. Callback(Bottom, c, "accepted", k)
  BY <1>2
<1>5. /\ k \in ConnRec /\ SameEar(k, conn[c]) /\ SameInput(k, conn[c])
      /\ k.status = "ESTABLISHED" /\ k.fd = fd /\ k.removed = FALSE /\ k.refs = 2
      /\ k.freed = conn[c].freed
  BY <1>3, ReaderIs, AcceptRec
<1> HIDE DEF k
<1>6. "accepted" \in PcsOf(Bottom)
  BY DEF PcsOf, BottomPcs
<1>7. \/ \E h \in Handler : Starts(h, Bottom, c, "accepted", k)
      \/ Moves(Bottom, "accepted") /\ Becomes(c, k) /\ Stays /\ of' = of
  BY <1>1, <1>4, <1>5, <1>6, CallbackDoes, Names
<1>8. /\ wm_connections' \in [Fd -> Conn \cup {NoConn}]
      /\ \A g \in Fd : wm_connections'[g] = IF g = fd THEN c ELSE wm_connections[g]
  BY <1>2 DEF registered, BaseInv, CnTypeOK
<1> QED
  BY <1>1, <1>5, <1>7, <1>8

LEMMA StartReadDoes ==
  ASSUME BaseInv, NEW c \in Conn, StartRead(c)
  PROVE  /\ Bottom = Now /\ pc[Bottom] = "accepted" /\ conn[c].status # "none"
         /\ StackInv' /\ Now' = c
         /\ c \notin seen /\ seen' = seen \cup {c} /\ suspended' = suspended
         /\ PcTypeOK' /\ pc'[c] = "check" /\ pc'[Bottom] = "loop"
         /\ \A u \in Task : u # c /\ u # Bottom => pc'[u] = pc[u]
         /\ conn' = conn /\ SameCoros /\ Else
<1>1. /\ Bottom = Now /\ pc[Bottom] = "accepted" /\ conn[c].status # "none"
      /\ conn' = conn /\ SameCoros /\ Else
      /\ Enter(c) /\ pc' = [pc EXCEPT ![c] = "check", ![Bottom] = "loop"]
  BY DEF StartRead, At, worker, tables, world, amiss, SameCoros, Else, SameTables, SameBytes
<1>2. StackInv' /\ Now' = c /\ c \notin seen /\ seen' = seen \cup {c} /\ suspended' = suspended
  BY <1>1, EnterStep, Names DEF BaseInv
<1>3. "check" \in PcsOf(c) /\ "loop" \in PcsOf(Bottom)
  BY ReaderIs, PcSets DEF ReaderPcs, Checks, BottomPcs
<1>4. DOMAIN pc' = Task /\ pc' = [u \in Task |-> pc'[u]]
  BY <1>1 DEF BaseInv, CnTypeOK, PcTypeOK
<1>5. /\ pc'[c] = "check" /\ pc'[Bottom] = "loop"
      /\ \A u \in Task : u # c /\ u # Bottom => pc'[u] = pc[u]
  BY <1>1, Names, ReaderIs DEF BaseInv, CnTypeOK, PcTypeOK
<1>6. \A u \in Task : pc'[u] \in PcsOf(u)
  BY <1>3, <1>5 DEF BaseInv, CnTypeOK, PcTypeOK
<1> QED
  BY <1>1, <1>2, <1>4, <1>5, <1>6 DEF PcTypeOK, PcsOf

LEMMA PeerDoes ==
  ASSUME BaseInv, NEW c \in Conn, Peer(c)
  PROVE  /\ pc' = pc /\ conn' = conn /\ SameCoros /\ SameTables /\ SameBytes /\ told' = told
         /\ Stays /\ PeerTypeOK'
<1>1. /\ pc' = pc /\ conn' = conn /\ SameCoros /\ SameTables /\ SameBytes /\ told' = told
      /\ UNCHANGED sched
  BY DEF Peer, worker, tables, coros, amiss, SameCoros, SameTables, SameBytes
<1>2. peer[c].sent + 1 \in Nat
  BY DEF BaseInv, CnTypeOK, PeerTypeOK
<1>3. \/ peer' = [peer EXCEPT ![c].sent = @ + 1]
      \/ peer' = [peer EXCEPT ![c].end = "closed"]
      \/ peer' = [peer EXCEPT ![c].end = "reset"]
  BY DEF Peer
<1>4. PeerTypeOK'
  BY <1>2, <1>3 DEF BaseInv, CnTypeOK, PeerTypeOK
<1> QED
  BY <1>1, <1>4, StayDoes

LEMMA StopDoes ==
  ASSUME BaseInv, Stop
  PROVE  /\ Bottom = Now /\ pc[Bottom] = "loop" /\ Moves(Bottom, "stop") /\ conn' = conn
         /\ SameCoros /\ Else /\ Stays
<1>1. /\ Bottom = Now /\ pc[Bottom] = "loop" /\ Goto(Bottom, "stop") /\ conn' = conn
      /\ SameCoros /\ Else /\ UNCHANGED sched
  BY DEF Stop, At, worker, tables, world, amiss, SameCoros, Else, SameTables, SameBytes
<1>2. "stop" \in PcsOf(Bottom)
  BY DEF PcsOf, BottomPcs
<1> QED
  BY <1>1, <1>2, MoveDoes, StayDoes, Names

LEMMA CloseConnectionsDoes ==
  ASSUME BaseInv, CloseConnections
  PROVE  /\ Bottom = Now /\ pc[Bottom] = "stop" /\ Moves(Bottom, "destroy") /\ conn' = conn
         /\ then' = then /\ SameBytes /\ told' = told /\ peer' = peer /\ Stays
         /\ protocol' = protocol /\ connections' = connections /\ ousted' = ousted
         /\ \E fd \in Fd :
              /\ wm_connections[fd] \in Conn
              /\ wm_connections' \in [Fd -> Conn \cup {NoConn}]
              /\ \A g \in Fd : wm_connections'[g] = IF g = fd THEN NoConn ELSE wm_connections[g]
              /\ of' \in [Task -> Conn \cup {NoConn}] /\ of'[Bottom] = wm_connections[fd]
              /\ \A u \in Task : u # Bottom => of'[u] = of[u]
<1>1. /\ Bottom = Now /\ pc[Bottom] = "stop" /\ Goto(Bottom, "destroy") /\ conn' = conn
      /\ then' = then /\ SameBytes /\ told' = told /\ peer' = peer /\ UNCHANGED sched
      /\ protocol' = protocol /\ connections' = connections /\ ousted' = ousted
  BY DEF CloseConnections, At, world, amiss, SameBytes
<1>2. PICK fd \in Fd :
       /\ wm_connections[fd] # NoConn
       /\ wm_connections' = [wm_connections EXCEPT ![fd] = NoConn]
       /\ of' = [of EXCEPT ![Bottom] = wm_connections[fd]]
  BY DEF CloseConnections
<1>3. wm_connections[fd] \in Conn
  BY <1>2 DEF BaseInv, CnTypeOK
<1>4. /\ wm_connections' \in [Fd -> Conn \cup {NoConn}]
      /\ \A g \in Fd : wm_connections'[g] = IF g = fd THEN NoConn ELSE wm_connections[g]
  BY <1>2 DEF BaseInv, CnTypeOK
<1>5. /\ of' \in [Task -> Conn \cup {NoConn}] /\ of'[Bottom] = wm_connections[fd]
      /\ \A u \in Task : u # Bottom => of'[u] = of[u]
  BY <1>2, <1>3, Names DEF BaseInv, CnTypeOK
<1>6. Moves(Bottom, "destroy") /\ Stays
  BY <1>1, MoveDoes, StayDoes, PcSets, Names
<1> QED
  BY <1>1, <1>3, <1>4, <1>5, <1>6

\* A reload and the end of the process change nothing that matters here.
LEMMA ReloadExitDoes ==
  ASSUME BaseInv, Reload \/ Exit \/ \E c \in Conn : Fails(c)
  PROVE  pc' = pc /\ conn' = conn /\ SameCoros /\ Else /\ Stays
<1>1. pc' = pc /\ conn' = conn /\ SameCoros /\ Else /\ UNCHANGED sched
  BY DEF Reload, Exit, Fails, worker, tables, coros, world, amiss, SameCoros, Else, SameTables, SameBytes
<1> QED
  BY <1>1, StayDoes

-----------------------------------------------------------------------------
(***************************************************************************)
(* Types, places, and who runs.                                            *)
(***************************************************************************)

LEMMA NowKeeps ==
  ASSUME NowInv,
         \A u \in Task : pc'[u] \in NowPcs => (u # Now /\ pc'[u] = pc[u]) \/ Now' = u
  PROVE  NowInv'
BY DEF NowInv, NowPcs

\* Where the tasks are when one of them, the one that runs, goes on.
LEMMA PlaceKeeps ==
  ASSUME BaseInv, NEW t \in Task, NEW w, t = Now, Moves(t, w), of' = of, then' = then,
         seen' = seen, w \notin ClosePcs, pc[t] \notin ClosePcs,
         t \in Handler => w # "gone" /\ pc[t] # "gone",
         t = Bottom => of[t] # NoConn \/ w \in {"loop", "accepted", "stop"}
  PROVE  PlaceInv'
BY Names, NowRuns DEF BaseInv, PlaceInv, Moves

LEMMA PcStays ==
  ASSUME BaseInv, pc' = pc
  PROVE  PcTypeOK'
BY DEF BaseInv, CnTypeOK, PcTypeOK, PcsOf

\* check_read_status, and where it returns to.
LEMMA CheckPlaces ==
  ASSUME NEW at \in Checks
  PROVE  /\ Paused(at) \in PausedPcs /\ Paused(at) \notin NowPcs
         /\ true(at) \in {"read", "input", "deliver"} /\ false(at) \in {"keep", "over"}
         /\ Paused(at) = "check_paused" <=> at = "check"
         /\ Paused(at) = "got_paused" <=> at = "got"
         /\ Paused(at) = "parse_paused" <=> at = "parse"
         /\ true(at) = "deliver" <=> at = "got"
         /\ true(at) = "read" <=> at = "check"
         /\ true(at) = "input" <=> at = "parse"
         /\ false(at) = "keep" <=> at = "parse"
BY DEF Checks, Paused, PausedPcs, NowPcs, true, false


LEMMA BaseStep ==
  ASSUME BaseInv, BytesTypeOK, CnNext
  PROVE  BaseInv'
<1>1. ASSUME NEW t \in Task, CloseResumes(t)
      PROVE  BaseInv'
  <2>1. StackInv' /\ CnTypeOK'
    BY <1>1, CloseResumesDoes DEF BaseInv, CnTypeOK, PeerTypeOK, Moves, Stays, Resumes,
       Else, SameTables
  <2>2. PlaceInv'
    BY <1>1, CloseResumesDoes, Names, NowRuns DEF BaseInv, CnTypeOK, PlaceInv, ClosePcs,
       Moves, Stays, Resumes
  <2>3. NowInv'
    BY <1>1, CloseResumesDoes, NowKeeps, NowRuns, Names DEF BaseInv, CnTypeOK, NowInv,
       NowPcs, Moves, Stays, Resumes
  <2> QED
    BY <2>1, <2>2, <2>3 DEF BaseInv
<1>2. ASSUME NEW t \in Task, CloseFd(t)
      PROVE  BaseInv'
  <2>1. StackInv' /\ CnTypeOK'
    BY <1>2, CloseFdDoes DEF BaseInv, CnTypeOK, PeerTypeOK, Moves, ThenMoves, Becomes,
       Stays, Else, SameTables
  <2>2. PlaceInv'
    BY <1>2, CloseFdDoes, Names, NowRuns DEF BaseInv, CnTypeOK, PlaceInv, ClosePcs, Moves,
       ThenMoves, Stays
  <2>3. NowInv'
    BY <1>2, CloseFdDoes, NowKeeps, NowRuns, Names DEF BaseInv, CnTypeOK, NowInv, NowPcs,
       Moves, ThenMoves, Stays
  <2> QED
    BY <2>1, <2>2, <2>3 DEF BaseInv
<1>3. ASSUME NEW t \in Task, Destroy(t)
      PROVE  BaseInv'
  <2>1. StackInv' /\ CnTypeOK'
    BY <1>3, DestroyDoes DEF BaseInv, CnTypeOK, PeerTypeOK, Moves, ThenMoves, Becomes,
       Closing, Stays, Else, SameTables
  <2>2. PlaceInv'
    BY <1>3, DestroyDoes, PcSets, Names, NowRuns DEF BaseInv, CnTypeOK, PlaceInv, DestroyPcs,
       ClosePcs, Moves, ThenMoves, Closing, Stays
  <2>3. NowInv'
    BY <1>3, DestroyDoes, NowKeeps, NowRuns, Names DEF BaseInv, CnTypeOK, NowInv, NowPcs,
       Moves, ThenMoves, Closing, Stays
  <2> QED
    BY <2>1, <2>2, <2>3 DEF BaseInv
<1>4. ASSUME NEW t \in Task, DestroyResumes(t)
      PROVE  BaseInv'
  <2>1. StackInv' /\ CnTypeOK'
    BY <1>4, DestroyResumesDoes DEF BaseInv, CnTypeOK, PeerTypeOK, Moves, Stays, Resumes,
       Else, SameTables
  <2>2. PlaceInv'
    BY <1>4, DestroyResumesDoes, Names, NowRuns DEF BaseInv, CnTypeOK, PlaceInv, ClosePcs,
       Moves, Stays, Resumes
  <2>3. NowInv'
    BY <1>4, DestroyResumesDoes, NowKeeps, NowRuns, Names DEF BaseInv, CnTypeOK, NowInv,
       NowPcs, Moves, Stays, Resumes
  <2> QED
    BY <2>1, <2>2, <2>3 DEF BaseInv
<1>5. ASSUME NEW t \in Task, OnClose(t)
      PROVE  BaseInv'
  <2>1. StackInv' /\ CnTypeOK'
    BY <1>5, OnCloseDoes DEF BaseInv, CnTypeOK, PeerTypeOK, Moves, Becomes, Starts, Stays,
       SameTables
  <2>2. PlaceInv'
    BY <1>5, OnCloseDoes, Names, NowRuns DEF BaseInv, CnTypeOK, PlaceInv, ClosePcs, Moves,
       Starts, Stays
  <2>3. NowInv'
    BY <1>5, OnCloseDoes, NowKeeps, NowRuns, Names DEF BaseInv, CnTypeOK, NowInv, NowPcs,
       Moves, Starts, Stays
  <2> QED
    BY <2>1, <2>2, <2>3 DEF BaseInv
<1>6. ASSUME NEW t \in Task, DestroyDrops(t)
      PROVE  BaseInv'
  <2>1. StackInv' /\ CnTypeOK'
    BY <1>6, DestroyDropsDoes DEF BaseInv, CnTypeOK, PeerTypeOK, Moves, Becomes, Stays,
       SameTables
  <2>2. PlaceInv'
    BY <1>6, DestroyDropsDoes, PcSets, Names, NowRuns DEF BaseInv, CnTypeOK, PlaceInv,
       DestroyPcs, ClosePcs, Moves, Stays
  <2>3. NowInv'
    BY <1>6, DestroyDropsDoes, NowKeeps, NowRuns, Names DEF BaseInv, CnTypeOK, NowInv,
       NowPcs, Moves, Stays
  <2> QED
    BY <2>1, <2>2, <2>3 DEF BaseInv
<1>7. ASSUME NEW t \in Task, OnError(t)
      PROVE  BaseInv'
  <2>1. StackInv' /\ CnTypeOK'
    BY <1>7, OnErrorDoes DEF BaseInv, CnTypeOK, PeerTypeOK, Moves, Becomes, Starts, Stays,
       Else, SameTables
  <2>2. PlaceInv'
    BY <1>7, OnErrorDoes, PcSets, Names, NowRuns DEF BaseInv, CnTypeOK, PlaceInv, DestroyPcs,
       ClosePcs, Moves, Starts, Stays
  <2>3. NowInv'
    BY <1>7, OnErrorDoes, NowKeeps, NowRuns, Names DEF BaseInv, CnTypeOK, NowInv, NowPcs,
       Moves, Starts, Stays
  <2> QED
    BY <2>1, <2>2, <2>3 DEF BaseInv
<1>8. ASSUME NEW c \in Conn, NEW at \in Checks, check_read_status(c, at)
      PROVE  BaseInv'
  <2>1. StackInv' /\ CnTypeOK'
    BY <1>8, CheckDoes DEF BaseInv, CnTypeOK, PeerTypeOK, Moves, Becomes, Subsides, Stays,
       Else, SameTables
  <2>2. /\ c = Now /\ pc[c] = at /\ of' = of /\ then' = then /\ seen' = seen
        /\ \E w \in {Paused(at), true(at), false(at)} :
             Moves(c, w) /\ (w \in NowPcs => Now' = Now)
    BY <1>8, CheckDoes, CheckPlaces DEF Stays, Subsides
  <2>3. PICK w \in {Paused(at), true(at), false(at)} :
          Moves(c, w) /\ (w \in NowPcs => Now' = Now)
    BY <2>2
  <2>4. w \notin ClosePcs /\ pc[c] \notin ClosePcs
    BY <2>2, CheckPlaces DEF PausedPcs, ClosePcs, Checks
  <2>5. PlaceInv'
    BY <2>2, <2>3, <2>4, PlaceKeeps, Names
  <2>6. NowInv'
    BY <2>2, <2>3, NowKeeps DEF BaseInv, NowInv, Moves
  <2> QED
    BY <2>1, <2>5, <2>6 DEF BaseInv
<1>9. ASSUME NEW c \in Conn, NEW at \in Checks, GoesOn(c, at)
      PROVE  BaseInv'
  <2>1. StackInv' /\ CnTypeOK'
    BY <1>9, GoesOnDoes DEF BaseInv, CnTypeOK, PeerTypeOK, Moves, Becomes, Stays, Else,
       SameTables
  <2>2. /\ c = Now /\ pc[c] = Paused(at) /\ of' = of /\ then' = then /\ seen' = seen
        /\ Now' = Now
        /\ \E w \in {true(at), false(at)} : Moves(c, w)
    BY <1>9, GoesOnDoes DEF Stays
  <2>3. PICK w \in {true(at), false(at)} : Moves(c, w)
    BY <2>2
  <2>4. w \notin ClosePcs /\ pc[c] \notin ClosePcs
    BY <2>2, CheckPlaces DEF PausedPcs, ClosePcs, Checks
  <2>5. PlaceInv'
    BY <2>2, <2>3, <2>4, PlaceKeeps, Names
  <2>6. NowInv'
    BY <2>2, <2>3, NowKeeps DEF BaseInv, NowInv, Moves
  <2> QED
    BY <2>1, <2>5, <2>6 DEF BaseInv
<1>10. ASSUME NEW c \in Conn, ReadData(c)
      PROVE  BaseInv'
  <2>1. StackInv' /\ CnTypeOK'
    BY <1>10, ReadDataDoes DEF BaseInv, CnTypeOK, PeerTypeOK, Moves, Becomes, Stays,
       SameTables, SameCoros, SameWorld
  <2>2. PlaceInv'
    BY <1>10, ReadDataDoes, Names, NowRuns DEF BaseInv, CnTypeOK, PlaceInv, ClosePcs,
       Moves, Stays, SameCoros
  <2>3. NowInv'
    BY <1>10, ReadDataDoes, NowKeeps, NowRuns, Names DEF BaseInv, CnTypeOK, NowInv,
       NowPcs, Moves, Stays
  <2> QED
    BY <2>1, <2>2, <2>3 DEF BaseInv
<1>11. ASSUME NEW c \in Conn, ReadFails(c)
      PROVE  BaseInv'
  <2>1. StackInv' /\ CnTypeOK'
    BY <1>11, ReadFailsDoes DEF BaseInv, CnTypeOK, PeerTypeOK, Moves, Becomes, Subsides,
       Stays, ElseLeaving, SameTables, SameCoros
  <2>2. PlaceInv'
    BY <1>11, ReadFailsDoes, Names, NowRuns DEF BaseInv, CnTypeOK, PlaceInv, ClosePcs,
       Moves, Subsides, Stays, SameCoros
  <2>3. NowInv'
    BY <1>11, ReadFailsDoes, NowKeeps, NowRuns, Names DEF BaseInv, CnTypeOK, NowInv,
       NowPcs, Moves, Subsides, Stays
  <2> QED
    BY <2>1, <2>2, <2>3 DEF BaseInv
<1>12. ASSUME NEW c \in Conn, ReadGoesOn(c)
      PROVE  BaseInv'
  <2>1. StackInv' /\ CnTypeOK'
    BY <1>12, ReadGoesOnDoes DEF BaseInv, CnTypeOK, PeerTypeOK, Moves, Stays, Else,
       SameTables, SameCoros
  <2>2. PlaceInv'
    BY <1>12, ReadGoesOnDoes, Names, NowRuns DEF BaseInv, CnTypeOK, PlaceInv, ClosePcs,
       Moves, Stays, SameCoros
  <2>3. NowInv'
    BY <1>12, ReadGoesOnDoes, NowKeeps, NowRuns, Names DEF BaseInv, CnTypeOK, NowInv,
       NowPcs, Moves, Stays
  <2> QED
    BY <2>1, <2>2, <2>3 DEF BaseInv
<1>13. ASSUME NEW c \in Conn, Deliver(c)
      PROVE  BaseInv'
  <2>1. StackInv' /\ CnTypeOK'
    BY <1>13, DeliverDoes DEF BaseInv, CnTypeOK, PeerTypeOK, Moves, Becomes, Starts,
       Stays, SameTables, SameWorld
  <2>2. PlaceInv'
    BY <1>13, DeliverDoes, Names, NowRuns DEF BaseInv, CnTypeOK, PlaceInv, ClosePcs,
       Moves, Starts, Stays
  <2>3. NowInv'
    BY <1>13, DeliverDoes, NowKeeps, NowRuns, Names DEF BaseInv, CnTypeOK, NowInv, NowPcs,
       Moves, Starts, Stays
  <2> QED
    BY <2>1, <2>2, <2>3 DEF BaseInv
<1>14. ASSUME NEW c \in Conn, Input(c)
      PROVE  BaseInv'
  <2>1. StackInv' /\ CnTypeOK'
    BY <1>14, InputDoes DEF BaseInv, CnTypeOK, PeerTypeOK, Moves, Becomes, Starts, Stays,
       SameTables, SameWorld
  <2>2. PlaceInv'
    <3>1. c = Now /\ pc[c] = "input" /\ then' = then
      BY <1>14, InputDoes
    <3>2. CASE \E w \in {"keep", "parse"} : Moves(c, w) /\ Stays /\ of' = of
      BY <3>1, <3>2, Names, NowRuns DEF BaseInv, PlaceInv, ClosePcs, Moves, Stays
    <3>3. CASE \E h \in Handler : Starts(h, c, c, "parse", conn[c])
      BY <3>1, <3>3, Names, NowRuns DEF BaseInv, PlaceInv, ClosePcs, Starts
    <3> QED
      BY <1>14, <3>2, <3>3, InputDoes
  <2>3. NowInv'
    BY <1>14, InputDoes, NowKeeps, NowRuns, Names DEF BaseInv, CnTypeOK, NowInv, NowPcs,
       Moves, Starts, Stays
  <2> QED
    BY <2>1, <2>2, <2>3 DEF BaseInv
<1>15. ASSUME NEW c \in Conn, InputFails(c)
      PROVE  BaseInv'
  <2>1. StackInv' /\ CnTypeOK'
    BY <1>15, InputFailsDoes DEF BaseInv, CnTypeOK, PeerTypeOK, Moves, ThenMoves, Becomes,
       Closing, Stays, ElseLeaving, SameTables
  <2>2. PlaceInv'
    BY <1>15, InputFailsDoes, Names, NowRuns DEF BaseInv, CnTypeOK, PlaceInv, ClosePcs,
       Moves, ThenMoves, Closing, Stays
  <2>3. NowInv'
    BY <1>15, InputFailsDoes, NowKeeps, NowRuns, Names DEF BaseInv, CnTypeOK, NowInv,
       NowPcs, Moves, ThenMoves, Closing, Stays
  <2> QED
    BY <2>1, <2>2, <2>3 DEF BaseInv
<1>16. ASSUME NEW c \in Conn, Keep(c)
      PROVE  BaseInv'
  <2>0. frame[c].offset \in BOOLEAN /\ frame[c].beyond \in BOOLEAN
    BY DEF BytesTypeOK
  <2>1. StackInv' /\ CnTypeOK'
    BY <1>16, KeepDoes, <2>0 DEF BaseInv, CnTypeOK, PeerTypeOK, Moves, Becomes, Stays,
       SameTables, SameCoros, SameWorld
  <2>2. /\ c = Now /\ pc[c] \in {"keep", "parse"} /\ SameCoros /\ seen' = seen
        /\ Moves(c, "over") \/ Moves(c, "check")
    BY <1>16, KeepDoes, <2>0 DEF Stays
  <2>4. PlaceInv'
    BY <2>2, PlaceKeeps, Names DEF SameCoros, ClosePcs
  <2>3. NowInv'
    BY <1>16, KeepDoes, <2>0, NowKeeps, NowRuns, Names DEF BaseInv, CnTypeOK, NowInv,
       NowPcs, Moves, Stays
  <2> QED
    BY <2>1, <2>4, <2>3 DEF BaseInv
<1>17. ASSUME NEW c \in Conn, ReaderEnds(c)
      PROVE  BaseInv'
  <2>1. StackInv' /\ CnTypeOK'
    BY <1>17, ReaderEndsDoes DEF BaseInv, CnTypeOK, PeerTypeOK, Moves, SameTables,
       SameCoros, SameWorld
  <2>2. PlaceInv'
    BY <1>17, ReaderEndsDoes, Names, NowRuns DEF BaseInv, CnTypeOK, PlaceInv, ClosePcs,
       Moves, SameCoros
  <2>3. NowInv'
    BY <1>17, ReaderEndsDoes, NowKeeps, NowRuns, Names DEF BaseInv, CnTypeOK, NowInv,
       NowPcs, Moves
  <2> QED
    BY <2>1, <2>2, <2>3 DEF BaseInv
<1>18. ASSUME NEW c \in Conn, EpollIn(c)
      PROVE  BaseInv'
  <2>1. StackInv' /\ CnTypeOK'
    BY <1>18, EpollInDoes, PcStays DEF BaseInv, CnTypeOK, PeerTypeOK, Moves, ThenMoves,
       Becomes, Closing, Stays, Resumes, Else, SameTables, SameCoros
  <2>2. PlaceInv'
    BY <1>18, EpollInDoes, Names, NowRuns DEF BaseInv, CnTypeOK, PlaceInv, ClosePcs,
       Moves, ThenMoves, Closing, Stays, Resumes, SameCoros
  <2>3. NowInv'
    BY <1>18, EpollInDoes, NowKeeps, NowRuns, Names DEF BaseInv, CnTypeOK, NowInv, NowPcs,
       Moves, ThenMoves, Closing, Stays, Resumes
  <2> QED
    BY <2>1, <2>2, <2>3 DEF BaseInv
<1>19. ASSUME NEW c \in Conn, Accept(c)
      PROVE  BaseInv'
  <2>1. PICK fd \in FreeFds, k \in ConnRec :
          /\ wm_connections' \in [Fd -> Conn \cup {NoConn}]
          /\ \/ \E h \in Handler : Starts(h, Bottom, c, "accepted", k)
             \/ Moves(Bottom, "accepted") /\ Becomes(c, k) /\ Stays /\ of' = of
    BY <1>19, AcceptDoes
  <2>2. Bottom = Now /\ pc[Bottom] = "loop" /\ then' = then
    BY <1>19, AcceptDoes
  <2>3. StackInv' /\ PcTypeOK' /\ conn' \in [Conn -> ConnRec] /\ of' \in [Task -> Conn \cup {NoConn}]
    BY <2>1 DEF Moves, Becomes, Starts, Stays, BaseInv, CnTypeOK
  <2>4. /\ connections' = connections \cup {c}
        /\ then' = then /\ told' = told /\ peer' = peer /\ protocol' = protocol
    BY <1>19, AcceptDoes
  <2>5. CnTypeOK'
    BY <2>1, <2>3, <2>4 DEF BaseInv, CnTypeOK, PeerTypeOK
  <2>6. PlaceInv'
    BY <2>1, <2>2, Names, NowRuns
       DEF BaseInv, CnTypeOK, PlaceInv, ClosePcs, Moves, Starts, Stays
  <2>7. NowInv'
    BY <2>1, <2>2, NowKeeps, Names DEF BaseInv, NowInv, NowPcs, Moves, Starts, Stays
  <2> QED
    BY <2>3, <2>5, <2>6, <2>7 DEF BaseInv
<1>20. ASSUME NEW c \in Conn, StartRead(c)
      PROVE  BaseInv'
  <2>1. StackInv' /\ CnTypeOK'
    BY <1>20, StartReadDoes DEF BaseInv, CnTypeOK, PeerTypeOK, Else, SameTables, SameCoros
  <2>2. PlaceInv'
    BY <1>20, StartReadDoes, Names, NowRuns DEF BaseInv, CnTypeOK, PlaceInv, ClosePcs,
       SameCoros
  <2>3. NowInv'
    BY <1>20, StartReadDoes, NowKeeps, NowRuns, Names DEF BaseInv, CnTypeOK, NowInv,
       NowPcs
  <2> QED
    BY <2>1, <2>2, <2>3 DEF BaseInv
<1>21. ASSUME NEW c \in Conn, Peer(c)
      PROVE  BaseInv'
  <2>1. StackInv' /\ CnTypeOK'
    BY <1>21, PeerDoes, PcStays DEF BaseInv, CnTypeOK, PeerTypeOK, Stays, SameTables,
       SameCoros
  <2>2. PlaceInv'
    BY <1>21, PeerDoes, Names, NowRuns DEF BaseInv, CnTypeOK, PlaceInv, ClosePcs, Stays,
       SameCoros
  <2>3. NowInv'
    BY <1>21, PeerDoes, NowKeeps, NowRuns, Names DEF BaseInv, CnTypeOK, NowInv, NowPcs,
       Stays
  <2> QED
    BY <2>1, <2>2, <2>3 DEF BaseInv
<1>22. ASSUME NEW h \in Other, SendReturns(h)
      PROVE  BaseInv'
  <2>1. StackInv' /\ CnTypeOK'
    BY <1>22, SendReturnsDoes DEF BaseInv, CnTypeOK, PeerTypeOK, Moves, Becomes, Stays,
       Else, SameTables, SameCoros
  <2>2. PlaceInv'
    BY <1>22, SendReturnsDoes, Names, NowRuns DEF BaseInv, CnTypeOK, PlaceInv, ClosePcs,
       Moves, Stays, SameCoros
  <2>3. NowInv'
    BY <1>22, SendReturnsDoes, NowKeeps, NowRuns, Names DEF BaseInv, CnTypeOK, NowInv,
       NowPcs, Moves, Stays
  <2> QED
    BY <2>1, <2>2, <2>3 DEF BaseInv
<1>23. ASSUME NEW h \in Other, SendWaits(h)
      PROVE  BaseInv'
  <2>1. StackInv' /\ CnTypeOK'
    BY <1>23, SendWaitsDoes DEF BaseInv, CnTypeOK, PeerTypeOK, Moves, Subsides, Else,
       SameTables, SameCoros
  <2>2. PlaceInv'
    BY <1>23, SendWaitsDoes, Names, NowRuns DEF BaseInv, CnTypeOK, PlaceInv, ClosePcs,
       Moves, Subsides, SameCoros
  <2>3. NowInv'
    BY <1>23, SendWaitsDoes, NowKeeps, NowRuns, Names DEF BaseInv, CnTypeOK, NowInv,
       NowPcs, Moves, Subsides
  <2> QED
    BY <2>1, <2>2, <2>3 DEF BaseInv
<1>24. ASSUME NEW h \in Other, SendGoesOn(h)
      PROVE  BaseInv'
  <2>1. StackInv' /\ CnTypeOK'
    BY <1>24, SendGoesOnDoes DEF BaseInv, CnTypeOK, PeerTypeOK, Moves, Stays, Else,
       SameTables, SameCoros
  <2>2. PlaceInv'
    BY <1>24, SendGoesOnDoes, Names, NowRuns DEF BaseInv, CnTypeOK, PlaceInv, ClosePcs,
       Moves, Stays, SameCoros
  <2>3. NowInv'
    BY <1>24, SendGoesOnDoes, NowKeeps, NowRuns, Names DEF BaseInv, CnTypeOK, NowInv,
       NowPcs, Moves, Stays
  <2> QED
    BY <2>1, <2>2, <2>3 DEF BaseInv
<1>25. ASSUME NEW h \in Other, Send(h)
      PROVE  BaseInv'
  <2>1. StackInv' /\ CnTypeOK'
    BY <1>25, SendDoes DEF BaseInv, CnTypeOK, PeerTypeOK, Moves, ThenMoves, Becomes,
       Closing, Starts, Stays, Else, SameTables
  <2>2. PlaceInv'
    BY <1>25, SendDoes, Names, NowRuns DEF BaseInv, CnTypeOK, PlaceInv, ClosePcs, Moves,
       ThenMoves, Closing, Starts, Stays
  <2>3. NowInv'
    BY <1>25, SendDoes, NowKeeps, NowRuns, Names DEF BaseInv, CnTypeOK, NowInv, NowPcs,
       Moves, ThenMoves, Closing, Starts, Stays
  <2> QED
    BY <2>1, <2>2, <2>3 DEF BaseInv
<1>26. ASSUME NEW h \in Other, Close(h)
      PROVE  BaseInv'
  <2>1. StackInv' /\ CnTypeOK'
    BY <1>26, CloseCallDoes DEF BaseInv, CnTypeOK, PeerTypeOK, Moves, Stays, Else,
       SameTables, SameCoros
  <2>2. PlaceInv'
    BY <1>26, CloseCallDoes, Names, NowRuns DEF BaseInv, CnTypeOK, PlaceInv, ClosePcs,
       Moves, Stays, SameCoros
  <2>3. NowInv'
    BY <1>26, CloseCallDoes, NowKeeps, NowRuns, Names DEF BaseInv, CnTypeOK, NowInv,
       NowPcs, Moves, Stays
  <2> QED
    BY <2>1, <2>2, <2>3 DEF BaseInv
<1>27. ASSUME NEW h \in Other, PauseRecv(h)
      PROVE  BaseInv'
  <2>1. StackInv' /\ CnTypeOK'
    BY <1>27, PauseRecvDoes, PcStays DEF BaseInv, CnTypeOK, PeerTypeOK, Becomes, Stays,
       Flagged, SameTables, SameCoros
  <2>2. PlaceInv'
    BY <1>27, PauseRecvDoes, Names, NowRuns DEF BaseInv, CnTypeOK, PlaceInv, ClosePcs,
       Stays, SameCoros
  <2>3. NowInv'
    BY <1>27, PauseRecvDoes, NowKeeps, NowRuns, Names DEF BaseInv, CnTypeOK, NowInv,
       NowPcs, Stays
  <2> QED
    BY <2>1, <2>2, <2>3 DEF BaseInv
<1>28. ASSUME NEW h \in Other, ResumeRecv(h)
      PROVE  BaseInv'
  <2>1. StackInv' /\ CnTypeOK'
    BY <1>28, ResumeRecvDoes, PcStays DEF BaseInv, CnTypeOK, PeerTypeOK, Becomes, Stays,
       Resumes, Flagged, Else, SameTables, SameCoros
  <2>2. pc' = pc /\ SameCoros /\ seen' = seen
    BY <1>28, ResumeRecvDoes DEF Stays, Resumes
  <2>4. PlaceInv'
    BY <2>2 DEF SameCoros, BaseInv, PlaceInv
  <2>3. NowInv'
    BY <1>28, ResumeRecvDoes, NowKeeps, NowRuns, Names DEF BaseInv, CnTypeOK, NowInv,
       NowPcs, Stays, Resumes
  <2> QED
    BY <2>1, <2>4, <2>3 DEF BaseInv
<1>29. ASSUME NEW h \in Other, Sleeps(h)
      PROVE  BaseInv'
  <2>1. StackInv' /\ CnTypeOK'
    BY <1>29, SleepsDoes, PcStays DEF BaseInv, CnTypeOK, PeerTypeOK, Subsides, Else,
       SameTables, SameCoros
  <2>2. PlaceInv'
    BY <1>29, SleepsDoes, Names, NowRuns DEF BaseInv, CnTypeOK, PlaceInv, ClosePcs,
       Subsides, SameCoros
  <2>3. NowInv'
    BY <1>29, SleepsDoes, NowKeeps, NowRuns, Names DEF BaseInv, CnTypeOK, NowInv, NowPcs,
       Subsides
  <2> QED
    BY <2>1, <2>2, <2>3 DEF BaseInv
<1>30. ASSUME NEW h \in Other, Ends(h)
      PROVE  BaseInv'
  <2>1. StackInv' /\ CnTypeOK'
    BY <1>30, EndsDoes DEF BaseInv, CnTypeOK, PeerTypeOK, Moves, Becomes, Else, SameTables
  <2>2. PlaceInv'
    BY <1>30, EndsDoes, Names, NowRuns DEF BaseInv, CnTypeOK, PlaceInv, ClosePcs, Moves
  <2>3. NowInv'
    BY <1>30, EndsDoes, NowKeeps, NowRuns, Names DEF BaseInv, CnTypeOK, NowInv, NowPcs,
       Moves
  <2> QED
    BY <2>1, <2>2, <2>3 DEF BaseInv
<1>31. ASSUME NEW h \in Other, Wakes(h)
      PROVE  BaseInv'
  <2>1. StackInv' /\ CnTypeOK'
    BY <1>31, WakesDoes, PcStays DEF BaseInv, CnTypeOK, PeerTypeOK, Resumes, Else,
       SameTables, SameCoros
  <2>2. PlaceInv'
    BY <1>31, WakesDoes, Names, NowRuns DEF BaseInv, CnTypeOK, PlaceInv, ClosePcs,
       Resumes, SameCoros
  <2>3. NowInv'
    BY <1>31, WakesDoes, NowKeeps, NowRuns, Names DEF BaseInv, CnTypeOK, NowInv, NowPcs,
       Resumes
  <2> QED
    BY <2>1, <2>2, <2>3 DEF BaseInv
<1>32. CASE Reload \/ Exit \/ \E c \in Conn : Fails(c)
  <2>1. StackInv' /\ CnTypeOK'
    BY <1>32, ReloadExitDoes, PcStays DEF BaseInv, CnTypeOK, PeerTypeOK, Stays, Else,
       SameTables, SameCoros
  <2>2. PlaceInv'
    BY <1>32, ReloadExitDoes, Names, NowRuns DEF BaseInv, CnTypeOK, PlaceInv, ClosePcs,
       Stays, SameCoros
  <2>3. NowInv'
    BY <1>32, ReloadExitDoes, NowKeeps, NowRuns, Names DEF BaseInv, CnTypeOK, NowInv,
       NowPcs, Stays
  <2> QED
    BY <2>1, <2>2, <2>3 DEF BaseInv
<1>33. CASE Stop
  <2>1. StackInv' /\ CnTypeOK'
    BY <1>33, StopDoes DEF BaseInv, CnTypeOK, PeerTypeOK, Moves, Stays, Else, SameTables,
       SameCoros
  <2>2. PlaceInv'
    BY <1>33, StopDoes, Names, NowRuns DEF BaseInv, CnTypeOK, PlaceInv, ClosePcs, Moves,
       Stays, SameCoros
  <2>3. NowInv'
    BY <1>33, StopDoes, NowKeeps, NowRuns, Names DEF BaseInv, CnTypeOK, NowInv, NowPcs,
       Moves, Stays
  <2> QED
    BY <2>1, <2>2, <2>3 DEF BaseInv
<1>34. CASE CloseConnections
  <2>1. StackInv' /\ CnTypeOK'
    BY <1>34, CloseConnectionsDoes DEF BaseInv, CnTypeOK, PeerTypeOK, Moves, Stays,
       SameTables
  <2>2. PlaceInv'
    BY <1>34, CloseConnectionsDoes, Names, NowRuns DEF BaseInv, CnTypeOK, PlaceInv,
       ClosePcs, Moves, Stays
  <2>3. NowInv'
    BY <1>34, CloseConnectionsDoes, NowKeeps, NowRuns, Names DEF BaseInv, CnTypeOK,
       NowInv, NowPcs, Moves, Stays
  <2> QED
    BY <2>1, <2>2, <2>3 DEF BaseInv
<1>35. ASSUME NEW c \in Conn, ReadWaits(c)
      PROVE  BaseInv'
  <2>1. StackInv' /\ CnTypeOK'
    BY <1>35, ReadWaitsDoes DEF BaseInv, CnTypeOK, PeerTypeOK, Moves, Becomes, Subsides,
       Else, SameTables, SameCoros
  <2>2. PlaceInv'
    BY <1>35, ReadWaitsDoes, Names, NowRuns DEF BaseInv, CnTypeOK, PlaceInv, ClosePcs,
       Moves, Subsides, SameCoros
  <2>3. NowInv'
    BY <1>35, ReadWaitsDoes, NowKeeps, NowRuns, Names DEF BaseInv, CnTypeOK, NowInv,
       NowPcs, Moves, Subsides
  <2> QED
    BY <2>1, <2>2, <2>3 DEF BaseInv
<1>36. ASSUME NEW h \in Other, ConsumeRecvBuffer(h)
      PROVE  BaseInv'
  <2>1. StackInv' /\ CnTypeOK'
    BY <1>36, ConsumeRecvBufferDoes, PcStays DEF BaseInv, CnTypeOK, PeerTypeOK, Stays,
       SameTables, SameCoros
  <2>2. PlaceInv'
    BY <1>36, ConsumeRecvBufferDoes, Names, NowRuns DEF BaseInv, CnTypeOK, PlaceInv,
       ClosePcs, Stays, SameCoros
  <2>3. NowInv'
    BY <1>36, ConsumeRecvBufferDoes, NowKeeps, NowRuns, Names DEF BaseInv, CnTypeOK, NowInv,
       NowPcs, Stays
  <2> QED
    BY <2>1, <2>2, <2>3 DEF BaseInv
<1> QED
  BY <1>1, <1>2, <1>3, <1>4, <1>5, <1>6, <1>7, <1>8, <1>9, <1>10, <1>11, <1>12, <1>13,
     <1>14, <1>15, <1>16, <1>17, <1>18, <1>19, <1>20, <1>21, <1>22, <1>23, <1>24,
     <1>25, <1>26, <1>27, <1>28, <1>29, <1>30, <1>31, <1>32, <1>33, <1>34,
     <1>35, <1>36
     DEF CnNext, Closes, Reads, Sends, Php

-----------------------------------------------------------------------------
(***************************************************************************)
(* The life of a connection: who destroys it, and who refers to it.        *)
(***************************************************************************)
LifeInv == UseInv /\ DestroyInv /\ RefInv /\ TableInv /\ EntryInv

\* A step that neither begins nor ends a use or the destruction of a connection.
\* Main does not move if it is about to destroy one.
NoNewUse ==
  /\ \A t \in Task \ Conn : of'[t] \in Conn => of'[t] = of[t] \/ conn[of'[t]].status # "none"
  /\ \A c \in Conn : pc'[c] # "gone" => pc[c] # "gone" \/ conn[c].status # "none"
  /\ pc[Bottom] = "destroy" => pc'[Bottom] = "destroy" /\ of'[Bottom] = of[Bottom]

SameDestroyers ==
  \A t \in Task :
    /\ \A c \in Conn : Destroyer(t, c)' <=> Destroyer(t, c)
    /\ Destroys(t) => (pc'[t] = "drop" <=> pc[t] = "drop")

SameStatus == \A c \in Conn : conn'[c].status = conn[c].status

SameConns ==
  \A c \in Conn : SameLife(conn'[c], conn[c]) /\ (conn[c].removed => conn'[c].removed)

LEMMA UseKeeps ==
  ASSUME UseInv, NoNewUse, \A c \in Conn : conn[c].status # "none" => conn'[c].status # "none"
  PROVE  UseInv'
BY DEF UseInv, NoNewUse

LEMMA DestroyKeeps ==
  ASSUME DestroyInv, SameDestroyers, SameStatus, told' = told, connections' = connections
  PROVE  DestroyInv'
<1> SUFFICES ASSUME NEW c \in Conn
             PROVE  /\ conn'[c].status # "CLOSED" =>
                         told'[c] = 0 /\ \A t \in Task : ~ Destroyer(t, c)'
                    /\ conn'[c].status = "none" => c \notin connections'
                    /\ conn'[c].status = "ESTABLISHED" => c \in connections'
                    /\ conn'[c].status = "CLOSED" /\ (\A t \in Task : ~ Destroyer(t, c)') =>
                         told'[c] = 1 /\ c \notin connections'
                    /\ \A t \in Task : Destroyer(t, c)' =>
                         /\ c \in connections'
                         /\ told'[c] = IF pc'[t] = "drop" THEN 1 ELSE 0
                         /\ \A u \in Task : Destroyer(u, c)' => u = t
  BY DEF DestroyInv
<1>1. /\ \A t \in Task : Destroyer(t, c)' <=> Destroyer(t, c)
      /\ \A t \in Task : Destroyer(t, c) => (pc'[t] = "drop" <=> pc[t] = "drop")
  BY DEF SameDestroyers, Destroyer
<1> QED
  BY <1>1 DEF DestroyInv, SameStatus

LEMMA RefKeeps ==
  ASSUME RefInv, SameConns, connections' = connections, \A h \in Handler : of'[h] = of[h]
  PROVE  RefInv'
<1>1. \A c \in Conn : Holders(c)' = Holders(c)
  BY DEF Holders
<1> QED
  BY <1>1 DEF RefInv, SameConns, SameLife

LEMMA TableKeeps ==
  ASSUME CnTypeOK, TableInv, SameConns, connections' = connections,
         \A fd \in Fd : wm_connections'[fd] \in {NoConn, wm_connections[fd]}
  PROVE  TableInv'
BY DEF CnTypeOK, TableInv, SameConns, SameLife

LEMMA EntryKeeps ==
  ASSUME EntryInv, NoNewUse, wm_connections' = wm_connections, ousted' = ousted,
         \A c \in Conn :
           /\ conn'[c].status = "ESTABLISHED" => conn[c].status = "ESTABLISHED"
           /\ conn'[c].fd = conn[c].fd
           /\ conn[c].removed => conn'[c].removed
  PROVE  EntryInv'
BY DEF EntryInv, NoNewUse

LEMMA LifeKeeps ==
  ASSUME CnTypeOK, LifeInv, NoNewUse, SameDestroyers, SameConns, told' = told,
         connections' = connections, wm_connections' = wm_connections, ousted' = ousted,
         \A h \in Handler : of'[h] = of[h]
  PROVE  LifeInv'
<1>1. /\ SameStatus
      /\ \A c \in Conn : conn'[c].fd = conn[c].fd /\ (conn[c].removed => conn'[c].removed)
  BY DEF SameStatus, SameConns, SameLife
<1>2. UseInv' /\ DestroyInv'
  BY <1>1, UseKeeps, DestroyKeeps DEF LifeInv, SameStatus
<1>3. RefInv' /\ TableInv'
  BY RefKeeps, TableKeeps DEF LifeInv
<1>4. EntryInv'
  BY <1>1, EntryKeeps DEF LifeInv, SameStatus
<1> QED
  BY <1>2, <1>3, <1>4 DEF LifeInv

\* A coroutine of a callback of c, which may be a connection that is accepted
\* in the same step.
LEMMA StartsHolder ==
  ASSUME BaseInv, NEW h \in Handler, NEW t \in Task, NEW c \in Conn, NEW back, NEW k,
         Starts(h, t, c, back, k)
  PROVE  /\ Holders(c)' = Holders(c) \cup {h} /\ h \notin Holders(c)
         /\ \A d \in Conn : d # c => Holders(d)' = Holders(d)
<1>1. h \in Task /\ of[h] = NoConn /\ of'[h] = c /\ \A u \in Task : u # h => of'[u] = of[u]
  BY Names DEF Starts
<1>2. \A g \in Handler : g \in Task
  BY Names
<1>3. NoConn # c /\ \A d \in Conn : d # NoConn
  BY Names
<1> QED
  BY <1>1, <1>2, <1>3 DEF Holders

LEMMA StartsConn ==
  ASSUME BaseInv, NEW h \in Handler, NEW t \in Task, NEW c \in Conn, NEW back, NEW k,
         Starts(h, t, c, back, k)
  PROVE  /\ \A d \in Conn : d # c => conn'[d] = conn[d]
         /\ conn'[c].status = k.status /\ conn'[c].fd = k.fd /\ conn'[c].removed = k.removed
         /\ conn'[c].freed = k.freed /\ conn'[c].refs = k.refs + 1 /\ ~ k.freed
         /\ SameEar(conn'[c], k) /\ SameInput(conn'[c], k)
BY DEF Starts, Becomes

\* One connection at a time.
LEMMA RefOthers ==
  ASSUME RefInv, NEW c \in Conn,
         \A d \in Conn : d # c =>
           /\ conn'[d] = conn[d] /\ (d \in connections' <=> d \in connections)
           /\ Holders(d)' = Holders(d),
         IsFiniteSet(Holders(c)'),
         conn'[c].refs = (IF c \in connections' THEN 2 ELSE 0) + Cardinality(Holders(c)'),
         conn'[c].freed <=> conn'[c].status = "CLOSED" /\ c \notin connections' /\ Holders(c)' = {}
  PROVE  RefInv'
BY DEF RefInv

LEMMA StartsRef ==
  ASSUME BaseInv, RefInv, NEW h \in Handler, NEW t \in Task, NEW c \in Conn, NEW back,
         Starts(h, t, c, back, conn[c]), connections' = connections
  PROVE  RefInv'
<1>1. /\ Holders(c)' = Holders(c) \cup {h} /\ h \notin Holders(c)
      /\ \A d \in Conn : d # c => Holders(d)' = Holders(d)
  BY StartsHolder
<1>2. IsFiniteSet(Holders(c)) /\ Cardinality(Holders(c)) \in Nat
  BY FS_CardinalityType DEF RefInv
<1>3. /\ IsFiniteSet(Holders(c)') /\ Cardinality(Holders(c)') = Cardinality(Holders(c)) + 1
      /\ Holders(c)' # {}
  BY <1>1, <1>2, FS_AddElement
<1>4. /\ \A d \in Conn : d # c => conn'[d] = conn[d]
      /\ ~ conn'[c].freed /\ conn'[c].refs = conn[c].refs + 1
  BY StartsConn
<1>5. conn'[c].refs = (IF c \in connections' THEN 2 ELSE 0) + Cardinality(Holders(c)')
  BY <1>2, <1>3, <1>4 DEF RefInv
<1> QED
  BY <1>1, <1>3, <1>4, <1>5 DEF RefInv

LEMMA StartsLife ==
  ASSUME BaseInv, LifeInv, NEW h \in Handler, NEW t \in Task, NEW c \in Conn, NEW back,
         Starts(h, t, c, back, conn[c]), conn[c].status # "none",
         then' = then, SameTables, pc[t] \notin {"gone", "destroy"},
         ~ (t \in Conn /\ back = "gone")
  PROVE  /\ UseInv' /\ RefInv' /\ TableInv' /\ EntryInv'
         /\ SameStatus
         /\ told' = told /\ pc[t] \notin {"unpause", "onClose", "drop"}
              /\ back \notin {"unpause", "onClose", "drop"} => DestroyInv'
<1>1. /\ SameStatus
      /\ \A d \in Conn : conn'[d].fd = conn[d].fd /\ conn'[d].removed = conn[d].removed
  BY StartsConn DEF SameStatus
<1>2. UseInv'
  BY <1>1, Names DEF Starts, SameStatus, LifeInv, UseInv
<1>3. RefInv'
  BY StartsRef DEF LifeInv, SameTables
<1>4. TableInv'
  BY <1>1 DEF BaseInv, CnTypeOK, LifeInv, TableInv, SameTables
<1>5. EntryInv'
  <2>1. pc[Bottom] = "destroy" => pc'[Bottom] = "destroy" /\ of'[Bottom] = of[Bottom]
    BY Names DEF Starts
  <2> QED
    BY <1>1, <2>1 DEF LifeInv, EntryInv, SameTables, SameStatus
<1>6. ASSUME told' = told, pc[t] \notin {"unpause", "onClose", "drop"},
             back \notin {"unpause", "onClose", "drop"}
      PROVE  DestroyInv'
  <2>1. SameDestroyers
    BY <1>6, Names DEF SameDestroyers, Destroyer, Destroys, Starts, BaseInv, PlaceInv, ClosePcs
  <2> QED
    BY <1>1, <1>6, <2>1, DestroyKeeps DEF LifeInv, SameTables
<1> QED
  BY <1>1, <1>2, <1>3, <1>4, <1>5, <1>6

\* A step of one task that is no step of a destruction.
LEMMA MoveDestroyers ==
  ASSUME NEW t \in Task, NEW w, Moves(t, w), of' = of, then' = then,
         {pc[t], w} \cap {"unpause", "onClose", "drop"} = {}
  PROVE  SameDestroyers
BY DEF SameDestroyers, Destroyer, Destroys, Moves

LEMMA CallbackLife ==
  ASSUME BaseInv, LifeInv, NEW t \in Task, NEW c \in Conn, of[t] = c, NEW back,
         {pc[t], back} \cap {"gone", "unpause", "onClose", "drop", "destroy"} = {},
         then' = then, SameTables, told' = told,
         \/ \E h \in Handler : Starts(h, t, c, back, conn[c])
         \/ Moves(t, back) /\ Becomes(c, conn[c]) /\ Stays /\ of' = of
  PROVE  LifeInv'
<1>1. conn[c].status # "none"
  BY Names DEF LifeInv, UseInv, BaseInv, PlaceInv
<1>2. ASSUME NEW h \in Handler, Starts(h, t, c, back, conn[c])
      PROVE  LifeInv'
  BY <1>1, <1>2, StartsLife DEF LifeInv
<1>3. CASE Moves(t, back) /\ Becomes(c, conn[c]) /\ of' = of
  <2>1. SameDestroyers
    BY <1>3, MoveDestroyers
  <2>2. NoNewUse
    BY <1>3, Names DEF NoNewUse, Moves
  <2>3. SameConns
    BY <1>3 DEF SameConns, SameLife, Becomes
  <2> QED
    BY <1>3, <2>1, <2>2, <2>3, LifeKeeps, Names DEF BaseInv, SameTables
<1> QED
  BY <1>2, <1>3

LEMMA LifeStep ==
  ASSUME BaseInv, BytesTypeOK, LifeInv, CloseInv, CnNext
  PROVE  LifeInv'
<1>1. ASSUME NEW t \in Task, CloseResumes(t)
      PROVE  LifeInv'
  <2>1. NoNewUse
    BY <1>1, CloseResumesDoes, Names DEF NoNewUse, BaseInv, PlaceInv, LifeInv, UseInv,
       Moves
  <2>2. SameDestroyers
    BY <1>1, CloseResumesDoes, Names DEF SameDestroyers, Destroyer, Destroys, BaseInv,
       PlaceInv, CnTypeOK, ClosePcs, Moves
  <2>3. SameConns
    BY <1>1, CloseResumesDoes DEF SameConns, SameLife
  <2>4. /\ told' = told /\ connections' = connections
        /\ wm_connections' = wm_connections /\ ousted' = ousted
    BY <1>1, CloseResumesDoes DEF Else, SameTables
  <2>5. \A g \in Handler : of'[g] = of[g]
    BY <1>1, CloseResumesDoes, Names
  <2> QED
    BY <2>1, <2>2, <2>3, <2>4, <2>5, LifeKeeps DEF BaseInv
<1>2. ASSUME NEW t \in Task, CloseFd(t)
      PROVE  LifeInv'
  <2>1. NoNewUse
    BY <1>2, CloseFdDoes, Names DEF NoNewUse, BaseInv, PlaceInv, LifeInv, UseInv, Moves,
       ThenMoves
  <2>2. SameDestroyers
    BY <1>2, CloseFdDoes, Names DEF SameDestroyers, Destroyer, Destroys, BaseInv,
       PlaceInv, CnTypeOK, ClosePcs, Moves, ThenMoves
  <2>3. SameConns
    BY <1>2, CloseFdDoes DEF SameConns, SameLife, Becomes
  <2>4. /\ told' = told /\ connections' = connections
        /\ wm_connections' = wm_connections /\ ousted' = ousted
    BY <1>2, CloseFdDoes DEF Else, SameTables
  <2>5. \A g \in Handler : of'[g] = of[g]
    BY <1>2, CloseFdDoes, Names
  <2> QED
    BY <2>1, <2>2, <2>3, <2>4, <2>5, LifeKeeps DEF BaseInv
<1>3. ASSUME NEW t \in Task, Destroy(t)
      PROVE  LifeInv'
  <2>1. PICK c \in Conn : c = of[t] /\ t = Now /\ pc[t] = "destroy" /\ of' = of /\ Else
    BY <1>3, DestroyDoes
  <2>2. /\ \A d \in Conn : ~ Destroyer(t, d)
        /\ conn[c].status # "none"
    BY <2>1, Names DEF Destroyer, Destroys, BaseInv, PlaceInv, CnTypeOK, ClosePcs, LifeInv, UseInv
  <2>3. /\ told' = told /\ connections' = connections
        /\ wm_connections' = wm_connections /\ ousted' = ousted
    BY <2>1 DEF Else, SameTables
  <2>4. CASE /\ Moves(t, Home(t)) /\ conn' = conn /\ then' = then
             /\ conn[c].status # "ESTABLISHED"
    <3>1. UseInv'
      BY <2>1, <2>4, Names DEF LifeInv, UseInv, Moves
    <3>2. SameDestroyers
      BY <2>1, <2>2, <2>4, PcSets
         DEF SameDestroyers, Destroyer, Destroys, BaseInv, PlaceInv, Moves, DestroyPcs, ClosePcs
    <3>3. SameConns /\ SameStatus
      BY <2>4 DEF SameConns, SameLife, SameStatus
    <3>4. DestroyInv' /\ RefInv' /\ TableInv'
      BY <2>1, <2>3, <3>2, <3>3, DestroyKeeps, RefKeeps, TableKeeps DEF LifeInv, BaseInv
    <3>5. EntryInv'
      <4>1. pc[Bottom] = "destroy" => of[Bottom] = c \/ pc'[Bottom] = "destroy"
        BY <2>1, <2>4, Names DEF Moves
      <4> QED
        BY <2>1, <2>3, <2>4, <4>1 DEF LifeInv, EntryInv
    <3> QED
      BY <3>1, <3>4, <3>5 DEF LifeInv
  <2>5. ASSUME conn[c].status = "ESTABLISHED", NEW k \in ConnRec,
               k.removed = conn[c].removed, k.fd = conn[c].fd, k.refs = conn[c].refs,
               k.freed = conn[c].freed, k.status = "CLOSED", Closing(t, c, k, "unpause")
        PROVE  LifeInv'
    <3>1. /\ \A d \in Conn : d # c => conn'[d] = conn[d]
          /\ conn'[c].status = "CLOSED" /\ conn'[c].fd = conn[c].fd
          /\ conn'[c].refs = conn[c].refs /\ conn'[c].freed = conn[c].freed
          /\ conn'[c].removed = conn[c].removed
      BY <2>1, <2>5 DEF Closing, Becomes, SameLife
    <3>2. /\ \A u \in Task : u # t => pc'[u] = pc[u] /\ then'[u] = then[u]
          /\ pc'[t] \in {"close_read", "close_fd"} /\ then'[t] = "unpause"
      BY <2>5 DEF Closing, Moves, ThenMoves
    <3>3. UseInv'
      BY <2>1, <3>1, <3>2, Names DEF LifeInv, UseInv
    <3>4. DestroyInv'
      <4>1. \A u \in Task, d \in Conn : Destroyer(u, d)' <=> Destroyer(u, d) \/ (u = t /\ d = c)
        BY <2>1, <2>2, <3>2 DEF Destroyer, Destroys
      <4>2. /\ told[c] = 0 /\ c \in connections /\ \A u \in Task : ~ Destroyer(u, c)
        BY <2>1, <2>5 DEF LifeInv, DestroyInv
      <4>3. ASSUME NEW d \in Conn, d # c
            PROVE  /\ conn'[d] = conn[d]
                   /\ \A u \in Task : Destroyer(u, d)' <=> Destroyer(u, d)
                   /\ \A u \in Task : Destroyer(u, d) => u # t /\ pc'[u] = pc[u]
        BY <2>2, <3>1, <3>2, <4>1, <4>3
      <4>4. \A u \in Task : Destroyer(u, c)' <=> u = t
        BY <2>1, <4>1, <4>2
      <4> QED
        BY <2>1, <2>3, <3>1, <3>2, <4>2, <4>3, <4>4 DEF LifeInv, DestroyInv
    <3>5. RefInv'
      <4>1. \A d \in Conn : Holders(d)' = Holders(d)
        BY <2>1 DEF Holders
      <4>2. ~ conn[c].freed /\ c \in connections
        BY <2>1, <2>5 DEF LifeInv, RefInv, DestroyInv
      <4> QED
        BY <2>1, <2>3, <2>5, <3>1, <4>1, <4>2 DEF LifeInv, RefInv
    <3>6. TableInv'
      BY <2>1, <2>3, <3>1 DEF LifeInv, TableInv, BaseInv, CnTypeOK
    <3>7. EntryInv'
      <4>1. pc[Bottom] = "destroy" => of[Bottom] = c \/ pc'[Bottom] = "destroy"
        BY <2>1, <3>2, Names
      <4>2. \A d \in Conn : conn'[d].status = "ESTABLISHED" => d # c /\ conn'[d] = conn[d]
        BY <3>1
      <4> QED
        BY <2>1, <2>3, <4>1, <4>2 DEF LifeInv, EntryInv
    <3> QED
      BY <3>3, <3>4, <3>5, <3>6, <3>7 DEF LifeInv
  <2> QED
    BY <1>3, <2>1, DestroyDoes, <2>4, <2>5
<1>4. ASSUME NEW t \in Task, DestroyResumes(t)
      PROVE  LifeInv'
  <2>1. NoNewUse
    BY <1>4, DestroyResumesDoes, Names DEF NoNewUse, BaseInv, PlaceInv, LifeInv, UseInv,
       Moves
  <2>2. SameDestroyers
    BY <1>4, DestroyResumesDoes, Names DEF SameDestroyers, Destroyer, Destroys, BaseInv,
       PlaceInv, CnTypeOK, ClosePcs, Moves
  <2>3. SameConns
    BY <1>4, DestroyResumesDoes DEF SameConns, SameLife
  <2>4. /\ told' = told /\ connections' = connections
        /\ wm_connections' = wm_connections /\ ousted' = ousted
    BY <1>4, DestroyResumesDoes DEF Else, SameTables
  <2>5. \A g \in Handler : of'[g] = of[g]
    BY <1>4, DestroyResumesDoes, Names
  <2> QED
    BY <2>1, <2>2, <2>3, <2>4, <2>5, LifeKeeps DEF BaseInv
<1>5. ASSUME NEW t \in Task, OnClose(t)
      PROVE  LifeInv'
  <2>1. PICK c \in Conn :
          /\ c = of[t] /\ t = Now /\ pc[t] = "onClose" /\ then' = then /\ SameTables
          /\ told'[c] = told[c] + 1 /\ \A d \in Conn : d # c => told'[d] = told[d]
    BY <1>5, OnCloseDoes
  <2>2. conn[c].status # "none" /\ Destroyer(t, c) /\ \A d \in Conn : d # c => ~ Destroyer(t, d)
    BY <2>1, Names DEF Destroyer, Destroys, BaseInv, PlaceInv, LifeInv, UseInv
  <2>3. told[c] = 0 /\ c \in connections /\ \A u \in Task : Destroyer(u, c) => u = t
    BY <2>1, <2>2 DEF LifeInv, DestroyInv
  <2>4. /\ UseInv' /\ RefInv' /\ TableInv' /\ EntryInv' /\ SameStatus
    <3>1. CASE Moves(t, "drop") /\ Becomes(c, conn[c]) /\ Stays /\ of' = of
      <4>1. \A d \in Conn : conn'[d] = conn[d]
        BY <2>1, <3>1 DEF Becomes
      <4>2. NoNewUse /\ SameConns /\ SameStatus
        BY <2>1, <3>1, <4>1, Names DEF NoNewUse, SameConns, SameStatus, SameLife, Moves
      <4> QED
        <5>1. /\ UseInv' /\ RefInv' /\ TableInv'
          BY <2>1, <3>1, <4>2, UseKeeps, RefKeeps, TableKeeps
             DEF LifeInv, SameStatus, SameTables, BaseInv
        <5>2. EntryInv'
          BY <2>1, <4>1, <4>2, EntryKeeps DEF LifeInv, SameTables
        <5> QED
          BY <4>2, <5>1, <5>2
    <3>2. ASSUME NEW h \in Handler, Starts(h, t, c, "drop", conn[c])
          PROVE  UseInv' /\ RefInv' /\ TableInv' /\ EntryInv' /\ SameStatus
      <4>1. pc[t] \notin {"gone", "destroy"} /\ "drop" # "gone"
        BY <2>1
      <4> QED
        BY <2>1, <2>2, <3>2, <4>1, StartsLife
    <3> QED
      BY <1>5, <2>1, <3>1, <3>2, OnCloseDoes
  <2>5. /\ \A u \in Task, d \in Conn : Destroyer(u, d)' <=> Destroyer(u, d)
        /\ pc'[t] = "drop"
        /\ \A u \in Task : u # t /\ Destroys(u) => pc'[u] = pc[u]
    <3>1. CASE Moves(t, "drop") /\ Becomes(c, conn[c]) /\ Stays /\ of' = of
      BY <2>1, <3>1 DEF Destroyer, Destroys, Moves
    <3>2. ASSUME NEW h \in Handler, Starts(h, t, c, "drop", conn[c])
          PROVE  <2>5
      BY <2>1, <3>2, Names DEF Destroyer, Destroys, Starts, BaseInv, PlaceInv, ClosePcs
    <3> QED
      BY <1>5, <2>1, <3>1, <3>2, OnCloseDoes
  <2>6. DestroyInv'
    <3>1. ASSUME NEW d \in Conn, d # c
          PROVE  /\ conn'[d].status = conn[d].status /\ told'[d] = told[d]
                 /\ \A u \in Task : Destroyer(u, d)' <=> Destroyer(u, d)
                 /\ \A u \in Task : Destroyer(u, d) => pc'[u] = pc[u]
      BY <2>1, <2>2, <2>4, <2>5, <3>1 DEF SameStatus, Destroyer
    <3>2. /\ conn'[c].status = conn[c].status /\ told'[c] = 1
          /\ \A u \in Task : Destroyer(u, c)' <=> u = t
      BY <2>1, <2>2, <2>3, <2>4, <2>5 DEF SameStatus
    <3>3. conn[c].status = "CLOSED" /\ connections' = connections /\ t \in Task
      BY <2>1, <2>2 DEF LifeInv, DestroyInv, SameTables
    <3> QED
      BY <2>1, <2>3, <2>5, <3>1, <3>2, <3>3 DEF LifeInv, DestroyInv
  <2> QED
    BY <2>4, <2>6 DEF LifeInv
<1>6. ASSUME NEW t \in Task, DestroyDrops(t)
      PROVE  LifeInv'
  <2>1. PICK c \in Conn :
          /\ c = of[t] /\ t = Now /\ pc[t] = "drop" /\ Moves(t, Home(t))
          /\ of' = of /\ then' = then /\ told' = told
          /\ connections' = connections \ {c}
          /\ \A fd \in Fd : wm_connections'[fd] =
               IF fd = conn[c].fd THEN NoConn ELSE wm_connections[fd]
          /\ ousted' = ousted \cup ({wm_connections[conn[c].fd]} \ {c, NoConn})
    BY <1>6, DestroyDropsDoes
  <2>2. PICK n \in {1, 2}, k \in ConnRec :
          /\ n = IF c \in connections THEN 2 ELSE 1
          /\ Becomes(c, k) /\ k.removed = conn[c].removed /\ k.status = conn[c].status
          /\ k.fd = conn[c].fd /\ k.refs = conn[c].refs - n
          /\ k.freed <=> conn[c].refs = n
    BY <1>6, <2>1, DestroyDropsDoes
  <2>3. /\ conn[c].status # "none" /\ Destroyer(t, c) /\ \A d \in Conn : d # c => ~ Destroyer(t, d)
        /\ \A d \in Conn : Destroyer(t, d)' = FALSE
    BY <2>1, Names, PcSets
       DEF Destroyer, Destroys, BaseInv, PlaceInv, LifeInv, UseInv, Moves, ClosePcs, DestroyPcs
  <2>4. /\ told[c] = 1 /\ c \in connections /\ \A u \in Task : Destroyer(u, c) => u = t
        /\ conn[c].status = "CLOSED"
    BY <2>1, <2>3 DEF LifeInv, DestroyInv
  <2>5. /\ \A d \in Conn : d # c => conn'[d] = conn[d]
        /\ conn'[c].status = "CLOSED" /\ conn'[c].fd = conn[c].fd
        /\ conn'[c].removed = conn[c].removed /\ conn'[c].refs = conn[c].refs - 2
        /\ conn'[c].freed <=> conn[c].refs = 2
    BY <2>2, <2>4 DEF Becomes
  <2>6. UseInv'
    BY <2>1, <2>5, PcSets, Names DEF LifeInv, UseInv, Moves, DestroyPcs
  <2>7. DestroyInv'
    <3>1. ASSUME NEW d \in Conn, d # c
          PROVE  /\ conn'[d] = conn[d] /\ (d \in connections' <=> d \in connections)
                 /\ \A u \in Task : Destroyer(u, d)' <=> Destroyer(u, d)
                 /\ \A u \in Task : Destroyer(u, d) => pc'[u] = pc[u]
      BY <2>1, <2>3, <2>5, <3>1 DEF Destroyer, Destroys, Moves
    <3>2. \A u \in Task : Destroyer(u, c)' = FALSE
      BY <2>1, <2>3, <2>4 DEF Destroyer, Destroys, Moves
    <3> QED
      BY <2>1, <2>4, <2>5, <3>1, <3>2 DEF LifeInv, DestroyInv
  <2>8. RefInv'
    <3>1. \A d \in Conn : Holders(d)' = Holders(d)
      BY <2>1 DEF Holders
    <3>2. IsFiniteSet(Holders(c)) /\ Cardinality(Holders(c)) \in Nat
          /\ (Cardinality(Holders(c)) = 0 <=> Holders(c) = {})
      BY <2>1, FS_CardinalityType, FS_EmptySet DEF LifeInv, RefInv
    <3>3. conn[c].refs = 2 + Cardinality(Holders(c))
      BY <2>1, <2>4 DEF LifeInv, RefInv
    <3>4. /\ conn'[c].refs = Cardinality(Holders(c))
          /\ conn'[c].freed <=> Holders(c) = {}
      BY <2>5, <3>2, <3>3
    <3> QED
      BY <2>1, <2>5, <3>1, <3>2, <3>4 DEF LifeInv, RefInv
  <2>9. TableInv'
    <3>1. ASSUME NEW fd \in Fd, wm_connections'[fd] # NoConn
          PROVE  /\ wm_connections'[fd] = wm_connections[fd] /\ wm_connections[fd] # c
                 /\ wm_connections[fd] \in Conn
      BY <2>1, <3>1 DEF LifeInv, TableInv, BaseInv, CnTypeOK
    <3> QED
      BY <2>1, <2>5, <3>1 DEF LifeInv, TableInv
  <2>10. EntryInv'
    <3>1. pc[Bottom] = "destroy" => pc'[Bottom] = "destroy"
      BY <2>1, Names DEF Moves
    <3>2. ASSUME NEW d \in Conn, conn'[d].status = "ESTABLISHED"
          PROVE  /\ conn'[d].fd \in Fd
                 /\ \/ conn'[d].removed \/ d \in ousted'
                    \/ wm_connections'[conn'[d].fd] = d
                    \/ pc'[Bottom] = "destroy" /\ of'[Bottom] = d
      <4>1. d # c /\ conn'[d] = conn[d] /\ d # NoConn
        BY <2>5, <3>2, Names
      <4>2. /\ conn[d].fd \in Fd
            /\ \/ conn[d].removed \/ d \in ousted \/ wm_connections[conn[d].fd] = d
               \/ pc[Bottom] = "destroy" /\ of[Bottom] = d
        BY <3>2, <4>1 DEF LifeInv, EntryInv
      <4>3. wm_connections[conn[d].fd] = d =>
              d \in ousted' \/ wm_connections'[conn[d].fd] = d
        BY <2>1, <4>1, <4>2
      <4> QED
        BY <2>1, <3>1, <4>1, <4>2, <4>3
    <3> QED
      BY <3>2 DEF EntryInv
  <2> QED
    BY <2>6, <2>7, <2>8, <2>9, <2>10 DEF LifeInv
<1>7. ASSUME NEW t \in Task, OnError(t)
      PROVE  LifeInv'
  <2>1. PICK c \in Conn : c = of[t] /\ t = Now /\ then' = then /\ Else
    BY <1>7, OnErrorDoes
  <2>2. SameTables /\ told' = told
    BY <2>1 DEF Else
  <2>3. CASE /\ pc[t] = "onError"
             /\ \/ \E h \in Handler : Starts(h, t, c, "errored", conn[c])
                \/ Moves(t, "errored") /\ Becomes(c, conn[c]) /\ Stays /\ of' = of
    BY <2>1, <2>2, <2>3, CallbackLife
  <2>4. CASE /\ pc[t] = "errored" /\ conn' = conn /\ of' = of
             /\ Moves(t, "destroy") \/ Moves(t, Home(t))
    <3>1. NoNewUse /\ SameConns
      BY <2>4, Names DEF NoNewUse, SameConns, SameLife, Moves
    <3>2. SameDestroyers
      BY <2>1, <2>4, PcSets, MoveDestroyers DEF DestroyPcs
    <3> QED
      BY <2>2, <2>4, <3>1, <3>2, LifeKeeps, Names DEF BaseInv, SameTables
  <2>5. \/ /\ pc[t] = "onError"
           /\ \/ \E h \in Handler : Starts(h, t, c, "errored", conn[c])
              \/ Moves(t, "errored") /\ Becomes(c, conn[c]) /\ Stays /\ of' = of
        \/ /\ pc[t] = "errored" /\ conn' = conn /\ of' = of
           /\ Moves(t, "destroy") \/ Moves(t, Home(t))
    BY <1>7, <2>1, OnErrorDoes
  <2> QED
    BY <2>3, <2>4, <2>5
<1>8. ASSUME NEW c \in Conn, NEW at \in Checks, check_read_status(c, at)
      PROVE  LifeInv'
  <2>1. /\ c = Now /\ pc[c] = at /\ of' = of /\ then' = then /\ Else
        /\ \E w \in {Paused(at), true(at), false(at)} : Moves(c, w)
        /\ SameConns
    <3>1. /\ c = Now /\ pc[c] = at /\ of' = of /\ then' = then /\ Else
          /\ \E w \in {Paused(at), true(at), false(at)} : Moves(c, w)
      BY <1>8, CheckDoes
    <3>2. \/ conn' = conn
          \/ \E k \in ConnRec :
               Becomes(c, k) /\ SameLife(k, conn[c]) /\ k.removed = conn[c].removed
      BY <1>8, CheckDoes
    <3>3. SameConns
      BY <3>2 DEF SameConns, Becomes, SameLife
    <3> QED
      BY <3>1, <3>3
  <2>2. PICK w \in {Paused(at), true(at), false(at)} : Moves(c, w)
    BY <2>1
  <2>3. {pc[c], w} \cap {"gone", "unpause", "onClose", "drop"} = {}
    BY <2>1, CheckPlaces DEF PausedPcs, Checks
  <2>4. SameDestroyers
    BY <2>1, <2>2, <2>3, MoveDestroyers, Names
  <2>5. NoNewUse
    <3>1. pc[c] # "gone" /\ \A u \in Task : u # c => pc'[u] = pc[u]
      BY <2>2, <2>3 DEF Moves
    <3> QED
      BY <2>1, <3>1, Names DEF NoNewUse
  <2> QED
    BY <2>1, <2>4, <2>5, LifeKeeps, Names DEF BaseInv, Else, SameTables
<1>9. ASSUME NEW c \in Conn, NEW at \in Checks, GoesOn(c, at)
      PROVE  LifeInv'
  <2>1. /\ c = Now /\ pc[c] = Paused(at) /\ of' = of /\ then' = then /\ Else
        /\ \E w \in {true(at), false(at)} : Moves(c, w)
        /\ SameConns
    BY <1>9, GoesOnDoes DEF SameConns, Becomes, SameLife
  <2>2. PICK w \in {true(at), false(at)} : Moves(c, w)
    BY <2>1
  <2>3. {pc[c], w} \cap {"gone", "unpause", "onClose", "drop"} = {}
    BY <2>1, CheckPlaces DEF PausedPcs, Checks
  <2>4. SameDestroyers
    BY <2>1, <2>2, <2>3, MoveDestroyers, Names
  <2>5. NoNewUse
    <3>1. pc[c] # "gone" /\ \A u \in Task : u # c => pc'[u] = pc[u]
      BY <2>2, <2>3 DEF Moves
    <3> QED
      BY <2>1, <3>1, Names DEF NoNewUse
  <2> QED
    BY <2>1, <2>4, <2>5, LifeKeeps, Names DEF BaseInv, Else, SameTables
<1>10. ASSUME NEW c \in Conn, ReadData(c)
      PROVE  LifeInv'
  <2>1. NoNewUse
    BY <1>10, ReadDataDoes, Names DEF NoNewUse, BaseInv, PlaceInv, LifeInv, UseInv, Moves,
       SameCoros
  <2>2. SameDestroyers
    BY <1>10, ReadDataDoes, Names DEF SameDestroyers, Destroyer, Destroys, BaseInv,
       PlaceInv, CnTypeOK, ClosePcs, Moves, SameCoros
  <2>3. SameConns
    BY <1>10, ReadDataDoes DEF SameConns, SameLife, Becomes
  <2>4. /\ told' = told /\ connections' = connections
        /\ wm_connections' = wm_connections /\ ousted' = ousted
    BY <1>10, ReadDataDoes DEF SameTables, SameWorld
  <2>5. \A g \in Handler : of'[g] = of[g]
    BY <1>10, ReadDataDoes, Names DEF SameCoros
  <2> QED
    BY <2>1, <2>2, <2>3, <2>4, <2>5, LifeKeeps DEF BaseInv
<1>11. ASSUME NEW c \in Conn, ReadFails(c)
      PROVE  LifeInv'
  <2>1. NoNewUse
    BY <1>11, ReadFailsDoes, Names DEF NoNewUse, BaseInv, PlaceInv, LifeInv, UseInv,
       Moves, SameCoros
  <2>2. SameDestroyers
    BY <1>11, ReadFailsDoes, Names DEF SameDestroyers, Destroyer, Destroys, BaseInv,
       PlaceInv, CnTypeOK, ClosePcs, Moves, SameCoros
  <2>3. SameConns
    BY <1>11, ReadFailsDoes DEF SameConns, SameLife, Becomes
  <2>4. /\ told' = told /\ connections' = connections
        /\ wm_connections' = wm_connections /\ ousted' = ousted
    BY <1>11, ReadFailsDoes DEF ElseLeaving, SameTables
  <2>5. \A g \in Handler : of'[g] = of[g]
    BY <1>11, ReadFailsDoes, Names DEF SameCoros
  <2> QED
    BY <2>1, <2>2, <2>3, <2>4, <2>5, LifeKeeps DEF BaseInv
<1>12. ASSUME NEW c \in Conn, ReadGoesOn(c)
      PROVE  LifeInv'
  <2>1. NoNewUse
    BY <1>12, ReadGoesOnDoes, Names DEF NoNewUse, BaseInv, PlaceInv, LifeInv, UseInv,
       Moves, SameCoros
  <2>2. SameDestroyers
    BY <1>12, ReadGoesOnDoes, Names DEF SameDestroyers, Destroyer, Destroys, BaseInv,
       PlaceInv, CnTypeOK, ClosePcs, Moves, SameCoros
  <2>3. SameConns
    BY <1>12, ReadGoesOnDoes DEF SameConns, SameLife
  <2>4. /\ told' = told /\ connections' = connections
        /\ wm_connections' = wm_connections /\ ousted' = ousted
    BY <1>12, ReadGoesOnDoes DEF Else, SameTables
  <2>5. \A g \in Handler : of'[g] = of[g]
    BY <1>12, ReadGoesOnDoes, Names DEF SameCoros
  <2> QED
    BY <2>1, <2>2, <2>3, <2>4, <2>5, LifeKeeps DEF BaseInv
<1>13. ASSUME NEW c \in Conn, Deliver(c)
      PROVE  LifeInv'
  <2>1. /\ c = Now /\ pc[c] = "deliver" /\ then' = then /\ SameTables /\ told' = told
        /\ \/ \E h \in Handler : Starts(h, c, c, "check", conn[c])
           \/ Moves(c, "check") /\ Becomes(c, conn[c]) /\ Stays /\ of' = of
    BY <1>13, DeliverDoes DEF SameWorld
  <2> QED
    BY <2>1, CallbackLife, ReaderIs
<1>14. ASSUME NEW c \in Conn, Input(c)
      PROVE  LifeInv'
  <2>1. c = Now /\ pc[c] = "input" /\ then' = then /\ SameTables /\ told' = told
    BY <1>14, InputDoes DEF SameWorld
  <2>2. CASE \/ \E h \in Handler : Starts(h, c, c, "parse", conn[c])
             \/ Moves(c, "parse") /\ Becomes(c, conn[c]) /\ Stays /\ of' = of
    BY <2>1, <2>2, CallbackLife, ReaderIs
  <2>3. CASE Moves(c, "keep") /\ conn' = conn /\ of' = of
    <3>1. NoNewUse /\ SameConns
      BY <2>1, <2>3, Names DEF NoNewUse, SameConns, SameLife, Moves
    <3>2. SameDestroyers
      BY <2>1, <2>3, MoveDestroyers, Names
    <3> QED
      BY <2>1, <2>3, <3>1, <3>2, LifeKeeps, Names DEF BaseInv, SameTables
  <2> QED
    BY <1>14, <2>2, <2>3, InputDoes
<1>15. ASSUME NEW c \in Conn, InputFails(c)
      PROVE  LifeInv'
  <2>1. NoNewUse
    BY <1>15, InputFailsDoes, Names DEF NoNewUse, BaseInv, PlaceInv, LifeInv, UseInv,
       Moves, ThenMoves, Closing
  <2>2. SameDestroyers
    BY <1>15, InputFailsDoes, Names DEF SameDestroyers, Destroyer, Destroys, BaseInv,
       PlaceInv, CnTypeOK, ClosePcs, Moves, ThenMoves, Closing
  <2>3. SameConns
    BY <1>15, InputFailsDoes DEF SameConns, SameLife, Becomes, Closing
  <2>4. /\ told' = told /\ connections' = connections
        /\ wm_connections' = wm_connections /\ ousted' = ousted
    BY <1>15, InputFailsDoes DEF ElseLeaving, SameTables
  <2>5. \A g \in Handler : of'[g] = of[g]
    BY <1>15, InputFailsDoes, Names
  <2> QED
    BY <2>1, <2>2, <2>3, <2>4, <2>5, LifeKeeps DEF BaseInv
<1>16. ASSUME NEW c \in Conn, Keep(c)
      PROVE  LifeInv'
  <2>0. frame[c].offset \in BOOLEAN /\ frame[c].beyond \in BOOLEAN
    BY DEF BytesTypeOK
  <2>1. NoNewUse
    BY <1>16, KeepDoes, <2>0, Names DEF NoNewUse, BaseInv, PlaceInv, LifeInv, UseInv,
       Moves, SameCoros
  <2>2. SameDestroyers
    BY <1>16, KeepDoes, <2>0, Names DEF SameDestroyers, Destroyer, Destroys, BaseInv,
       PlaceInv, CnTypeOK, ClosePcs, Moves, SameCoros
  <2>3. SameConns
    BY <1>16, KeepDoes, <2>0 DEF SameConns, SameLife, Becomes
  <2>4. /\ told' = told /\ connections' = connections
        /\ wm_connections' = wm_connections /\ ousted' = ousted
    BY <1>16, KeepDoes, <2>0 DEF SameTables, SameWorld
  <2>5. \A g \in Handler : of'[g] = of[g]
    BY <1>16, KeepDoes, <2>0, Names DEF SameCoros
  <2> QED
    BY <2>1, <2>2, <2>3, <2>4, <2>5, LifeKeeps DEF BaseInv
<1>17. ASSUME NEW c \in Conn, ReaderEnds(c)
      PROVE  LifeInv'
  <2>1. NoNewUse
    BY <1>17, ReaderEndsDoes, Names DEF NoNewUse, BaseInv, PlaceInv, LifeInv, UseInv,
       Moves, SameCoros
  <2>2. SameDestroyers
    BY <1>17, ReaderEndsDoes, Names DEF SameDestroyers, Destroyer, Destroys, BaseInv,
       PlaceInv, CnTypeOK, ClosePcs, Moves, SameCoros
  <2>3. SameConns
    BY <1>17, ReaderEndsDoes DEF SameConns, SameLife
  <2>4. /\ told' = told /\ connections' = connections
        /\ wm_connections' = wm_connections /\ ousted' = ousted
    BY <1>17, ReaderEndsDoes DEF SameTables, SameWorld
  <2>5. \A g \in Handler : of'[g] = of[g]
    BY <1>17, ReaderEndsDoes, Names DEF SameCoros
  <2> QED
    BY <2>1, <2>2, <2>3, <2>4, <2>5, LifeKeeps DEF BaseInv
<1>18. ASSUME NEW c \in Conn, EpollIn(c)
      PROVE  LifeInv'
  <2>1. /\ Bottom = Now /\ pc[Bottom] = "loop" /\ conn[c].watched /\ Else
    BY <1>18, EpollInDoes
  <2>2. conn[c].status # "none" /\ then[Bottom] = "nowhere"
    BY <2>1, Names DEF CloseInv, BaseInv, PlaceInv, ClosePcs
  <2>3. CASE conn' = conn /\ pc' = pc /\ SameCoros
    BY <2>1, <2>3, LifeKeeps, Names
       DEF BaseInv, NoNewUse, SameDestroyers, Destroyer, Destroys, SameConns, SameLife, SameCoros,
           Else, SameTables
  <2>4. CASE /\ Closing(Bottom, c, conn[c], "loop") /\ of'[Bottom] = c
             /\ \A u \in Task : u # Bottom => of'[u] = of[u]
    <3>1. NoNewUse
      BY <2>1, <2>2, <2>4, Names DEF NoNewUse, Closing, Moves
    <3>2. SameDestroyers
      BY <2>1, <2>2, <2>4, Names
         DEF SameDestroyers, Destroyer, Destroys, Closing, Moves, ThenMoves
    <3>3. SameConns
      BY <2>4 DEF SameConns, SameLife, Closing, Becomes
    <3> QED
      BY <2>1, <2>4, <3>1, <3>2, <3>3, LifeKeeps, Names DEF BaseInv, Else, SameTables
  <2> QED
    BY <1>18, <2>3, <2>4, EpollInDoes
<1>19. ASSUME NEW c \in Conn, Accept(c)
      PROVE  LifeInv'
  <2>1. /\ Bottom = Now /\ pc[Bottom] = "loop" /\ conn[c].status = "none"
        /\ then' = then /\ told' = told /\ connections' = connections \cup {c}
        /\ ousted' = ousted
    BY <1>19, AcceptDoes
  <2>2. PICK fd \in FreeFds, k \in ConnRec :
          /\ \A g \in Fd : wm_connections'[g] = IF g = fd THEN c ELSE wm_connections[g]
          /\ k.status = "ESTABLISHED" /\ k.fd = fd /\ k.removed = FALSE /\ k.refs = 2
          /\ k.freed = conn[c].freed
          /\ \/ \E h \in Handler : Starts(h, Bottom, c, "accepted", k)
             \/ Moves(Bottom, "accepted") /\ Becomes(c, k) /\ Stays /\ of' = of
    BY <1>19, AcceptDoes
  <2>3. /\ \A d \in Conn : d # c => conn'[d] = conn[d]
        /\ conn'[c].status = "ESTABLISHED" /\ conn'[c].fd = fd /\ conn'[c].removed = FALSE
    BY <2>2, StartsConn, Names DEF Becomes
  <2>4. Holders(c) = {} /\ c \notin connections
    BY <2>1, Names DEF LifeInv, UseInv, DestroyInv, Holders
  <2>5. UseInv'
    <3>1. CASE Moves(Bottom, "accepted") /\ of' = of
      BY <2>1, <2>3, <3>1, Names DEF LifeInv, UseInv, Moves
    <3>2. ASSUME NEW h \in Handler, Starts(h, Bottom, c, "accepted", k)
          PROVE  UseInv'
      BY <2>1, <2>3, <3>2, Names DEF LifeInv, UseInv, Starts
    <3> QED
      BY <2>2, <3>1, <3>2
  <2>6. SameDestroyers
    <3>1. CASE Moves(Bottom, "accepted") /\ of' = of
      BY <2>1, <3>1, MoveDestroyers, Names
    <3>2. ASSUME NEW h \in Handler, Starts(h, Bottom, c, "accepted", k)
          PROVE  SameDestroyers
      BY <2>1, <3>2, Names
         DEF SameDestroyers, Destroyer, Destroys, Starts, BaseInv, PlaceInv, ClosePcs
    <3> QED
      BY <2>2, <3>1, <3>2
  <2>7. DestroyInv'
    <3>1. \A t \in Task, d \in Conn : Destroyer(t, d)' <=> Destroyer(t, d)
      BY <2>6 DEF SameDestroyers
    <3>2. \A t \in Task, d \in Conn : Destroyer(t, d) => (pc'[t] = "drop" <=> pc[t] = "drop")
      BY <2>6 DEF SameDestroyers, Destroyer
    <3>3. told[c] = 0 /\ \A t \in Task : ~ Destroyer(t, c)
      BY <2>1 DEF LifeInv, DestroyInv
    <3>4. \A d \in Conn : d # c => (d \in connections' <=> d \in connections)
      BY <2>1
    <3> QED
      BY <2>1, <2>3, <3>1, <3>2, <3>3, <3>4 DEF LifeInv, DestroyInv
  <2>8. RefInv'
    <3>1. \A d \in Conn : d # c => (d \in connections' <=> d \in connections)
      BY <2>1
    <3>2. CASE Moves(Bottom, "accepted") /\ Becomes(c, k) /\ of' = of
      <4>1. \A d \in Conn : Holders(d)' = Holders(d)
        BY <3>2 DEF Holders
      <4>2. conn'[c].refs = 2 /\ conn'[c].freed = conn[c].freed /\ Cardinality({}) = 0
        BY <2>2, <3>2, FS_EmptySet DEF Becomes
      <4>3. ~ conn[c].freed
        BY <2>1 DEF LifeInv, RefInv
      <4>4. /\ IsFiniteSet(Holders(c)')
            /\ conn'[c].refs = (IF c \in connections' THEN 2 ELSE 0) + Cardinality(Holders(c)')
        <5>1. Holders(c)' = {} /\ IsFiniteSet({}) /\ Cardinality(Holders(c)') = 0
          BY <2>4, <4>1, <4>2, FS_EmptySet
        <5>2. c \in connections'
          BY <2>1
        <5> QED
          BY <4>2, <5>1, <5>2
      <4> QED
        BY <2>3, <3>1, <4>1, <4>2, <4>3, <4>4, RefOthers DEF LifeInv
    <3>3. ASSUME NEW h \in Handler, Starts(h, Bottom, c, "accepted", k)
          PROVE  RefInv'
      <4>1. /\ Holders(c)' = {h}
            /\ \A d \in Conn : d # c => Holders(d)' = Holders(d)
        BY <2>4, <3>3, StartsHolder, Names
      <4>2. IsFiniteSet({h}) /\ Cardinality({h}) = 1
        BY FS_Singleton
      <4>3. conn'[c].refs = 3 /\ ~ conn'[c].freed
        BY <2>2, <3>3, StartsConn, Names
      <4>4. /\ IsFiniteSet(Holders(c)')
            /\ conn'[c].refs = (IF c \in connections' THEN 2 ELSE 0) + Cardinality(Holders(c)')
            /\ Holders(c)' # {}
        BY <2>1, <4>1, <4>2, <4>3
      <4> QED
        BY <2>3, <3>1, <4>1, <4>3, <4>4, RefOthers DEF LifeInv
    <3> QED
      BY <2>2, <3>2, <3>3
  <2>9. TableInv'
    <3>1. fd \in Fd /\ \A d \in Conn : conn[d].fd = fd => conn[d].removed
      BY DEF FreeFds
    <3>2. ASSUME NEW g \in Fd, wm_connections'[g] # NoConn, g # fd
          PROVE  /\ wm_connections'[g] = wm_connections[g] /\ wm_connections[g] \in Conn
                 /\ wm_connections[g] # c
      BY <2>2, <2>4, <3>2 DEF LifeInv, TableInv, BaseInv, CnTypeOK
    <3>3. ASSUME NEW g \in Fd, wm_connections'[g] # NoConn
          PROVE  /\ conn'[wm_connections'[g]].fd = g /\ wm_connections'[g] \in connections'
                 /\ \A d \in Conn : conn'[d].fd = g /\ ~ conn'[d].removed => d = wm_connections'[g]
      <4>1. CASE g = fd
        BY <2>1, <2>2, <2>3, <3>1, <4>1
      <4>2. CASE g # fd
        BY <2>1, <2>3, <3>2, <3>3, <4>2 DEF LifeInv, TableInv
      <4> QED
        BY <4>1, <4>2
    <3> QED
      BY <3>3 DEF TableInv
  <2>10. EntryInv'
    <3>1. fd \in Fd /\ \A d \in Conn : conn[d].fd = fd => conn[d].removed
      BY DEF FreeFds
    <3>2. ASSUME NEW d \in Conn, d # c, conn'[d].status = "ESTABLISHED"
          PROVE  /\ conn'[d].fd \in Fd
                 /\ \/ conn'[d].removed \/ d \in ousted'
                    \/ wm_connections'[conn'[d].fd] = d
      <4>1. /\ conn'[d] = conn[d] /\ conn[d].fd \in Fd
            /\ conn[d].removed \/ d \in ousted \/ wm_connections[conn[d].fd] = d
        BY <2>1, <2>3, <3>2 DEF LifeInv, EntryInv
      <4> QED
        BY <2>1, <2>2, <3>1, <4>1
    <3>3. conn'[c].fd \in Fd /\ wm_connections'[conn'[c].fd] = c
      BY <2>2, <2>3, <3>1
    <3> QED
      BY <3>2, <3>3 DEF EntryInv
  <2> QED
    BY <2>5, <2>7, <2>8, <2>9, <2>10 DEF LifeInv
<1>20. ASSUME NEW c \in Conn, StartRead(c)
      PROVE  LifeInv'
  <2>1. NoNewUse
    BY <1>20, StartReadDoes, Names DEF NoNewUse, BaseInv, PlaceInv, LifeInv, UseInv,
       SameCoros
  <2>2. SameDestroyers
    BY <1>20, StartReadDoes, Names DEF SameDestroyers, Destroyer, Destroys, BaseInv,
       PlaceInv, CnTypeOK, ClosePcs, SameCoros
  <2>3. SameConns
    BY <1>20, StartReadDoes DEF SameConns, SameLife
  <2>4. /\ told' = told /\ connections' = connections
        /\ wm_connections' = wm_connections /\ ousted' = ousted
    BY <1>20, StartReadDoes DEF Else, SameTables
  <2>5. \A g \in Handler : of'[g] = of[g]
    BY <1>20, StartReadDoes, Names DEF SameCoros
  <2> QED
    BY <2>1, <2>2, <2>3, <2>4, <2>5, LifeKeeps DEF BaseInv
<1>21. ASSUME NEW c \in Conn, Peer(c)
      PROVE  LifeInv'
  <2>1. NoNewUse
    BY <1>21, PeerDoes, Names DEF NoNewUse, BaseInv, PlaceInv, LifeInv, UseInv, SameCoros
  <2>2. SameDestroyers
    BY <1>21, PeerDoes, Names DEF SameDestroyers, Destroyer, Destroys, BaseInv, PlaceInv,
       CnTypeOK, ClosePcs, SameCoros
  <2>3. SameConns
    BY <1>21, PeerDoes DEF SameConns, SameLife
  <2>4. /\ told' = told /\ connections' = connections
        /\ wm_connections' = wm_connections /\ ousted' = ousted
    BY <1>21, PeerDoes DEF SameTables
  <2>5. \A g \in Handler : of'[g] = of[g]
    BY <1>21, PeerDoes, Names DEF SameCoros
  <2> QED
    BY <2>1, <2>2, <2>3, <2>4, <2>5, LifeKeeps DEF BaseInv
<1>22. ASSUME NEW h \in Other, SendReturns(h)
      PROVE  LifeInv'
  <2>1. NoNewUse
    BY <1>22, SendReturnsDoes, Names DEF NoNewUse, BaseInv, PlaceInv, LifeInv, UseInv,
       Moves, SameCoros
  <2>2. SameDestroyers
    BY <1>22, SendReturnsDoes, Names DEF SameDestroyers, Destroyer, Destroys, BaseInv,
       PlaceInv, CnTypeOK, ClosePcs, Moves, SameCoros
  <2>3. SameConns
    BY <1>22, SendReturnsDoes DEF SameConns, SameLife, Becomes
  <2>4. /\ told' = told /\ connections' = connections
        /\ wm_connections' = wm_connections /\ ousted' = ousted
    BY <1>22, SendReturnsDoes DEF Else, SameTables
  <2>5. \A g \in Handler : of'[g] = of[g]
    BY <1>22, SendReturnsDoes, Names DEF SameCoros
  <2> QED
    BY <2>1, <2>2, <2>3, <2>4, <2>5, LifeKeeps DEF BaseInv
<1>23. ASSUME NEW h \in Other, SendWaits(h)
      PROVE  LifeInv'
  <2>1. NoNewUse
    BY <1>23, SendWaitsDoes, Names DEF NoNewUse, BaseInv, PlaceInv, LifeInv, UseInv,
       Moves, SameCoros
  <2>2. SameDestroyers
    BY <1>23, SendWaitsDoes, Names DEF SameDestroyers, Destroyer, Destroys, BaseInv,
       PlaceInv, CnTypeOK, ClosePcs, Moves, SameCoros
  <2>3. SameConns
    BY <1>23, SendWaitsDoes DEF SameConns, SameLife
  <2>4. /\ told' = told /\ connections' = connections
        /\ wm_connections' = wm_connections /\ ousted' = ousted
    BY <1>23, SendWaitsDoes DEF Else, SameTables
  <2>5. \A g \in Handler : of'[g] = of[g]
    BY <1>23, SendWaitsDoes, Names DEF SameCoros
  <2> QED
    BY <2>1, <2>2, <2>3, <2>4, <2>5, LifeKeeps DEF BaseInv
<1>24. ASSUME NEW h \in Other, SendGoesOn(h)
      PROVE  LifeInv'
  <2>1. NoNewUse
    BY <1>24, SendGoesOnDoes, Names DEF NoNewUse, BaseInv, PlaceInv, LifeInv, UseInv,
       Moves, SameCoros
  <2>2. SameDestroyers
    BY <1>24, SendGoesOnDoes, Names DEF SameDestroyers, Destroyer, Destroys, BaseInv,
       PlaceInv, CnTypeOK, ClosePcs, Moves, SameCoros
  <2>3. SameConns
    BY <1>24, SendGoesOnDoes DEF SameConns, SameLife
  <2>4. /\ told' = told /\ connections' = connections
        /\ wm_connections' = wm_connections /\ ousted' = ousted
    BY <1>24, SendGoesOnDoes DEF Else, SameTables
  <2>5. \A g \in Handler : of'[g] = of[g]
    BY <1>24, SendGoesOnDoes, Names DEF SameCoros
  <2> QED
    BY <2>1, <2>2, <2>3, <2>4, <2>5, LifeKeeps DEF BaseInv
<1>25. ASSUME NEW h \in Other, Send(h)
      PROVE  LifeInv'
  <2>1. PICK c \in Conn : c = of[h] /\ h = Now /\ pc[h] \in {"php", "input"} /\ Else
    BY <1>25, SendDoes, InPhpIs, Names
  <2>2. SameTables /\ told' = told
    BY <2>1 DEF Else
  <2>3. CASE /\ then' = then
             /\ \/ \E g \in Handler : Starts(g, h, c, "send", conn[c])
                \/ Moves(h, "send") /\ Becomes(c, conn[c]) /\ Stays /\ of' = of
    <3>1. h \in Task /\ {pc[h], "send"} \cap {"gone", "unpause", "onClose", "drop"} = {}
      BY <2>1, Names
    <3> QED
      BY <2>1, <2>2, <2>3, <3>1, CallbackLife
  <2>4. CASE Closing(h, c, conn[c], "onError") /\ of' = of
    <3>1. NoNewUse
      BY <2>1, <2>4, Names DEF NoNewUse, Closing, Moves
    <3>2. SameDestroyers
      BY <2>1, <2>4, Names
         DEF SameDestroyers, Destroyer, Destroys, Closing, Moves, ThenMoves, BaseInv, PlaceInv, ClosePcs
    <3>3. SameConns
      BY <2>4 DEF SameConns, SameLife, Closing, Becomes
    <3> QED
      BY <2>2, <2>4, <3>1, <3>2, <3>3, LifeKeeps, Names DEF BaseInv, SameTables
  <2> QED
    BY <1>25, <2>1, <2>3, <2>4, SendDoes
<1>26. ASSUME NEW h \in Other, Close(h)
      PROVE  LifeInv'
  <2>1. NoNewUse
    BY <1>26, CloseCallDoes, Names DEF NoNewUse, BaseInv, PlaceInv, LifeInv, UseInv,
       Moves, SameCoros
  <2>2. SameDestroyers
    BY <1>26, CloseCallDoes, Names DEF SameDestroyers, Destroyer, Destroys, BaseInv,
       PlaceInv, CnTypeOK, ClosePcs, Moves, SameCoros
  <2>3. SameConns
    BY <1>26, CloseCallDoes DEF SameConns, SameLife
  <2>4. /\ told' = told /\ connections' = connections
        /\ wm_connections' = wm_connections /\ ousted' = ousted
    BY <1>26, CloseCallDoes DEF Else, SameTables
  <2>5. \A g \in Handler : of'[g] = of[g]
    BY <1>26, CloseCallDoes, Names DEF SameCoros
  <2> QED
    BY <2>1, <2>2, <2>3, <2>4, <2>5, LifeKeeps DEF BaseInv
<1>27. ASSUME NEW h \in Other, PauseRecv(h)
      PROVE  LifeInv'
  <2>1. NoNewUse
    BY <1>27, PauseRecvDoes, Names DEF NoNewUse, BaseInv, PlaceInv, LifeInv, UseInv,
       SameCoros
  <2>2. SameDestroyers
    BY <1>27, PauseRecvDoes, Names DEF SameDestroyers, Destroyer, Destroys, BaseInv,
       PlaceInv, CnTypeOK, ClosePcs, SameCoros
  <2>3. SameConns
    BY <1>27, PauseRecvDoes DEF SameConns, SameLife, Becomes, Flagged
  <2>4. /\ told' = told /\ connections' = connections
        /\ wm_connections' = wm_connections /\ ousted' = ousted
    BY <1>27, PauseRecvDoes DEF SameTables
  <2>5. \A g \in Handler : of'[g] = of[g]
    BY <1>27, PauseRecvDoes, Names DEF SameCoros
  <2> QED
    BY <2>1, <2>2, <2>3, <2>4, <2>5, LifeKeeps DEF BaseInv
<1>28. ASSUME NEW h \in Other, ResumeRecv(h)
      PROVE  LifeInv'
  <2>1. NoNewUse
    BY <1>28, ResumeRecvDoes, Names DEF NoNewUse, BaseInv, PlaceInv, LifeInv, UseInv,
       SameCoros
  <2>2. SameDestroyers
    BY <1>28, ResumeRecvDoes, Names DEF SameDestroyers, Destroyer, Destroys, BaseInv,
       PlaceInv, CnTypeOK, ClosePcs, SameCoros
  <2>3. SameConns
    BY <1>28, ResumeRecvDoes DEF SameConns, SameLife, Becomes, Flagged
  <2>4. /\ told' = told /\ connections' = connections
        /\ wm_connections' = wm_connections /\ ousted' = ousted
    BY <1>28, ResumeRecvDoes DEF Else, SameTables
  <2>5. \A g \in Handler : of'[g] = of[g]
    BY <1>28, ResumeRecvDoes, Names DEF SameCoros
  <2> QED
    BY <2>1, <2>2, <2>3, <2>4, <2>5, LifeKeeps DEF BaseInv
<1>29. ASSUME NEW h \in Other, Sleeps(h)
      PROVE  LifeInv'
  <2>1. NoNewUse
    BY <1>29, SleepsDoes, Names DEF NoNewUse, BaseInv, PlaceInv, LifeInv, UseInv,
       SameCoros
  <2>2. SameDestroyers
    BY <1>29, SleepsDoes, Names DEF SameDestroyers, Destroyer, Destroys, BaseInv,
       PlaceInv, CnTypeOK, ClosePcs, SameCoros
  <2>3. SameConns
    BY <1>29, SleepsDoes DEF SameConns, SameLife
  <2>4. /\ told' = told /\ connections' = connections
        /\ wm_connections' = wm_connections /\ ousted' = ousted
    BY <1>29, SleepsDoes DEF Else, SameTables
  <2>5. \A g \in Handler : of'[g] = of[g]
    BY <1>29, SleepsDoes, Names DEF SameCoros
  <2> QED
    BY <2>1, <2>2, <2>3, <2>4, <2>5, LifeKeeps DEF BaseInv
<1>30. ASSUME NEW h \in Other, Ends(h)
      PROVE  LifeInv'
  <2>1. PICK c \in Conn :
          /\ h \in Handler /\ c = of[h] /\ h = Now /\ pc[h] = "php" /\ Moves(h, "gone")
          /\ then' = then /\ Else
          /\ of'[h] = NoConn /\ \A u \in Task : u # h => of'[u] = of[u]
    BY <1>30, EndsDoes
  <2>2. PICK k \in ConnRec :
          /\ Becomes(c, k) /\ k.removed = conn[c].removed /\ k.status = conn[c].status
          /\ k.fd = conn[c].fd /\ k.refs = conn[c].refs - 1
          /\ k.freed <=> conn[c].refs = 1
    BY <1>30, <2>1, EndsDoes
  <2>3. h \in Task /\ h \notin Conn /\ NoConn \notin Conn
    BY <2>1, Names
  <2>4. /\ told' = told /\ connections' = connections
        /\ wm_connections' = wm_connections /\ ousted' = ousted
    BY <2>1 DEF Else, SameTables
  <2>5. /\ \A d \in Conn : d # c => conn'[d] = conn[d]
        /\ conn'[c].status = conn[c].status /\ conn'[c].fd = conn[c].fd
        /\ conn'[c].removed = conn[c].removed /\ conn'[c].refs = conn[c].refs - 1
        /\ conn'[c].freed <=> conn[c].refs = 1
    BY <2>2 DEF Becomes
  <2>6. SameStatus /\ NoNewUse
    BY <2>1, <2>3, <2>5, Names DEF SameStatus, NoNewUse, Moves
  <2>7. SameDestroyers
    BY <2>1, <2>3, Names DEF SameDestroyers, Destroyer, Destroys, Moves, BaseInv, PlaceInv, ClosePcs
  <2>8. UseInv' /\ DestroyInv'
    BY <2>4, <2>6, <2>7, UseKeeps, DestroyKeeps DEF LifeInv, SameStatus
  <2>9. TableInv'
    BY <2>4, <2>5 DEF LifeInv, TableInv, BaseInv, CnTypeOK
  <2>10. RefInv'
    <3>1. /\ Holders(c)' = Holders(c) \ {h} /\ h \in Holders(c)
          /\ \A d \in Conn : d # c => Holders(d)' = Holders(d)
      BY <2>1, <2>3, Names DEF Holders
    <3>2. IsFiniteSet(Holders(c)) /\ Cardinality(Holders(c)) \in Nat
      BY FS_CardinalityType DEF LifeInv, RefInv
    <3>3. /\ IsFiniteSet(Holders(c)') /\ Cardinality(Holders(c)') = Cardinality(Holders(c)) - 1
      BY <3>1, <3>2, FS_RemoveElement
    <3>4. Cardinality(Holders(c)') = 0 <=> Holders(c)' = {}
      BY <3>3, FS_EmptySet
    <3>5. conn[c].refs = (IF c \in connections THEN 2 ELSE 0) + Cardinality(Holders(c))
      BY DEF LifeInv, RefInv
    <3>6. /\ conn'[c].refs = (IF c \in connections THEN 2 ELSE 0) + Cardinality(Holders(c)')
          /\ conn'[c].freed <=> c \notin connections /\ Holders(c)' = {}
      BY <2>5, <3>2, <3>3, <3>4, <3>5
    <3>7. c \notin connections => conn[c].status = "CLOSED"
      BY <2>1, <2>3 DEF LifeInv, UseInv, DestroyInv, BaseInv, CnTypeOK, ConnRec
    <3> QED
      BY <2>4, <2>5, <3>1, <3>3, <3>6, <3>7, RefOthers DEF LifeInv
  <2>11. EntryInv'
    BY <2>4, <2>5, <2>6, EntryKeeps DEF LifeInv, SameStatus
  <2> QED
    BY <2>8, <2>9, <2>10, <2>11 DEF LifeInv
<1>31. ASSUME NEW h \in Other, Wakes(h)
      PROVE  LifeInv'
  <2>1. NoNewUse
    BY <1>31, WakesDoes, Names DEF NoNewUse, BaseInv, PlaceInv, LifeInv, UseInv, SameCoros
  <2>2. SameDestroyers
    BY <1>31, WakesDoes, Names DEF SameDestroyers, Destroyer, Destroys, BaseInv, PlaceInv,
       CnTypeOK, ClosePcs, SameCoros
  <2>3. SameConns
    BY <1>31, WakesDoes DEF SameConns, SameLife
  <2>4. /\ told' = told /\ connections' = connections
        /\ wm_connections' = wm_connections /\ ousted' = ousted
    BY <1>31, WakesDoes DEF Else, SameTables
  <2>5. \A g \in Handler : of'[g] = of[g]
    BY <1>31, WakesDoes, Names DEF SameCoros
  <2> QED
    BY <2>1, <2>2, <2>3, <2>4, <2>5, LifeKeeps DEF BaseInv
<1>32. CASE Reload \/ Exit \/ \E c \in Conn : Fails(c)
  <2>1. NoNewUse
    BY <1>32, ReloadExitDoes, Names DEF NoNewUse, BaseInv, PlaceInv, LifeInv, UseInv,
       SameCoros
  <2>2. SameDestroyers
    BY <1>32, ReloadExitDoes, Names DEF SameDestroyers, Destroyer, Destroys, BaseInv,
       PlaceInv, CnTypeOK, ClosePcs, SameCoros
  <2>3. SameConns
    BY <1>32, ReloadExitDoes DEF SameConns, SameLife
  <2>4. /\ told' = told /\ connections' = connections
        /\ wm_connections' = wm_connections /\ ousted' = ousted
    BY <1>32, ReloadExitDoes DEF Else, SameTables
  <2>5. \A g \in Handler : of'[g] = of[g]
    BY <1>32, ReloadExitDoes, Names DEF SameCoros
  <2> QED
    BY <2>1, <2>2, <2>3, <2>4, <2>5, LifeKeeps DEF BaseInv
<1>33. CASE Stop
  <2>1. NoNewUse
    BY <1>33, StopDoes, Names DEF NoNewUse, BaseInv, PlaceInv, LifeInv, UseInv, Moves,
       SameCoros
  <2>2. SameDestroyers
    BY <1>33, StopDoes, Names DEF SameDestroyers, Destroyer, Destroys, BaseInv, PlaceInv,
       CnTypeOK, ClosePcs, Moves, SameCoros
  <2>3. SameConns
    BY <1>33, StopDoes DEF SameConns, SameLife
  <2>4. /\ told' = told /\ connections' = connections
        /\ wm_connections' = wm_connections /\ ousted' = ousted
    BY <1>33, StopDoes DEF Else, SameTables
  <2>5. \A g \in Handler : of'[g] = of[g]
    BY <1>33, StopDoes, Names DEF SameCoros
  <2> QED
    BY <2>1, <2>2, <2>3, <2>4, <2>5, LifeKeeps DEF BaseInv
<1>34. CASE CloseConnections
  <2>1. /\ pc[Bottom] = "stop" /\ Moves(Bottom, "destroy") /\ conn' = conn /\ then' = then
        /\ told' = told /\ connections' = connections /\ ousted' = ousted
    BY <1>34, CloseConnectionsDoes
  <2>2. PICK fd \in Fd :
          /\ wm_connections[fd] \in Conn
          /\ \A g \in Fd : wm_connections'[g] = IF g = fd THEN NoConn ELSE wm_connections[g]
          /\ of'[Bottom] = wm_connections[fd]
          /\ \A u \in Task : u # Bottom => of'[u] = of[u]
    BY <1>34, CloseConnectionsDoes
  <2>3. conn[wm_connections[fd]].status # "none"
    BY <2>2, Names DEF LifeInv, TableInv, DestroyInv
  <2>4. NoNewUse
    BY <2>1, <2>2, <2>3, Names DEF NoNewUse, Moves
  <2>5. SameDestroyers
    BY <2>1, <2>2, Names
       DEF SameDestroyers, Destroyer, Destroys, Moves, BaseInv, PlaceInv, ClosePcs
  <2>6. SameConns /\ SameStatus
    BY <2>1 DEF SameConns, SameLife, SameStatus
  <2>7. UseInv' /\ DestroyInv'
    BY <2>1, <2>4, <2>5, <2>6, UseKeeps, DestroyKeeps DEF LifeInv, SameStatus
  <2>8. RefInv' /\ TableInv'
    BY <2>1, <2>2, <2>6, RefKeeps, TableKeeps, Names DEF LifeInv, BaseInv
  <2>9. EntryInv'
    <3>1. pc[Bottom] # "destroy" /\ pc'[Bottom] = "destroy"
      BY <2>1 DEF Moves
    <3> QED
      BY <2>1, <2>2, <3>1 DEF LifeInv, EntryInv
  <2> QED
    BY <2>7, <2>8, <2>9 DEF LifeInv
<1>35. ASSUME NEW c \in Conn, ReadWaits(c)
      PROVE  LifeInv'
  <2>1. NoNewUse
    BY <1>35, ReadWaitsDoes, Names DEF NoNewUse, BaseInv, PlaceInv, LifeInv, UseInv,
       Moves, SameCoros
  <2>2. SameDestroyers
    BY <1>35, ReadWaitsDoes, Names DEF SameDestroyers, Destroyer, Destroys, BaseInv,
       PlaceInv, CnTypeOK, ClosePcs, Moves, SameCoros
  <2>3. SameConns
    BY <1>35, ReadWaitsDoes DEF SameConns, SameLife, Becomes
  <2>4. /\ told' = told /\ connections' = connections
        /\ wm_connections' = wm_connections /\ ousted' = ousted
    BY <1>35, ReadWaitsDoes DEF Else, SameTables
  <2>5. \A g \in Handler : of'[g] = of[g]
    BY <1>35, ReadWaitsDoes, Names DEF SameCoros
  <2> QED
    BY <2>1, <2>2, <2>3, <2>4, <2>5, LifeKeeps DEF BaseInv
<1>36. ASSUME NEW h \in Other, ConsumeRecvBuffer(h)
      PROVE  LifeInv'
  <2>1. /\ SameCoros /\ pc' = pc /\ conn' = conn
        /\ told' = told /\ connections' = connections /\ wm_connections' = wm_connections
        /\ ousted' = ousted
    BY <1>36, ConsumeRecvBufferDoes DEF SameTables
  <2>2. NoNewUse /\ SameDestroyers /\ SameConns
    BY <2>1 DEF NoNewUse, SameDestroyers, SameConns, SameLife, Destroyer, Destroys, SameCoros
  <2>3. \A g \in Handler : of'[g] = of[g]
    BY <2>1 DEF SameCoros
  <2> QED
    BY <2>1, <2>2, <2>3, LifeKeeps DEF BaseInv
<1> QED
  BY <1>1, <1>2, <1>3, <1>4, <1>5, <1>6, <1>7, <1>8, <1>9, <1>10, <1>11, <1>12, <1>13,
     <1>14, <1>15, <1>16, <1>17, <1>18, <1>19, <1>20, <1>21, <1>22, <1>23, <1>24,
     <1>25, <1>26, <1>27, <1>28, <1>29, <1>30, <1>31, <1>32, <1>33, <1>34,
     <1>35, <1>36
     DEF CnNext, Closes, Reads, Sends, Php

-----------------------------------------------------------------------------
(***************************************************************************)
(* Who will resume a reader that is suspended.                             *)
(***************************************************************************)
WaitInv == CloseInv /\ HeardInv

\* A step that begins no close, and ends none that a reader waits for.
SameWaits ==
  /\ \A t \in Task : pc[t] = "close_read" => pc'[t] = "close_read" /\ of'[t] = of[t]
  /\ \A t \in Task : "unpause" \in {then[t], pc[t]} =>
       of'[t] = of[t] /\ "unpause" \in {then'[t], pc'[t]}

NoNewClose ==
  \A t \in Task \ Conn : pc'[t] = "close_read" =>
    pc[t] = "close_read" /\ of'[t] = of[t] /\ then'[t] = then[t]

SameClosed ==
  \A c \in Conn :
    /\ conn'[c].status = conn[c].status
    /\ conn'[c].watched => conn[c].watched
    /\ conn[c].closed => conn'[c].closed

SameHearing(c) ==
  c \in suspended' =>
    /\ c \in suspended /\ pc'[c] = pc[c] /\ conn'[c].status = conn[c].status
    /\ conn'[c].watched = conn[c].watched /\ conn'[c].isPaused = conn[c].isPaused
    /\ conn'[c].pausedCoro = conn[c].pausedCoro

LEMMA CloseKeeps ==
  ASSUME BaseInv, CloseInv, NoNewClose, SameClosed
  PROVE  CloseInv'
<1>1. \A t \in Task \ Conn : pc[t] = "close_read" => of[t] \in Conn
  BY AtWork DEF BaseInv, DestroyPcs, ClosePcs
<1> QED
  BY <1>1 DEF CloseInv, NoNewClose, SameClosed

LEMMA HeardKeeps ==
  ASSUME HeardInv, SameWaits, NEW c \in Conn, SameHearing(c), c \in suspended'
  PROVE  Heard(c)'
<1>1. Heard(c)
  BY DEF HeardInv, SameHearing
<1>2. (\E t \in Task \ Conn : pc[t] = "close_read" /\ of[t] = c) =>
        \E t \in Task \ Conn : pc'[t] = "close_read" /\ of'[t] = c
  BY DEF SameWaits
<1>3. Destroying(c) => Destroying(c)'
  BY DEF SameWaits, Destroying
<1> QED
  BY <1>1, <1>2, <1>3 DEF Heard, SameHearing

LEMMA WaitKeeps ==
  ASSUME BaseInv, WaitInv, SameWaits, NoNewClose, SameClosed, \A c \in Conn : SameHearing(c)
  PROVE  WaitInv'
<1>1. CloseInv'
  BY CloseKeeps DEF WaitInv
<1>2. HeardInv'
  BY HeardKeeps DEF WaitInv, HeardInv
<1> QED
  BY <1>1, <1>2 DEF WaitInv

\* The task that runs is elsewhere.
LEMMA QuietMove ==
  ASSUME BaseInv, NEW t \in Task, t = Now, NEW w, Moves(t, w), of' = of, then' = then,
         pc[t] \notin ClosePcs \cup {"unpause"}, w # "close_read"
  PROVE  SameWaits /\ NoNewClose
<1>1. \A u \in Task : pc[u] # "close_read" \/ u = t
  BY DEF BaseInv, NowInv, NowPcs
<1>2. then[t] = "nowhere"
  BY DEF BaseInv, PlaceInv
<1> QED
  BY <1>1, <1>2 DEF SameWaits, NoNewClose, Moves, ClosePcs

LEMMA QuietStart ==
  ASSUME BaseInv, NEW t \in Task, t = Now, NEW h \in Handler, NEW c \in Conn, NEW back, NEW k,
         Starts(h, t, c, back, k), then' = then,
         pc[t] \notin ClosePcs \cup {"unpause"}, back # "close_read"
  PROVE  SameWaits /\ NoNewClose
<1>1. \A u \in Task : pc[u] # "close_read" \/ u = t
  BY DEF BaseInv, NowInv, NowPcs
<1>2. h \in Task /\ pc[h] = "gone" /\ then[t] = "nowhere" /\ then[h] = "nowhere"
  BY Names DEF BaseInv, PlaceInv, Starts, ClosePcs
<1> QED
  BY <1>1, <1>2 DEF SameWaits, NoNewClose, Starts, ClosePcs

LEMMA CallbackWait ==
  ASSUME BaseInv, WaitInv, NEW t \in Task, t = Now, NEW c \in Conn, NEW back,
         pc[t] \notin ClosePcs \cup {"unpause"}, back # "close_read", then' = then,
         \/ \E h \in Handler : Starts(h, t, c, back, conn[c])
         \/ Moves(t, back) /\ Becomes(c, conn[c]) /\ Stays /\ of' = of
  PROVE  WaitInv'
<1>1. t \notin suspended
  BY NowRuns DEF BaseInv
<1>2. ASSUME NEW h \in Handler, Starts(h, t, c, back, conn[c])
      PROVE  WaitInv'
  <2>1. SameWaits /\ NoNewClose
    BY <1>2, QuietStart
  <2>2. /\ \A d \in Conn : d # c => conn'[d] = conn[d]
        /\ conn'[c].status = conn[c].status /\ SameEar(conn'[c], conn[c])
    BY <1>2, StartsConn
  <2>3. h \notin Conn /\ suspended' = suspended
    BY <1>2, Names DEF Starts
  <2>4. SameClosed
    BY <2>2 DEF SameClosed, SameEar
  <2>5. \A d \in Conn : SameHearing(d)
    BY <1>1, <1>2, <2>2, <2>3, Names DEF SameHearing, SameEar, Starts
  <2> QED
    BY <2>1, <2>4, <2>5, WaitKeeps
<1>3. CASE Moves(t, back) /\ Becomes(c, conn[c]) /\ Stays /\ of' = of
  <2>1. SameWaits /\ NoNewClose
    BY <1>3, QuietMove
  <2>2. SameClosed
    BY <1>3 DEF SameClosed, Becomes
  <2>3. \A d \in Conn : SameHearing(d)
    BY <1>1, <1>3, Names DEF SameHearing, Becomes, Moves, Stays
  <2> QED
    BY <2>1, <2>2, <2>3, WaitKeeps
<1> QED
  BY <1>2, <1>3

LEMMA WaitStep ==
  ASSUME BaseInv, BytesTypeOK, LifeInv, WaitInv, CnNext
  PROVE  WaitInv'
<1>1. ASSUME NEW t \in Task, CloseResumes(t)
      PROVE  WaitInv'
  <2>1. PICK c \in Conn :
          /\ c = of[t] /\ t = Now /\ conn' = conn /\ of' = of /\ then' = then
          /\ \/ /\ pc[t] = "close_read" /\ Moves(t, "close_write")
                /\ IF pc[c] = "read_wait" THEN Resumes(c) ELSE Stays
             \/ /\ pc[t] = "close_write" /\ Moves(t, "close_fd")
                /\ Stays \/ \E h \in Other : Resumes(h)
    BY <1>1, CloseResumesDoes
  <2>2. /\ t \notin suspended /\ \A u \in Task : pc[u] = "close_read" => u = t
        /\ \A u \in Task : u # t => pc'[u] = pc[u]
        /\ pc[t] \in {"close_read", "close_write"} /\ pc'[t] \in {"close_write", "close_fd"}
        /\ suspended' \subseteq suspended
    BY <2>1, NowRuns DEF BaseInv, NowInv, NowPcs, Moves, Stays, Resumes
  <2>3. CloseInv'
    BY <2>1, <2>2 DEF WaitInv, CloseInv
  <2>4. ASSUME NEW d \in Conn, d \in suspended'
        PROVE  Heard(d)'
    <3>1. Heard(d) /\ d # t /\ pc'[d] = pc[d]
      BY <2>2, <2>4, Names DEF WaitInv, HeardInv
    <3>2. Destroying(d) => Destroying(d)'
      BY <2>1, <2>2 DEF Destroying
    <3>3. pc[d] = "read_wait" => conn[d].watched
      <4>1. pc[d] = "read_wait" /\ pc[t] = "close_read" => d # c
        BY <2>1, <2>4 DEF Resumes
      <4> QED
        BY <2>1, <2>2, <3>1, <4>1 DEF Heard
    <3> QED
      BY <2>1, <3>1, <3>2, <3>3 DEF Heard
  <2> QED
    BY <2>3, <2>4 DEF WaitInv, HeardInv
<1>2. ASSUME NEW t \in Task, CloseFd(t)
      PROVE  WaitInv'
  <2>1. PICK c \in Conn :
          /\ c = of[t] /\ t = Now /\ pc[t] = "close_fd" /\ Moves(t, then[t])
          /\ ThenMoves(t, "nowhere") /\ of' = of /\ Stays
          /\ \A d \in Conn : SameLife(conn'[d], conn[d]) /\ SameEar(conn'[d], conn[d])
    BY <1>2, CloseFdDoes DEF Becomes, SameLife, SameEar
  <2>2. /\ t \notin suspended /\ \A u \in Task : pc[u] # "close_read"
        /\ then[t] \in {"unpause", "onError", "loop"}
    BY <2>1, NowRuns DEF BaseInv, CnTypeOK, PlaceInv, NowInv, NowPcs, ClosePcs
  <2>3. SameWaits /\ NoNewClose
    BY <2>1, <2>2 DEF SameWaits, NoNewClose, Moves, ThenMoves
  <2>4. SameClosed /\ \A d \in Conn : SameHearing(d)
    BY <2>1, <2>2, Names DEF SameClosed, SameHearing, SameLife, SameEar, Moves, Stays
  <2> QED
    BY <2>3, <2>4, WaitKeeps
<1>3. ASSUME NEW t \in Task, Destroy(t)
      PROVE  WaitInv'
  <2>1. PICK c \in Conn : c = of[t] /\ t = Now /\ pc[t] = "destroy" /\ of' = of /\ Stays
    BY <1>3, DestroyDoes
  <2>2. /\ t \notin suspended /\ then[t] = "nowhere" /\ \A u \in Task : pc[u] # "close_read"
    BY <2>1, NowRuns DEF BaseInv, PlaceInv, NowInv, NowPcs, ClosePcs
  <2>3. CASE /\ Moves(t, Home(t)) /\ conn' = conn /\ then' = then
    <3>1. SameWaits /\ NoNewClose
      BY <2>1, <2>3, PcSets, QuietMove DEF ClosePcs, NowPcs
    <3>2. SameClosed /\ \A d \in Conn : SameHearing(d)
      BY <2>1, <2>2, <2>3, Names DEF SameClosed, SameHearing, Moves, Stays
    <3> QED
      BY <3>1, <3>2, WaitKeeps
  <2>4. ASSUME conn[c].status = "ESTABLISHED", NEW k \in ConnRec,
               k.status = "CLOSED", k.closed = conn[c].closed, k.watched = conn[c].watched,
               k.pausedCoro = conn[c].pausedCoro, Closing(t, c, k, "unpause")
        PROVE  WaitInv'
    <3>1. PICK w \in {"close_read", "close_fd"}, l \in ConnRec :
            /\ Moves(t, w) /\ ThenMoves(t, "unpause") /\ Becomes(c, l)
            /\ w = "close_fd" => ~ conn[c].watched
            /\ l.status = "CLOSED" /\ l.closed /\ ~ l.watched /\ l.pausedCoro = conn[c].pausedCoro
      BY <2>4 DEF Closing, SameLife
    <3>2. SameWaits
      BY <2>1, <2>2, <3>1 DEF SameWaits, Moves, ThenMoves
    <3>3. CloseInv'
      BY <2>1, <2>2, <3>1 DEF WaitInv, CloseInv, Moves, ThenMoves, Becomes
    <3>4. ASSUME NEW d \in Conn, d \in suspended', d # c
          PROVE  Heard(d)'
      <4>1. SameHearing(d)
        BY <2>1, <2>2, <3>1, <3>4, Names DEF SameHearing, Moves, Becomes, Stays
      <4> QED
        BY <3>2, <3>4, <4>1, HeardKeeps DEF WaitInv
    <3>5. ASSUME c \in suspended'
          PROVE  Heard(c)'
      <4>1. c # t /\ Heard(c) /\ pc'[c] = pc[c]
        BY <2>1, <2>2, <3>1, <3>5, Names DEF WaitInv, HeardInv, Moves, Stays
      <4>2. t \in Task \ Conn
        BY <2>1, <4>1 DEF BaseInv, PlaceInv
      <4>3. Destroying(c)' /\ of'[t] = c
        BY <2>1, <3>1 DEF Destroying, ThenMoves
      <4>4. pc[c] = "read_wait" => pc'[t] = "close_read"
        BY <2>2, <3>1, <4>1 DEF Heard, Moves
      <4> QED
        BY <3>1, <4>1, <4>2, <4>3, <4>4 DEF Heard, Becomes
    <3> QED
      BY <3>3, <3>4, <3>5 DEF WaitInv, HeardInv
  <2> QED
    BY <1>3, <2>1, <2>3, <2>4, DestroyDoes
<1>4. ASSUME NEW t \in Task, DestroyResumes(t)
      PROVE  WaitInv'
  <2>1. PICK c \in Conn :
          /\ c = of[t] /\ t = Now /\ pc[t] = "unpause" /\ Moves(t, "onClose")
          /\ conn' = conn /\ of' = of /\ then' = then
          /\ IF conn[c].pausedCoro THEN Resumes(c) ELSE Stays
    BY <1>4, DestroyResumesDoes
  <2>2. /\ t \notin suspended /\ then[t] = "nowhere" /\ \A u \in Task : pc[u] # "close_read"
        /\ \A u \in Task : u # t => pc'[u] = pc[u]
        /\ pc'[t] = "onClose" /\ suspended' \subseteq suspended
    BY <2>1, NowRuns DEF BaseInv, PlaceInv, NowInv, NowPcs, ClosePcs, Moves, Stays, Resumes
  <2>3. CloseInv'
    BY <2>1, <2>2 DEF WaitInv, CloseInv
  <2>4. ASSUME NEW d \in Conn, d \in suspended'
        PROVE  Heard(d)'
    <3>1. Heard(d) /\ d # t /\ pc'[d] = pc[d]
      BY <2>2, <2>4, Names DEF WaitInv, HeardInv
    <3>2. d # c /\ Destroying(d) => Destroying(d)'
      BY <2>1, <2>2 DEF Destroying
    <3>3. d = c => pc[d] \notin PausedPcs
      BY <2>1, <2>4, <3>1 DEF Heard, Resumes
    <3>4. pc[d] = "read_wait" => conn[d].watched
      BY <2>2, <3>1 DEF Heard
    <3> QED
      BY <2>1, <3>1, <3>2, <3>3, <3>4 DEF Heard
  <2> QED
    BY <2>3, <2>4 DEF WaitInv, HeardInv
<1>5. ASSUME NEW t \in Task, OnClose(t)
      PROVE  WaitInv'
  <2>1. PICK c \in Conn :
          /\ c = of[t] /\ t = Now /\ pc[t] = "onClose" /\ then' = then
          /\ \/ \E h \in Handler : Starts(h, t, c, "drop", conn[c])
             \/ Moves(t, "drop") /\ Becomes(c, conn[c]) /\ Stays /\ of' = of
    BY <1>5, OnCloseDoes
  <2>2. pc[t] \notin ClosePcs \cup {"unpause"} /\ "drop" # "close_read"
    BY <2>1 DEF ClosePcs
  <2> QED
    BY <2>1, <2>2, CallbackWait
<1>6. ASSUME NEW t \in Task, DestroyDrops(t)
      PROVE  WaitInv'
  <2>1. SameWaits /\ NoNewClose
    BY <1>6, DestroyDropsDoes, QuietMove, Names, PcSets DEF ClosePcs, NowPcs
  <2>2. SameClosed
    BY <1>6, DestroyDropsDoes DEF SameClosed, SameLife, SameEar, Becomes
  <2>3. \A d \in Conn : SameHearing(d)
    BY <1>6, DestroyDropsDoes, NowRuns, Names DEF BaseInv, SameHearing, SameLife, SameEar,
       Becomes, Moves, Stays
  <2> QED
    BY <2>1, <2>2, <2>3, WaitKeeps
<1>7. ASSUME NEW t \in Task, OnError(t)
      PROVE  WaitInv'
  <2>1. PICK c \in Conn : c = of[t] /\ t = Now /\ then' = then
    BY <1>7, OnErrorDoes
  <2>2. CASE /\ pc[t] = "onError"
             /\ \/ \E h \in Handler : Starts(h, t, c, "errored", conn[c])
                \/ Moves(t, "errored") /\ Becomes(c, conn[c]) /\ Stays /\ of' = of
    <3>1. pc[t] \notin ClosePcs \cup {"unpause"} /\ "errored" # "close_read"
      BY <2>2 DEF ClosePcs
    <3> QED
      BY <2>1, <2>2, <3>1, CallbackWait
  <2>3. ASSUME NEW w \in {"destroy", Home(t)}, pc[t] = "errored", conn' = conn, of' = of, Stays,
               Moves(t, w)
        PROVE  WaitInv'
    <3>1. SameWaits /\ NoNewClose
      BY <2>1, <2>3, PcSets, QuietMove DEF ClosePcs, NowPcs
    <3>2. SameClosed /\ \A d \in Conn : SameHearing(d)
      BY <2>1, <2>3, NowRuns, Names DEF BaseInv, SameClosed, SameHearing, Moves, Stays
    <3> QED
      BY <3>1, <3>2, WaitKeeps
  <2>4. \/ /\ pc[t] = "onError"
           /\ \/ \E h \in Handler : Starts(h, t, c, "errored", conn[c])
              \/ Moves(t, "errored") /\ Becomes(c, conn[c]) /\ Stays /\ of' = of
        \/ /\ pc[t] = "errored" /\ conn' = conn /\ of' = of /\ Stays
           /\ Moves(t, "destroy") \/ Moves(t, Home(t))
    BY <1>7, <2>1, OnErrorDoes
  <2> QED
    BY <2>2, <2>3, <2>4
<1>8. ASSUME NEW c \in Conn, NEW at \in Checks, check_read_status(c, at)
      PROVE  WaitInv'
  <2>1. /\ c = Now /\ pc[c] = at /\ of' = of /\ then' = then
        /\ \A d \in Conn : d # c => conn'[d] = conn[d]
        /\ SameClosed
        /\ \E w \in {Paused(at), true(at), false(at)} : Moves(c, w)
        /\ suspended' = suspended
             \/ (/\ suspended' = suspended \cup {c} /\ Moves(c, Paused(at))
                 /\ Readable(c) /\ conn'[c].isPaused /\ conn'[c].pausedCoro)
    BY <1>8, CheckDoes DEF SameClosed, SameLife, Becomes, Subsides, Stays
  <2>2. PICK w \in {Paused(at), true(at), false(at)} : Moves(c, w)
    BY <2>1
  <2>3. pc[c] \notin ClosePcs \cup {"unpause"} /\ w # "close_read"
    BY <2>1, CheckPlaces DEF Checks, ClosePcs, NowPcs
  <2>4. SameWaits /\ NoNewClose
    BY <2>1, <2>2, <2>3, QuietMove, Names
  <2>5. CloseInv'
    BY <2>1, <2>4, CloseKeeps DEF WaitInv
  <2>6. c \notin suspended /\ \A d \in Conn : d # c => pc'[d] = pc[d]
    BY <2>1, <2>2, NowRuns, Names DEF BaseInv, Moves
  <2>7. ASSUME NEW d \in Conn, d \in suspended', d # c
        PROVE  Heard(d)'
    <3>1. SameHearing(d)
      BY <2>1, <2>6, <2>7 DEF SameHearing
    <3> QED
      BY <2>4, <2>7, <3>1, HeardKeeps DEF WaitInv
  <2>8. ASSUME c \in suspended'
        PROVE  Heard(c)'
    <3>1. /\ pc'[c] = Paused(at) /\ conn'[c].isPaused /\ conn'[c].pausedCoro
          /\ conn'[c].status = "ESTABLISHED"
      BY <2>1, <2>6, <2>8 DEF Moves, Readable, Established, SameClosed
    <3>2. pc'[c] \in PausedPcs /\ pc'[c] # "read_wait"
      BY <3>1, CheckPlaces DEF PausedPcs
    <3> QED
      BY <3>1, <3>2 DEF Heard
  <2> QED
    BY <2>5, <2>7, <2>8 DEF WaitInv, HeardInv
<1>9. ASSUME NEW c \in Conn, NEW at \in Checks, GoesOn(c, at)
      PROVE  WaitInv'
  <2>1. /\ c = Now /\ pc[c] = Paused(at) /\ of' = of /\ then' = then /\ suspended' = suspended
        /\ \A d \in Conn : d # c => conn'[d] = conn[d]
        /\ SameClosed
        /\ \E w \in {true(at), false(at)} : Moves(c, w)
    BY <1>9, GoesOnDoes DEF SameClosed, SameLife, Becomes, Stays
  <2>2. PICK w \in {true(at), false(at)} : Moves(c, w)
    BY <2>1
  <2>3. pc[c] \notin ClosePcs \cup {"unpause"} /\ w # "close_read"
    BY <2>1, CheckPlaces DEF PausedPcs, ClosePcs
  <2>4. SameWaits /\ NoNewClose
    BY <2>1, <2>2, <2>3, QuietMove, Names
  <2>5. \A d \in Conn : SameHearing(d)
    BY <2>1, <2>2, NowRuns, Names DEF BaseInv, SameHearing, Moves
  <2> QED
    BY <2>1, <2>4, <2>5, WaitKeeps
<1>10. ASSUME NEW c \in Conn, ReadData(c)
      PROVE  WaitInv'
  <2>1. SameWaits /\ NoNewClose
    BY <1>10, ReadDataDoes, QuietMove, Names DEF SameCoros, ClosePcs
  <2>2. SameClosed
    BY <1>10, ReadDataDoes DEF SameClosed, SameLife, SameEar, Becomes
  <2>3. \A d \in Conn : SameHearing(d)
    BY <1>10, ReadDataDoes, NowRuns, Names DEF BaseInv, SameHearing, SameLife, SameEar,
       Becomes, Moves, Stays
  <2> QED
    BY <2>1, <2>2, <2>3, WaitKeeps
<1>11. ASSUME NEW c \in Conn, ReadFails(c)
      PROVE  WaitInv'
  <2>1. /\ c = Now /\ pc[c] = "read" /\ SameCoros /\ c \notin suspended
        /\ \A d \in Conn : d # c => conn'[d] = conn[d]
        /\ \E w \in {"destroy", "onError"} : Moves(c, w)
    BY <1>11, ReadFailsDoes, NowRuns DEF BaseInv, Becomes
  <2>2. PICK w \in {"destroy", "onError"} : Moves(c, w)
    BY <2>1
  <2>3. SameWaits /\ NoNewClose
    BY <2>1, <2>2, QuietMove, Names DEF SameCoros, ClosePcs
  <2>4. \A d \in Conn : d # c => pc'[d] = pc[d]
    BY <2>2, Names DEF Moves
  <2>5. CASE suspended' = suspended /\ SameClosed
    <3>1. \A d \in Conn : SameHearing(d)
      BY <2>1, <2>4, <2>5 DEF SameHearing
    <3> QED
      BY <2>3, <2>5, <3>1, WaitKeeps
  <2> QED
    BY <1>11, <2>3, <2>5, ReadFailsDoes DEF SameClosed, SameLife, Becomes, Stays
<1>12. ASSUME NEW c \in Conn, ReadGoesOn(c)
      PROVE  WaitInv'
  <2>1. SameWaits /\ NoNewClose
    BY <1>12, ReadGoesOnDoes, QuietMove, Names DEF SameCoros, ClosePcs
  <2>2. SameClosed
    BY <1>12, ReadGoesOnDoes DEF SameClosed
  <2>3. \A d \in Conn : SameHearing(d)
    BY <1>12, ReadGoesOnDoes, NowRuns, Names DEF BaseInv, SameHearing, Moves, Stays
  <2> QED
    BY <2>1, <2>2, <2>3, WaitKeeps
<1>13. ASSUME NEW c \in Conn, Deliver(c)
      PROVE  WaitInv'
  <2>1. /\ c = Now /\ pc[c] = "deliver" /\ then' = then
        /\ \/ \E h \in Handler : Starts(h, c, c, "check", conn[c])
           \/ Moves(c, "check") /\ Becomes(c, conn[c]) /\ Stays /\ of' = of
    BY <1>13, DeliverDoes
  <2>2. c \in Task /\ pc[c] \notin ClosePcs \cup {"unpause"} /\ "check" # "close_read"
    BY <2>1, Names DEF ClosePcs
  <2> QED
    BY <2>1, <2>2, CallbackWait
<1>14. ASSUME NEW c \in Conn, Input(c)
      PROVE  WaitInv'
  <2>1. c = Now /\ pc[c] = "input" /\ then' = then
    BY <1>14, InputDoes
  <2>2. c \in Task /\ pc[c] \notin ClosePcs \cup {"unpause"} /\ "parse" # "close_read"
    BY <2>1, Names DEF ClosePcs
  <2>3. CASE \/ \E h \in Handler : Starts(h, c, c, "parse", conn[c])
             \/ Moves(c, "parse") /\ Becomes(c, conn[c]) /\ Stays /\ of' = of
    BY <2>1, <2>2, <2>3, CallbackWait
  <2>4. CASE Moves(c, "keep") /\ Stays /\ conn' = conn /\ of' = of
    <3>1. SameWaits /\ NoNewClose
      BY <2>1, <2>2, <2>4, QuietMove
    <3>2. SameClosed /\ \A d \in Conn : SameHearing(d)
      BY <2>1, <2>4, NowRuns, Names DEF BaseInv, SameClosed, SameHearing, Moves, Stays
    <3> QED
      BY <3>1, <3>2, WaitKeeps
  <2> QED
    BY <1>14, <2>3, <2>4, InputDoes
<1>15. ASSUME NEW c \in Conn, InputFails(c)
      PROVE  WaitInv'
  <2>1. c = Now /\ pc[c] = "input" /\ of' = of /\ Stays /\ c \in Task
    BY <1>15, InputFailsDoes, Names
  <2>2. CASE Moves(c, "destroy") /\ conn' = conn /\ then' = then
    <3>1. SameWaits /\ NoNewClose
      BY <2>1, <2>2, QuietMove DEF ClosePcs
    <3>2. SameClosed /\ \A d \in Conn : SameHearing(d)
      BY <2>1, <2>2, NowRuns, Names DEF BaseInv, SameClosed, SameHearing, Moves, Stays
    <3> QED
      BY <3>1, <3>2, WaitKeeps
  <2>3. CASE Closing(c, c, conn[c], "onError")
    <3>1. SameClosed
      BY <2>3 DEF SameClosed, SameLife, Closing, Becomes
    <3>2. /\ c \notin suspended /\ then[c] = "nowhere" /\ \A u \in Task : pc[u] # "close_read"
      BY <2>1, NowRuns DEF BaseInv, PlaceInv, NowInv, NowPcs, ClosePcs
    <3>3. SameWaits /\ NoNewClose
      BY <2>1, <2>3, <3>2 DEF SameWaits, NoNewClose, Closing, Moves, ThenMoves
    <3>4. \A d \in Conn : SameHearing(d)
      BY <2>1, <2>3, <3>2, Names DEF SameHearing, Closing, Moves, Becomes, Stays
    <3> QED
      BY <3>1, <3>3, <3>4, WaitKeeps
  <2> QED
    BY <1>15, <2>2, <2>3, InputFailsDoes
<1>16. ASSUME NEW c \in Conn, Keep(c)
      PROVE  WaitInv'
  <2>0. frame[c].offset \in BOOLEAN /\ frame[c].beyond \in BOOLEAN
    BY DEF BytesTypeOK
  <2>1. SameWaits /\ NoNewClose
    BY <1>16, KeepDoes, <2>0, QuietMove, Names DEF SameCoros, ClosePcs
  <2>2. SameClosed
    BY <1>16, KeepDoes, <2>0 DEF SameClosed, SameLife, SameEar, Becomes
  <2>3. \A d \in Conn : SameHearing(d)
    BY <1>16, KeepDoes, <2>0, NowRuns, Names DEF BaseInv, SameHearing, SameLife, SameEar,
       Becomes, Moves, Stays
  <2> QED
    BY <2>1, <2>2, <2>3, WaitKeeps
<1>17. ASSUME NEW c \in Conn, ReaderEnds(c)
      PROVE  WaitInv'
  <2>1. SameWaits /\ NoNewClose
    BY <1>17, ReaderEndsDoes, QuietMove, Names DEF SameCoros, ClosePcs
  <2>2. SameClosed
    BY <1>17, ReaderEndsDoes DEF SameClosed
  <2>3. \A d \in Conn : SameHearing(d)
    BY <1>17, ReaderEndsDoes, NowRuns, Names DEF BaseInv, SameHearing, Moves
  <2> QED
    BY <2>1, <2>2, <2>3, WaitKeeps
<1>18. ASSUME NEW c \in Conn, EpollIn(c)
      PROVE  WaitInv'
  <2>1. Bottom = Now /\ pc[Bottom] = "loop" /\ conn[c].watched
    BY <1>18, EpollInDoes
  <2>2. /\ then[Bottom] = "nowhere" /\ \A u \in Task : pc[u] # "close_read"
        /\ conn[c].status = "ESTABLISHED"
    BY <2>1, Names DEF BaseInv, PlaceInv, NowInv, NowPcs, ClosePcs, WaitInv, CloseInv
  <2>3. CASE Resumes(c) /\ conn' = conn /\ pc' = pc /\ SameCoros
    BY <2>3, WaitKeeps
       DEF SameWaits, NoNewClose, SameClosed, SameHearing, SameCoros, Resumes
  <2>4. CASE /\ pc[c] # "read_wait" /\ Stays /\ Closing(Bottom, c, conn[c], "loop")
             /\ of'[Bottom] = c /\ \A u \in Task : u # Bottom => of'[u] = of[u]
    <3>1. SameWaits
      BY <2>1, <2>2, <2>4, Names DEF SameWaits, Closing, Moves, ThenMoves
    <3>2. SameClosed
      BY <2>4 DEF SameClosed, SameLife, Closing, Becomes
    <3>3. CloseInv'
      BY <2>2, <2>4, <3>2, Names DEF WaitInv, CloseInv, SameClosed, Closing, Moves
    <3>4. ASSUME NEW d \in Conn, d \in suspended', d # c
          PROVE  Heard(d)'
      <4>1. SameHearing(d)
        BY <2>4, <3>4, Names DEF SameHearing, Closing, Moves, Becomes, Stays
      <4> QED
        BY <3>1, <3>4, <4>1, HeardKeeps DEF WaitInv
    <3>5. ASSUME c \in suspended'
          PROVE  Heard(c)'
      <4>1. Heard(c) /\ pc'[c] = pc[c] /\ pc[c] # "read_wait"
        BY <2>4, <3>5, Names DEF WaitInv, HeardInv, Heard, Closing, Moves, Stays
      <4>2. /\ conn'[c].status = "ESTABLISHED" /\ conn'[c].isPaused = conn[c].isPaused
            /\ conn'[c].pausedCoro = conn[c].pausedCoro
        BY <2>2, <2>4 DEF Closing, Becomes, SameLife
      <4> QED
        BY <2>2, <2>4, <4>1, <4>2 DEF Heard
    <3> QED
      BY <3>3, <3>4, <3>5 DEF WaitInv, HeardInv
  <2> QED
    BY <1>18, <2>3, <2>4, EpollInDoes
<1>19. ASSUME NEW c \in Conn, Accept(c)
      PROVE  WaitInv'
  <2>1. Bottom = Now /\ pc[Bottom] = "loop" /\ conn[c].status = "none" /\ then' = then
    BY <1>19, AcceptDoes
  <2>2. PICK k \in ConnRec :
          /\ SameEar(k, conn[c]) /\ k.status = "ESTABLISHED"
          /\ \/ \E h \in Handler : Starts(h, Bottom, c, "accepted", k)
             \/ Moves(Bottom, "accepted") /\ Becomes(c, k) /\ Stays /\ of' = of
    BY <1>19, AcceptDoes
  <2>3. /\ \A d \in Conn : d # c => conn'[d] = conn[d]
        /\ conn'[c].status = "ESTABLISHED"
    BY <2>2, StartsConn, Names DEF Becomes
  <2>4. pc[Bottom] \notin ClosePcs \cup {"unpause"} /\ "accepted" # "close_read"
    BY <2>1 DEF ClosePcs
  <2>5. /\ SameWaits /\ NoNewClose /\ suspended' = suspended
        /\ \A d \in Conn : pc'[d] = pc[d] \/ d = Now
    BY <2>1, <2>2, <2>4, QuietMove, QuietStart, Names DEF Moves, Starts, Stays
  <2>6. pc[c] = "gone" /\ c \notin suspended
    BY <2>1 DEF LifeInv, UseInv, WaitInv, HeardInv, Heard, PausedPcs
  <2>7. CloseInv'
    <3>1. \A t \in Task \ Conn : pc[t] = "close_read" => of[t] \in Conn
      BY AtWork DEF BaseInv, DestroyPcs, ClosePcs
    <3> QED
      BY <2>1, <2>3, <2>5, <3>1 DEF WaitInv, CloseInv, NoNewClose
  <2>8. \A d \in Conn : SameHearing(d)
    BY <2>1, <2>3, <2>5, <2>6, Names DEF SameHearing
  <2>9. HeardInv'
    BY <2>5, <2>8, HeardKeeps DEF WaitInv, HeardInv
  <2> QED
    BY <2>7, <2>9 DEF WaitInv
<1>20. ASSUME NEW c \in Conn, StartRead(c)
      PROVE  WaitInv'
  <2>1. /\ Bottom = Now /\ pc[Bottom] = "accepted" /\ c \notin seen /\ suspended' = suspended
        /\ pc'[c] = "check" /\ pc'[Bottom] = "loop" /\ conn' = conn /\ of' = of /\ then' = then
        /\ \A u \in Task : u # c /\ u # Bottom => pc'[u] = pc[u]
    BY <1>20, StartReadDoes DEF SameCoros
  <2>2. /\ c \notin suspended /\ pc[c] = "gone" /\ then[c] = "nowhere" /\ then[Bottom] = "nowhere"
    BY <2>1, Names DEF BaseInv, StackInv, PlaceInv, ClosePcs
  <2>3. SameWaits /\ NoNewClose /\ SameClosed /\ \A d \in Conn : SameHearing(d)
    BY <2>1, <2>2, Names DEF SameWaits, NoNewClose, SameClosed, SameHearing
  <2> QED
    BY <2>3, WaitKeeps
<1>21. ASSUME NEW c \in Conn, Peer(c)
      PROVE  WaitInv'
  <2>1. SameWaits /\ NoNewClose
    BY <1>21, PeerDoes, Names DEF SameCoros, SameWaits, NoNewClose
  <2>2. SameClosed
    BY <1>21, PeerDoes DEF SameClosed
  <2>3. \A d \in Conn : SameHearing(d)
    BY <1>21, PeerDoes, NowRuns, Names DEF BaseInv, SameHearing, Stays
  <2> QED
    BY <2>1, <2>2, <2>3, WaitKeeps
<1>22. ASSUME NEW h \in Other, SendReturns(h)
      PROVE  WaitInv'
  <2>1. SameWaits /\ NoNewClose
    BY <1>22, SendReturnsDoes, QuietMove, Names DEF SameCoros, ClosePcs
  <2>2. SameClosed
    BY <1>22, SendReturnsDoes DEF SameClosed, SameLife, SameEar, Becomes
  <2>3. \A d \in Conn : SameHearing(d)
    BY <1>22, SendReturnsDoes, NowRuns, Names DEF BaseInv, SameHearing, SameLife, SameEar,
       Becomes, Moves, Stays
  <2> QED
    BY <2>1, <2>2, <2>3, WaitKeeps
<1>23. ASSUME NEW h \in Other, SendWaits(h)
      PROVE  WaitInv'
  <2>1. SameWaits /\ NoNewClose
    BY <1>23, SendWaitsDoes, QuietMove, Names DEF SameCoros, ClosePcs
  <2>2. SameClosed
    BY <1>23, SendWaitsDoes DEF SameClosed
  <2>3. CloseInv'
    BY <2>1, <2>2, CloseKeeps DEF WaitInv
  <2>4. ASSUME NEW d \in Conn, d \in suspended'
        PROVE  Heard(d)'
    <3>1. CASE d = h
      BY <1>23, <3>1, SendWaitsDoes, Names DEF Heard, Moves, PausedPcs
    <3>2. CASE d # h
      <4>1. SameHearing(d)
        BY <1>23, <3>2, <2>4, SendWaitsDoes, Names DEF SameHearing, Moves, Subsides
      <4> QED
        BY <2>1, <2>4, <4>1, HeardKeeps DEF WaitInv
    <3> QED
      BY <3>1, <3>2
  <2> QED
    BY <2>3, <2>4 DEF WaitInv, HeardInv
<1>24. ASSUME NEW h \in Other, SendGoesOn(h)
      PROVE  WaitInv'
  <2>1. SameWaits /\ NoNewClose
    BY <1>24, SendGoesOnDoes, QuietMove, Names DEF SameCoros, ClosePcs
  <2>2. SameClosed
    BY <1>24, SendGoesOnDoes DEF SameClosed
  <2>3. \A d \in Conn : SameHearing(d)
    BY <1>24, SendGoesOnDoes, NowRuns, Names DEF BaseInv, SameHearing, Moves, Stays
  <2> QED
    BY <2>1, <2>2, <2>3, WaitKeeps
<1>25. ASSUME NEW h \in Other, Send(h)
      PROVE  WaitInv'
  <2>1. PICK c \in Conn : c = of[h] /\ h = Now /\ pc[h] \in {"php", "input"} /\ conn[c].status = "ESTABLISHED"
    BY <1>25, SendDoes, InPhpIs, Names
  <2>2. h \in Task /\ h \notin suspended /\ pc[h] \notin ClosePcs \cup {"unpause"} /\ "send" # "close_read"
    BY <2>1, NowRuns, Names DEF ClosePcs, BaseInv
  <2>3. CASE /\ then' = then
             /\ \/ \E g \in Handler : Starts(g, h, c, "send", conn[c])
                \/ Moves(h, "send") /\ Becomes(c, conn[c]) /\ Stays /\ of' = of
    BY <2>1, <2>2, <2>3, CallbackWait
  <2>4. CASE Closing(h, c, conn[c], "onError") /\ Stays /\ of' = of
    <3>1. /\ then[h] = "nowhere" /\ \A u \in Task : pc[u] # "close_read"
      BY <2>1, <2>2 DEF BaseInv, PlaceInv, NowInv, NowPcs
    <3>2. SameWaits
      BY <2>2, <2>4, <3>1 DEF SameWaits, Closing, Moves, ThenMoves, ClosePcs
    <3>3. SameClosed
      BY <2>4 DEF SameClosed, SameLife, Closing, Becomes
    <3>4. CloseInv'
      BY <2>1, <2>4, <3>1, <3>3 DEF WaitInv, CloseInv, SameClosed, Closing, Moves
    <3>5. ASSUME NEW d \in Conn, d \in suspended', d # c
          PROVE  Heard(d)'
      <4>1. SameHearing(d)
        BY <2>2, <2>4, <3>5, Names DEF SameHearing, Closing, Moves, Becomes, Stays
      <4> QED
        BY <3>2, <3>5, <4>1, HeardKeeps DEF WaitInv
    <3>6. ASSUME c \in suspended'
          PROVE  Heard(c)'
      <4>1. Heard(c) /\ pc'[c] = pc[c] /\ c # h
        BY <2>2, <2>4, <3>6, Names DEF WaitInv, HeardInv, Closing, Moves, Stays
      <4>2. /\ conn'[c].status = "ESTABLISHED" /\ conn'[c].isPaused = conn[c].isPaused
            /\ conn'[c].pausedCoro = conn[c].pausedCoro
            /\ conn[c].watched => pc'[h] = "close_read"
        BY <2>1, <2>4 DEF Closing, Becomes, SameLife, Moves
      <4>3. pc[c] = "read_wait" => pc'[h] = "close_read" /\ of'[h] = c /\ h \in Task \ Conn
        BY <2>1, <2>2, <2>4, <3>1, <4>1, <4>2 DEF Heard, BaseInv, PlaceInv
      <4> QED
        BY <2>1, <4>1, <4>2, <4>3 DEF Heard
    <3> QED
      BY <3>4, <3>5, <3>6 DEF WaitInv, HeardInv
  <2> QED
    BY <1>25, <2>1, <2>3, <2>4, SendDoes
<1>26. ASSUME NEW h \in Other, Close(h)
      PROVE  WaitInv'
  <2>1. SameWaits /\ NoNewClose
    BY <1>26, CloseCallDoes, QuietMove, Names DEF SameCoros, ClosePcs
  <2>2. SameClosed
    BY <1>26, CloseCallDoes DEF SameClosed
  <2>3. \A d \in Conn : SameHearing(d)
    BY <1>26, CloseCallDoes, NowRuns, Names DEF BaseInv, SameHearing, Moves, Stays
  <2> QED
    BY <2>1, <2>2, <2>3, WaitKeeps
<1>27. ASSUME NEW h \in Other, PauseRecv(h)
      PROVE  WaitInv'
  <2>1. PICK c \in Conn :
          /\ c = of[h] /\ SameCoros /\ pc' = pc /\ Stays /\ Flagged(c, TRUE)
    BY <1>27, PauseRecvDoes
  <2>2. /\ \A d \in Conn : d # c => conn'[d] = conn[d]
        /\ conn'[c].status = conn[c].status /\ conn'[c].closed = conn[c].closed
        /\ conn'[c].watched = conn[c].watched /\ conn'[c].pausedCoro = conn[c].pausedCoro
        /\ conn'[c].isPaused = TRUE
    BY <2>1 DEF Flagged, Becomes, SameLife
  <2>3. SameWaits /\ NoNewClose /\ SameClosed
    BY <2>1, <2>2 DEF SameWaits, NoNewClose, SameClosed, SameCoros
  <2>4. CloseInv'
    BY <2>3, CloseKeeps DEF WaitInv
  <2>5. ASSUME NEW d \in Conn, d \in suspended'
        PROVE  Heard(d)'
    <3>1. Heard(d)
      BY <2>1, <2>5 DEF WaitInv, HeardInv, Stays
    <3>2. Destroying(d) => Destroying(d)'
      BY <2>1 DEF SameCoros, Destroying
    <3> QED
      BY <2>1, <2>2, <3>1, <3>2 DEF SameCoros, Heard
  <2> QED
    BY <2>4, <2>5 DEF WaitInv, HeardInv
<1>28. ASSUME NEW h \in Other, ResumeRecv(h)
      PROVE  WaitInv'
  <2>1. PICK c \in Conn :
          /\ c = of[h] /\ h = Now /\ SameCoros /\ pc' = pc /\ Flagged(c, FALSE) /\ pc[h] \in {"php", "input"}
          /\ IF conn[c].pausedCoro THEN Resumes(c) ELSE Stays
    BY <1>28, ResumeRecvDoes, Names
  <2>2. /\ \A d \in Conn : d # c => conn'[d] = conn[d]
        /\ conn'[c].status = conn[c].status /\ conn'[c].closed = conn[c].closed
        /\ conn'[c].watched = conn[c].watched /\ conn'[c].pausedCoro = conn[c].pausedCoro
    BY <2>1 DEF Flagged, Becomes, SameLife
  <2>3. SameWaits /\ NoNewClose /\ SameClosed
    BY <2>1, <2>2 DEF SameWaits, NoNewClose, SameClosed, SameCoros
  <2>4. CloseInv'
    BY <2>3, CloseKeeps DEF WaitInv
  <2>5. ASSUME NEW d \in Conn, d \in suspended'
        PROVE  Heard(d)'
    <3>1. Heard(d) /\ (d = c => ~ conn[c].pausedCoro)
      BY <2>1, <2>5 DEF WaitInv, HeardInv, Stays, Resumes
    <3>2. Destroying(d) => Destroying(d)'
      BY <2>1 DEF SameCoros, Destroying
    <3>3. d = c => pc[d] \notin PausedPcs
      BY <3>1 DEF Heard
    <3> QED
      BY <2>1, <2>2, <3>1, <3>2, <3>3 DEF SameCoros, Heard
  <2> QED
    BY <2>4, <2>5 DEF WaitInv, HeardInv
<1>29. ASSUME NEW h \in Other, Sleeps(h)
      PROVE  WaitInv'
  <2>1. SameWaits /\ NoNewClose
    BY <1>29, SleepsDoes, Names DEF SameCoros, SameWaits, NoNewClose
  <2>2. SameClosed
    BY <1>29, SleepsDoes DEF SameClosed
  <2>3. CloseInv'
    BY <2>1, <2>2, CloseKeeps DEF WaitInv
  <2>4. ASSUME NEW d \in Conn, d \in suspended'
        PROVE  Heard(d)'
    <3>1. CASE d = h
      BY <1>29, <3>1, SleepsDoes, Names DEF Heard, PausedPcs, PhpOf
    <3>2. CASE d # h
      <4>1. SameHearing(d)
        BY <1>29, <3>2, <2>4, SleepsDoes, Names DEF SameHearing, Subsides
      <4> QED
        BY <2>1, <2>4, <4>1, HeardKeeps DEF WaitInv
    <3> QED
      BY <3>1, <3>2
  <2> QED
    BY <2>3, <2>4 DEF WaitInv, HeardInv
<1>30. ASSUME NEW h \in Other, Ends(h)
      PROVE  WaitInv'
  <2>1. /\ h \in Handler /\ h = Now /\ pc[h] = "php" /\ Moves(h, "gone") /\ then' = then /\ suspended' = suspended
        /\ \A u \in Task : u # h => of'[u] = of[u]
        /\ \A d \in Conn : conn'[d].status = conn[d].status /\ SameEar(conn'[d], conn[d])
    BY <1>30, EndsDoes DEF Becomes, SameEar
  <2>2. h \in Task /\ h \notin Conn /\ then[h] = "nowhere"
    BY <2>1, Names DEF BaseInv, PlaceInv, ClosePcs
  <2>3. SameWaits /\ NoNewClose
    BY <2>1, <2>2 DEF SameWaits, NoNewClose, Moves
  <2>4. SameClosed /\ \A d \in Conn : SameHearing(d)
    BY <2>1, <2>2, Names DEF SameClosed, SameHearing, SameEar, Moves
  <2> QED
    BY <2>3, <2>4, WaitKeeps
<1>31. ASSUME NEW h \in Other, Wakes(h)
      PROVE  WaitInv'
  <2>1. SameWaits /\ NoNewClose
    BY <1>31, WakesDoes, Names DEF SameCoros, SameWaits, NoNewClose
  <2>2. SameClosed
    BY <1>31, WakesDoes DEF SameClosed
  <2>3. \A d \in Conn : SameHearing(d)
    BY <1>31, WakesDoes, NowRuns, Names DEF BaseInv, SameHearing, Resumes
  <2> QED
    BY <2>1, <2>2, <2>3, WaitKeeps
<1>32. CASE Reload \/ Exit \/ \E c \in Conn : Fails(c)
  <2>1. SameWaits /\ NoNewClose
    BY <1>32, ReloadExitDoes, Names DEF SameCoros, SameWaits, NoNewClose
  <2>2. SameClosed
    BY <1>32, ReloadExitDoes DEF SameClosed
  <2>3. \A d \in Conn : SameHearing(d)
    BY <1>32, ReloadExitDoes, NowRuns, Names DEF BaseInv, SameHearing, Stays
  <2> QED
    BY <2>1, <2>2, <2>3, WaitKeeps
<1>33. CASE Stop
  <2>1. SameWaits /\ NoNewClose
    BY <1>33, StopDoes, QuietMove, Names DEF SameCoros, ClosePcs
  <2>2. SameClosed
    BY <1>33, StopDoes DEF SameClosed
  <2>3. \A d \in Conn : SameHearing(d)
    BY <1>33, StopDoes, NowRuns, Names DEF BaseInv, SameHearing, Moves, Stays
  <2> QED
    BY <2>1, <2>2, <2>3, WaitKeeps
<1>34. CASE CloseConnections
  <2>1. /\ Bottom = Now /\ pc[Bottom] = "stop" /\ Moves(Bottom, "destroy") /\ conn' = conn
        /\ then' = then /\ suspended' = suspended
        /\ \A u \in Task : u # Bottom => of'[u] = of[u]
    BY <1>34, CloseConnectionsDoes DEF Stays
  <2>2. then[Bottom] = "nowhere"
    BY <2>1, Names DEF BaseInv, PlaceInv, ClosePcs
  <2>3. SameWaits /\ NoNewClose
    BY <2>1, <2>2, Names DEF SameWaits, NoNewClose, Moves
  <2>4. SameClosed /\ \A d \in Conn : SameHearing(d)
    BY <2>1, Names DEF SameClosed, SameHearing, Moves
  <2> QED
    BY <2>3, <2>4, WaitKeeps
<1>35. ASSUME NEW c \in Conn, ReadWaits(c)
      PROVE  WaitInv'
  <2>1. /\ c = Now /\ pc[c] = "read" /\ SameCoros /\ c \notin suspended
        /\ \A d \in Conn : d # c => conn'[d] = conn[d]
        /\ Moves(c, "read_wait") /\ Subsides /\ ~ conn[c].closed
        /\ conn'[c].status = conn[c].status /\ conn'[c].watched /\ conn'[c].closed = conn[c].closed
    BY <1>35, ReadWaitsDoes, NowRuns DEF BaseInv, Becomes, SameLife
  <2>2. SameWaits /\ NoNewClose
    BY <2>1, QuietMove, Names DEF SameCoros, ClosePcs
  <2>3. \A d \in Conn : d # c => pc'[d] = pc[d]
    BY <2>1, Names DEF Moves
  <2>4. conn[c].status = "ESTABLISHED"
    BY <2>1 DEF WaitInv, CloseInv, LifeInv, UseInv, BaseInv, CnTypeOK, ConnRec
  <2>5. CloseInv'
    <3>1. \A t \in Task \ Conn : pc[t] = "close_read" => of[t] \in Conn
      BY AtWork DEF BaseInv, DestroyPcs, ClosePcs
    <3> QED
      BY <2>1, <2>2, <2>4, <3>1 DEF WaitInv, CloseInv, NoNewClose
  <2>6. ASSUME NEW d \in Conn, d \in suspended', d # c
        PROVE  Heard(d)'
    <3>1. SameHearing(d)
      BY <2>1, <2>3, <2>6 DEF SameHearing, Subsides
    <3> QED
      BY <2>2, <2>6, <3>1, HeardKeeps DEF WaitInv
  <2>7. Heard(c)'
    BY <2>1 DEF Heard, Moves, PausedPcs
  <2> QED
    BY <2>5, <2>6, <2>7 DEF WaitInv, HeardInv
<1>36. ASSUME NEW h \in Other, ConsumeRecvBuffer(h)
      PROVE  WaitInv'
  <2>1. SameCoros /\ pc' = pc /\ conn' = conn /\ Stays
    BY <1>36, ConsumeRecvBufferDoes
  <2>2. SameWaits /\ NoNewClose /\ SameClosed /\ \A d \in Conn : SameHearing(d)
    BY <2>1 DEF SameCoros, SameWaits, NoNewClose, SameClosed, SameHearing, Stays
  <2> QED
    BY <2>2, WaitKeeps
<1> QED
  BY <1>1, <1>2, <1>3, <1>4, <1>5, <1>6, <1>7, <1>8, <1>9, <1>10, <1>11, <1>12, <1>13,
     <1>14, <1>15, <1>16, <1>17, <1>18, <1>19, <1>20, <1>21, <1>22, <1>23, <1>24,
     <1>25, <1>26, <1>27, <1>28, <1>29, <1>30, <1>31, <1>32, <1>33, <1>34,
     <1>35, <1>36
     DEF CnNext, Closes, Reads, Sends, Php

-----------------------------------------------------------------------------
(***************************************************************************)
(* The bytes.                                                              *)
(***************************************************************************)
Frame ==
  [ret : Nat, packet : Seq(Conn \X Nat), offset : BOOLEAN, beyond : BOOLEAN, leaves : BOOLEAN]

LEMMA RunConcat ==
  ASSUME NEW S, NEW s \in Seq(S), NEW q \in Seq(S), NEW c, NEW k \in Int,
         Run(s, Len(s), c, k), Run(q, Len(q), c, k + Len(s))
  PROVE  Len(s \o q) = Len(s) + Len(q) /\ Run(s \o q, Len(s) + Len(q), c, k)
<1>1. /\ Len(s) \in Nat /\ Len(q) \in Nat /\ Len(s \o q) = Len(s) + Len(q)
      /\ \A i \in 1 .. Len(s) + Len(q) :
           (s \o q)[i] = IF i <= Len(s) THEN s[i] ELSE q[i - Len(s)]
  BY ConcatProperties, LenProperties
<1>2. ASSUME NEW i \in 1 .. Len(s) + Len(q)
      PROVE  (s \o q)[i] = <<c, k + i>>
  <2>1. CASE i <= Len(s)
    <3>1. i \in 1 .. Len(s)
      BY <1>1, <2>1
    <3> QED
      BY <1>1, <2>1, <3>1 DEF Run
  <2>2. CASE i > Len(s)
    <3>1. i - Len(s) \in 1 .. Len(q) /\ k + Len(s) + (i - Len(s)) = k + i /\ ~ i <= Len(s)
      BY <1>1, <2>2
    <3>2. q[i - Len(s)] = <<c, k + Len(s) + (i - Len(s))>>
      BY <3>1 DEF Run
    <3> QED
      BY <1>1, <3>1, <3>2
  <2> QED
    BY <1>1, <2>1, <2>2
<1> QED
  BY <1>1, <1>2 DEF Run

LEMMA RunSub ==
  ASSUME NEW S, NEW q \in Seq(S), NEW c, NEW k \in Int, NEW n \in Nat, NEW m \in 0 .. n,
         n <= Len(q)
  PROVE  /\ SubSeq(q, m + 1, n) \in Seq(S) /\ Len(SubSeq(q, m + 1, n)) = n - m
         /\ Run(q, n, c, k) => Run(SubSeq(q, m + 1, n), n - m, c, k + m)
<1>1. Len(q) \in Nat
  BY LenProperties
<1>2. /\ SubSeq(q, m + 1, n) \in Seq(S) /\ Len(SubSeq(q, m + 1, n)) = n - m
      /\ \A i \in 1 .. n - m : SubSeq(q, m + 1, n)[i] = q[m + i]
  <2>1. CASE m = n
    <3>1. SubSeq(q, m + 1, n) = <<>>
      BY <2>1, <1>1
    <3> QED
      BY <2>1, <3>1
  <2>2. CASE m < n
    <3>1. /\ m + 1 \in 1 .. Len(q) + 1 /\ n \in m .. Len(q) /\ n - (m + 1) + 1 = n - m
          /\ \A i \in 1 .. n - m : (m + 1) + i - 1 = m + i
      BY <2>2, <1>1
    <3>2. /\ SubSeq(q, m + 1, n) \in Seq(S)
          /\ Len(SubSeq(q, m + 1, n)) = n - (m + 1) + 1
          /\ \A i \in 1 .. n - (m + 1) + 1 : SubSeq(q, m + 1, n)[i] = q[(m + 1) + i - 1]
      BY <1>1, <2>2, SubSeqProperties
    <3> QED
      BY <3>1, <3>2
  <2> QED
    BY <2>1, <2>2
<1>3. ASSUME Run(q, n, c, k), NEW i \in 1 .. n - m
      PROVE  SubSeq(q, m + 1, n)[i] = <<c, k + m + i>>
  <2>1. m + i \in 1 .. n /\ k + (m + i) = k + m + i
    OBVIOUS
  <2>2. q[m + i] = <<c, k + (m + i)>>
    BY <1>3, <2>1 DEF Run
  <2> QED
    BY <1>2, <2>1, <2>2
<1> QED
  BY <1>2, <1>3 DEF Run

\* The first n elements.
LEMMA RunFirst ==
  ASSUME NEW S, NEW q \in Seq(S), NEW c, NEW k \in Int, NEW n \in Nat, n <= Len(q)
  PROVE  /\ SubSeq(q, 1, n) \in Seq(S) /\ Len(SubSeq(q, 1, n)) = n
         /\ Run(q, n, c, k) => Run(SubSeq(q, 1, n), n, c, k)
<1>1. 0 \in 0 .. n /\ 0 + 1 = 1 /\ n - 0 = n /\ k + 0 = k
  OBVIOUS
<1>2. /\ SubSeq(q, 0 + 1, n) \in Seq(S) /\ Len(SubSeq(q, 0 + 1, n)) = n - 0
      /\ Run(q, n, c, k) => Run(SubSeq(q, 0 + 1, n), n - 0, c, k + 0)
  BY <1>1, RunSub
<1> QED
  BY <1>1, <1>2

\* The next n bytes.
LEMMA RunNew ==
  ASSUME NEW c \in Conn, NEW k \in Nat, NEW n \in Nat
  PROVE  LET q == [i \in 1 .. n |-> <<c, k + i>>] IN
         q \in Seq(Conn \X Nat) /\ Len(q) = n /\ Run(q, n, c, k)
<1> DEFINE q == [i \in 1 .. n |-> <<c, k + i>>]
<1>1. \A i \in 1 .. n : <<c, k + i>> \in Conn \X Nat
  OBVIOUS
<1>2. q \in Seq(Conn \X Nat)
  BY <1>1
<1>3. Len(q) = n
  OBVIOUS
<1> QED
  BY <1>2, <1>3 DEF Run

\* What ReadData makes of the common buffer.
LEMMA RunReceived ==
  ASSUME NEW c \in Conn, NEW n \in Nat, read_buffer_tmp \in Seq(Conn \X Nat), conn[c].read \in Nat
  PROVE  /\ Received(c, n) \in Seq(Conn \X Nat)
         /\ n <= Len(Received(c, n)) /\ Len(read_buffer_tmp) <= Len(Received(c, n))
         /\ Run(Received(c, n), n, c, conn[c].read)
<1> DEFINE k == conn[c].read
           old == read_buffer_tmp
           m == IF n > Len(old) THEN n ELSE Len(old)
<1>1. /\ old \in Seq(Conn \X Nat) /\ Len(old) \in Nat
      /\ \A i \in 1 .. Len(old) : old[i] \in Conn \X Nat
  OBVIOUS
<1>2. m \in Nat /\ n <= m /\ Len(old) <= m /\ \A i \in 1 .. m : ~ i <= n => i \in 1 .. Len(old)
  BY <1>1
<1>3. \A i \in Nat : <<c, k + i>> \in Conn \X Nat
  OBVIOUS
<1>4. \A i \in 1 .. m : (IF i <= n THEN <<c, k + i>> ELSE old[i]) \in Conn \X Nat
  BY <1>1, <1>2, <1>3
<1>5. Received(c, n) = [i \in 1 .. m |-> IF i <= n THEN <<c, k + i>> ELSE old[i]]
  BY DEF Received
<1> HIDE DEF m, k, old
<1>6. Received(c, n) \in Seq(Conn \X Nat) /\ Len(Received(c, n)) = m
  BY <1>2, <1>4, <1>5
<1>7. Run(Received(c, n), n, c, k)
  BY <1>2, <1>5 DEF Run
<1> QED
  BY <1>2, <1>6, <1>7 DEF k, old

\* A step that hands nothing over, for one connection.
SameBytesOf(c) ==
  /\ frame'[c].ret = frame[c].ret /\ frame'[c].packet = frame[c].packet
  /\ frame'[c].offset = frame[c].offset /\ frame'[c].beyond = frame[c].beyond
  /\ delivered'[c] = delivered[c] /\ lost'[c] = lost[c] /\ (cut[c] => cut'[c])
  /\ SameInput(conn'[c], conn[c])
  /\ protocol' = protocol
  /\ has_paused => has_paused'
  /\ conn'[c].isPaused => conn[c].isPaused \/ has_paused'
  /\ c \notin seen' => c \notin seen
  /\ pc'[c] \in {"got", "deliver"} => read_buffer_tmp' = read_buffer_tmp
  /\ Len(read_buffer_tmp) <= Len(read_buffer_tmp')

\* The places a reader may go to and have the same bytes.
Wanders(c) ==
  /\ pc'[c] \in PausedPcs => pc[c] \in PausedPcs \/ has_paused'
  /\ frame[c].beyond /\ pc[c] \in BeyondPcs => pc'[c] \in BeyondPcs
  /\ \/ pc'[c] \in {"over", "gone"}
     \/ /\ pc[c] \notin {"over", "gone"}
        /\ pc'[c] \in {"got", "got_paused", "deliver"} => pc[c] \in {"got", "got_paused", "deliver"}
        /\ has_paused' \/ (pc'[c] \in {"got", "deliver"} <=> pc[c] \in {"got", "deliver"})
        /\ pc'[c] \in {"check", "check_paused", "read", "read_wait"} =>
             pc[c] \in {"check", "check_paused", "read", "read_wait"}

LEMMA BytesKeep ==
  ASSUME BytesTypeOK, NEW c \in Conn, BytesOf(c), SameBytesOf(c), Wanders(c),
         Len(read_buffer_tmp') \in Nat
  PROVE  BytesOf(c)'
<1>1. /\ frame[c].ret \in Nat /\ Len(read_buffer_tmp) \in Nat
  BY DEF BytesTypeOK
<1>2. frame'[c].ret <= Len(read_buffer_tmp')
  BY <1>1 DEF BytesOf, SameBytesOf
<1>3. /\ c \notin seen' =>
           delivered'[c] = <<>> /\ frame'[c].packet = <<>> /\ conn'[c].read = 0 /\ lost'[c] = 0
      /\ protocol' => pc'[c] \notin {"got", "got_paused", "deliver"}
      /\ ~ protocol' => frame'[c].packet = <<>> /\ lost'[c] = 0
      /\ frame'[c].beyond => frame'[c].packet = <<>> /\ pc'[c] \in BeyondPcs
      /\ ~ has_paused' => ~ conn'[c].isPaused /\ pc'[c] \notin PausedPcs
  BY DEF BytesOf, SameBytesOf, Wanders, SameInput
<1>4. ASSUME protocol', ~ cut'[c], pc'[c] \notin {"over", "gone"}
      PROVE  /\ conn'[c].read - Len(frame[c].packet) - Len(delivered[c]) = lost[c]
             /\ Run(delivered[c], Len(delivered[c]), c,
                    conn'[c].read - Len(frame[c].packet) - Len(delivered[c]))
             /\ Run(frame[c].packet, Len(frame[c].packet), c, conn'[c].read - Len(frame[c].packet))
             /\ delivered[c] # <<>> => conn'[c].read_packet_buffer \/
                  (frame[c].offset /\ pc'[c] \notin {"check", "check_paused", "read", "read_wait"})
  BY <1>4 DEF BytesOf, SameBytesOf, Wanders, SameInput
<1>5. ASSUME ~ protocol', ~ has_paused', pc'[c] \notin {"over", "gone"}
      PROVE  /\ Len(delivered[c]) + (IF pc'[c] \in {"got", "deliver"} THEN frame[c].ret ELSE 0)
                  = conn'[c].read
             /\ Run(delivered[c], Len(delivered[c]), c, 0)
             /\ pc'[c] \in {"got", "deliver"} =>
                  Run(read_buffer_tmp', frame[c].ret, c, conn'[c].read - frame[c].ret)
  BY <1>5 DEF BytesOf, SameBytesOf, Wanders, SameInput
<1>6. /\ frame'[c].ret = frame[c].ret /\ frame'[c].packet = frame[c].packet
      /\ frame'[c].offset = frame[c].offset /\ lost'[c] = lost[c]
      /\ delivered'[c] = delivered[c]
  BY DEF SameBytesOf
<1> QED
  BY <1>2, <1>3, <1>4, <1>5, <1>6 DEF BytesOf

\* Steps that hand nothing over, and where the readers are after them.
SameConnBytes ==
  \A c \in Conn :
    /\ SameInput(conn'[c], conn[c])
    /\ conn'[c].isPaused => conn[c].isPaused \/ has_paused'

QuietBytes ==
  /\ frame' = frame \/ \E c \in Conn : leaving(c)
  /\ delivered' = delivered /\ read_buffer_tmp' = read_buffer_tmp
  /\ lost' = lost /\ cut' = cut
  /\ protocol' = protocol
  /\ has_paused => has_paused'
  /\ seen \subseteq seen'

Away == PausedPcs \cup {"got", "deliver", "check", "read", "read_wait"}

LEMMA BytesQuiet ==
  ASSUME BytesTypeOK, BytesInv, QuietBytes, SameConnBytes, \A c \in Conn : Wanders(c)
  PROVE  BytesTypeOK' /\ BytesInv'
<1>0. /\ frame' \in [Conn -> Frame]
      /\ \A c \in Conn :
           /\ frame'[c].ret = frame[c].ret /\ frame'[c].packet = frame[c].packet
           /\ frame'[c].offset = frame[c].offset /\ frame'[c].beyond = frame[c].beyond
  <2>1. frame \in [Conn -> Frame]
    BY DEF BytesTypeOK, Frame
  <2>2. ASSUME NEW c \in Conn, leaving(c)
        PROVE  /\ frame' \in [Conn -> Frame]
               /\ \A d \in Conn :
                    /\ frame'[d].ret = frame[d].ret /\ frame'[d].packet = frame[d].packet
                    /\ frame'[d].offset = frame[d].offset /\ frame'[d].beyond = frame[d].beyond
    BY <2>1, <2>2 DEF leaving, Frame
  <2> QED
    BY <2>1, <2>2 DEF QuietBytes
<1>1. BytesTypeOK'
  BY <1>0 DEF BytesTypeOK, QuietBytes, Frame
<1>2. Len(read_buffer_tmp') \in Nat /\ Len(read_buffer_tmp) \in Nat
  BY <1>1 DEF BytesTypeOK, QuietBytes
<1>3. \A c \in Conn : SameBytesOf(c)
  BY <1>0, <1>2 DEF SameBytesOf, QuietBytes, SameConnBytes
<1>4. \A c \in Conn : BytesOf(c)'
  BY <1>2, <1>3, BytesKeep DEF BytesInv
<1> QED
  BY <1>1, <1>4 DEF BytesInv

LEMMA WanderStay ==
  ASSUME NEW c \in Conn, pc'[c] = pc[c]
  PROVE  Wanders(c)
BY DEF Wanders

LEMMA WanderMove ==
  ASSUME NEW t, \A c \in Conn : c # t => pc'[c] = pc[c],
         t \in Conn => /\ pc[t] \notin {"over", "gone", "got", "deliver"} /\ pc'[t] \notin Away
                       /\ pc[t] \in BeyondPcs => ~ frame[t].beyond \/ pc'[t] \in BeyondPcs
  PROVE  \A c \in Conn : Wanders(c)
BY DEF Wanders, Away, PausedPcs

LEMMA HomeNear ==
  ASSUME NEW t \in Task
  PROVE  Home(t) \notin Away
BY DEF Home, PhpOf, Away, PausedPcs

\* The other connections keep their bytes.
LEMMA BytesOthers ==
  ASSUME BytesTypeOK, BytesInv, BytesTypeOK', NEW c \in Conn, BytesOf(c)',
         \A d \in Conn : d # c => SameBytesOf(d) /\ pc'[d] = pc[d]
  PROVE  BytesInv'
<1>1. Len(read_buffer_tmp') \in Nat
  BY DEF BytesTypeOK
<1>2. \A d \in Conn : d # c => BytesOf(d)'
  BY <1>1, WanderStay, BytesKeep DEF BytesInv
<1> QED
  BY <1>2 DEF BytesInv

\* Data is appended to a packet; a packet is handed over.
LEMMA RunAppend ==
  ASSUME NEW p \in Seq(Conn \X Nat), NEW q \in Seq(Conn \X Nat), NEW c, NEW r \in Int,
         Run(q, Len(q), c, r), Run(p, Len(p), c, r - Len(p))
  PROVE  /\ p \o q \in Seq(Conn \X Nat)
         /\ r + Len(q) - Len(p \o q) = r - Len(p)
         /\ Run(p \o q, Len(p \o q), c, r - Len(p))
<1> DEFINE m == Len(p)
           k == r - m
<1>1. m \in Nat /\ k \in Int /\ k + m = r /\ p \o q \in Seq(Conn \X Nat) /\ Len(q) \in Nat
  BY ConcatProperties, LenProperties
<1>2. Run(p, m, c, k) /\ m = Len(p)
  OBVIOUS
<1> HIDE DEF m, k
<1>3. Len(p \o q) = Len(p) + Len(q) /\ Run(p \o q, Len(p) + Len(q), c, k)
  <2>1. Run(p, Len(p), c, k) /\ Run(q, Len(q), c, k + Len(p))
    BY <1>1, <1>2
  <2> QED
    BY <1>1, <2>1, RunConcat
<1>4. r + Len(q) - Len(p \o q) = k
  <2> DEFINE x == Len(p \o q)
             y == Len(q)
  <2>1. x = m + y /\ y \in Nat
    BY <1>1, <1>2, <1>3
  <2> HIDE DEF x, y
  <2>2. r + y - x = k
    BY <1>1, <2>1
  <2> QED
    BY <2>2 DEF x, y
<1> QED
  BY <1>1, <1>3, <1>4 DEF k, m

LEMMA RunSplit ==
  ASSUME NEW d \in Seq(Conn \X Nat), NEW p \in Seq(Conn \X Nat), NEW c,
         NEW k \in Int, NEW j \in Int,
         NEW n \in 1 .. Len(p), NEW q, NEW s,
         q = SubSeq(p, 1, n), s = SubSeq(p, n + 1, Len(p)),
         j + Len(d) = k, Run(d, Len(d), c, j), Run(p, Len(p), c, k)
  PROVE  Run(d \o q, Len(d) + n, c, j) /\ Run(s, Len(p) - n, c, k + n)
<1> DEFINE m == Len(p)
           l == Len(d)
<1>1. /\ l \in Nat /\ m \in Nat /\ n \in Nat /\ n <= m
      /\ n \in 0 .. m /\ 0 \in 0 .. n /\ 0 + 1 = 1 /\ n - 0 = n
      /\ k \in Int /\ k + 0 = k /\ j \in Int /\ j + l = k
  BY LenProperties
<1>2. Run(d, l, c, j) /\ Run(p, m, c, k) /\ l = Len(d) /\ m = Len(p)
  OBVIOUS
<1> HIDE DEF l
<1>3. Run(p, n, c, k)
  <2>1. \A i \in 1 .. n : i \in 1 .. m
    BY <1>1
  <2> QED
    BY <1>2, <2>1 DEF Run
<1>4. q \in Seq(Conn \X Nat) /\ Len(q) = n /\ Run(q, n, c, k)
  <2>1. /\ SubSeq(p, 0 + 1, n) \in Seq(Conn \X Nat) /\ Len(SubSeq(p, 0 + 1, n)) = n - 0
        /\ Run(p, n, c, k) => Run(SubSeq(p, 0 + 1, n), n - 0, c, k + 0)
    <3>1. n <= Len(p) /\ 0 \in 0 .. n /\ n \in Nat /\ k \in Int
      BY <1>1, <1>2
    <3> QED
      BY <3>1, RunSub
  <2>2. q = SubSeq(p, 0 + 1, n)
    BY <1>1
  <2> QED
    BY <1>1, <1>3, <2>1, <2>2
<1>5. s \in Seq(Conn \X Nat) /\ Len(s) = m - n /\ Run(s, m - n, c, k + n)
  <2>1. m <= Len(p) /\ n \in 0 .. m /\ m \in Nat /\ k \in Int
    BY <1>1, <1>2
  <2>2. s = SubSeq(p, n + 1, m)
    OBVIOUS
  <2> HIDE DEF m
  <2>3. /\ SubSeq(p, n + 1, m) \in Seq(Conn \X Nat) /\ Len(SubSeq(p, n + 1, m)) = m - n
        /\ Run(p, m, c, k) => Run(SubSeq(p, n + 1, m), m - n, c, k + n)
    BY <2>1, RunSub
  <2> QED
    BY <1>2, <2>2, <2>3
<1> HIDE DEF m
<1>6. Run(d \o q, l + n, c, j)
  <2>1. Run(d, Len(d), c, j) /\ Run(q, Len(q), c, j + Len(d))
    BY <1>1, <1>2, <1>4
  <2>2. Len(d \o q) = Len(d) + Len(q) /\ Run(d \o q, Len(d) + Len(q), c, j)
    BY <1>1, <1>4, <2>1, RunConcat
  <2> QED
    BY <1>2, <1>4, <2>2
<1> QED
  BY <1>2, <1>5, <1>6

LEMMA DestroyBytes ==
  ASSUME BaseInv, NEW t \in Task, Destroy(t)
  PROVE  SameConnBytes
<1> DEFINE c == of[t]
           k == [conn[c] EXCEPT !.status = "CLOSED", !.isPaused = FALSE]
           l == [k EXCEPT !.closed = TRUE, !.watched = FALSE]
<1>1. c \in Conn /\ conn[c] \in ConnRec
  BY DestroyDoes DEF BaseInv, CnTypeOK
<1>2. k \in ConnRec /\ SameInput(k, conn[c]) /\ k.isPaused = FALSE
  BY <1>1, DestroyRec
<1>3. conn' = conn \/ set(c, l)
  BY DEF Destroy, close
<1> HIDE DEF k
<1>4. l \in ConnRec /\ SameInput(l, k) /\ l.isPaused = k.isPaused
  BY <1>2, CloseRec
<1> HIDE DEF l
<1>5. set(c, l) => Becomes(c, l)
  BY <1>1, <1>4, SetDoes
<1> QED
  BY <1>1, <1>2, <1>3, <1>4, <1>5 DEF SameConnBytes, SameInput, Becomes

LEMMA ClosingBytes ==
  ASSUME BaseInv, NEW t, NEW c \in Conn, NEW k, NEW back, Closing(t, c, k, back),
         SameInput(k, conn[c]), k.isPaused => conn[c].isPaused
  PROVE  SameConnBytes
<1>1. PICK l \in ConnRec : Becomes(c, l) /\ SameInput(l, k) /\ l.isPaused = k.isPaused
  BY DEF Closing
<1> QED
  BY <1>1 DEF SameConnBytes, SameInput, Becomes

\* A callback of c, which is not in the way of the bytes.
CallbackBytes(c, back) ==
  /\ seen \subseteq seen' /\ pc'[c] = back
  /\ \A d \in Conn : d # c => pc'[d] = pc[d] /\ conn'[d] = conn[d]
  /\ SameInput(conn'[c], conn[c]) /\ conn'[c].isPaused = conn[c].isPaused

LEMMA StartsBytes ==
  ASSUME BaseInv, NEW c \in Conn, NEW back,
         \/ \E h \in Handler : Starts(h, c, c, back, conn[c])
         \/ Moves(c, back) /\ Becomes(c, conn[c]) /\ Stays /\ of' = of
  PROVE  CallbackBytes(c, back)
<1>1. ASSUME NEW h \in Handler, Starts(h, c, c, back, conn[c])
      PROVE  CallbackBytes(c, back)
  <2>1. /\ \A d \in Conn : d # c => conn'[d] = conn[d]
        /\ SameEar(conn'[c], conn[c]) /\ SameInput(conn'[c], conn[c])
    BY <1>1, Names, StartsConn
  <2>2. /\ seen \subseteq seen' /\ pc'[c] = back
        /\ \A d \in Conn : d # c => pc'[d] = pc[d]
    BY <1>1, Names DEF Starts
  <2> QED
    BY <2>1, <2>2 DEF CallbackBytes, SameEar
<1>2. CASE Moves(c, back) /\ Becomes(c, conn[c]) /\ Stays /\ of' = of
  BY <1>2, Names DEF CallbackBytes, Moves, Becomes, Stays, SameInput
<1> QED
  BY <1>1, <1>2

\* The packet and the offset of a reader.
LEMMA FramePacket ==
  ASSUME frame \in [Conn -> Frame], NEW c \in Conn, NEW b \in BOOLEAN, NEW s \in Seq(Conn \X Nat),
         frame' = [frame EXCEPT ![c].offset = b, ![c].packet = s]
  PROVE  /\ frame' \in [Conn -> Frame]
         /\ frame'[c].packet = s /\ frame'[c].ret = frame[c].ret /\ frame'[c].offset = b
         /\ frame'[c].beyond = frame[c].beyond
         /\ \A d \in Conn : d # c => frame'[d] = frame[d]
<1> DEFINE f == [frame EXCEPT ![c].offset = b]
           g == [f EXCEPT ![c].packet = s]
<1>1. /\ f \in [Conn -> Frame] /\ f[c].ret = frame[c].ret /\ f[c].offset = b
      /\ f[c].beyond = frame[c].beyond
      /\ \A d \in Conn : d # c => f[d] = frame[d]
  BY DEF Frame
<1>2. frame' = g
  OBVIOUS
<1> HIDE DEF f
<1>3. /\ g \in [Conn -> Frame] /\ g[c].packet = s /\ g[c].ret = f[c].ret
      /\ g[c].offset = f[c].offset /\ g[c].beyond = f[c].beyond
      /\ \A d \in Conn : d # c => g[d] = f[d]
  BY <1>1 DEF Frame
<1> QED
  BY <1>1, <1>2, <1>3

LEMMA FrameInput ==
  ASSUME frame \in [Conn -> Frame], NEW c \in Conn, NEW e \in BOOLEAN, NEW s \in Seq(Conn \X Nat),
         frame' = [frame EXCEPT ![c].offset = TRUE, ![c].beyond = e, ![c].packet = s]
  PROVE  /\ frame' \in [Conn -> Frame]
         /\ frame'[c].packet = s /\ frame'[c].ret = frame[c].ret /\ frame'[c].offset = TRUE
         /\ frame'[c].beyond = e
         /\ \A d \in Conn : d # c => frame'[d] = frame[d]
<1> DEFINE f == [frame EXCEPT ![c].offset = TRUE, ![c].beyond = e]
           g == [f EXCEPT ![c].packet = s]
<1>1. /\ f \in [Conn -> Frame] /\ f[c].ret = frame[c].ret /\ f[c].offset = TRUE
      /\ f[c].beyond = e
      /\ \A d \in Conn : d # c => f[d] = frame[d]
  BY DEF Frame
<1>2. frame' = g
  OBVIOUS
<1> HIDE DEF f
<1>3. /\ g \in [Conn -> Frame] /\ g[c].packet = s /\ g[c].ret = f[c].ret
      /\ g[c].offset = f[c].offset /\ g[c].beyond = f[c].beyond
      /\ \A d \in Conn : d # c => g[d] = f[d]
  BY <1>1 DEF Frame
<1> QED
  BY <1>1, <1>2, <1>3

LEMMA BytesStep ==
  ASSUME BaseInv, BytesTypeOK, BytesInv, CnNext
  PROVE  BytesTypeOK' /\ BytesInv'
<1>1. ASSUME NEW t \in Task, CloseResumes(t)
      PROVE  BytesTypeOK' /\ BytesInv'
  <2>1. QuietBytes
    BY <1>1, CloseResumesDoes DEF QuietBytes, Else, SameTables, SameBytes, Stays, Resumes
  <2>2. SameConnBytes
    BY <1>1, CloseResumesDoes DEF SameConnBytes, SameInput
  <2>3. \A d \in Conn : d # t => pc'[d] = pc[d]
    BY <1>1, CloseResumesDoes, Names DEF Moves
  <2>4. t \in Conn => /\ pc[t] \notin {"over", "gone", "got", "deliver"} /\ pc'[t] \notin Away
                      /\ pc[t] \in BeyondPcs => ~ frame[t].beyond \/ pc'[t] \in BeyondPcs
    BY <1>1, CloseResumesDoes, Names DEF Moves, Away, PausedPcs, BeyondPcs
  <2> QED
    BY <2>1, <2>2, <2>3, <2>4, WanderMove, BytesQuiet
<1>2. ASSUME NEW t \in Task, CloseFd(t)
      PROVE  BytesTypeOK' /\ BytesInv'
  <2>1. QuietBytes
    BY <1>2, CloseFdDoes DEF QuietBytes, Else, SameTables, SameBytes, Stays
  <2>2. SameConnBytes
    BY <1>2, CloseFdDoes DEF SameConnBytes, SameInput, SameEar, Becomes
  <2>3. pc[t] = "close_fd" /\ pc'[t] = then[t] /\ \A d \in Conn : d # t => pc'[d] = pc[d]
    BY <1>2, CloseFdDoes, Names DEF Moves
  <2>4. then[t] \in {"unpause", "onError", "loop"}
    BY <2>3 DEF BaseInv, CnTypeOK, PlaceInv, ClosePcs
  <2>5. pc'[t] \notin Away
    BY <2>3, <2>4 DEF Away, PausedPcs, BeyondPcs
  <2> QED
    BY <2>1, <2>2, <2>3, <2>5, WanderMove, BytesQuiet DEF BeyondPcs
<1>3. ASSUME NEW t \in Task, Destroy(t)
      PROVE  BytesTypeOK' /\ BytesInv'
  <2>1. QuietBytes
    BY <1>3, DestroyDoes DEF QuietBytes, Else, SameTables, SameBytes, Stays
  <2>2. SameConnBytes
    BY <1>3, DestroyBytes
  <2>3. \A d \in Conn : d # t => pc'[d] = pc[d]
    BY <1>3, DestroyDoes, Names DEF Moves, Closing
  <2>4. t \in Conn => /\ pc[t] \notin {"over", "gone", "got", "deliver"} /\ pc'[t] \notin Away
                      /\ pc[t] \in BeyondPcs => ~ frame[t].beyond \/ pc'[t] \in BeyondPcs
    BY <1>3, DestroyDoes, Names, HomeNear DEF Moves, Closing, Away, PausedPcs, BeyondPcs
  <2> QED
    BY <2>1, <2>2, <2>3, <2>4, WanderMove, BytesQuiet
<1>4. ASSUME NEW t \in Task, DestroyResumes(t)
      PROVE  BytesTypeOK' /\ BytesInv'
  <2>1. QuietBytes
    BY <1>4, DestroyResumesDoes DEF QuietBytes, Else, SameTables, SameBytes, Stays,
       Resumes
  <2>2. SameConnBytes
    BY <1>4, DestroyResumesDoes DEF SameConnBytes, SameInput
  <2>3. \A d \in Conn : d # t => pc'[d] = pc[d]
    BY <1>4, DestroyResumesDoes, Names DEF Moves
  <2>4. t \in Conn => /\ pc[t] \notin {"over", "gone", "got", "deliver"} /\ pc'[t] \notin Away
                      /\ pc[t] \in BeyondPcs => ~ frame[t].beyond \/ pc'[t] \in BeyondPcs
    BY <1>4, DestroyResumesDoes, Names DEF Moves, Away, PausedPcs, BeyondPcs
  <2> QED
    BY <2>1, <2>2, <2>3, <2>4, WanderMove, BytesQuiet
<1>5. ASSUME NEW t \in Task, OnClose(t)
      PROVE  BytesTypeOK' /\ BytesInv'
  <2>1. QuietBytes
    BY <1>5, OnCloseDoes DEF QuietBytes, SameTables, SameBytes, Starts, Stays
  <2>2. SameConnBytes
    BY <1>5, OnCloseDoes, StartsConn DEF SameConnBytes, SameInput, SameEar, Becomes
  <2>3. \A d \in Conn : d # t => pc'[d] = pc[d]
    BY <1>5, OnCloseDoes, Names DEF Moves, Starts
  <2>4. t \in Conn => /\ pc[t] \notin {"over", "gone", "got", "deliver"} /\ pc'[t] \notin Away
                      /\ pc[t] \in BeyondPcs => ~ frame[t].beyond \/ pc'[t] \in BeyondPcs
    BY <1>5, OnCloseDoes, Names DEF Moves, Starts, Away, PausedPcs, BeyondPcs
  <2> QED
    BY <2>1, <2>2, <2>3, <2>4, WanderMove, BytesQuiet
<1>6. ASSUME NEW t \in Task, DestroyDrops(t)
      PROVE  BytesTypeOK' /\ BytesInv'
  <2>1. QuietBytes
    BY <1>6, DestroyDropsDoes DEF QuietBytes, SameBytes, Stays
  <2>2. SameConnBytes
    BY <1>6, DestroyDropsDoes DEF SameConnBytes, SameInput, SameEar, Becomes
  <2>3. \A d \in Conn : d # t => pc'[d] = pc[d]
    BY <1>6, DestroyDropsDoes, Names DEF Moves
  <2>4. t \in Conn => /\ pc[t] \notin {"over", "gone", "got", "deliver"} /\ pc'[t] \notin Away
                      /\ pc[t] \in BeyondPcs => ~ frame[t].beyond \/ pc'[t] \in BeyondPcs
    BY <1>6, DestroyDropsDoes, Names, HomeNear DEF Moves, Away, PausedPcs, BeyondPcs
  <2> QED
    BY <2>1, <2>2, <2>3, <2>4, WanderMove, BytesQuiet
<1>7. ASSUME NEW t \in Task, OnError(t)
      PROVE  BytesTypeOK' /\ BytesInv'
  <2>1. QuietBytes
    BY <1>7, OnErrorDoes DEF QuietBytes, Else, SameTables, SameBytes, Starts, Stays
  <2>2. SameConnBytes
    BY <1>7, OnErrorDoes, StartsConn DEF SameConnBytes, SameInput, SameEar, Becomes
  <2>3. \A d \in Conn : d # t => pc'[d] = pc[d]
    BY <1>7, OnErrorDoes, Names DEF Moves, Starts
  <2>4. t \in Conn => /\ pc[t] \notin {"over", "gone", "got", "deliver"} /\ pc'[t] \notin Away
                      /\ pc[t] \in BeyondPcs => ~ frame[t].beyond \/ pc'[t] \in BeyondPcs
    BY <1>7, OnErrorDoes, Names, HomeNear DEF Moves, Starts, Away, PausedPcs, BeyondPcs
  <2> QED
    BY <2>1, <2>2, <2>3, <2>4, WanderMove, BytesQuiet
<1>8. ASSUME NEW c \in Conn, NEW at \in Checks, check_read_status(c, at)
      PROVE  BytesTypeOK' /\ BytesInv'
  <2>1. QuietBytes
    BY <1>8, CheckDoes DEF QuietBytes, Else, SameTables, SameBytes, Subsides, Stays
  <2>2. SameConnBytes
    BY <1>8, CheckDoes DEF SameConnBytes, SameInput, Becomes
  <2>3. /\ pc[c] = at /\ \A d \in Conn : d # c => pc'[d] = pc[d]
        /\ \/ pc'[c] = Paused(at) /\ conn[c].isPaused
           \/ pc'[c] \in {true(at), false(at)}
    BY <1>8, CheckDoes, Names DEF Moves
  <2>4. conn[c].isPaused => has_paused /\ has_paused'
    BY <2>1 DEF BytesInv, BytesOf, QuietBytes
  <2>5. /\ at \in {"check", "parse", "got"}
        /\ pc'[c] \in PausedPcs => has_paused'
        /\ at = "check" => pc'[c] \in {"check_paused", "read", "over"}
        /\ at = "parse" => pc'[c] \in {"parse_paused", "input", "keep"}
        /\ at = "got" => pc'[c] \in {"got_paused", "deliver", "over"}
        /\ pc'[c] = "got_paused" => has_paused'
    BY <2>3, <2>4 DEF Checks, Paused, true, false, PausedPcs
  <2>6. Wanders(c)
    BY <2>3, <2>5 DEF Wanders, PausedPcs, BeyondPcs
  <2> QED
    BY <2>1, <2>2, <2>3, <2>6, WanderStay, BytesQuiet
<1>9. ASSUME NEW c \in Conn, NEW at \in Checks, GoesOn(c, at)
      PROVE  BytesTypeOK' /\ BytesInv'
  <2>1. QuietBytes
    BY <1>9, GoesOnDoes DEF QuietBytes, Else, SameTables, SameBytes, Stays
  <2>2. SameConnBytes
    BY <1>9, GoesOnDoes DEF SameConnBytes, SameInput, Becomes
  <2>3. /\ pc[c] = Paused(at) /\ \A d \in Conn : d # c => pc'[d] = pc[d]
        /\ pc'[c] \in {true(at), false(at)}
    BY <1>9, GoesOnDoes, Names DEF Moves
  <2>4. pc[c] \in PausedPcs => has_paused /\ has_paused'
    BY <2>1 DEF BytesInv, BytesOf, QuietBytes
  <2>5. /\ at \in {"check", "parse", "got"}
        /\ at = "check" => pc[c] = "check_paused" /\ pc'[c] \in {"read", "over"}
        /\ at = "parse" => pc[c] = "parse_paused" /\ pc'[c] \in {"input", "keep"}
        /\ at = "got" => pc[c] = "got_paused" /\ pc'[c] \in {"deliver", "over"}
    BY <2>3 DEF Checks, Paused, true, false
  <2>6. Wanders(c)
    BY <2>3, <2>4, <2>5 DEF Wanders, PausedPcs, BeyondPcs
  <2> QED
    BY <2>1, <2>2, <2>3, <2>6, WanderStay, BytesQuiet
<1>10. ASSUME NEW c \in Conn, ReadData(c)
      PROVE  BytesTypeOK' /\ BytesInv'
  <2>1. /\ c = Now /\ pc[c] = "read" /\ SameTables /\ SameWorld /\ delivered' = delivered
        /\ lost' = lost
        /\ pc'[c] = (IF protocol THEN "parse" ELSE "got") /\ seen' = seen
        /\ \A d \in Conn : d # c => pc'[d] = pc[d] /\ pc[d] \notin {"got", "deliver"}
    BY <1>10, ReadDataDoes, Names DEF Moves, Stays, BaseInv, NowInv, NowPcs
  <2>2. PICK n \in Nat : 
          /\ conn'[c].read = conn[c].read + n
          /\ conn'[c].read_packet_buffer = conn[c].read_packet_buffer
          /\ conn'[c].isPaused = conn[c].isPaused
          /\ \A d \in Conn : d # c => conn'[d] = conn[d]
          /\ Takes(c, n)
    BY <1>10, ReadDataDoes DEF Becomes, SameEar
  <2>3. /\ c \in seen /\ BytesOf(c) /\ conn[c].read \in Nat /\ frame[c] \in Frame
        /\ Len(read_buffer_tmp) \in Nat /\ Len(frame[c].packet) \in Nat
        /\ frame[c].packet \in Seq(Conn \X Nat) /\ Len(delivered[c]) \in Nat
        /\ read_buffer_tmp \in Seq(Conn \X Nat)
    BY <2>1, NowRuns, Names, ReaderIs DEF BaseInv, ConnRec, BytesTypeOK, BytesInv, Frame
  <2>4. CASE protocol
    <3> DEFINE q == [i \in 1 .. n |-> <<c, conn[c].read + i>>]
               p == frame[c].packet
    <3>1. q \in Seq(Conn \X Nat) /\ Len(q) = n /\ Run(q, n, c, conn[c].read)
      BY <2>3, RunNew
    <3>2. /\ read_buffer_tmp' = read_buffer_tmp
          /\ frame' = [frame EXCEPT ![c].offset = FALSE, ![c].packet = p \o q]
      BY <2>2, <2>4 DEF Takes
    <3> HIDE DEF q, p
    <3>3. /\ ~ cut[c] => /\ Run(p, Len(p), c, conn[c].read - Len(p))
                         /\ conn[c].read - Len(p) - Len(delivered[c]) = lost[c]
                         /\ Run(delivered[c], Len(delivered[c]), c,
                                conn[c].read - Len(p) - Len(delivered[c]))
                         /\ delivered[c] # <<>> => conn[c].read_packet_buffer
          /\ ~ frame[c].beyond
          /\ frame[c].ret <= Len(read_buffer_tmp)
          /\ ~ has_paused => ~ conn[c].isPaused
      BY <2>1, <2>3, <2>4 DEF BytesOf, BeyondPcs, p
    <3>4. /\ p \o q \in Seq(Conn \X Nat)
          /\ conn'[c].read - Len(p \o q) = conn[c].read - Len(p)
          /\ ~ cut[c] => Run(p \o q, Len(p \o q), c, conn'[c].read - Len(p \o q))
      <4> DEFINE r == conn[c].read
      <4>1. p \in Seq(Conn \X Nat) /\ r \in Int /\ n \in Nat /\ conn'[c].read = r + n
        BY <2>2, <2>3 DEF p
      <4>2. Run(q, Len(q), c, r) /\ (~ cut[c] => Run(p, Len(p), c, r - Len(p)))
            /\ q \in Seq(Conn \X Nat)
        BY <3>1, <3>3
      <4> HIDE DEF r
      <4>3. /\ p \o q \in Seq(Conn \X Nat)
            /\ r + Len(q) - Len(p \o q) = r - Len(p)
            /\ ~ cut[c] => Run(p \o q, Len(p \o q), c, r - Len(p))
        <5>1. r + Len(q) - Len(p \o q) = r - Len(p) /\ p \o q \in Seq(Conn \X Nat)
          <6>1. Len(p) \in Nat /\ Len(q) \in Nat /\ Len(p \o q) = Len(p) + Len(q)
                /\ p \o q \in Seq(Conn \X Nat)
            BY <4>1, <4>2, ConcatProperties, LenProperties
          <6> QED
            BY <4>1, <6>1
        <5>2. ASSUME ~ cut[c]
              PROVE  Run(p \o q, Len(p \o q), c, r - Len(p))
          <6>1. Run(q, Len(q), c, r) /\ Run(p, Len(p), c, r - Len(p))
            BY <4>2, <5>2
          <6> QED
            BY <4>1, <4>2, <6>1, RunAppend
        <5> QED
          BY <5>1, <5>2
      <4> QED
        BY <3>1, <4>1, <4>3 DEF r
    <3>5. /\ frame' \in [Conn -> Frame]
          /\ frame'[c].packet = p \o q /\ frame'[c].ret = frame[c].ret
          /\ frame'[c].offset = FALSE /\ frame'[c].beyond = frame[c].beyond
          /\ \A d \in Conn : d # c => frame'[d] = frame[d]
      <4>1. FALSE \in BOOLEAN /\ frame \in [Conn -> Frame]
        BY DEF BytesTypeOK, Frame
      <4> QED
        BY <3>2, <3>4, <4>1, FramePacket
    <3>6. BytesTypeOK'
      BY <2>1, <2>3, <3>2, <3>5 DEF BytesTypeOK, Frame, SameWorld
    <3>7. BytesOf(c)'
      <4>1. /\ protocol' /\ pc'[c] = "parse" /\ c \in seen' /\ has_paused' = has_paused
            /\ cut' = cut /\ lost' = lost /\ delivered' = delivered
        BY <2>1, <2>3, <2>4 DEF SameTables, SameWorld
      <4> QED
        BY <2>1, <2>2, <3>2, <3>3, <3>4, <3>5, <4>1 DEF BytesOf, PausedPcs
    <3>8. \A d \in Conn : d # c => SameBytesOf(d) /\ pc'[d] = pc[d]
      <4>1. has_paused' = has_paused /\ protocol' = protocol /\ delivered' = delivered
            /\ cut' = cut /\ lost' = lost
            /\ seen' = seen /\ Len(read_buffer_tmp) <= Len(read_buffer_tmp')
        BY <2>1, <2>3, <3>2 DEF SameTables, SameWorld
      <4> QED
        BY <2>1, <2>2, <3>2, <3>5, <4>1 DEF SameBytesOf, SameInput
    <3> QED
      BY <3>6, <3>7, <3>8, BytesOthers
  <2>5. CASE ~ protocol
    <3>1. /\ Received(c, n) \in Seq(Conn \X Nat)
          /\ n <= Len(Received(c, n)) /\ Len(read_buffer_tmp) <= Len(Received(c, n))
          /\ Run(Received(c, n), n, c, conn[c].read)
      BY <2>3, RunReceived
    <3>2. /\ read_buffer_tmp' = Received(c, n)
          /\ frame' = [frame EXCEPT ![c].ret = n]
      BY <2>2, <2>5 DEF Takes
    <3>3. /\ frame' \in [Conn -> Frame]
          /\ frame'[c].packet = frame[c].packet /\ frame'[c].ret = n
          /\ frame'[c].offset = frame[c].offset /\ frame'[c].beyond = frame[c].beyond
          /\ \A d \in Conn : d # c => frame'[d] = frame[d]
      BY <3>2 DEF BytesTypeOK, Frame
    <3>4. BytesTypeOK'
      BY <2>1, <3>1, <3>2, <3>3 DEF BytesTypeOK, Frame, SameWorld
    <3>5. /\ frame[c].packet = <<>> /\ lost[c] = 0 /\ ~ frame[c].beyond
          /\ ~ has_paused => ~ conn[c].isPaused
          /\ ~ has_paused => /\ Len(delivered[c]) = conn[c].read
                             /\ Run(delivered[c], Len(delivered[c]), c, 0)
      BY <2>1, <2>3, <2>5 DEF BytesOf, BeyondPcs
    <3>6. conn'[c].read - n = conn[c].read
      BY <2>2, <2>3
    <3>7. BytesOf(c)'
      <4>1. /\ ~ protocol' /\ pc'[c] = "got" /\ c \in seen' /\ has_paused' = has_paused
            /\ lost' = lost
        BY <2>1, <2>3, <2>5 DEF SameTables, SameWorld
      <4> QED
        BY <2>1, <2>2, <3>1, <3>2, <3>3, <3>5, <3>6, <4>1 DEF BytesOf, PausedPcs
    <3>8. \A d \in Conn : d # c => SameBytesOf(d) /\ pc'[d] = pc[d]
      BY <2>1, <2>2, <2>3, <3>1, <3>2, <3>3 DEF SameBytesOf, SameInput, SameTables, SameWorld
    <3> QED
      BY <3>4, <3>7, <3>8, BytesOthers
  <2> QED
    BY <2>4, <2>5
<1>11. ASSUME NEW c \in Conn, ReadFails(c)
      PROVE  BytesTypeOK' /\ BytesInv'
  <2>1. QuietBytes
    BY <1>11, ReadFailsDoes DEF QuietBytes, ElseLeaving, SameTables, Stays
  <2>2. SameConnBytes
    BY <1>11, ReadFailsDoes DEF SameConnBytes, SameInput, Becomes
  <2>3. /\ pc[c] = "read" /\ pc'[c] \in {"destroy", "onError"}
        /\ \A d \in Conn : d # c => pc'[d] = pc[d]
    BY <1>11, ReadFailsDoes, Names DEF Moves
  <2>4. Wanders(c)
    BY <2>3 DEF Wanders, PausedPcs, BeyondPcs
  <2> QED
    BY <2>1, <2>2, <2>3, <2>4, WanderStay, BytesQuiet
<1>12. ASSUME NEW c \in Conn, ReadGoesOn(c)
      PROVE  BytesTypeOK' /\ BytesInv'
  <2>1. QuietBytes
    BY <1>12, ReadGoesOnDoes DEF QuietBytes, Else, SameTables, SameBytes, Stays
  <2>2. SameConnBytes
    BY <1>12, ReadGoesOnDoes DEF SameConnBytes, SameInput
  <2>3. /\ pc[c] = "read_wait" /\ pc'[c] = "read" /\ \A d \in Conn : d # c => pc'[d] = pc[d]
    BY <1>12, ReadGoesOnDoes, Names DEF Moves
  <2>4. Wanders(c)
    BY <2>3 DEF Wanders, PausedPcs, BeyondPcs
  <2> QED
    BY <2>1, <2>2, <2>3, <2>4, WanderStay, BytesQuiet
<1>13. ASSUME NEW c \in Conn, Deliver(c)
      PROVE  BytesTypeOK' /\ BytesInv'
  <2>1. /\ c = Now /\ pc[c] = "deliver" /\ SameTables /\ SameWorld /\ frame' = frame
        /\ read_buffer_tmp' = read_buffer_tmp /\ HandsOverRest(c)
    BY <1>13, DeliverDoes
  <2>2. CallbackBytes(c, "check")
    BY <1>13, DeliverDoes, StartsBytes
  <2>3. /\ c \in seen /\ BytesOf(c) /\ conn[c].read \in Nat /\ frame[c].ret \in Nat
        /\ Len(read_buffer_tmp) \in Nat
        /\ delivered[c] \in Seq(Conn \X Nat) /\ Len(delivered[c]) \in Nat
        /\ read_buffer_tmp \in Seq(Conn \X Nat)
    BY <2>1, NowRuns, Names, ReaderIs DEF BaseInv, ConnRec, BytesTypeOK, BytesInv, Frame
  <2>4. /\ ~ protocol /\ frame[c].ret <= Len(read_buffer_tmp) /\ frame[c].packet = <<>>
        /\ lost[c] = 0 /\ ~ frame[c].beyond
        /\ ~ has_paused =>
             /\ ~ conn[c].isPaused
             /\ Len(delivered[c]) + frame[c].ret = conn[c].read
             /\ Run(delivered[c], Len(delivered[c]), c, 0)
             /\ Run(read_buffer_tmp, frame[c].ret, c, conn[c].read - frame[c].ret)
    BY <2>1, <2>3 DEF BytesOf, BeyondPcs
  <2> DEFINE n == frame[c].ret
             q == SubSeq(read_buffer_tmp, 1, n)
             d == delivered[c]
  <2>5. /\ q \in Seq(Conn \X Nat) /\ Len(q) = n
        /\ ~ has_paused => Run(q, n, c, Len(d))
    <3>1. conn[c].read - n \in Int /\ (~ has_paused => conn[c].read - n = Len(d))
      BY <2>3, <2>4
    <3>2. /\ q \in Seq(Conn \X Nat) /\ Len(q) = n
          /\ Run(read_buffer_tmp, n, c, conn[c].read - n) => Run(q, n, c, conn[c].read - n)
      <4> DEFINE k == conn[c].read - n
                 b == read_buffer_tmp
      <4>1. n \in Nat /\ n <= Len(b) /\ k \in Int /\ b \in Seq(Conn \X Nat)
        BY <2>3, <2>4, <3>1
      <4> HIDE DEF n, k, b
      <4>2. /\ SubSeq(b, 1, n) \in Seq(Conn \X Nat) /\ Len(SubSeq(b, 1, n)) = n
            /\ Run(b, n, c, k) => Run(SubSeq(b, 1, n), n, c, k)
        BY <4>1, RunFirst
      <4> QED
        BY <4>2 DEF k, b
    <3> QED
      BY <2>4, <3>1, <3>2
  <2>6. delivered' = [delivered EXCEPT ![c] = d \o q]
    BY <2>1 DEF HandsOverRest
  <2> HIDE DEF q
  <2>7. d \o q \in Seq(Conn \X Nat)
    BY <2>3, <2>5, ConcatProperties
  <2>8. BytesTypeOK'
    BY <2>1, <2>6, <2>7 DEF BytesTypeOK, HandsOverRest, SameWorld
  <2>9. delivered'[c] = d \o q /\ \A e \in Conn : e # c => delivered'[e] = delivered[e]
    BY <2>6 DEF BytesTypeOK
  <2>10. ~ has_paused => Len(d \o q) = conn[c].read /\ Run(d \o q, Len(d \o q), c, 0)
    <3> SUFFICES ASSUME ~ has_paused
                 PROVE  Len(d \o q) = conn[c].read /\ Run(d \o q, Len(d \o q), c, 0)
      OBVIOUS
    <3>1. 0 \in Int /\ 0 + Len(d) = Len(d) /\ Len(d) + n = conn[c].read
      BY <2>3, <2>4
    <3>2. d \in Seq(Conn \X Nat) /\ Run(d, Len(d), c, 0)
      BY <2>3, <2>4
    <3> HIDE DEF d, n
    <3>3. q \in Seq(Conn \X Nat) /\ Len(q) = n /\ Run(q, Len(q), c, 0 + Len(d))
      BY <2>5, <3>1
    <3>4. Len(d \o q) = Len(d) + Len(q) /\ Run(d \o q, Len(d) + Len(q), c, 0)
      BY <3>1, <3>2, <3>3, RunConcat
    <3> QED
      BY <3>1, <3>3, <3>4
  <2>11. BytesOf(c)'
    <3>1. ~ protocol' /\ pc'[c] = "check" /\ c \in seen' /\ has_paused' = has_paused
          /\ lost' = lost
          /\ SameInput(conn'[c], conn[c]) /\ conn'[c].isPaused = conn[c].isPaused
      BY <2>1, <2>2, <2>3, <2>4 DEF SameTables, SameWorld, CallbackBytes, HandsOverRest
    <3>2. ~ has_paused => Len(d \o q) + 0 = conn[c].read
      BY <2>3, <2>10
    <3> QED
      BY <2>1, <2>4, <2>9, <2>10, <3>1, <3>2 DEF BytesOf, PausedPcs, SameInput
  <2>12. \A e \in Conn : e # c => SameBytesOf(e) /\ pc'[e] = pc[e]
    BY <2>1, <2>2, <2>3, <2>9
       DEF SameBytesOf, SameInput, SameTables, SameWorld, CallbackBytes, HandsOverRest
  <2> QED
    BY <2>8, <2>11, <2>12, BytesOthers
<1>14. ASSUME NEW c \in Conn, Input(c)
      PROVE  BytesTypeOK' /\ BytesInv'
  <2>1. /\ c = Now /\ pc[c] = "input" /\ SameTables /\ SameWorld
        /\ read_buffer_tmp' = read_buffer_tmp /\ ~ frame[c].beyond
    BY <1>14, InputDoes
  <2>2. CASE /\ Moves(c, "keep") /\ Stays /\ conn' = conn
             /\ frame' = frame /\ delivered' = delivered /\ lost' = lost
    <3>1. QuietBytes /\ SameConnBytes
      BY <2>1, <2>2 DEF QuietBytes, SameConnBytes, SameInput, SameTables, SameWorld, Stays
    <3>2. pc'[c] = "keep" /\ \A d \in Conn : d # c => pc'[d] = pc[d]
      BY <2>2, Names DEF Moves
    <3>3. \A d \in Conn : Wanders(d)
      BY <2>1, <3>2, WanderMove DEF Away, PausedPcs
    <3> QED
      BY <3>1, <3>3, BytesQuiet
  <2>3. ASSUME CallbackBytes(c, "parse"), NEW n \in 1 .. Len(frame[c].packet), HandsOver(c, n)
        PROVE  BytesTypeOK' /\ BytesInv'
    <3> DEFINE p == frame[c].packet
               d == delivered[c]
               q == SubSeq(p, 1, n)
               s == SubSeq(p, n + 1, Len(p))
    <3>1. c \in seen /\ BytesOf(c) /\ conn[c].read \in Int
      BY <2>1, NowRuns, Names, ReaderIs DEF BaseInv, ConnRec, BytesInv
    <3>2. p \in Seq(Conn \X Nat) /\ d \in Seq(Conn \X Nat)
      BY DEF BytesTypeOK
    <3>3. /\ protocol
          /\ ~ cut[c] => /\ Run(d, Len(d), c, conn[c].read - Len(p) - Len(d))
                         /\ Run(p, Len(p), c, conn[c].read - Len(p))
                         /\ conn[c].read - Len(p) - Len(d) = lost[c]
          /\ frame[c].ret <= Len(read_buffer_tmp)
          /\ ~ has_paused => ~ conn[c].isPaused
      <4>1. p # <<>>
        BY <3>2
      <4> QED
        BY <2>1, <3>1, <4>1 DEF BytesOf
    <3>4. PICK e \in BOOLEAN :
            /\ e => n = Len(p)
            /\ delivered' = [delivered EXCEPT ![c] = d \o q]
            /\ frame' = [frame EXCEPT ![c].offset = TRUE, ![c].beyond = e, ![c].packet = s]
            /\ lost' = lost
      BY <2>3 DEF HandsOver
    <3>12. e => s = <<>>
      BY <3>2, <3>4
    <3>5. n \in 1 .. Len(p) /\ q = SubSeq(p, 1, n) /\ s = SubSeq(p, n + 1, Len(p))
      OBVIOUS
    <3> HIDE DEF p, d, q, s
    <3>6. /\ s \in Seq(Conn \X Nat) /\ d \o q \in Seq(Conn \X Nat)
          /\ ~ cut[c] => /\ Run(d \o q, Len(d \o q), c, conn[c].read - Len(s) - Len(d \o q))
                         /\ Run(s, Len(s), c, conn[c].read - Len(s))
                         /\ conn[c].read - Len(s) - Len(d \o q) = lost[c]
      <4> DEFINE r == conn[c].read
      <4>1. /\ r \in Int
            /\ ~ cut[c] => /\ Run(d, Len(d), c, r - Len(p) - Len(d))
                           /\ Run(p, Len(p), c, r - Len(p))
                           /\ r - Len(p) - Len(d) = lost[c]
        BY <3>1, <3>3
      <4> HIDE DEF r
      <4>2. ASSUME ~ cut[c]
            PROVE  /\ Run(d \o q, Len(d \o q), c, r - Len(s) - Len(d \o q))
                   /\ Run(s, Len(s), c, r - Len(s))
                   /\ r - Len(s) - Len(d \o q) = lost[c]
        <5>1. /\ Run(d, Len(d), c, r - Len(p) - Len(d)) /\ Run(p, Len(p), c, r - Len(p))
              /\ r - Len(p) - Len(d) = lost[c]
          BY <4>1, <4>2
        <5>2. r \in Int /\ n \in 1 .. Len(p)
          BY <3>5, <4>1
        <5> DEFINE m == Len(p)
                   l == Len(d)
                   k == r - m
                   j == k - l
        <5>3. m \in Nat /\ l \in Nat
          BY <3>2, LenProperties
        <5>4. k \in Int /\ j \in Int /\ j + l = k /\ r = k + m
          BY <5>2, <5>3
        <5>5. m = Len(p) /\ l = Len(d) /\ Run(d, l, c, j) /\ Run(p, m, c, k)
          BY <5>1
        <5> HIDE DEF m, l, k, j
        <5>6. Run(d \o q, l + n, c, j) /\ Run(s, m - n, c, k + n)
          <6>1. ASSUME NEW x, NEW y, x = SubSeq(p, 1, n), y = SubSeq(p, n + 1, Len(p))
                PROVE  Run(d \o x, Len(d) + n, c, j) /\ Run(y, Len(p) - n, c, k + n)
            <7>1. j + Len(d) = k /\ Run(d, Len(d), c, j) /\ Run(p, Len(p), c, k)
              BY <5>4, <5>5
            <7> QED
              BY <3>2, <5>2, <5>4, <6>1, <7>1, RunSplit
          <6> QED
            BY <3>5, <5>5, <6>1
        <5>7. Len(s) = m - n /\ Len(d \o q) = l + n
          <6>1. ASSUME NEW x, x = SubSeq(p, 1, n)
                PROVE  x \in Seq(Conn \X Nat) /\ Len(x) = n
            BY <3>2, <5>2, <6>1, RunFirst
          <6>2. ASSUME NEW y, y = SubSeq(p, n + 1, Len(p))
                PROVE  y \in Seq(Conn \X Nat) /\ Len(y) = Len(p) - n
            <7>1. Len(p) \in Nat /\ n \in 0 .. Len(p) /\ 0 \in Int
              BY <3>2, <5>2, LenProperties
            <7> QED
              BY <3>2, <6>2, <7>1, RunSub
          <6>3. q \in Seq(Conn \X Nat) /\ Len(q) = n /\ Len(s) = m - n
            BY <3>5, <5>5, <6>1, <6>2
          <6> QED
            BY <3>2, <5>5, <6>3, ConcatProperties
        <5>8. r - Len(s) = k + n /\ r - Len(s) - Len(d \o q) = j
          <6> DEFINE u == Len(s)
                     v == Len(d \o q)
          <6>1. u = m - n /\ v = l + n /\ n \in Int
            BY <5>2, <5>3, <5>5, <5>7
          <6> HIDE DEF u, v
          <6>2. r - u = k + n /\ r - u - v = j
            BY <5>3, <5>4, <6>1
          <6> QED
            BY <6>2 DEF u, v
        <5>9. r - Len(p) - Len(d) = j
          BY <5>5 DEF j, k
        <5> QED
          <6> DEFINE u == Len(s)
                     v == Len(d \o q)
                     w == Len(p)
                     z == Len(d)
          <6>1. /\ u = m - n /\ v = l + n /\ r - u = k + n /\ r - u - v = j /\ r - w - z = j
                /\ r - w - z = lost[c]
            BY <5>1, <5>7, <5>8, <5>9
          <6> HIDE DEF u, v, w, z
          <6>2. /\ Run(d \o q, v, c, r - u - v) /\ Run(s, u, c, r - u)
                /\ r - u - v = lost[c]
            BY <5>6, <6>1
          <6> QED
            BY <6>2 DEF u, v
      <4>3. s \in Seq(Conn \X Nat) /\ q \in Seq(Conn \X Nat)
        <5>1. Len(p) \in Nat /\ n \in Nat /\ n <= Len(p) /\ n \in 0 .. Len(p) /\ 0 \in Int
          BY <3>2, <3>5, LenProperties
        <5>2. s \in Seq(Conn \X Nat)
          BY <3>2, <3>5, <5>1, RunSub
        <5> QED
          BY <3>2, <3>5, <5>1, <5>2, RunFirst
      <4>4. d \o q \in Seq(Conn \X Nat)
        BY <3>2, <4>3, ConcatProperties
      <4> QED
        BY <4>2, <4>3, <4>4 DEF r
    <3>7. /\ frame' \in [Conn -> Frame]
          /\ frame'[c].packet = s /\ frame'[c].ret = frame[c].ret
          /\ frame'[c].offset = TRUE /\ frame'[c].beyond = e
          /\ \A g \in Conn : g # c => frame'[g] = frame[g]
      <4>1. frame \in [Conn -> Frame]
        BY DEF BytesTypeOK, Frame
      <4> QED
        BY <3>4, <3>6, <4>1, FrameInput
    <3>8. /\ delivered' \in [Conn -> Seq(Conn \X Nat)]
          /\ delivered'[c] = d \o q /\ \A g \in Conn : g # c => delivered'[g] = delivered[g]
      BY <3>4, <3>6 DEF BytesTypeOK
    <3>9. BytesTypeOK'
      BY <2>1, <3>4, <3>7, <3>8 DEF BytesTypeOK, Frame, SameWorld
    <3>10. BytesOf(c)'
      <4>1. /\ protocol' /\ pc'[c] = "parse" /\ c \in seen' /\ has_paused' = has_paused
            /\ cut' = cut
            /\ SameInput(conn'[c], conn[c]) /\ conn'[c].isPaused = conn[c].isPaused
        BY <2>1, <2>3, <3>1, <3>3 DEF SameTables, SameWorld, CallbackBytes
      <4>2. conn'[c].read = conn[c].read
        BY <4>1 DEF SameInput
      <4>3. /\ c \in seen' /\ frame'[c].ret <= Len(read_buffer_tmp') /\ protocol'
            /\ pc'[c] \notin {"got", "got_paused", "deliver"} \cup PausedPcs
            /\ ~ has_paused' => ~ conn'[c].isPaused
            /\ frame'[c].beyond => frame'[c].packet = <<>> /\ pc'[c] \in BeyondPcs
        BY <2>1, <3>3, <3>7, <3>12, <4>1 DEF PausedPcs, BeyondPcs
      <4>4. /\ ~ cut'[c] =>
                 /\ conn'[c].read - Len(frame'[c].packet) - Len(delivered'[c]) = lost'[c]
                 /\ Run(delivered'[c], Len(delivered'[c]), c,
                        conn'[c].read - Len(frame'[c].packet) - Len(delivered'[c]))
                 /\ Run(frame'[c].packet, Len(frame'[c].packet), c,
                        conn'[c].read - Len(frame'[c].packet))
            /\ frame'[c].offset
            /\ pc'[c] \notin {"check", "check_paused", "read", "read_wait"}
        BY <3>4, <3>6, <3>7, <3>8, <4>1, <4>2
      <4> HIDE DEF p, d, q, s
      <4> QED
        BY <4>3, <4>4 DEF BytesOf
    <3>11. \A g \in Conn : g # c => SameBytesOf(g) /\ pc'[g] = pc[g]
      <4> SUFFICES ASSUME NEW g \in Conn, g # c
                   PROVE  SameBytesOf(g) /\ pc'[g] = pc[g]
        OBVIOUS
      <4>1. Len(read_buffer_tmp) <= Len(read_buffer_tmp')
        BY <2>1 DEF BytesTypeOK
      <4>2. /\ pc'[g] = pc[g] /\ conn'[g] = conn[g] /\ (g \notin seen' => g \notin seen)
            /\ frame'[g] = frame[g] /\ delivered'[g] = delivered[g] /\ lost' = lost
        BY <2>3, <3>4, <3>7, <3>8 DEF CallbackBytes
      <4>3. protocol' = protocol /\ has_paused' = has_paused /\ cut' = cut
        BY <2>1 DEF SameTables, SameWorld
      <4> QED
        BY <2>1, <4>1, <4>2, <4>3 DEF SameBytesOf, SameInput
    <3> QED
      BY <3>9, <3>10, <3>11, BytesOthers
  <2>4. \/ /\ Moves(c, "keep") /\ Stays /\ conn' = conn
           /\ frame' = frame /\ delivered' = delivered /\ lost' = lost
        \/ CallbackBytes(c, "parse") /\ \E n \in 1 .. Len(frame[c].packet) : HandsOver(c, n)
    BY <1>14, InputDoes, StartsBytes
  <2> QED
    BY <2>2, <2>3, <2>4
<1>15. ASSUME NEW c \in Conn, InputFails(c)
      PROVE  BytesTypeOK' /\ BytesInv'
  <2>1. QuietBytes
    BY <1>15, InputFailsDoes DEF QuietBytes, ElseLeaving, SameTables, Stays
  <2>2. SameConnBytes
    BY <1>15, InputFailsDoes DEF SameConnBytes, SameInput, Becomes, Closing
  <2>3. /\ pc[c] = "input" /\ pc'[c] \in {"destroy", "close_read", "close_fd"} /\ ~ frame[c].beyond
        /\ \A d \in Conn : d # c => pc'[d] = pc[d]
    BY <1>15, InputFailsDoes, Names DEF Moves, Closing
  <2>4. pc'[c] \notin Away
    BY <2>3 DEF Away, PausedPcs, BeyondPcs
  <2> QED
    BY <2>1, <2>2, <2>3, <2>4, WanderMove, BytesQuiet
<1>16. ASSUME NEW c \in Conn, Keep(c)
      PROVE  BytesTypeOK' /\ BytesInv'
  <2>0. frame[c].offset \in BOOLEAN /\ frame[c].beyond \in BOOLEAN /\ lost[c] \in Nat
    BY DEF BytesTypeOK
  <2> DEFINE kept == frame[c].offset \/ conn[c].read_packet_buffer
             p    == frame[c].packet
             s    == IF kept THEN p ELSE <<>>
             m    == IF kept THEN lost[c] ELSE lost[c] + Len(p)
  <2>1. /\ c = Now /\ pc[c] \in {"keep", "parse"} /\ SameTables /\ SameWorld
        /\ read_buffer_tmp' = read_buffer_tmp /\ delivered' = delivered /\ seen' = seen
        /\ Keeps(c) /\ pc'[c] = (IF frame[c].beyond THEN "over" ELSE "check")
        /\ \A d \in Conn : d # c => pc'[d] = pc[d]
    BY <1>16, <2>0, KeepDoes, Names DEF Moves, Stays
  <2>2. /\ conn'[c].read = conn[c].read /\ conn'[c].isPaused = conn[c].isPaused
        /\ ~ frame[c].beyond => conn'[c].read_packet_buffer = kept
        /\ \A d \in Conn : d # c => conn'[d] = conn[d]
    BY <1>16, <2>0, KeepDoes DEF Becomes, SameEar
  <2>3. /\ c \in seen /\ BytesOf(c) /\ p \in Seq(Conn \X Nat) /\ kept \in BOOLEAN
        /\ Len(p) \in Nat /\ Len(delivered[c]) \in Nat /\ conn[c].read \in Nat
    BY <2>0, <2>1, NowRuns, Names, ReaderIs DEF BaseInv, ConnRec, BytesTypeOK, BytesInv
  <2>4. /\ frame' = [frame EXCEPT ![c].packet = s] /\ s \in Seq(Conn \X Nat)
        /\ lost' = [lost EXCEPT ![c] = m] /\ m \in Nat
    <3>1. frame \in [Conn -> Frame] /\ lost \in [Conn -> Nat]
      BY DEF BytesTypeOK, Frame
    <3>2. CASE kept
      BY <2>0, <2>1, <2>3, <3>1, <3>2 DEF Keeps, Frame
    <3>3. CASE ~ kept
      BY <2>0, <2>1, <2>3, <3>3 DEF Keeps
    <3> QED
      BY <3>2, <3>3
  <2>5. /\ frame' \in [Conn -> Frame] /\ frame'[c].packet = s /\ frame'[c].ret = frame[c].ret
        /\ frame'[c].offset = frame[c].offset /\ frame'[c].beyond = frame[c].beyond
        /\ \A d \in Conn : d # c => frame'[d] = frame[d]
        /\ lost' \in [Conn -> Nat] /\ lost'[c] = m /\ \A d \in Conn : d # c => lost'[d] = lost[d]
    <3> HIDE DEF s, m
    <3> QED
      BY <2>4 DEF BytesTypeOK, Frame
  <2>6. BytesTypeOK'
    BY <2>1, <2>5 DEF BytesTypeOK, Frame, SameWorld
  <2>7. BytesOf(c)'
    <3>1. /\ protocol' = protocol /\ has_paused' = has_paused /\ c \in seen' /\ cut' = cut
      BY <2>1, <2>3 DEF SameTables, SameWorld
    <3>2. /\ frame[c].ret <= Len(read_buffer_tmp)
          /\ ~ has_paused => ~ conn[c].isPaused
          /\ ~ protocol => p = <<>> /\ lost[c] = 0
          /\ frame[c].beyond => p = <<>>
          /\ protocol /\ ~ cut[c] =>
               /\ conn[c].read - Len(p) - Len(delivered[c]) = lost[c]
               /\ Run(delivered[c], Len(delivered[c]), c, conn[c].read - Len(p) - Len(delivered[c]))
               /\ Run(p, Len(p), c, conn[c].read - Len(p))
               /\ delivered[c] # <<>> => kept
          /\ ~ protocol /\ ~ has_paused =>
               Len(delivered[c]) + 0 = conn[c].read /\ Run(delivered[c], Len(delivered[c]), c, 0)
      BY <2>1, <2>3 DEF BytesOf
    <3>3. /\ ~ protocol' => s = <<>> /\ m = 0
          /\ frame[c].beyond => s = <<>>
      BY <2>3, <3>1, <3>2
    <3>4. ASSUME protocol, ~ cut[c]
          PROVE  /\ conn[c].read - Len(s) - Len(delivered[c]) = m
                 /\ Run(delivered[c], Len(delivered[c]), c, conn[c].read - Len(s) - Len(delivered[c]))
                 /\ Run(s, Len(s), c, conn[c].read - Len(s))
                 /\ delivered[c] # <<>> => kept
      <4>1. CASE kept
        BY <3>2, <3>4, <4>1
      <4>2. CASE ~ kept
        <5>1. delivered[c] = <<>> /\ s = <<>> /\ Len(<<>>) = 0
          BY <3>2, <3>4, <4>2
        <5>2. \A k : Run(<<>>, Len(<<>>), c, k)
          BY DEF Run
        <5>3. conn[c].read - 0 - 0 = lost[c] + Len(p)
          BY <2>0, <2>3, <3>2, <3>4, <5>1
        <5> QED
          BY <4>2, <5>1, <5>2, <5>3
      <4> QED
        BY <4>1, <4>2
    <3>5. pc'[c] \in {"over", "check"} /\ (frame[c].beyond <=> pc'[c] = "over")
      BY <2>0, <2>1
    <3> HIDE DEF s, m, p, kept
    <3>6. /\ frame'[c].ret <= Len(read_buffer_tmp')
          /\ protocol' => pc'[c] \notin {"got", "got_paused", "deliver"}
          /\ ~ protocol' => frame'[c].packet = <<>> /\ lost'[c] = 0
          /\ frame'[c].beyond => frame'[c].packet = <<>> /\ pc'[c] \in BeyondPcs
          /\ ~ has_paused' => ~ conn'[c].isPaused /\ pc'[c] \notin PausedPcs
      BY <2>1, <2>2, <2>5, <3>1, <3>2, <3>3, <3>5 DEF BeyondPcs, PausedPcs
    <3>7. ASSUME protocol', ~ cut'[c], pc'[c] \notin {"over", "gone"}
          PROVE  /\ conn'[c].read - Len(frame'[c].packet) - Len(delivered'[c]) = lost'[c]
                 /\ Run(delivered'[c], Len(delivered'[c]), c,
                        conn'[c].read - Len(frame'[c].packet) - Len(delivered'[c]))
                 /\ Run(frame'[c].packet, Len(frame'[c].packet), c,
                        conn'[c].read - Len(frame'[c].packet))
                 /\ delivered'[c] # <<>> => conn'[c].read_packet_buffer
      BY <2>1, <2>2, <2>5, <3>1, <3>4, <3>5, <3>7
    <3>8. ASSUME ~ protocol', ~ has_paused', pc'[c] \notin {"over", "gone"}
          PROVE  /\ Len(delivered'[c]) + 0 = conn'[c].read
                 /\ Run(delivered'[c], Len(delivered'[c]), c, 0)
                 /\ pc'[c] \notin {"got", "deliver"}
      BY <2>1, <2>2, <3>1, <3>2, <3>5, <3>8
    <3> QED
      BY <3>1, <3>6, <3>7, <3>8 DEF BytesOf
  <2>8. \A d \in Conn : d # c => SameBytesOf(d) /\ pc'[d] = pc[d]
    <3>1. Len(read_buffer_tmp) \in Nat
      BY DEF BytesTypeOK
    <3> HIDE DEF s, m
    <3> QED
      BY <2>1, <2>2, <2>5, <3>1 DEF SameBytesOf, SameInput, SameTables, SameWorld
  <2> QED
    BY <2>6, <2>7, <2>8, BytesOthers
<1>17. ASSUME NEW c \in Conn, ReaderEnds(c)
      PROVE  BytesTypeOK' /\ BytesInv'
  <2>1. /\ c = Now /\ conn' = conn /\ SameTables /\ SameWorld /\ seen' = seen
        /\ read_buffer_tmp' = read_buffer_tmp /\ delivered' = delivered /\ lost' = lost
        /\ frame' = [frame EXCEPT ![c] = NoFrame]
        /\ pc'[c] = "gone" /\ \A d \in Conn : d # c => pc'[d] = pc[d]
    BY <1>17, ReaderEndsDoes, Names DEF Moves
  <2>2. c \in seen /\ BytesOf(c) /\ Len(read_buffer_tmp) \in Nat
    BY <2>1, NowRuns, Names DEF BaseInv, BytesTypeOK, BytesInv
  <2>3. NoFrame \in Frame /\ NoFrame.packet = <<>> /\ NoFrame.ret = 0 /\ NoFrame.beyond = FALSE
    BY DEF NoFrame, Frame
  <2>4. frame'[c] = NoFrame /\ \A d \in Conn : d # c => frame'[d] = frame[d]
    BY <2>1 DEF BytesTypeOK
  <2>5. BytesTypeOK'
    BY <2>1, <2>3 DEF BytesTypeOK, Frame, SameWorld
  <2>6. BytesOf(c)'
    <3>1. /\ frame'[c].packet = <<>> /\ frame'[c].ret = 0 /\ ~ frame'[c].beyond
          /\ pc'[c] = "gone" /\ c \in seen'
          /\ protocol' = protocol /\ has_paused' = has_paused /\ lost' = lost
      BY <2>1, <2>2, <2>3, <2>4 DEF SameTables, SameWorld
    <3>2. /\ ~ protocol => lost[c] = 0
          /\ ~ has_paused => ~ conn[c].isPaused
      BY <2>2 DEF BytesOf
    <3>3. 0 <= Len(read_buffer_tmp)
      BY <2>2
    <3> QED
      BY <2>1, <3>1, <3>2, <3>3 DEF BytesOf, PausedPcs
  <2>7. \A d \in Conn : d # c => SameBytesOf(d) /\ pc'[d] = pc[d]
    BY <2>1, <2>2, <2>4 DEF SameBytesOf, SameInput, SameTables, SameWorld
  <2> QED
    BY <2>5, <2>6, <2>7, BytesOthers
<1>18. ASSUME NEW c \in Conn, EpollIn(c)
      PROVE  BytesTypeOK' /\ BytesInv'
  <2>1. QuietBytes
    BY <1>18, EpollInDoes DEF QuietBytes, Else, SameTables, SameBytes, Stays, Resumes
  <2>2. SameConnBytes
    BY <1>18, EpollInDoes DEF SameConnBytes, SameInput, Becomes, Closing
  <2>3. \A d \in Conn : pc'[d] = pc[d]
    BY <1>18, EpollInDoes, Names DEF Moves, Closing
  <2> QED
    BY <2>1, <2>2, <2>3, WanderStay, BytesQuiet
<1>19. ASSUME NEW c \in Conn, Accept(c)
      PROVE  BytesTypeOK' /\ BytesInv'
  <2>1. PICK k \in ConnRec :
          /\ SameEar(k, conn[c]) /\ SameInput(k, conn[c])
          /\ \/ \E h \in Handler : Starts(h, Bottom, c, "accepted", k)
             \/ Moves(Bottom, "accepted") /\ Becomes(c, k) /\ Stays /\ of' = of
    BY <1>19, AcceptDoes
  <2>2. SameBytes /\ protocol' = protocol
    BY <1>19, AcceptDoes
  <2>3. /\ seen \subseteq seen'
        /\ \A d \in Conn : pc'[d] = pc[d]
    BY <2>1, Names DEF Starts, Moves, Stays
  <2>4. /\ SameEar(conn'[c], k) /\ SameInput(conn'[c], k)
        /\ \A d \in Conn : d # c => conn'[d] = conn[d]
    BY <2>1, StartsConn, Names DEF Becomes, SameEar, SameInput
  <2>5. QuietBytes /\ SameConnBytes
    BY <2>1, <2>2, <2>3, <2>4 DEF QuietBytes, SameBytes, SameConnBytes, SameEar, SameInput
  <2> QED
    BY <2>3, <2>5, WanderStay, BytesQuiet
<1>20. ASSUME NEW c \in Conn, StartRead(c)
      PROVE  BytesTypeOK' /\ BytesInv'
  <2>1. /\ c \notin seen /\ seen' = seen \cup {c} /\ conn' = conn /\ Else /\ pc'[c] = "check"
        /\ \A d \in Conn : d # c => pc'[d] = pc[d]
    BY <1>20, StartReadDoes, Names
  <2>2. BytesTypeOK'
    BY <2>1 DEF BytesTypeOK, Else, SameBytes
  <2>3. BytesOf(c) /\ Len(read_buffer_tmp) \in Nat
    BY DEF BytesInv, BytesTypeOK
  <2>4. /\ delivered[c] = <<>> /\ frame[c].packet = <<>> /\ conn[c].read = 0 /\ lost[c] = 0
        /\ ~ frame[c].beyond
        /\ Len(<<>>) = 0 /\ \A k : Run(<<>>, Len(<<>>), c, k)
    BY <2>1, <2>3, Names DEF BytesOf, Run, BeyondPcs, BaseInv, PlaceInv
  <2>5. BytesOf(c)'
    <3>1. /\ c \in seen' /\ protocol' = protocol /\ has_paused' = has_paused /\ lost' = lost
          /\ frame' = frame /\ delivered' = delivered /\ read_buffer_tmp' = read_buffer_tmp
          /\ conn' = conn /\ pc'[c] = "check"
      BY <2>1 DEF Else, SameTables, SameBytes
    <3>2. frame[c].ret <= Len(read_buffer_tmp) /\ (~ has_paused => ~ conn[c].isPaused)
      BY <2>3 DEF BytesOf
    <3>3. 0 - 0 - 0 = 0 /\ 0 + 0 = 0
      OBVIOUS
    <3> QED
      BY <2>4, <3>1, <3>2, <3>3 DEF BytesOf, PausedPcs
  <2>6. \A d \in Conn : d # c => SameBytesOf(d) /\ pc'[d] = pc[d]
    BY <2>1, <2>3 DEF SameBytesOf, SameInput, Else, SameTables, SameBytes
  <2> QED
    BY <2>2, <2>5, <2>6, BytesOthers
<1>21. ASSUME NEW c \in Conn, Peer(c)
      PROVE  BytesTypeOK' /\ BytesInv'
  <2>1. QuietBytes
    BY <1>21, PeerDoes DEF QuietBytes, SameTables, SameBytes, Stays
  <2>2. SameConnBytes
    BY <1>21, PeerDoes DEF SameConnBytes, SameInput
  <2>3. \A d \in Conn : Wanders(d)
    BY <1>21, PeerDoes, WanderStay
  <2> QED
    BY <2>1, <2>2, <2>3, BytesQuiet
<1>22. ASSUME NEW h \in Other, SendReturns(h)
      PROVE  BytesTypeOK' /\ BytesInv'
  <2>1. QuietBytes
    BY <1>22, SendReturnsDoes DEF QuietBytes, Else, SameTables, SameBytes, Stays
  <2>2. SameConnBytes
    BY <1>22, SendReturnsDoes DEF SameConnBytes, SameInput, SameEar, Becomes
  <2>3. \A d \in Conn : d # h => pc'[d] = pc[d]
    BY <1>22, SendReturnsDoes, Names DEF Moves
  <2>4. h \in Conn => /\ pc[h] \notin {"over", "gone", "got", "deliver"} /\ pc'[h] \notin Away
                      /\ pc[h] \in BeyondPcs => ~ frame[h].beyond \/ pc'[h] \in BeyondPcs
    BY <1>22, SendReturnsDoes, Names DEF Moves, Away, PausedPcs, BeyondPcs, PhpOf
  <2> QED
    BY <2>1, <2>2, <2>3, <2>4, WanderMove, BytesQuiet
<1>23. ASSUME NEW h \in Other, SendWaits(h)
      PROVE  BytesTypeOK' /\ BytesInv'
  <2>1. QuietBytes
    BY <1>23, SendWaitsDoes DEF QuietBytes, Else, SameTables, SameBytes, Subsides
  <2>2. SameConnBytes
    BY <1>23, SendWaitsDoes DEF SameConnBytes, SameInput
  <2>3. \A d \in Conn : d # h => pc'[d] = pc[d]
    BY <1>23, SendWaitsDoes, Names DEF Moves
  <2>4. h \in Conn => /\ pc[h] \notin {"over", "gone", "got", "deliver"} /\ pc'[h] \notin Away
                      /\ pc[h] \in BeyondPcs => ~ frame[h].beyond \/ pc'[h] \in BeyondPcs
    BY <1>23, SendWaitsDoes, Names DEF Moves, Away, PausedPcs, BeyondPcs
  <2> QED
    BY <2>1, <2>2, <2>3, <2>4, WanderMove, BytesQuiet
<1>24. ASSUME NEW h \in Other, SendGoesOn(h)
      PROVE  BytesTypeOK' /\ BytesInv'
  <2>1. QuietBytes
    BY <1>24, SendGoesOnDoes DEF QuietBytes, Else, SameTables, SameBytes, Stays
  <2>2. SameConnBytes
    BY <1>24, SendGoesOnDoes DEF SameConnBytes, SameInput
  <2>3. \A d \in Conn : d # h => pc'[d] = pc[d]
    BY <1>24, SendGoesOnDoes, Names DEF Moves
  <2>4. h \in Conn => /\ pc[h] \notin {"over", "gone", "got", "deliver"} /\ pc'[h] \notin Away
                      /\ pc[h] \in BeyondPcs => ~ frame[h].beyond \/ pc'[h] \in BeyondPcs
    BY <1>24, SendGoesOnDoes, Names DEF Moves, Away, PausedPcs, BeyondPcs
  <2> QED
    BY <2>1, <2>2, <2>3, <2>4, WanderMove, BytesQuiet
<1>25. ASSUME NEW h \in Other, Send(h)
      PROVE  BytesTypeOK' /\ BytesInv'
  <2>1. QuietBytes
    BY <1>25, SendDoes DEF QuietBytes, Else, SameTables, SameBytes, Starts, Stays
  <2>2. SameConnBytes
    <3>1. PICK c \in Conn :
            \/ Closing(h, c, conn[c], "onError")
            \/ \E g \in Handler : Starts(g, h, c, "send", conn[c])
            \/ Becomes(c, conn[c])
      BY <1>25, SendDoes, InPhpIs
    <3>2. CASE Closing(h, c, conn[c], "onError")
      <4>1. SameInput(conn[c], conn[c])
        BY DEF SameInput
      <4> QED
        BY <3>2, <4>1, ClosingBytes
    <3>3. CASE \E g \in Handler : Starts(g, h, c, "send", conn[c])
      BY <3>3, Names, StartsConn DEF SameConnBytes, SameInput, SameEar
    <3>4. CASE Becomes(c, conn[c])
      BY <3>4 DEF SameConnBytes, SameInput, Becomes
    <3> QED
      BY <3>1, <3>2, <3>3, <3>4
  <2>3. \A d \in Conn : d # h => pc'[d] = pc[d]
    BY <1>25, SendDoes, Names DEF Moves, Closing, Starts
  <2>4. h \in Conn => /\ pc[h] \notin {"over", "gone", "got", "deliver"} /\ pc'[h] \notin Away
                      /\ pc[h] \in BeyondPcs => ~ frame[h].beyond \/ pc'[h] \in BeyondPcs
    BY <1>25, SendDoes, Names DEF Moves, Closing, Starts, Away, PausedPcs, PhpOf
  <2> QED
    BY <2>1, <2>2, <2>3, <2>4, WanderMove, BytesQuiet
<1>26. ASSUME NEW h \in Other, Close(h)
      PROVE  BytesTypeOK' /\ BytesInv'
  <2>1. QuietBytes
    BY <1>26, CloseCallDoes DEF QuietBytes, Else, SameTables, SameBytes, Stays
  <2>2. SameConnBytes
    BY <1>26, CloseCallDoes DEF SameConnBytes, SameInput
  <2>3. \A d \in Conn : d # h => pc'[d] = pc[d]
    BY <1>26, CloseCallDoes, Names DEF Moves
  <2>4. h \in Conn => /\ pc[h] \notin {"over", "gone", "got", "deliver"} /\ pc'[h] \notin Away
                      /\ pc[h] \in BeyondPcs => ~ frame[h].beyond \/ pc'[h] \in BeyondPcs
    BY <1>26, CloseCallDoes, Names DEF Moves, Away, PausedPcs, BeyondPcs, PhpOf
  <2> QED
    BY <2>1, <2>2, <2>3, <2>4, WanderMove, BytesQuiet
<1>27. ASSUME NEW h \in Other, PauseRecv(h)
      PROVE  BytesTypeOK' /\ BytesInv'
  <2>1. QuietBytes
    BY <1>27, PauseRecvDoes DEF QuietBytes, SameTables, Stays
  <2>2. SameConnBytes
    BY <1>27, PauseRecvDoes DEF SameConnBytes, SameInput, SameEar, Becomes, Flagged
  <2>3. \A d \in Conn : Wanders(d)
    BY <1>27, PauseRecvDoes, WanderStay
  <2> QED
    BY <2>1, <2>2, <2>3, BytesQuiet
<1>28. ASSUME NEW h \in Other, ResumeRecv(h)
      PROVE  BytesTypeOK' /\ BytesInv'
  <2>1. QuietBytes
    BY <1>28, ResumeRecvDoes DEF QuietBytes, Else, SameTables, SameBytes, Stays, Resumes
  <2>2. SameConnBytes
    BY <1>28, ResumeRecvDoes DEF SameConnBytes, SameInput, SameEar, Becomes, Flagged
  <2>3. \A d \in Conn : Wanders(d)
    BY <1>28, ResumeRecvDoes, WanderStay
  <2> QED
    BY <2>1, <2>2, <2>3, BytesQuiet
<1>29. ASSUME NEW h \in Other, Sleeps(h)
      PROVE  BytesTypeOK' /\ BytesInv'
  <2>1. QuietBytes
    BY <1>29, SleepsDoes DEF QuietBytes, Else, SameTables, SameBytes, Subsides
  <2>2. SameConnBytes
    BY <1>29, SleepsDoes DEF SameConnBytes, SameInput
  <2>3. \A d \in Conn : Wanders(d)
    BY <1>29, SleepsDoes, WanderStay
  <2> QED
    BY <2>1, <2>2, <2>3, BytesQuiet
<1>30. ASSUME NEW h \in Other, Ends(h)
      PROVE  BytesTypeOK' /\ BytesInv'
  <2>1. QuietBytes
    BY <1>30, EndsDoes DEF QuietBytes, Else, SameTables, SameBytes
  <2>2. SameConnBytes
    BY <1>30, EndsDoes DEF SameConnBytes, SameInput, SameEar, Becomes
  <2>3. \A d \in Conn : pc'[d] = pc[d]
    BY <1>30, EndsDoes, Names DEF Moves
  <2> QED
    BY <2>1, <2>2, <2>3, WanderStay, BytesQuiet
<1>31. ASSUME NEW h \in Other, Wakes(h)
      PROVE  BytesTypeOK' /\ BytesInv'
  <2>1. QuietBytes
    BY <1>31, WakesDoes DEF QuietBytes, Else, SameTables, SameBytes, Resumes
  <2>2. SameConnBytes
    BY <1>31, WakesDoes DEF SameConnBytes, SameInput
  <2>3. \A d \in Conn : Wanders(d)
    BY <1>31, WakesDoes, WanderStay
  <2> QED
    BY <2>1, <2>2, <2>3, BytesQuiet
<1>32. CASE Reload \/ Exit \/ \E c \in Conn : Fails(c)
  <2>1. QuietBytes
    BY <1>32, ReloadExitDoes DEF QuietBytes, Else, SameTables, SameBytes, Stays
  <2>2. SameConnBytes
    BY <1>32, ReloadExitDoes DEF SameConnBytes, SameInput
  <2>3. \A d \in Conn : Wanders(d)
    BY <1>32, ReloadExitDoes, WanderStay
  <2> QED
    BY <2>1, <2>2, <2>3, BytesQuiet
<1>33. CASE Stop
  <2>1. QuietBytes
    BY <1>33, StopDoes DEF QuietBytes, Else, SameTables, SameBytes, Stays
  <2>2. SameConnBytes
    BY <1>33, StopDoes DEF SameConnBytes, SameInput
  <2>3. \A d \in Conn : Wanders(d)
    BY <1>33, StopDoes, Names, WanderStay DEF Moves
  <2> QED
    BY <2>1, <2>2, <2>3, BytesQuiet
<1>34. CASE CloseConnections
  <2>1. QuietBytes
    BY <1>34, CloseConnectionsDoes DEF QuietBytes, SameBytes, Stays
  <2>2. SameConnBytes
    BY <1>34, CloseConnectionsDoes DEF SameConnBytes, SameInput
  <2>3. \A d \in Conn : Wanders(d)
    BY <1>34, CloseConnectionsDoes, Names, WanderStay DEF Moves
  <2> QED
    BY <2>1, <2>2, <2>3, BytesQuiet
<1>35. ASSUME NEW c \in Conn, ReadWaits(c)
      PROVE  BytesTypeOK' /\ BytesInv'
  <2>1. QuietBytes
    BY <1>35, ReadWaitsDoes DEF QuietBytes, Else, SameTables, SameBytes, Subsides
  <2>2. SameConnBytes
    BY <1>35, ReadWaitsDoes DEF SameConnBytes, SameInput, Becomes
  <2>3. /\ pc[c] = "read" /\ pc'[c] = "read_wait" /\ \A d \in Conn : d # c => pc'[d] = pc[d]
    BY <1>35, ReadWaitsDoes, Names DEF Moves
  <2>4. Wanders(c)
    BY <2>3 DEF Wanders, PausedPcs, BeyondPcs
  <2> QED
    BY <2>1, <2>2, <2>3, <2>4, WanderStay, BytesQuiet
<1>36. ASSUME NEW h \in Other, ConsumeRecvBuffer(h)
      PROVE  BytesTypeOK' /\ BytesInv'
  <2>0. PICK c \in Conn : c = of[h]
    BY <1>36, ConsumeRecvBufferDoes
  <2> DEFINE p == frame[c].packet
  <2>1. /\ c \in Conn /\ pc' = pc /\ conn' = conn /\ seen' = seen /\ protocol' = protocol
        /\ has_paused' = has_paused
        /\ delivered' = delivered /\ read_buffer_tmp' = read_buffer_tmp /\ lost' = lost
        /\ cut' = [cut EXCEPT ![c] = TRUE]
    BY <1>36, <2>0, ConsumeRecvBufferDoes DEF Stays, SameTables
  <2>2. PICK n \in 1 .. Len(p) - 1 : frame' = [frame EXCEPT ![c].packet = SubSeq(@, 1, Len(@) - n)]
    BY <1>36, <2>0, ConsumeRecvBufferDoes
  <2> DEFINE s == SubSeq(p, 1, Len(p) - n)
  <2>3. /\ p \in Seq(Conn \X Nat) /\ p # <<>> /\ Len(p) \in Nat /\ BytesOf(c)
        /\ Len(read_buffer_tmp) \in Nat /\ n \in Int /\ 1 <= n /\ n <= Len(p) - 1
    <3>1. /\ p \in Seq(Conn \X Nat) /\ BytesOf(c) /\ Len(read_buffer_tmp) \in Nat
      BY <2>1 DEF BytesTypeOK, BytesInv
    <3>2. Len(p) \in Nat
      BY <3>1, LenProperties
    <3>3. n \in Int /\ 1 <= n /\ n <= Len(p) - 1
      BY <2>2, <3>2
    <3>4. p # <<>>
      <4>1. Len(<<>>) = 0 /\ Len(p) > 0
        BY <3>2, <3>3
      <4> QED
        BY <4>1
    <3> QED
      BY <3>1, <3>2, <3>3, <3>4
  <2>4. s \in Seq(Conn \X Nat)
    <3>1. Len(p) - n \in Nat /\ Len(p) - n <= Len(p) /\ 0 \in Int
      BY <2>3
    <3> QED
      BY <2>3, <3>1, RunFirst
  <2>5. frame' = [frame EXCEPT ![c].packet = s]
    BY <2>2
  <2> HIDE DEF p, s
  <2>6. /\ frame' \in [Conn -> Frame] /\ frame'[c].packet = s /\ frame'[c].ret = frame[c].ret
        /\ frame'[c].beyond = frame[c].beyond
        /\ \A d \in Conn : d # c => frame'[d] = frame[d]
    BY <2>1, <2>4, <2>5 DEF BytesTypeOK, Frame
  <2>7. cut' \in [Conn -> BOOLEAN] /\ cut'[c] /\ \A d \in Conn : d # c => cut'[d] = cut[d]
    BY <2>1 DEF BytesTypeOK
  <2>8. BytesTypeOK'
    BY <2>1, <2>6, <2>7 DEF BytesTypeOK, Frame
  <2>9. c \in seen /\ protocol /\ ~ frame[c].beyond
    BY <2>3 DEF BytesOf, p
  <2>10. BytesOf(c)'
    <3>1. /\ protocol => pc[c] \notin {"got", "got_paused", "deliver"}
          /\ ~ has_paused => ~ conn[c].isPaused /\ pc[c] \notin PausedPcs
          /\ frame[c].ret <= Len(read_buffer_tmp)
      BY <2>3 DEF BytesOf
    <3> QED
      BY <2>1, <2>6, <2>7, <2>9, <3>1 DEF BytesOf
  <2>11. \A d \in Conn : d # c => SameBytesOf(d) /\ pc'[d] = pc[d]
    BY <2>1, <2>3, <2>6, <2>7 DEF SameBytesOf, SameInput
  <2>12. c \in Conn
    BY <2>1
  <2> QED
    BY <2>8, <2>10, <2>11, <2>12, BytesOthers
<1> QED
  BY <1>1, <1>2, <1>3, <1>4, <1>5, <1>6, <1>7, <1>8, <1>9, <1>10, <1>11, <1>12, <1>13,
     <1>14, <1>15, <1>16, <1>17, <1>18, <1>19, <1>20, <1>21, <1>22, <1>23, <1>24,
     <1>25, <1>26, <1>27, <1>28, <1>29, <1>30, <1>31, <1>32, <1>33, <1>34,
     <1>35, <1>36
     DEF CnNext, Closes, Reads, Sends, Php

-----------------------------------------------------------------------------
(***************************************************************************)
(* The inductive invariant, and what follows from it.                      *)
(***************************************************************************)
IInv == BaseInv /\ LifeInv /\ WaitInv /\ BytesTypeOK /\ BytesInv

LEMMA InitBase ==
  ASSUME CnInit
  PROVE  BaseInv
<1>1. /\ stack = <<Bottom>> /\ suspended = {} /\ seen = {}
      /\ pc = [t \in Task |-> IF t = Bottom THEN "loop" ELSE "gone"]
      /\ of = [t \in Task |-> IF t \in Conn THEN t ELSE NoConn]
      /\ then = [t \in Task |-> "nowhere"]
  BY DEF CnInit, CSInit
<1>2. StackInv
  BY <1>1, Names DEF StackInv
<1>3. PcTypeOK
  <2>1. \A t \in Task : pc[t] \in PcsOf(t)
    BY <1>1 DEF PcsOf, BottomPcs, ReaderPcs, HandlerPcs
  <2> QED
    BY <1>1, <2>1 DEF PcTypeOK
<1>4. conn \in [Conn -> ConnRec]
  BY DEF CnInit, ConnRec
<1>5. PeerTypeOK
  BY DEF CnInit, PeerTypeOK
<1>6. CnTypeOK
  BY <1>1, <1>3, <1>4, <1>5, Names, ConnectionAssumption DEF CnTypeOK, CnInit
<1>7. PlaceInv
  BY <1>1, Names DEF PlaceInv, ClosePcs
<1>8. NowInv
  BY <1>1 DEF NowInv, NowPcs
<1> QED
  BY <1>2, <1>6, <1>7, <1>8 DEF BaseInv

LEMMA InitLife ==
  ASSUME CnInit
  PROVE  LifeInv /\ WaitInv
<1>1. /\ suspended = {} /\ connections = {}
      /\ pc = [t \in Task |-> IF t = Bottom THEN "loop" ELSE "gone"]
      /\ of = [t \in Task |-> IF t \in Conn THEN t ELSE NoConn]
      /\ then = [t \in Task |-> "nowhere"]
      /\ told = [c \in Conn |-> 0]
      /\ wm_connections = [fd \in Fd |-> NoConn]
  BY DEF CnInit, CSInit
<1>2. \A c \in Conn : /\ conn[c].status = "none" /\ ~ conn[c].watched /\ conn[c].refs = 0
                      /\ ~ conn[c].freed
  BY DEF CnInit
<1>3. UseInv
  BY <1>1, Names DEF UseInv
<1>4. DestroyInv
  BY <1>1, <1>2, Names DEF DestroyInv, Destroyer, Destroys
<1>5. RefInv
  <2>1. \A c \in Conn : Holders(c) = {}
    BY <1>1, Names DEF Holders
  <2>2. IsFiniteSet({}) /\ Cardinality({}) = 0
    BY FS_EmptySet
  <2>3. \A c \in Conn :
          /\ IsFiniteSet(Holders(c)) /\ Cardinality(Holders(c)) = 0 /\ c \notin connections
          /\ conn[c].refs = 0 /\ conn[c].status # "CLOSED" /\ ~ conn[c].freed
    BY <1>1, <1>2, <2>1, <2>2
  <2> QED
    BY <2>3 DEF RefInv
<1>6. TableInv /\ EntryInv
  BY <1>1, <1>2 DEF TableInv, EntryInv
<1>7. WaitInv
  BY <1>1, <1>2, Names DEF WaitInv, CloseInv, HeardInv
<1> QED
  BY <1>3, <1>4, <1>5, <1>6, <1>7 DEF LifeInv

LEMMA InitBytes ==
  ASSUME CnInit
  PROVE  BytesTypeOK /\ BytesInv
<1>1. /\ frame = [c \in Conn |-> NoFrame] /\ delivered = [c \in Conn |-> <<>>]
      /\ read_buffer_tmp = <<>>
      /\ lost = [c \in Conn |-> 0] /\ cut = [c \in Conn |-> FALSE]
      /\ pc = [t \in Task |-> IF t = Bottom THEN "loop" ELSE "gone"]
  BY DEF CnInit
<1>2. \A c \in Conn : conn[c].read = 0 /\ ~ conn[c].isPaused
  BY DEF CnInit
<1>3. /\ NoFrame \in Frame
      /\ NoFrame.ret = 0 /\ NoFrame.packet = <<>> /\ NoFrame.beyond = FALSE
  BY DEF NoFrame, Frame
<1>4. BytesTypeOK
  BY <1>1, <1>3 DEF BytesTypeOK, Frame
<1>5. \A c \in Conn : c \in Task /\ c # Bottom /\ pc[c] = "gone"
  BY <1>1, Names
<1>6. \A c \in Conn : BytesOf(c)
  BY <1>1, <1>2, <1>3, <1>5 DEF BytesOf, PausedPcs
<1> QED
  BY <1>4, <1>6 DEF BytesInv

LEMMA IInvStays ==
  ASSUME IInv, UNCHANGED cnvars
  PROVE  IInv'
<1> USE DEF cnvars, sched, csvars, worker, tables, coros, world, amiss
<1>1. BaseInv'
  BY DEF IInv, BaseInv, StackInv, CnTypeOK, PcTypeOK, PcsOf, PeerTypeOK, PlaceInv, NowInv, Now
<1>2. LifeInv'
  <2>1. UseInv' /\ DestroyInv'
    BY DEF IInv, LifeInv, UseInv, DestroyInv, Destroyer, Destroys
  <2>2. RefInv' /\ TableInv'
    BY DEF IInv, LifeInv, RefInv, Holders, TableInv
  <2>3. EntryInv'
    BY DEF IInv, LifeInv, EntryInv
  <2> QED
    BY <2>1, <2>2, <2>3 DEF LifeInv
<1>3. WaitInv'
  BY DEF IInv, WaitInv, CloseInv, HeardInv, Heard, Destroying
<1>4. BytesTypeOK' /\ BytesInv'
  BY DEF IInv, BytesTypeOK, BytesInv, BytesOf
<1> QED
  BY <1>1, <1>2, <1>3, <1>4 DEF IInv

\* The inductive invariant holds in every state.
THEOREM CnInvariant == CnSpec => []IInv
<1>1. CnInit => IInv
  BY InitBase, InitLife, InitBytes DEF IInv
<1>2. IInv /\ [CnNext]_cnvars => IInv'
  <2>1. ASSUME IInv, CnNext
        PROVE  IInv'
    BY <2>1, BaseStep, LifeStep, WaitStep, BytesStep DEF IInv, WaitInv
  <2> QED
    BY <2>1, IInvStays
<1> QED
  BY <1>1, <1>2, PTL DEF CnSpec

\* onClose is called once for each connection: by the task that found it
\* established and set its status, and by no other (wmConnection_destroy).
THEOREM CnOnCloseOnce == CnSpec => []OnCloseOnce
<1>1. IInv => OnCloseOnce
  <2> SUFFICES ASSUME IInv, NEW c \in Conn
               PROVE  /\ told[c] <= 1
                      /\ conn[c].status = "CLOSED" /\ c \notin connections => told[c] = 1
    BY DEF OnCloseOnce
  <2>1. told[c] \in {0, 1}
    BY DEF IInv, LifeInv, DestroyInv
  <2>2. conn[c].status = "CLOSED" /\ c \notin connections => told[c] = 1
    BY DEF IInv, LifeInv, DestroyInv
  <2> QED
    BY <2>1, <2>2
<1> QED
  BY <1>1, CnInvariant, PTL

\* A connection is freed when its entries are dropped and the last coroutine of
\* a callback has let it go, and not before (wm_connection_free_object).
THEOREM CnFreedWhenUnheld == CnSpec => []FreedWhenUnheld
<1>1. IInv => FreedWhenUnheld
  <2> SUFFICES ASSUME IInv, NEW c \in Conn
               PROVE  /\ conn[c].freed <=> /\ conn[c].status = "CLOSED"
                                           /\ c \notin connections
                                           /\ \A h \in Handler : of[h] # c
                      /\ conn[c].refs >= 0
    BY DEF FreedWhenUnheld
  <2>1. /\ IsFiniteSet(Holders(c))
        /\ conn[c].refs = (IF c \in connections THEN 2 ELSE 0) + Cardinality(Holders(c))
        /\ conn[c].freed <=> conn[c].status = "CLOSED" /\ c \notin connections /\ Holders(c) = {}
    BY DEF IInv, LifeInv, RefInv
  <2>2. Holders(c) = {} <=> \A h \in Handler : of[h] # c
    BY DEF Holders
  <2>3. conn[c].refs >= 0
    BY <2>1, FS_CardinalityType
  <2>4. conn[c].freed \in BOOLEAN
    BY DEF IInv, BaseInv, CnTypeOK, ConnRec
  <2> QED
    BY <2>1, <2>2, <2>3, <2>4
<1> QED
  BY <1>1, CnInvariant, PTL

\* The table of connections by their fd leads to live connections, and to the
\* one that has the fd now; and every established connection with an open fd
\* is found in it, unless the destroy of a connection that had the fd before
\* has taken its entry (acceptConnectionTcp, wmConnection_destroy).
THEOREM CnTableOfLive == CnSpec => []TableOfLive
<1>1. IInv => TableOfLive
  <2>1. ASSUME IInv
        PROVE  \A fd \in Fd :
                 LET c == wm_connections[fd] IN
                 c # NoConn =>
                   /\ conn[c].fd = fd /\ c \in connections /\ ~ conn[c].freed
                   /\ \A d \in Conn : conn[d].fd = fd /\ ~ conn[d].removed => d = c
    BY <2>1 DEF IInv, LifeInv, TableInv, RefInv, BaseInv, CnTypeOK
  <2>2. ASSUME IInv
        PROVE  \A c \in Conn \ ousted :
                 Established(c) /\ ~ conn[c].removed =>
                   wm_connections[conn[c].fd] = c \/ (pc[Bottom] = "destroy" /\ of[Bottom] = c)
    BY <2>2 DEF IInv, LifeInv, EntryInv, Established
  <2> QED
    BY <2>1, <2>2 DEF TableOfLive
<1> QED
  BY <1>1, CnInvariant, PTL

\* A reader that is suspended will be resumed: by the event loop, by resumeRecv,
\* or by the task that closes or destroys its connection, which is not freed.
THEOREM CnReadersHeard == CnSpec => []ReadersHeard
<1>1. IInv => ReadersHeard
  <2> SUFFICES ASSUME IInv, NEW c \in Conn, c \in suspended
               PROVE  /\ pc[c] = "read_wait" =>
                           /\ ~ conn[c].freed
                           /\ conn[c].watched \/ (\E t \in Task : pc[t] = "close_read" /\ of[t] = c)
                      /\ pc[c] \notin {"read_wait", "input", "send_wait"} =>
                           /\ ~ conn[c].freed /\ conn[c].pausedCoro
                           /\ conn[c].isPaused \/ Destroying(c)
    BY DEF ReadersHeard
  <2>1. Heard(c)
    BY DEF IInv, WaitInv, HeardInv
  <2>2. /\ pc[c] = "read_wait" =>
             conn[c].watched \/ (\E t \in Task : pc[t] = "close_read" /\ of[t] = c)
        /\ pc[c] \notin {"read_wait", "input", "send_wait"} =>
             pc[c] \in PausedPcs /\ conn[c].pausedCoro /\ (conn[c].isPaused \/ Destroying(c))
    BY <2>1 DEF Heard
  <2> SUFFICES ASSUME pc[c] \in {"read_wait"} \cup PausedPcs
               PROVE  ~ conn[c].freed
    BY <2>2
  <2>3. conn[c].status = "ESTABLISHED" \/ \E t \in Task : Destroyer(t, c)
    <3>1. CASE conn[c].watched
      BY <3>1 DEF IInv, WaitInv, CloseInv
    <3>2. ASSUME NEW t \in Task \ Conn, pc[t] = "close_read", of[t] = c
          PROVE  conn[c].status = "ESTABLISHED" \/ Destroyer(t, c)
      BY <3>2 DEF IInv, WaitInv, CloseInv, Destroyer, Destroys
    <3>3. Destroying(c) => \E t \in Task : Destroyer(t, c)
      BY DEF Destroying, Destroyer, Destroys
    <3> QED
      BY <2>1, <3>1, <3>2, <3>3 DEF Heard
  <2>4. c \in connections
    BY <2>3 DEF IInv, LifeInv, DestroyInv
  <2>5. ~ conn[c].freed
    BY <2>4 DEF IInv, LifeInv, RefInv
  <2> QED
    BY <2>5
<1> QED
  BY <1>1, CnInvariant, PTL

LEMMA RunIs ==
  ASSUME NEW s \in Seq(Conn \X Nat), NEW c, NEW r \in Int, Run(s, Len(s), c, r - Len(s))
  PROVE  \A i \in DOMAIN s : s[i] = <<c, r - Len(s) + i>>
<1>1. DOMAIN s = 1 .. Len(s)
  BY LenProperties
<1> DEFINE n == Len(s)
           k == r - n
<1>2. Run(s, n, c, k) /\ DOMAIN s = 1 .. n
  BY <1>1
<1> HIDE DEF n, k
<1>3. \A i \in DOMAIN s : s[i] = <<c, k + i>>
  BY <1>2 DEF Run
<1> QED
  BY <1>3 DEF k, n

\* onMessage gets the bytes of its connection in order and none twice; none is
\* missing, but those of strings that were forgotten before the first packet. A
\* reader that has handed over more than there is holds nothing any more, and
\* comes to no place where it would read (wmConnection_read).
THEOREM CnBytesInOrder == CnSpec => []BytesInOrder
<1>1. IInv => BytesInOrder
  <2> SUFFICES ASSUME IInv, NEW c \in Conn
               PROVE  LET bytes == delivered[c] \o Pending(c) IN
                      /\ (protocol \/ ~ has_paused) /\ ~ cut[c] /\ pc[c] \notin {"over", "gone"} =>
                           /\ \A i \in DOMAIN bytes : bytes[i] = <<c, lost[c] + i>>
                           /\ lost[c] + Len(bytes) = conn[c].read
                      /\ ~ protocol => lost[c] = 0
                      /\ frame[c].beyond => Pending(c) = <<>> /\ pc[c] \in BeyondPcs
    BY DEF BytesInOrder, BeyondPcs
  <2> DEFINE d == delivered[c]
             r == conn[c].read
             l == lost[c]
  <2>1. /\ BytesOf(c) /\ r \in Nat /\ d \in Seq(Conn \X Nat) /\ Len(d) \in Nat /\ l \in Nat
        /\ protocol \in BOOLEAN
    BY DEF IInv, BytesInv, BytesTypeOK, BaseInv, CnTypeOK, ConnRec
  <2>6. /\ ~ protocol => l = 0
        /\ frame[c].beyond => Pending(c) = <<>> /\ pc[c] \in BeyondPcs
    BY <2>1 DEF BytesOf, Pending, BeyondPcs
  <2> SUFFICES ASSUME protocol \/ ~ has_paused, ~ cut[c], pc[c] \notin {"over", "gone"}
               PROVE  LET bytes == d \o Pending(c) IN
                      /\ \A i \in DOMAIN bytes : bytes[i] = <<c, l + i>>
                      /\ l + Len(bytes) = r
    BY <2>6
  <2>2. /\ d \o Pending(c) \in Seq(Conn \X Nat)
        /\ Run(d \o Pending(c), Len(d \o Pending(c)), c, r - Len(d \o Pending(c)))
        /\ r - Len(d \o Pending(c)) = l
    <3>1. CASE protocol
      <4> DEFINE p == frame[c].packet
                 k == r - Len(p) - Len(d)
      <4>1. p \in Seq(Conn \X Nat) /\ Len(p) \in Nat
        BY DEF IInv, BytesTypeOK
      <4>2. Run(d, Len(d), c, k) /\ Run(p, Len(p), c, r - Len(p)) /\ k = l
        BY <2>1, <3>1 DEF BytesOf
      <4> HIDE DEF d, r, p, l
      <4>3. k \in Int /\ k + Len(d) = r - Len(p)
        BY <2>1, <4>1
      <4> HIDE DEF k
      <4>4. Len(d \o p) = Len(d) + Len(p) /\ Run(d \o p, Len(d) + Len(p), c, k)
        BY <2>1, <4>1, <4>2, <4>3, RunConcat
      <4>5. r - Len(d \o p) = k
        BY <2>1, <4>1, <4>4 DEF k
      <4>6. Pending(c) = p
        BY <3>1 DEF Pending, p
      <4> QED
        BY <2>1, <3>1, <4>1, <4>2, <4>4, <4>5, <4>6, ConcatProperties
    <3>2. CASE ~ protocol /\ pc[c] \in {"got", "deliver"}
      <4> DEFINE n == frame[c].ret
                 b == read_buffer_tmp
                 p == SubSeq(b, 1, n)
                 k == r - n
      <4>1. b \in Seq(Conn \X Nat) /\ n \in Nat /\ n <= Len(b)
        BY <2>1 DEF IInv, BytesTypeOK, BytesOf
      <4>2. /\ Run(d, Len(d), c, 0) /\ Len(d) + n = r /\ Run(b, n, c, k)
        BY <2>1, <3>2 DEF BytesOf
      <4> HIDE DEF d, r, n, b
      <4>3. k \in Int /\ k = 0 + Len(d) /\ 0 \in Int
        BY <2>1, <4>1, <4>2
      <4> HIDE DEF k
      <4>4. p \in Seq(Conn \X Nat) /\ Len(p) = n /\ Run(p, n, c, k)
        <5>1. /\ SubSeq(b, 1, n) \in Seq(Conn \X Nat) /\ Len(SubSeq(b, 1, n)) = n
              /\ Run(b, n, c, k) => Run(SubSeq(b, 1, n), n, c, k)
          BY <4>1, <4>3, RunFirst
        <5> QED
          BY <4>2, <5>1
      <4>5. Pending(c) = p
        <5>1. 0 + 1 = 1
          OBVIOUS
        <5>2. Pending(c) = SubSeq(b, 1, n)
          BY <3>2 DEF Pending, n, b
        <5> QED
          BY <5>1, <5>2
      <4> HIDE DEF p
      <4>6. Run(p, Len(p), c, 0 + Len(d))
        BY <4>3, <4>4
      <4>9. Len(p) = n /\ d \in Seq(Conn \X Nat) /\ 0 \in Int
        BY <2>1, <4>3, <4>4
      <4>7. Len(d \o p) = Len(d) + Len(p) /\ Run(d \o p, Len(d) + Len(p), c, 0)
        BY <4>2, <4>4, <4>6, <4>9, RunConcat
      <4>8. Len(d \o p) = r /\ r - Len(d \o p) = 0
        BY <2>1, <4>1, <4>2, <4>3, <4>4, <4>7
      <4> QED
        BY <2>1, <2>6, <3>2, <4>4, <4>5, <4>7, <4>8, ConcatProperties
    <3>3. CASE ~ protocol /\ pc[c] \notin {"got", "deliver"}
      <4>1. Len(d) + 0 = r /\ Run(d, Len(d), c, 0)
        BY <2>1, <3>3 DEF BytesOf
      <4>2. Len(d) = r /\ r - Len(d) = 0
        BY <2>1, <4>1
      <4>3. Pending(c) = <<>>
        BY <3>3 DEF Pending
      <4>4. d \o <<>> = d
        BY <2>1
      <4> QED
        BY <2>1, <2>6, <3>3, <4>1, <4>2, <4>3, <4>4
    <3> QED
      BY <2>1, <3>1, <3>2, <3>3
  <2> DEFINE s == d \o Pending(c)
  <2>3. s \in Seq(Conn \X Nat) /\ Run(s, Len(s), c, r - Len(s)) /\ r \in Int
    BY <2>1, <2>2
  <2>5. r - Len(s) = l /\ Len(s) \in Nat
    BY <2>2, <2>3, LenProperties
  <2> HIDE DEF s, r, d, l
  <2>4. \A i \in DOMAIN s : s[i] = <<c, r - Len(s) + i>>
    BY <2>3, RunIs
  <2>7. l + Len(s) = r
    BY <2>1, <2>5
  <2> QED
    BY <2>4, <2>5, <2>7 DEF s
<1> QED
  BY <1>1, CnInvariant, PTL
=============================================================================
