------------------------------ MODULE Connection ------------------------------
(***************************************************************************)
(* The TCP connections of one worker process: src/src/worker/connection.c, *)
(* src/php_connection.c and acceptConnectionTcp of src/src/worker.c, on    *)
(* top of a scheduler that keeps the promise of CallStack.                 *)
(*                                                                         *)
(* A connection has a coroutine that reads it, and runs a coroutine for    *)
(* each message and for each of its callbacks.  These coroutines send,     *)
(* pause, resume and close the connection, and they run nested: a close in *)
(* a callback resumes the reader and the sender from inside, and the       *)
(* callback itself may have been started by the reader.                    *)
(*                                                                         *)
(* The socket of a connection is what SocketIO shows it to be: a wait that *)
(* ends with its event, or with the closing of the socket.  The coroutines *)
(* that accept connections and handle signals are woken by the event loop  *)
(* only and are part of the main task.  The input method of a protocol is  *)
(* PHP code that runs in the reader, and may do there what callbacks do.   *)
(* A coroutine that goes on inside a connection that has been freed finds  *)
(* there what was there last, as the allocator leaves it.                  *)
(***************************************************************************)
EXTENDS Integers, FiniteSets, CallStack

CONSTANTS
  Conn,      \* the connections; the coroutine that reads c has the name c
  NFd,       \* the file descriptors are 1 .. NFd
  Protocols, \* may a worker have a protocol, may it have none: subset of BOOLEAN
  Pauses,    \* does PHP code pause connections?
  Resets,    \* do peers reset connections, and break the protocol?
  Consumes,  \* does PHP code call consumeRecvBuffer?
  MaxBytes   \* bound on the bytes each peer sends

ASSUME ConnectionAssumption ==
  /\ Conn \subseteq Other
  /\ Bottom \notin Other
  /\ NFd \in Nat
  /\ Protocols \subseteq BOOLEAN
  /\ Pauses \in BOOLEAN
  /\ Resets \in BOOLEAN
  /\ Consumes \in BOOLEAN
  /\ MaxBytes \in [Conn -> Nat]

VARIABLES
  conn,             \* the wmConnections, their sockets, and their references
  \* the worker
  protocol,         \* has it a protocol?
  worker_status,
  wm_connections,   \* per fd: the connection registered for it
  connections,      \* worker->connections
  read_buffer_tmp,  \* the buffer all connections read into
  exited,
  \* the coroutines
  pc,               \* per task: the function it is in, and where
  of,               \* per task: the connection it is at work on
  then,             \* per task: where it goes on after wmSocket_close
  frame,            \* per reader: the locals of wmConnection_read
  \* the peers, and the history
  peer,             \* per connection: bytes sent, and open, closed or reset
  delivered,        \* per connection: the bytes received that onMessage was called with
  lost,             \* per connection: how many bytes were forgotten with their string
  cut,              \* per connection: has consumeRecvBuffer taken bytes away?
  told,             \* per connection: how often onClose was called
  ousted,           \* the connections whose entry went with that of another one
  has_paused        \* has PHP code ever paused a connection?

sched  == csvars
tables == <<wm_connections, connections, ousted>>
worker == <<protocol, worker_status, exited, tables, read_buffer_tmp>>
coros  == <<pc, of, then, frame>>
amiss  == <<lost, cut>>
world  == <<peer, delivered, amiss, told, has_paused>>
cnvars == <<sched, conn, worker, coros, world>>

Task    == {Bottom} \cup Other
Handler == Other \ Conn
Fd      == 1 .. NFd
NoConn  == "no connection"

ASSUME NoConnAssumption == NoConn \notin Conn

Now            == Last(stack)
At(t, where)   == Now = t /\ pc[t] = where /\ ~ exited
Goto(t, where) == pc' = [pc EXCEPT ![t] = where]

\* Where a task runs PHP code.
PhpOf(t) == IF t \in Conn THEN "input" ELSE "php"

\* Where a task is when a function of the connection returns to its caller:
\* the reader ends, if it called the function itself; PHP code goes on; main
\* goes on with the event loop or with closing the rest.
Home(t) ==
  IF t = Bottom THEN IF worker_status = "SHUTDOWN" THEN "stop" ELSE "loop"
  ELSE IF t \in Conn /\ frame[t].leaves THEN "over" ELSE PhpOf(t)

Established(c) == conn[c].status = "ESTABLISHED"
Unread(c)      == peer[c].sent - conn[c].read

\* ret is what wmSocket_read returned; packet is what the string holds from
\* its offset on; offset tells if that is above 0, beyond if it is above the
\* length of the string; leaves, if the function returns now.
NoFrame ==
  [ret |-> 0, packet |-> <<>>, offset |-> FALSE, beyond |-> FALSE, leaves |-> FALSE]

set(c, k) == conn' = [conn EXCEPT ![c] = k]

(***************************************************************************)
(* References.  The object of a connection is freed, and the connection    *)
(* with it (wm_connection_free_object, wmConnection_free), when nobody     *)
(* holds it.  The reader does not.                                         *)
(***************************************************************************)
release(k, n) == [k EXCEPT !.refs = @ - n, !.freed = (k.refs = n)]

\* Mutant: the coroutine of a callback holds no reference to its argument.
start_unheld(t, c, back, k) ==
  \E h \in Handler :
    /\ Enter(h)
    /\ pc' = [pc EXCEPT ![h] = "php", ![t] = back]
    /\ of' = [of EXCEPT ![h] = c]
    /\ set(c, k)

start(t, c, back, k) ==
  \E h \in Handler :
    /\ ~ k.freed
    /\ Enter(h)
    /\ pc' = [pc EXCEPT ![h] = "php", ![t] = back]
    /\ of' = [of EXCEPT ![h] = c]
    /\ set(c, [k EXCEPT !.refs = @ + 1])

\* A callback of c, which becomes k, in a coroutine of its own, which holds a
\* reference to it; or there is none, or it does nothing that matters here.
\* What a callback of a connection that is freed does is left out.
Callback(t, c, back, k) ==
  \/ start(t, c, back, k)
  \/ Goto(t, back) /\ set(c, k) /\ UNCHANGED <<sched, of>>

(***************************************************************************)
(* wmSocket_close: see SocketIO.  The coroutines that wait are resumed one *)
(* after the other, then the fd is closed.                                 *)
(***************************************************************************)
Senders(c) == {t \in suspended : pc[t] = "send_wait" /\ of[t] = c}

resume(t) == IF t \in suspended THEN Reenter(t) ELSE UNCHANGED sched

\* t closes the socket of c, which becomes k, and then goes on at back.
close(t, c, k, back) ==
  /\ set(c, [k EXCEPT !.closed = TRUE, !.watched = FALSE])
  /\ then' = [then EXCEPT ![t] = back]
  /\ Goto(t, IF k.watched \/ Senders(c) # {} THEN "close_read" ELSE "close_fd")

CloseResumes(t) ==
  LET c == of[t] IN
  /\ \/ /\ At(t, "close_read")
        /\ IF pc[c] = "read_wait" THEN resume(c) ELSE UNCHANGED sched
        /\ Goto(t, "close_write")
     \/ /\ At(t, "close_write")
        /\ IF Senders(c) = {} THEN UNCHANGED sched ELSE \E u \in Senders(c) : Reenter(u)
        /\ Goto(t, "close_fd")
  /\ UNCHANGED <<conn, worker, of, then, frame, world>>

CloseFd(t) ==
  /\ At(t, "close_fd")
  /\ set(of[t], [conn[of[t]] EXCEPT !.removed = TRUE])
  /\ Goto(t, then[t])
  /\ then' = [then EXCEPT ![t] = "nowhere"]
  /\ UNCHANGED <<sched, worker, of, frame, world>>

(***************************************************************************)
(* wmConnection_destroy, the first call of which does it all: close the    *)
(* socket, resume a paused reader, call onClose, and drop the entries and  *)
(* the references.                                                         *)
(***************************************************************************)

\* Mutant: the status is not set.
Destroy_again(t) ==
  /\ At(t, "destroy")
  /\ IF Established(of[t])
       THEN close(t, of[t], [conn[of[t]] EXCEPT !.isPaused = FALSE], "unpause")
       ELSE Goto(t, Home(t)) /\ UNCHANGED <<conn, then>>
  /\ UNCHANGED <<sched, worker, of, frame, world>>

Destroy(t) ==
  /\ At(t, "destroy")
  /\ IF Established(of[t])
       THEN close(t, of[t], [conn[of[t]] EXCEPT !.status = "CLOSED", !.isPaused = FALSE],
                  "unpause")
       ELSE Goto(t, Home(t)) /\ UNCHANGED <<conn, then>>
  /\ UNCHANGED <<sched, worker, of, frame, world>>

\* Mutant: a paused reader is forgotten.
DestroyResumes_none(t) ==
  /\ At(t, "unpause")
  /\ Goto(t, "onClose")
  /\ UNCHANGED <<sched, conn, worker, of, then, frame, world>>

DestroyResumes(t) ==
  /\ At(t, "unpause")
  /\ IF conn[of[t]].pausedCoro THEN resume(of[t]) ELSE UNCHANGED sched
  /\ Goto(t, "onClose")
  /\ UNCHANGED <<conn, worker, of, then, frame, world>>

OnClose(t) ==
  /\ At(t, "onClose")
  /\ Callback(t, of[t], "drop", conn[of[t]])
  /\ told' = [told EXCEPT ![of[t]] = @ + 1]
  /\ UNCHANGED <<worker, then, frame, peer, delivered, amiss, has_paused>>

DestroyDrops(t) ==
  LET c == of[t] IN
  /\ At(t, "drop")
  /\ connections' = connections \ {c}
  /\ wm_connections' = [wm_connections EXCEPT ![conn[c].fd] = NoConn]
  /\ ousted' = ousted \cup ({wm_connections[conn[c].fd]} \ {c, NoConn})
  /\ set(c, release(conn[c], IF c \in connections THEN 2 ELSE 1))
  /\ Goto(t, Home(t))
  /\ UNCHANGED <<sched, protocol, worker_status, exited, read_buffer_tmp, of, then, frame,
                 world>>

\* onError: the callback, and the end of a connection whose socket is closed.
OnError(t) ==
  /\ \/ At(t, "onError") /\ Callback(t, of[t], "errored", conn[of[t]])
     \/ /\ At(t, "errored")
        /\ Goto(t, IF conn[of[t]].closed THEN "destroy" ELSE Home(t))
        /\ UNCHANGED <<sched, conn, of>>
  /\ UNCHANGED <<worker, then, frame, world>>

(***************************************************************************)
(* wmConnection_read.  check_read_status is called before each read        *)
(* ("check"), before each look for a packet ("parse"), and, in a worker    *)
(* without a protocol, between a read and its message ("got").             *)
(***************************************************************************)
Checks == {"check", "parse", "got"}

true(at) ==
  IF at = "check" THEN "read" ELSE IF at = "parse" THEN "input" ELSE "deliver"
false(at) == IF at = "parse" THEN "keep" ELSE "over"

Paused(at) ==
  IF at = "check" THEN "check_paused" ELSE IF at = "parse" THEN "parse_paused" ELSE "got_paused"

Readable(c) == worker_status = "RUNNING" /\ Established(c)

check_read_status(c, at) ==
  /\ At(c, at)
  /\ at = "parse" => frame[c].packet # <<>> \/ frame[c].beyond
  /\ IF Readable(c) /\ conn[c].isPaused
       THEN /\ set(c, [conn[c] EXCEPT !.pausedCoro = TRUE])
            /\ Suspend
            /\ Goto(c, Paused(at))
       ELSE /\ Goto(c, IF Readable(c) THEN true(at) ELSE false(at))
            /\ UNCHANGED <<sched, conn>>
  /\ UNCHANGED <<worker, of, then, frame, world>>

GoesOn(c, at) ==
  /\ At(c, Paused(at))
  /\ set(c, [conn[c] EXCEPT !.pausedCoro = FALSE])
  /\ Goto(c, IF conn[c].status = "CLOSED" THEN false(at) ELSE true(at))
  /\ UNCHANGED <<sched, worker, of, then, frame, world>>

\* What recv puts into the buffer: the next n bytes, over what was there.
Received(c, n) ==
  LET old == read_buffer_tmp IN
  [i \in 1 .. (IF n > Len(old) THEN n ELSE Len(old)) |->
     IF i <= n THEN <<c, conn[c].read + i>> ELSE old[i]]

\* Data.  With a protocol it is appended to packet at once: that is the
\* connection's read_packet_buffer, if it has one, and else a string that only
\* this function knows.
ReadData(c) ==
  /\ At(c, "read")
  /\ ~ conn[c].closed /\ peer[c].end # "reset"
  /\ \E n \in 1 .. Unread(c) :
       /\ set(c, [conn[c] EXCEPT !.read = @ + n])
       /\ IF protocol
            THEN /\ frame' = [frame EXCEPT ![c].offset = FALSE,
                       ![c].packet = @ \o [i \in 1 .. n |-> <<c, conn[c].read + i>>]]
                 /\ UNCHANGED read_buffer_tmp
            ELSE /\ frame' = [frame EXCEPT ![c].ret = n]
                 /\ read_buffer_tmp' = Received(c, n)
  /\ Goto(c, IF protocol THEN "parse" ELSE "got")
  /\ UNCHANGED <<sched, protocol, worker_status, exited, tables, of, then, world>>

\* No data: the socket is closed, an error, the end of the stream, or none yet.
leaving(c) == frame' = [frame EXCEPT ![c].leaves = TRUE]

LeavesBy(c, where) == Goto(c, where) /\ leaving(c)

ReadFails(c) ==
  /\ At(c, "read")
  /\ \/ /\ conn[c].closed
        /\ LeavesBy(c, "destroy")
        /\ UNCHANGED conn
     \/ /\ ~ conn[c].closed /\ peer[c].end = "reset"
        /\ LeavesBy(c, "onError")
        /\ UNCHANGED conn
     \/ /\ ~ conn[c].closed /\ Unread(c) = 0 /\ peer[c].end = "closed"
        /\ LeavesBy(c, "destroy")
        /\ set(c, [conn[c] EXCEPT !.closed = TRUE])
  /\ UNCHANGED <<sched, worker, of, then, world>>

ReadWaits(c) ==
  /\ At(c, "read")
  /\ ~ conn[c].closed /\ Unread(c) = 0 /\ peer[c].end = "open"
  /\ Goto(c, "read_wait")
  /\ set(c, [conn[c] EXCEPT !.watched = TRUE])
  /\ Suspend
  /\ UNCHANGED <<worker, of, then, frame, world>>

ReadGoesOn(c) ==
  /\ At(c, "read_wait")
  /\ Goto(c, "read")
  /\ UNCHANGED <<sched, conn, worker, of, then, frame, world>>

\* onMessage is called with these bytes.
deliver(c, bytes, back) ==
  /\ Callback(c, c, back, conn[c])
  /\ delivered' = [delivered EXCEPT ![c] = @ \o bytes]
  /\ UNCHANGED <<worker, then, peer, amiss, told, has_paused>>

Deliver(c) ==
  /\ At(c, "deliver")
  /\ deliver(c, SubSeq(read_buffer_tmp, 1, frame[c].ret), "check")
  /\ UNCHANGED frame

\* The protocol has told the length of the first packet.  0: it is not complete.
\* Nobody compares the length with what there is.  onMessage gets so many bytes,
\* and if these are not all received, it gets what lies behind the string.
Input(c) ==
  /\ At(c, "input") /\ ~ frame[c].beyond
  /\ \/ /\ Goto(c, "keep")
        /\ UNCHANGED <<sched, conn, worker, of, then, frame, world>>
     \/ \E n \in 1 .. Len(frame[c].packet), beyond \in BOOLEAN :
          /\ beyond => n = Len(frame[c].packet)
          /\ deliver(c, SubSeq(frame[c].packet, 1, n), "parse")
          /\ frame' = [frame EXCEPT ![c].offset = TRUE, ![c].beyond = beyond,
                                    ![c].packet = SubSeq(@, n + 1, Len(@))]

\* The packet is too long, or the answer is not a number.
InputFails(c) ==
  /\ At(c, "input") /\ ~ frame[c].beyond /\ Resets
  /\ \/ Goto(c, "destroy") /\ UNCHANGED <<conn, then>>
     \/ close(c, c, conn[c], "onError")
  /\ leaving(c)
  /\ UNCHANGED <<sched, worker, of, world>>

\* Nobody can allocate a string of a length below 0: the answer is below 0, or
\* the offset is beyond the length.
Fails(c) ==
  /\ \/ At(c, "input") /\ (Resets \/ frame[c].beyond)
     \/ At(c, "keep") /\ frame[c].beyond
  /\ exited' = TRUE
  /\ UNCHANGED <<sched, conn, protocol, worker_status, tables, read_buffer_tmp, coros, world>>

\* No more packets for now.
LooksDone(c) ==
  At(c, "keep") \/ (At(c, "parse") /\ frame[c].packet = <<>> /\ ~ frame[c].beyond)

\* Mutant: the packet that has been delivered is kept with the rest.
Keep_all(c) ==
  /\ LooksDone(c)
  /\ set(c, [conn[c] EXCEPT !.read_packet_buffer = @ \/ frame[c].offset])
  /\ frame' = [frame EXCEPT ![c].packet = IF frame[c].offset THEN delivered[c] \o @ ELSE <<>>]
  /\ Goto(c, "check")
  /\ UNCHANGED <<sched, worker, of, then, world>>

\* Once there has been a packet, the connection keeps what is left over.  A
\* string that held none is forgotten before that.  A copy of a length below 0
\* may be refused, then there is no string, and check_read_status, which has
\* just said no, says it again.
Keep(c) ==
  LET kept == frame[c].offset \/ conn[c].read_packet_buffer IN
  /\ LooksDone(c)
  /\ set(c, [conn[c] EXCEPT !.read_packet_buffer = kept /\ ~ frame[c].beyond])
  /\ IF kept
       THEN UNCHANGED <<frame, lost>>
       ELSE /\ frame' = [frame EXCEPT ![c].packet = <<>>]
            /\ lost' = [lost EXCEPT ![c] = @ + Len(frame[c].packet)]
  /\ Goto(c, IF frame[c].beyond THEN "over" ELSE "check")
  /\ UNCHANGED <<sched, worker, of, then, peer, delivered, cut, told, has_paused>>

ReaderEnds(c) ==
  /\ At(c, "over")
  /\ Leave
  /\ Goto(c, "gone")
  /\ frame' = [frame EXCEPT ![c] = NoFrame]
  /\ UNCHANGED <<conn, worker, of, then, world>>

(***************************************************************************)
(* The methods PHP code calls: send, close and destroy, pauseRecv,         *)
(* resumeRecv and consumeRecvBuffer.  It calls them in the callbacks of    *)
(* the connection, or later in the coroutines of these, which may sleep,   *)
(* and in the input method of the protocol.                                *)
(***************************************************************************)
InPhp(t) == At(t, PhpOf(t)) /\ (t \in Conn => ~ frame[t].beyond)

\* wmConnection_send: the protocol encodes; onBufferFull may be called before
\* the first byte is sent.  Two senders at a time: see SocketIO.
Send(t) ==
  LET c == of[t] IN
  /\ InPhp(t)
  /\ Established(c)
  /\ \/ /\ protocol /\ Resets
        /\ close(t, c, conn[c], "onError")
        /\ UNCHANGED <<sched, of>>
     \/ /\ \A u \in Other : of[u] = c => pc[u] \notin {"send", "send_wait"}
        /\ Callback(t, c, "send", conn[c])
        /\ UNCHANGED then
  /\ UNCHANGED <<worker, frame, world>>

SendReturns(t) ==
  LET c == of[t] IN
  /\ At(t, "send")
  /\ \/ /\ conn[c].closed
        /\ Goto(t, "destroy")
        /\ UNCHANGED conn
     \/ /\ ~ conn[c].closed /\ peer[c].end = "reset"
        /\ Goto(t, "destroy")
        /\ set(c, [conn[c] EXCEPT !.closed = TRUE])
     \/ /\ ~ conn[c].closed /\ peer[c].end # "reset"
        /\ Goto(t, PhpOf(t)) \/ Goto(t, "onError")
        /\ UNCHANGED conn
  /\ UNCHANGED <<sched, worker, of, then, frame, world>>

SendWaits(t) ==
  /\ At(t, "send")
  /\ ~ conn[of[t]].closed /\ peer[of[t]].end # "reset"
  /\ Suspend
  /\ Goto(t, "send_wait")
  /\ UNCHANGED <<conn, worker, of, then, frame, world>>

SendGoesOn(t) ==
  /\ At(t, "send_wait")
  /\ Goto(t, "send")
  /\ UNCHANGED <<sched, conn, worker, of, then, frame, world>>

Close(t) ==
  /\ InPhp(t)
  /\ Goto(t, "destroy")
  /\ UNCHANGED <<sched, conn, worker, of, then, frame, world>>

PauseRecv(t) ==
  /\ InPhp(t) /\ Pauses
  /\ set(of[t], [conn[of[t]] EXCEPT !.isPaused = TRUE])
  /\ has_paused' = TRUE
  /\ UNCHANGED <<sched, worker, coros, peer, delivered, amiss, told>>

ResumeRecv(t) ==
  /\ InPhp(t) /\ Pauses
  /\ set(of[t], [conn[of[t]] EXCEPT !.isPaused = FALSE])
  /\ IF conn[of[t]].pausedCoro THEN resume(of[t]) ELSE UNCHANGED sched
  /\ UNCHANGED <<worker, coros, world>>

\* Takes the last n bytes from the string that the connection keeps.
ConsumeRecvBuffer(t) ==
  LET c == of[t] IN
  /\ InPhp(t) /\ Consumes
  /\ conn[c].read_packet_buffer
  /\ \E n \in 1 .. Len(frame[c].packet) - 1 :
       frame' = [frame EXCEPT ![c].packet = SubSeq(@, 1, Len(@) - n)]
  /\ cut' = [cut EXCEPT ![c] = TRUE]
  /\ UNCHANGED <<sched, conn, worker, pc, of, then, peer, delivered, lost, told, has_paused>>

Sleeps(t) ==
  /\ InPhp(t)
  /\ Suspend
  /\ UNCHANGED <<conn, worker, coros, world>>

\* The coroutine ends and lets its argument go.
Ends(h) ==
  /\ InPhp(h) /\ h \in Handler
  /\ Leave
  /\ Goto(h, "gone")
  /\ of' = [of EXCEPT ![h] = NoConn]
  /\ set(of[h], release(conn[of[h]], 1))
  /\ UNCHANGED <<worker, then, frame, world>>

(***************************************************************************)
(* The main task: the event loop, which closes a socket with data that     *)
(* nobody waits for; acceptConnectionTcp; reload and stop.                 *)
(***************************************************************************)
EpollIn(c) ==
  /\ At(Bottom, "loop")
  /\ conn[c].watched
  /\ Unread(c) > 0 \/ peer[c].end # "open"
  /\ IF pc[c] = "read_wait"
       THEN resume(c) /\ UNCHANGED <<conn, coros>>
       ELSE /\ close(Bottom, c, conn[c], "loop")
            /\ of' = [of EXCEPT ![Bottom] = c]
            /\ UNCHANGED <<sched, frame>>
  /\ UNCHANGED <<worker, world>>

\* The socket can be written, or a sleep is over.
Wakes(t) ==
  /\ At(Bottom, "loop")
  /\ pc[t] \in {PhpOf(t), "send_wait"}
  /\ Reenter(t)
  /\ UNCHANGED <<conn, worker, coros, world>>

\* The kernel gives out the least fd that is free.  A stale entry for it goes.
FreeFds == Fd \ {conn[c].fd : c \in {d \in Conn : ~ conn[d].removed}}

\* Mutant: the entry of an earlier connection with this fd stays.
registered_first(c, fd) ==
  [wm_connections EXCEPT ![fd] = IF @ = NoConn THEN c ELSE @]

registered(c, fd) == [wm_connections EXCEPT ![fd] = c]

Accept(c) ==
  /\ At(Bottom, "loop")
  /\ worker_status = "RUNNING"
  /\ conn[c].status = "none"
  /\ \E fd \in FreeFds :
       /\ \A f \in FreeFds : fd <= f
       /\ wm_connections' = registered(c, fd)
       /\ Callback(Bottom, c, "accepted",
            [conn[c] EXCEPT !.status = "ESTABLISHED", !.fd = fd, !.removed = FALSE, !.refs = 2])
  /\ connections' = connections \cup {c}
  /\ UNCHANGED <<protocol, worker_status, exited, read_buffer_tmp, ousted, then, frame, world>>

\* The coroutine that reads it.
StartRead(c) ==
  /\ At(Bottom, "accepted")
  /\ conn[c].status # "none"
  /\ Enter(c)
  /\ pc' = [pc EXCEPT ![c] = "check", ![Bottom] = "loop"]
  /\ UNCHANGED <<conn, worker, of, then, frame, world>>

\* Reload and stop in a worker process; worker_stop closes all connections.
Reload ==
  /\ At(Bottom, "loop")
  /\ worker_status = "RUNNING"
  /\ worker_status' = "RELOADING"
  /\ UNCHANGED <<sched, conn, protocol, exited, tables, read_buffer_tmp, coros, world>>

Stop ==
  /\ At(Bottom, "loop")
  /\ worker_status' = "SHUTDOWN"
  /\ Goto(Bottom, "stop")
  /\ UNCHANGED <<sched, conn, protocol, exited, tables, read_buffer_tmp, of, then, frame,
                 world>>

CloseConnections ==
  /\ At(Bottom, "stop")
  /\ \E fd \in Fd :
       /\ wm_connections[fd] # NoConn
       /\ wm_connections' = [wm_connections EXCEPT ![fd] = NoConn]
       /\ of' = [of EXCEPT ![Bottom] = wm_connections[fd]]
  /\ Goto(Bottom, "destroy")
  /\ UNCHANGED <<sched, conn, protocol, worker_status, exited, connections, ousted,
                 read_buffer_tmp, then, frame, world>>

Exit ==
  /\ At(Bottom, "stop")
  /\ \A fd \in Fd : wm_connections[fd] = NoConn
  /\ exited' = TRUE
  /\ UNCHANGED <<sched, conn, protocol, worker_status, tables, read_buffer_tmp, coros, world>>

\* What a peer sends while coroutines run is taken for sent before they did: a
\* read may leave some of it.  A reset is noticed at once.
Peer(c) ==
  /\ peer[c].end = "open" /\ ~ exited
  /\ conn[c].status # "none" /\ ~ conn[c].removed
  /\ \/ Now = Bottom /\ peer[c].sent < MaxBytes[c] /\ peer' = [peer EXCEPT ![c].sent = @ + 1]
     \/ Now = Bottom /\ peer' = [peer EXCEPT ![c].end = "closed"]
     \/ Resets /\ peer' = [peer EXCEPT ![c].end = "reset"]
  /\ UNCHANGED <<sched, conn, worker, coros, delivered, amiss, told, has_paused>>

CnInit ==
  /\ CSInit
  /\ conn = [c \in Conn |->
       [status |-> "none", fd |-> 0, isPaused |-> FALSE, pausedCoro |-> FALSE,
        closed |-> FALSE, removed |-> TRUE, watched |-> FALSE,
        read_packet_buffer |-> FALSE, read |-> 0, refs |-> 0, freed |-> FALSE]]
  /\ protocol \in Protocols
  /\ worker_status = "RUNNING"
  /\ wm_connections = [fd \in Fd |-> NoConn]
  /\ connections = {}
  /\ read_buffer_tmp = <<>>
  /\ exited = FALSE
  /\ pc = [t \in Task |-> IF t = Bottom THEN "loop" ELSE "gone"]
  /\ of = [t \in Task |-> IF t \in Conn THEN t ELSE NoConn]
  /\ then = [t \in Task |-> "nowhere"]
  /\ frame = [c \in Conn |-> NoFrame]
  /\ peer = [c \in Conn |-> [sent |-> 0, end |-> "open"]]
  /\ delivered = [c \in Conn |-> <<>>]
  /\ lost = [c \in Conn |-> 0]
  /\ cut = [c \in Conn |-> FALSE]
  /\ told = [c \in Conn |-> 0]
  /\ ousted = {}
  /\ has_paused = FALSE

Closes(t) ==
  \/ CloseResumes(t) \/ CloseFd(t)
  \/ Destroy(t) \/ DestroyResumes(t) \/ OnClose(t) \/ DestroyDrops(t)
  \/ OnError(t)

Reads(c) ==
  \/ \E at \in Checks : check_read_status(c, at) \/ GoesOn(c, at)
  \/ ReadData(c) \/ ReadFails(c) \/ ReadWaits(c) \/ ReadGoesOn(c)
  \/ Deliver(c) \/ Input(c) \/ InputFails(c) \/ Fails(c) \/ Keep(c)
  \/ ReaderEnds(c)

Sends(t) == SendReturns(t) \/ SendWaits(t) \/ SendGoesOn(t)

Php(t) ==
  \/ Send(t) \/ Close(t) \/ PauseRecv(t) \/ ResumeRecv(t) \/ ConsumeRecvBuffer(t)
  \/ Sleeps(t) \/ Ends(t)

CnNext ==
  \/ \E t \in Task : Closes(t)
  \/ \E c \in Conn : Reads(c) \/ EpollIn(c) \/ Accept(c) \/ StartRead(c) \/ Peer(c)
  \/ \E t \in Other : Sends(t) \/ Php(t) \/ Wakes(t)
  \/ Reload \/ Stop \/ CloseConnections \/ Exit

CnSpec == CnInit /\ [][CnNext]_cnvars

-----------------------------------------------------------------------------
(***************************************************************************)
(* Properties.                                                             *)
(***************************************************************************)

Destroying(c) ==
  \E t \in Task : of[t] = c /\ "unpause" \in {then[t], pc[t]}

\* onClose is called once for each connection, whoever else finds it closed
\* while it is being destroyed.
OnCloseOnce ==
  \A c \in Conn :
    /\ told[c] <= 1
    /\ conn[c].status = "CLOSED" /\ c \notin connections => told[c] = 1

\* A connection is freed exactly when it is destroyed and no coroutine of a
\* callback holds it: not earlier, not later, and not twice.
FreedWhenUnheld ==
  \A c \in Conn :
    /\ conn[c].freed <=> /\ conn[c].status = "CLOSED"
                         /\ c \notin connections
                         /\ \A h \in Handler : of[h] # c
    /\ conn[c].refs >= 0

\* wm_connections leads to connections that are there, and never to one whose
\* fd is in use by another.  And it leads to all of them, until worker_stop takes
\* them out one by one: but a connection that is destroyed when its fd has long
\* been closed and used again takes the entry of its successor away.
TableOfLive ==
  /\ \A fd \in Fd :
       LET c == wm_connections[fd] IN
       c # NoConn =>
         /\ conn[c].fd = fd /\ c \in connections /\ ~ conn[c].freed
         /\ \A d \in Conn : conn[d].fd = fd /\ ~ conn[d].removed => d = c
  /\ \A c \in Conn \ ousted :
       Established(c) /\ ~ conn[c].removed =>
         wm_connections[conn[c].fd] = c \/ (pc[Bottom] = "destroy" /\ of[Bottom] = c)

\* A reader that waits for data is known to the event loop, one that waits for
\* resumeRecv is known to the connection; or the coroutine that closes the
\* connection is about to come to it.  It never waits in one that is freed.
ReadersHeard ==
  \A c \in suspended \cap Conn :
    /\ pc[c] = "read_wait" =>
         /\ ~ conn[c].freed
         /\ conn[c].watched \/ (\E t \in Task : pc[t] = "close_read" /\ of[t] = c)
    /\ pc[c] \notin {"read_wait", "input", "send_wait"} =>
         /\ ~ conn[c].freed /\ conn[c].pausedCoro
         /\ conn[c].isPaused \/ Destroying(c)

\* What its reader holds and has not handed over yet.
Pending(c) ==
  IF protocol THEN frame[c].packet
  ELSE IF pc[c] \in {"got", "deliver"} THEN SubSeq(read_buffer_tmp, 1, frame[c].ret) ELSE <<>>

\* onMessage gets the bytes of its connection in order, none twice, and none is
\* missing between them.  The first ones may be missing: a string in which no
\* packet was found is forgotten as long as there has been none.  A length that
\* is beyond what there is makes onMessage get what was never received, but only
\* behind everything else: nothing more is read or handed over after that.
\* (This is for code that does not call consumeRecvBuffer, which takes away the
\* last bytes; and a worker without a protocol must not pause: the common buffer
\* may be overwritten while a message waits in it.)
BytesInOrder ==
  \A c \in Conn :
    LET bytes == delivered[c] \o Pending(c) IN
    /\ (protocol \/ ~ has_paused) /\ ~ cut[c] /\ pc[c] \notin {"over", "gone"} =>
         /\ \A i \in DOMAIN bytes : bytes[i] = <<c, lost[c] + i>>
         /\ lost[c] + Len(bytes) = conn[c].read
    /\ ~ protocol => lost[c] = 0
    /\ frame[c].beyond =>
         Pending(c) = <<>> /\ pc[c] \in {"parse", "parse_paused", "input", "keep", "over"}

\* A connection is not freed while a function works on it: its reader, or
\* acceptConnectionTcp that is about to start the reader.
FreedUnused ==
  \A c \in Conn : conn[c].freed => pc[c] \in {"over", "gone"}
=============================================================================
