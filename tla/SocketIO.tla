------------------------------- MODULE SocketIO -------------------------------
(***************************************************************************)
(* A coroutine socket of src/src/coroutine/socket.c in the event loop of   *)
(* src/src/worker/loop.c, on top of a scheduler that keeps the promise of  *)
(* CallStack.                                                              *)
(*                                                                         *)
(* A call that cannot go on registers its event with epoll, leaves its     *)
(* coroutine in the socket, and yields; the main task, in the event loop,  *)
(* resumes that coroutine when epoll reports the event or a timer fires.   *)
(* Closing a socket resumes both coroutines from inside the call.  Socket  *)
(* calls never overlap but at a yield, so that each piece of a call from   *)
(* one yield to the next is one step, or a few that nothing can separate.  *)
(*                                                                         *)
(* There are two kinds of sockets.  A SEMI_AUTO socket (a connection)      *)
(* stays registered; one coroutine, the Reader, reads it in a loop.  An    *)
(* AUTO socket (a PHP stream) is taken out of epoll at each event.         *)
(***************************************************************************)
EXTENDS Naturals, CallStack

CONSTANTS
  Reader,    \* the coroutine that reads a connection
  LoopTypes, \* the kinds of socket there are: a subset of {"SEMI_AUTO", "AUTO"}
  Pauses,    \* does the reader of a connection wait for anything but data?
  MaxSend,   \* maxSendBufferSize
  MaxWrite,  \* bound on the length of a wmSocket_write
  Room,      \* size of the send buffer of the kernel
  MaxBytes   \* bound on the bytes handed over

ASSUME SocketAssumption ==
  /\ Reader \in Other
  /\ Bottom \notin Other
  /\ LoopTypes \subseteq {"SEMI_AUTO", "AUTO"}
  /\ Pauses \in BOOLEAN
  /\ MaxSend \in Nat \ {0}
  /\ MaxWrite \in Nat \ {0}
  /\ Room \in Nat \ {0}
  /\ MaxBytes \in Nat

READ  == "READ"    \* WM_EVENT_READ and EPOLLIN
WRITE == "WRITE"
Event == {READ, WRITE}

NoCo == "no coroutine"

ASSUME NoCoAssumption == NoCo \notin {Bottom} \cup Other

VARIABLES
  \* the wmSocket
  loop_type, events, closed, removed, read_co, write_co, read_timer, write_buffer,
  \* the coroutines and the event loop
  pc,       \* per task: the socket function it is in, and where
  todo,     \* per coroutine: the buffer of its wmSocket_write
  ret_num,  \* per coroutine: the bytes its wmSocket_write has counted
  batch,    \* what epoll_wait has reported and is not handled yet
  freeing,  \* the task inside wmSocket_free
  freed,    \* has the socket been freed?
  exited,   \* the process has exited, or has touched a freed socket
  \* the kernel
  epoll,    \* the events epoll looks for (none: the fd is not registered)
  rx,       \* is there anything to read?
  peer,     \* what the peer has done: nothing, or closed, or reset
  room,     \* free bytes of the kernel's send buffer
  wire,     \* the bytes sent, in this order
  given,    \* number of bytes handed over; byte n is the n-th of them
  \* history
  overlapped, \* the events for which, since calls have overlapped, one may wait
              \* whom the socket does not know
  torn        \* has a wmSocket_write waited after it had sent a part?

sched  == csvars
flags  == <<loop_type, closed, removed, freeing, freed, exited>>
waits  == <<events, epoll, read_co, write_co, read_timer>>
output == <<write_buffer, todo, ret_num, room, wire, given>>
input  == <<rx, peer>>
history == <<overlapped, torn>>
sovars == <<sched, flags, waits, output, input, pc, batch, history>>

Task == {Bottom} \cup Other
Now  == Last(stack)   \* the task that runs

\* The functions that read and those that write, from their first look at the
\* socket to their return.
Reading == {"read", "read_wait"}
Writing == {"send", "send_wait", "write", "write_wait"}

At(t, where) == Now = t /\ pc[t] = where /\ ~ exited

Goto(t, where) == pc' = [pc EXCEPT ![t] = where]

\* The place a function returns to.
Home(t) == IF t = Bottom THEN "batch" ELSE "php"

(***************************************************************************)
(* wmWorkerLoop_add, _remove and _del.  EPOLL_CTL_ADD fails if the fd is   *)
(* registered already, EPOLL_CTL_MOD if it is not; events keeps the new    *)
(* value either way.  When remove leaves no event, _del finds nothing to   *)
(* do, and the fd stays registered.                                        *)
(***************************************************************************)
AddWorks(e) == e \in events \/ (events = {}) = (epoll = {})

loop_add(e) ==
  /\ events' = events \cup {e}
  /\ epoll' = IF e \notin events /\ AddWorks(e) THEN events' ELSE epoll

\* Mutant: every event is removed.
loop_remove_all(e) ==
  /\ e \in Event
  /\ events' = {}
  /\ epoll' = {}

loop_remove(e) ==
  /\ events' = events \ {e}
  /\ epoll' = IF e \in events /\ events' # {} THEN events' ELSE epoll

\* What epoll looks for after a _del.
loop_del == IF events # {} THEN {} ELSE epoll

(***************************************************************************)
(* What PHP code may do with the socket.                                   *)
(***************************************************************************)

\* The reader of a connection is the loop of wmConnection_read: it reads, and
\* starts a coroutine for each message.
InLoop(c) == c = Reader /\ loop_type = "SEMI_AUTO" /\ ~ Pauses

InUse(functions) == \E c \in Other : pc[c] \in functions

MayCall(c) == At(c, "php") /\ c \in Other /\ ~ freed /\ freeing = NoCo

\* check_bound_co only sees who waits for the same event.  On a stream the event
\* of a reader takes that of a writer out of epoll, and the other way round; and
\* a send that onBufferWillFull starts inside another overwrites write_co.
Overlaps(e) ==
  IF loop_type = "AUTO"
    THEN IF InUse(Reading \cup Writing) THEN Event ELSE {}
    ELSE IF e = WRITE /\ InUse(Writing) THEN {WRITE} ELSE {}

Overlap(e) == overlapped' = overlapped \cup Overlaps(e) /\ UNCHANGED torn

\* check_bound_co: two coroutines wait in one direction, and the process exits.
Exits(c, co) ==
  /\ MayCall(c)
  /\ co # NoCo
  /\ exited' = TRUE
  /\ UNCHANGED <<sched, loop_type, closed, removed, freeing, freed, waits, output,
                 input, pc, batch, history>>

(***************************************************************************)
(* wmSocket_read; accept and recvfrom wait in the same way.                *)
(***************************************************************************)
Read(c) ==
  /\ MayCall(c)
  /\ c = Reader \/ loop_type = "AUTO"
  /\ read_co = NoCo
  /\ ~ closed
  /\ Overlap(READ)
  /\ Goto(c, "read")
  /\ UNCHANGED <<sched, flags, waits, output, input, batch>>

ReadExits(c) == (c = Reader \/ loop_type = "AUTO") /\ Exits(c, read_co)

\* After an error the loop of wmConnection_read, and its coroutine, is over.
Fails(c) == Goto(c, IF InLoop(c) THEN "over" ELSE "php")

\* timer_add and timer_del; a timer that is there already stays.
\* Mutant: none is added.
timer_add_none == UNCHANGED read_timer

timer_add == read_timer' = TRUE
timer_del == read_timer' = FALSE

\* It returns: with data, at the end of the stream, or with an error; the
\* timer is taken back.
ReadReturns(c) ==
  /\ At(c, "read")
  /\ \/ /\ closed
        /\ Goto(c, "php")
        /\ UNCHANGED <<closed, rx, events, epoll>>
     \/ /\ ~ closed /\ rx
        /\ rx' = FALSE
        /\ Goto(c, "php")
        /\ UNCHANGED <<closed, events, epoll>>
     \/ /\ ~ closed /\ ~ rx /\ peer # "open"
        /\ closed' = TRUE
        /\ Goto(c, "php")
        /\ UNCHANGED <<rx, events, epoll>>
     \/ /\ ~ closed /\ ~ rx /\ peer = "reset"
        /\ Fails(c)
        /\ UNCHANGED <<closed, rx, events, epoll>>
     \/ /\ ~ closed /\ ~ rx /\ peer = "open" /\ ~ AddWorks(READ)
        /\ loop_add(READ)
        /\ Fails(c)
        /\ UNCHANGED <<closed, rx>>
  /\ timer_del
  /\ UNCHANGED <<sched, loop_type, removed, freeing, freed, exited, read_co, write_co,
                 output, peer, batch, history>>

ReadBlocks(c) ==
  /\ At(c, "read")
  /\ ~ closed /\ ~ rx /\ peer = "open"
  /\ AddWorks(READ)
  /\ loop_add(READ)
  /\ timer_add
  /\ read_co' = c
  /\ Suspend
  /\ Goto(c, "read_wait")
  /\ UNCHANGED <<flags, write_co, output, input, batch, history>>

\* Woken: if the timer has fired it returns, else it tries again.
ReadGoesOn(c) ==
  /\ At(c, "read_wait")
  /\ read_co' = NoCo
  /\ IF read_timer THEN Goto(c, "read") ELSE Fails(c)
  /\ UNCHANGED <<sched, flags, events, epoll, write_co, read_timer, output, input,
                 batch, history>>

(***************************************************************************)
(* wmSocket_send, for connections: the bytes go through write_buffer.  If  *)
(* that makes it full, onBufferWillFull may start a coroutine before the   *)
(* first byte is sent.                                                     *)
(***************************************************************************)
Bytes(n) == [i \in 1 .. n |-> given + i]

Send(c, n) ==
  /\ MayCall(c)
  /\ loop_type = "SEMI_AUTO" /\ ~ InLoop(c)
  /\ write_co = NoCo
  /\ ~ closed
  /\ Len(write_buffer) < MaxSend
  /\ given + n <= MaxBytes
  /\ write_buffer' = write_buffer \o Bytes(n)
  /\ given' = given + n
  /\ \/ UNCHANGED sched
     \/ Len(write_buffer') >= MaxSend /\ \E d \in Other : Enter(d)
  /\ Overlap(WRITE)
  /\ Goto(c, "send")
  /\ UNCHANGED <<flags, waits, todo, ret_num, room, wire, input, batch>>

WriteExits(c) == ~ InLoop(c) /\ Exits(c, write_co)

\* The kernel takes what fits.
Accepts(n) == IF n < room THEN n ELSE room

\* Not all is sent yet: register the event and yield.  If epoll refuses, the
\* loop goes round again at once.
write_wait(c, where) ==
  /\ loop_add(WRITE)
  /\ IF AddWorks(WRITE)
       THEN write_co' = c /\ Suspend /\ Goto(c, where)
       ELSE UNCHANGED <<write_co, sched, pc>>

\* All is sent.
write_done(c) ==
  /\ loop_remove(WRITE)
  /\ Goto(c, "php")
  /\ UNCHANGED <<write_co, sched>>

\* The locals of a wmSocket_write that returns are gone.
forget(c) ==
  /\ todo' = [todo EXCEPT ![c] = <<>>]
  /\ ret_num' = [ret_num EXCEPT ![c] = 0]

\* Mutant: what has been sent stays in the buffer.
SendSome_again(c) ==
  LET n == Accepts(Len(write_buffer)) IN
  /\ At(c, "send")
  /\ ~ closed /\ peer # "reset"
  /\ wire' = wire \o SubSeq(write_buffer, 1, n)
  /\ room' = room - n
  /\ write_buffer' = IF n = Len(write_buffer) THEN <<>> ELSE write_buffer
  /\ IF n = Len(write_buffer) THEN write_done(c) ELSE write_wait(c, "send_wait")
  /\ UNCHANGED <<flags, read_co, read_timer, todo, ret_num, given, input, batch,
                 history>>

SendSome(c) ==
  LET n == Accepts(Len(write_buffer)) IN
  /\ At(c, "send")
  /\ ~ closed /\ peer # "reset"
  /\ wire' = wire \o SubSeq(write_buffer, 1, n)
  /\ room' = room - n
  /\ write_buffer' = SubSeq(write_buffer, n + 1, Len(write_buffer))
  /\ IF n = Len(write_buffer) THEN write_done(c) ELSE write_wait(c, "send_wait")
  /\ UNCHANGED <<flags, read_co, read_timer, todo, ret_num, given, input, batch,
                 history>>

SendClosed(c) ==
  /\ At(c, "send")
  /\ closed
  /\ loop_remove(WRITE)
  /\ Goto(c, "php")
  /\ UNCHANGED <<sched, flags, read_co, write_co, read_timer, output, input, batch,
                 history>>

(***************************************************************************)
(* wmSocket_write, for streams: each round sends from the start of the     *)
(* buffer.                                                                 *)
(***************************************************************************)
Write(c, n) ==
  /\ MayCall(c)
  /\ loop_type = "AUTO"
  /\ write_co = NoCo
  /\ ~ closed
  /\ n <= MaxWrite
  /\ given + n <= MaxBytes
  /\ todo' = [todo EXCEPT ![c] = Bytes(n)]
  /\ given' = given + n
  /\ Overlap(WRITE)
  /\ Goto(c, "write")
  /\ UNCHANGED <<sched, flags, waits, write_buffer, ret_num, room, wire, input, batch>>

WriteSome(c) ==
  LET len == Len(todo[c])
      n   == Accepts(len - ret_num[c])
  IN
  /\ At(c, "write")
  /\ ~ closed /\ peer # "reset"
  /\ wire' = wire \o SubSeq(todo[c], 1, n)
  /\ room' = room - n
  /\ IF ret_num[c] + n >= len
       THEN write_done(c) /\ forget(c)
       ELSE /\ write_wait(c, "write_wait")
            /\ ret_num' = [ret_num EXCEPT ![c] = @ + n]
            /\ UNCHANGED todo
  /\ torn' = (torn \/ (n > 0 /\ ret_num[c] + n < len))
  /\ UNCHANGED <<flags, read_co, read_timer, write_buffer, given, input, batch, overlapped>>

WriteClosed(c) ==
  /\ At(c, "write")
  /\ closed
  /\ forget(c)
  /\ Goto(c, "php")
  /\ UNCHANGED <<sched, flags, waits, write_buffer, room, wire, given, input, batch,
                 history>>

\* Both: the peer has reset the connection; and back from event_wait.
WriteFails(c) ==
  /\ At(c, "send") \/ At(c, "write")
  /\ ~ closed /\ peer = "reset"
  /\ closed' = TRUE
  /\ forget(c)
  /\ Goto(c, "php")
  /\ UNCHANGED <<sched, loop_type, removed, freeing, freed, exited, waits,
                 write_buffer, room, wire, given, input, batch, history>>

WriteGoesOn(c) ==
  /\ \/ At(c, "send_wait") /\ Goto(c, "send")
     \/ At(c, "write_wait") /\ Goto(c, "write")
  /\ write_co' = NoCo
  /\ UNCHANGED <<sched, flags, events, epoll, read_co, read_timer, output, input,
                 batch, history>>

(***************************************************************************)
(* wmSocket_close: the coroutines that wait are resumed from inside, one   *)
(* after the other, then the fd is closed.  The events are forgotten       *)
(* first, so that wmWorkerLoop_del does nothing; closing the fd takes it   *)
(* out of epoll.                                                           *)
(***************************************************************************)
resume(co) == IF co \in suspended THEN Reenter(co) ELSE UNCHANGED sched

\* evs: the events the socket has at that time.
close(t, evs) ==
  /\ closed' = TRUE
  /\ events' = {}
  /\ Goto(t, IF evs = {} THEN "close_fd" ELSE "close_read")

Close(c) ==
  /\ At(c, "php")
  /\ c \in Other
  /\ loop_type = "SEMI_AUTO"
  /\ ~ freed /\ freeing = NoCo /\ ~ removed
  /\ close(c, events)
  /\ UNCHANGED <<sched, loop_type, removed, freeing, freed, exited, epoll, read_co,
                 write_co, read_timer, output, input, batch, history>>

\* Mutant: only the reader is resumed.
CloseResumes_reader(t) ==
  /\ \/ At(t, "close_read") /\ resume(read_co) /\ Goto(t, "close_write")
     \/ At(t, "close_write") /\ UNCHANGED sched /\ Goto(t, "close_fd")
  /\ UNCHANGED <<flags, waits, output, input, batch, history>>

CloseResumes(t) ==
  /\ \/ At(t, "close_read") /\ resume(read_co) /\ Goto(t, "close_write")
     \/ At(t, "close_write") /\ resume(write_co) /\ Goto(t, "close_fd")
  /\ UNCHANGED <<flags, waits, output, input, batch, history>>

\* The end of wmSocket_close, and of wmSocket_free if that has called it.
CloseFd(t) ==
  /\ At(t, "close_fd")
  /\ removed' = TRUE
  /\ epoll' = IF removed THEN epoll ELSE {}
  /\ freed' = (freeing = t)
  /\ read_timer' = IF freeing = t THEN FALSE ELSE read_timer
  /\ Goto(t, Home(t))
  /\ UNCHANGED <<sched, loop_type, closed, freeing, exited, events, read_co, write_co,
                 output, input, batch, history>>

\* A connection is freed when nobody refers to it any more, a stream whenever
\* PHP code closes it; after that no call finds it.
Free(c) ==
  /\ At(c, "php")
  /\ c \in Other
  /\ ~ freed /\ freeing = NoCo
  /\ loop_type = "SEMI_AUTO" => removed /\ \A t \in Task : pc[t] \in {"php", "over", "loop", "batch"}
  /\ freeing' = c
  /\ close(c, events)
  /\ UNCHANGED <<sched, loop_type, removed, freed, exited, epoll, read_co, write_co,
                 read_timer, output, input, batch, history>>

(***************************************************************************)
(* wmWorkerLoop_loop, in the main task.  Between two entries of what       *)
(* epoll_wait has reported other coroutines run, woken by other sockets.   *)
(* A socket nobody waits for is closed.                                    *)
(***************************************************************************)
Ready ==
  epoll \cap ((IF rx \/ peer # "open" THEN {READ} ELSE {})
               \cup (IF room > 0 \/ peer = "reset" THEN {WRITE} ELSE {}))

EpollWait ==
  /\ At(Bottom, "loop")
  /\ Ready # {}
  /\ batch' = Ready
  /\ Goto(Bottom, "batch")
  /\ UNCHANGED <<sched, flags, waits, output, input, history>>

\* loop_callback_coroutine_resume, and .._and_del for an AUTO socket.
handle(e) ==
  LET auto == loop_type = "AUTO"
      co   == IF e = READ THEN read_co ELSE write_co
  IN  /\ epoll' = IF auto THEN loop_del ELSE epoll
      /\ IF co # NoCo
           THEN /\ events' = IF auto THEN {} ELSE events
                /\ resume(co)
                /\ UNCHANGED <<closed, pc>>
           ELSE /\ close(Bottom, IF auto THEN {} ELSE events)
                /\ UNCHANGED sched

Dispatch(e) ==
  /\ At(Bottom, "batch")
  /\ e \in batch
  /\ e = WRITE => READ \notin batch
  /\ batch' = batch \ {e}
  /\ \/ /\ ~ freed
        /\ handle(e)
        /\ UNCHANGED exited
     \/ /\ freed
        /\ exited' = TRUE
        /\ UNCHANGED <<sched, pc, closed, events, epoll>>
  /\ UNCHANGED <<loop_type, removed, freeing, freed, read_co, write_co, read_timer,
                 output, input, history>>

BatchDone ==
  /\ At(Bottom, "batch")
  /\ batch = {}
  /\ Goto(Bottom, "loop")
  /\ UNCHANGED <<sched, flags, waits, output, input, batch, history>>

\* timer_read_callback, from the timer wheel.
timer_read_callback ==
  /\ At(Bottom, "loop")
  /\ read_timer
  /\ read_timer' = FALSE
  /\ handle(READ)
  /\ UNCHANGED <<loop_type, removed, freeing, freed, exited, read_co, write_co, output,
                 input, batch, history>>

(***************************************************************************)
(* The rest of PHP code, and the peer.                                     *)
(***************************************************************************)
PhpStarts(c) ==
  /\ pc[Now] \in {"php", "loop", "batch"} /\ ~ exited
  /\ \/ Enter(c)
     \/ Reenter(c) /\ pc[c] = "php"
  /\ UNCHANGED <<flags, waits, output, input, pc, batch, history>>

PhpStops(c) ==
  /\ \/ At(c, "php") /\ ~ InLoop(c) /\ (Suspend \/ Leave)
     \/ At(c, "php") /\ InLoop(c) /\ closed /\ Leave
     \/ At(c, "over") /\ Leave
  /\ c \in Other
  /\ UNCHANGED <<flags, waits, output, input, pc, batch, history>>

Peer ==
  /\ ~ removed /\ ~ exited
  /\ \/ peer = "open" /\ rx' = TRUE /\ UNCHANGED peer
     \/ peer = "open" /\ peer' \in {"closed", "reset"} /\ UNCHANGED rx
  /\ UNCHANGED <<sched, flags, waits, output, pc, batch, history>>

PeerReads ==
  /\ ~ removed /\ ~ exited
  /\ room < Room
  /\ room' = Room
  /\ UNCHANGED <<sched, flags, waits, write_buffer, todo, ret_num, wire, given, input,
                 pc, batch, history>>

(***************************************************************************)
(* A connection starts with its reader waiting, a stream with nobody using *)
(* it.                                                                     *)
(***************************************************************************)
SIOInit ==
  /\ loop_type \in LoopTypes
  /\ LET conn == loop_type = "SEMI_AUTO" IN
       /\ stack = <<Bottom>>
       /\ seen = IF conn THEN {Reader} ELSE {}
       /\ suspended = seen
       /\ events = IF conn THEN {READ} ELSE {}
       /\ read_co = IF conn THEN Reader ELSE NoCo
       /\ read_timer = conn
       /\ pc = [t \in Task |-> IF t = Bottom THEN "loop"
                               ELSE IF conn /\ t = Reader THEN "read_wait" ELSE "php"]
  /\ epoll = events
  /\ closed = FALSE
  /\ removed = FALSE
  /\ write_co = NoCo
  /\ write_buffer = <<>>
  /\ todo = [c \in Other |-> <<>>]
  /\ ret_num = [c \in Other |-> 0]
  /\ batch = {}
  /\ freeing = NoCo
  /\ freed = FALSE
  /\ exited = FALSE
  /\ rx = FALSE
  /\ peer = "open"
  /\ room = Room
  /\ wire = <<>>
  /\ given = 0
  /\ overlapped = {}
  /\ torn = FALSE

Calls(c) ==
  \/ ReadReturns(c) \/ ReadBlocks(c) \/ ReadGoesOn(c)
  \/ SendSome(c) \/ SendClosed(c)
  \/ WriteSome(c) \/ WriteClosed(c) \/ WriteFails(c) \/ WriteGoesOn(c)

Loop == EpollWait \/ BatchDone \/ \E e \in Event : Dispatch(e)

SIONext ==
  \/ \E c \in Other :
       \/ Read(c) \/ ReadExits(c) \/ WriteExits(c) \/ Close(c) \/ Free(c)
       \/ \E n \in 1 .. MaxBytes : Send(c, n) \/ Write(c, n)
       \/ Calls(c)
       \/ PhpStarts(c) \/ PhpStops(c)
  \/ \E t \in Task : CloseResumes(t) \/ CloseFd(t)
  \/ Loop
  \/ timer_read_callback
  \/ Peer \/ PeerReads

SIOSpec == SIOInit /\ [][SIONext]_sovars

-----------------------------------------------------------------------------
(***************************************************************************)
(* Properties.                                                             *)
(***************************************************************************)

\* A coroutine that waits for an event is the one the socket will wake, and
\* epoll looks for that event, or somebody is closing the socket and has not
\* come to it yet: it is not forgotten, whoever else waits, stops waiting or is
\* woken.  That is over when calls have overlapped unnoticed: on a stream for all,
\* on a connection for those who send.
Closing(steps) == \E t \in Task : pc[t] \in steps

WaitersHeard ==
  ~ exited =>
    \A c \in suspended :
      /\ pc[c] = "read_wait" /\ READ \notin overlapped =>
           read_co = c /\ (READ \in epoll \/ Closing({"close_read"}))
      /\ pc[c] \in {"send_wait", "write_wait"} /\ WRITE \notin overlapped =>
           write_co = c /\ (WRITE \in epoll \/ Closing({"close_read", "close_write"}))

\* Nobody comes back to a socket that has been freed, or is left in it, unless it
\* is a stream that has been read and written at a time.
NobodyLeftInside == freed /\ READ \notin overlapped => ~ InUse(Reading \cup Writing)

\* What is sent is what was handed over, in this order, once, however often a
\* call had to wait for room, and whoever sends meanwhile; but a wmSocket_write
\* that has had to wait after it had sent a part repeats this part.
StreamIntact == torn \/ \A i \in DOMAIN wire : wire[i] = i

=============================================================================
