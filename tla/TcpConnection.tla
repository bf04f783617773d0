--------------------------- MODULE TcpConnection ----------------------------
(***************************************************************************)
(* One TcpConnection, its EventHandler, the loop thread that owns it, the  *)
(* threads that call send and disconnect on it, the kernel's socket and    *)
(* the peer.                                                               *)
(*                                                                         *)
(* The loop is EventLoop seen from one handler: a poll that takes a        *)
(* snapshot of the socket, the callbacks of handler_revent in their fixed  *)
(* order, then the queued tasks, of which the one behind the batch limit   *)
(* is dropped.  Everything the loop thread does between two system calls   *)
(* on the socket is one step; the peer and the other threads act between   *)
(* the steps.  Whatever LogicEvent::Edge asks for, the descriptor is       *)
(* level-triggered (see EventLoop); Edge only selects handleETRead.        *)
(*                                                                         *)
(* The application handles SIGPIPE, as the StressTesting programs do, and  *)
(* its error, close and out-of-band callbacks do not call back into the    *)
(* connection; the message callback does.                                  *)
(***************************************************************************)
EXTENDS Naturals, Sequences, FiniteSets

CONSTANTS Threads,       \* the threads other than the loop's own
          LoopThread,    \* the loop's thread
          EventChoices,  \* the Event values a connection is constructed with
          Calls,         \* bound: calls of send, disconnect... each thread makes
          MsgLen,        \* units (bytes) of a message
          SendRoom,      \* units the kernel's send buffer holds
          MaxInbound,    \* bound: unread chunks the peer may have sent
          MaxReadNum,    \* 100 in handleETRead
          BatchLimit     \* 100 in doPendingFunctions

Producers == Threads \cup {LoopThread}
Interests == {"Read", "Write", "Except", "Edge"}

ASSUME ConnectionAssumption ==
    /\ LoopThread \notin Threads
    /\ EventChoices \subseteq SUBSET (Interests \ {"Write"})
    /\ Calls \in [Producers -> Nat]
    /\ {MsgLen, SendRoom, MaxReadNum, BatchLimit} \subseteq Nat \ {0}
    /\ MaxInbound \in Nat

(* "send": sendInLoop, "disc": disconnectInLoop, "setW": the closure that  *)
(* only asks for Write, "etRead": handleETRead, "destruct": the closure of *)
(* handleClose that calls destructCallBack_.                               *)
TaskKinds == {"send", "disc", "setW", "etRead", "destruct"}

VARIABLES
    asserts,     \* the build: assert() is compiled in (Debug) or not (Release, -DNDEBUG)
    events,      \* handler_.events_
    listening,   \* handler_.status_ == Added: the epoll set has the handler
    revents,     \* handler_.revents_, what handler_revent has not handled yet
    Connstatus,  \* Connstatus_
    SendBuffer,  \* SendBuffer_
    RecvFull,    \* RecvBuffer_.writable_size() == 0
    ReadNum,     \* handleETRead's count
    FinishNum,   \* doPendingFunctions' count
    tasks,       \* FunctionList_, one sequence per producer
    lpc,         \* where the loop thread is
    calls,       \* calls each thread has made
    released,    \* destructCallBack_ was called
    alive,       \* the TcpConnection object exists
    \* the kernel and the peer
    wire,        \* the units the socket has accepted, in order
    room,        \* free units of the kernel's send buffer
    wrShut,      \* our side is shut down for writing
    peer,        \* "open", "fin" (it shut down its side) or "reset"
    sockErr,     \* the socket's pending error, set by a reset
    inbound,     \* unread chunks
    oob,         \* an unread urgent byte
    \* history
    msgs,        \* messages the socket or SendBuffer_ took
    overtaken,   \* a message was sent past units still in SendBuffer_
    asked        \* disconnect() was called on an established connection

handlerVars == <<events, listening, revents>>
loopVars    == <<ReadNum, FinishNum, tasks, lpc>>
outVars     == <<SendBuffer, wire, room, msgs, overtaken>>
inVars      == <<inbound, oob, RecvFull>>
peerVars    == <<peer, sockErr>>
lifeVars    == <<asserts, released, alive>>
callVars    == <<calls, asked>>
vars == <<handlerVars, loopVars, outVars, inVars, peerVars, lifeVars, callVars,
          Connstatus, wrShut>>

(* Two places the loop thread does not leave: an assert() has failed; the  *)
(* destruct closure was executed on an object that is gone.                *)
Ended  == {"abort", "dangling"}
Places == {"poll", "dispatch", "etRead", "callback", "pending"} \cup Ended

Init ==
    /\ asserts \in BOOLEAN
    /\ events \in EventChoices
    /\ listening = TRUE
    /\ revents = {}
    /\ Connstatus = "Connected"
    /\ SendBuffer = <<>>
    /\ RecvFull = FALSE
    /\ ReadNum = 0
    /\ FinishNum = 0
    /\ tasks = [p \in Producers |-> <<>>]
    /\ lpc = "poll"
    /\ calls = [p \in Producers |-> 0]
    /\ released = FALSE
    /\ alive = TRUE
    /\ wire = <<>>
    /\ room = SendRoom
    /\ wrShut = FALSE
    /\ peer = "open"
    /\ sockErr = FALSE
    /\ inbound = 0
    /\ oob = FALSE
    /\ msgs = 0
    /\ overtaken = FALSE
    /\ asked = FALSE

isET == "Edge" \in events

-----------------------------------------------------------------------------
(* The parts the handlers are made of.  next is where the loop thread goes *)
(* when no assert() fails.                                                 *)

Message(m) == [k \in 1..MsgLen |-> MsgLen * (m - 1) + k]

(* ::send: refused on a reset or shut-down socket, else what fits. *)
CanSend == peer # "reset" /\ ~wrShut
Accepted(len) == IF ~CanSend THEN 0 ELSE IF len < room THEN len ELSE room

(* update(): Epoll::update_listen asserts that the handler is Added. *)
Update(next) == lpc' = IF asserts /\ ~listening THEN "abort" ELSE next

(* if(!isWriting()) setWriting() *)
SetWriting(next) ==
    /\ events' = events \cup {"Write"}
    /\ IF "Write" \in events THEN lpc' = next ELSE Update(next)

(* Mutants of SendInLoop: the whole message is buffered after a partial    *)
(* send; the rest is buffered without asking for Write.                    *)
SendInLoopRepeats(next) ==
    LET m == Message(msgs + 1)
        n == Accepted(MsgLen)
    IN /\ wire' = wire \o SubSeq(m, 1, n)
       /\ room' = room - n
       /\ msgs' = IF CanSend THEN msgs + 1 ELSE msgs
       /\ overtaken' = (overtaken \/ (n > 0 /\ SendBuffer # <<>>))
       /\ sockErr' = (sockErr /\ CanSend)
       /\ IF CanSend /\ n < MsgLen
            THEN SendBuffer' = SendBuffer \o m /\ SetWriting(next)
            ELSE lpc' = next /\ UNCHANGED <<SendBuffer, events>>

SendInLoopForgetsWrite(next) ==
    LET m == Message(msgs + 1)
        n == Accepted(MsgLen)
    IN /\ wire' = wire \o SubSeq(m, 1, n)
       /\ room' = room - n
       /\ msgs' = IF CanSend THEN msgs + 1 ELSE msgs
       /\ overtaken' = (overtaken \/ (n > 0 /\ SendBuffer # <<>>))
       /\ sockErr' = (sockErr /\ CanSend)
       /\ SendBuffer' = IF CanSend THEN SendBuffer \o SubSeq(m, n + 1, MsgLen) ELSE SendBuffer
       /\ lpc' = next
       /\ UNCHANGED events

(* sendInLoop with the next message.  After a refusal handleError returns  *)
(* (EPIPE, ECONNRESET) and the message is gone.                            *)
SendInLoop(next) ==
    LET m == Message(msgs + 1)
        n == Accepted(MsgLen)
    IN /\ wire' = wire \o SubSeq(m, 1, n)
       /\ room' = room - n
       /\ msgs' = IF CanSend THEN msgs + 1 ELSE msgs
       /\ overtaken' = (overtaken \/ (n > 0 /\ SendBuffer # <<>>))
       /\ sockErr' = (sockErr /\ CanSend)
       /\ IF CanSend /\ n < MsgLen
            THEN /\ SendBuffer' = SendBuffer \o SubSeq(m, n + 1, MsgLen)
                 /\ SetWriting(next)
            ELSE lpc' = next /\ UNCHANGED <<SendBuffer, events>>

(* Mutant of DisconnectInLoop: it shuts down whatever is buffered. *)
DisconnectInLoopAtOnce(next) ==
    IF Connstatus = "Connected"
      THEN /\ Connstatus' = "DisConnecting"
           /\ wrShut' = TRUE
           /\ lpc' = next
           /\ UNCHANGED events
      ELSE lpc' = next /\ UNCHANGED <<Connstatus, wrShut, events>>

DisconnectInLoop(next) ==
    IF Connstatus = "Connected"
      THEN /\ Connstatus' = "DisConnecting"
           /\ wrShut' = (wrShut \/ SendBuffer = <<>>)
           /\ IF SendBuffer = <<>>
                THEN lpc' = next /\ UNCHANGED events
                ELSE SetWriting(next)
      ELSE lpc' = next /\ UNCHANGED <<Connstatus, wrShut, events>>

(* Mutants of HandleClose: Connstatus_ is not set; the handler stays in    *)
(* the epoll set.                                                          *)
HandleCloseKeepsStatus(next) ==
    IF asserts /\ (Connstatus = "DisConnected" \/ ~listening)
      THEN lpc' = "abort" /\ UNCHANGED <<listening, Connstatus, tasks>>
      ELSE /\ listening' = FALSE
           /\ tasks' = [tasks EXCEPT ![LoopThread] = Append(@, "destruct")]
           /\ lpc' = next
           /\ UNCHANGED Connstatus

HandleCloseKeepsListening(next) ==
    IF asserts /\ (Connstatus = "DisConnected" \/ ~listening)
      THEN lpc' = "abort" /\ UNCHANGED <<listening, Connstatus, tasks>>
      ELSE /\ Connstatus' = "DisConnected"
           /\ tasks' = [tasks EXCEPT ![LoopThread] = Append(@, "destruct")]
           /\ lpc' = next
           /\ UNCHANGED listening

(* handleClose: two asserts (the second in Epoll::remove_listen), the      *)
(* handler leaves the epoll set, the destruct closure is queued.           *)
HandleClose(next) ==
    IF asserts /\ (Connstatus = "DisConnected" \/ ~listening)
      THEN lpc' = "abort" /\ UNCHANGED <<listening, Connstatus, tasks>>
      ELSE /\ listening' = FALSE
           /\ Connstatus' = "DisConnected"
           /\ tasks' = [tasks EXCEPT ![LoopThread] = Append(@, "destruct")]
           /\ lpc' = next

(* RecvBuffer_.appendFormFd finds nothing: the pending error, the end of   *)
(* the stream, or EAGAIN.  On an error handleRead and handleETRead only    *)
(* return.                                                                 *)
ReadNothing(next) ==
    /\ inbound = 0
    /\ sockErr' = FALSE
    /\ IF ~sockErr /\ peer # "open"
         THEN HandleClose(next)
         ELSE lpc' = next /\ UNCHANGED <<listening, Connstatus, tasks>>

(* It finds data: one readv takes some of it or all of it, and may leave   *)
(* the buffer without writable space when the callback consumes nothing.   *)
ReadSome ==
    /\ inbound > 0
    /\ inbound' \in 0..(inbound - 1)
    /\ RecvFull' \in BOOLEAN
    /\ lpc' = "callback"

-----------------------------------------------------------------------------
(* The loop thread: poll and handler_revent. *)

(* What epoll reports of the socket: Hup and Error always, the others as   *)
(* asked for.                                                              *)
Reported == {"Hup", "Error", "Except", "Read", "Write"}

Ready ==
    {e \in Reported :
        \/ e = "Hup" /\ (peer = "reset" \/ (peer = "fin" /\ wrShut))
        \/ e = "Error" /\ sockErr
        \/ /\ e \in events
           /\ \/ e = "Except" /\ oob
              \/ e = "Read" /\ (inbound > 0 \/ peer # "open")
              \/ e = "Write" /\ (room > 0 \/ ~CanSend)}

(* epoll_wait returns, with this handler or without it. *)
PollReturn ==
    /\ lpc = "poll"
    /\ revents' = IF listening THEN Ready ELSE {}
    /\ lpc' = "dispatch"
    /\ UNCHANGED <<events, listening, ReadNum, FinishNum, tasks, outVars, inVars,
                   peerVars, lifeVars, callVars, Connstatus, wrShut>>

(* The order of the tests in handler_revent. *)
Before(e) ==
    CASE e = "Hup"    -> {}
      [] e = "Error"  -> {"Hup"}
      [] e = "Except" -> {"Hup", "Error"}
      [] e = "Read"   -> {"Hup", "Error", "Except"}
      [] e = "Write"  -> Reported \ {"Write"}

Turn(e) ==
    /\ lpc = "dispatch"
    /\ e \in revents
    /\ Before(e) \cap revents = {}
    /\ revents' = revents \ {e}

(* Hup closes the connection only if there is nothing to read. *)
OnHup ==
    /\ Turn("Hup")
    /\ IF "Read" \in revents
         THEN UNCHANGED <<listening, Connstatus, tasks, lpc>>
         ELSE HandleClose("dispatch")
    /\ UNCHANGED <<events, ReadNum, FinishNum, outVars, inVars, peerVars, lifeVars,
                   callVars, wrShut>>

(* handleError changes nothing. *)
OnError ==
    /\ Turn("Error")
    /\ UNCHANGED <<events, listening, loopVars, outVars, inVars, peerVars, lifeVars,
                   callVars, Connstatus, wrShut>>

(* handleException: recv(MSG_OOB) takes the byte and fails the second      *)
(* time; with no writable space in RecvBuffer_ it returns 0.               *)
OnExcept ==
    /\ Turn("Except")
    /\ oob' = FALSE
    /\ IF oob /\ RecvFull
         THEN HandleClose("dispatch")
         ELSE UNCHANGED <<listening, Connstatus, tasks, lpc>>
    /\ UNCHANGED <<events, ReadNum, FinishNum, outVars, inbound, RecvFull, peerVars,
                   lifeVars, callVars, wrShut>>

(* handleRead *)
OnRead ==
    /\ Turn("Read")
    /\ ~isET
    /\ \/ ReadSome /\ UNCHANGED <<listening, Connstatus, tasks, sockErr>>
       \/ ReadNothing("dispatch") /\ UNCHANGED <<inbound, RecvFull>>
    /\ UNCHANGED <<events, ReadNum, FinishNum, outVars, oob, peer, lifeVars, callVars,
                   wrShut>>

(* handleETRead begins ... *)
OnETRead ==
    /\ Turn("Read")
    /\ isET
    /\ ReadNum' = 0
    /\ lpc' = "etRead"
    /\ UNCHANGED <<events, listening, FinishNum, tasks, outVars, inVars, peerVars,
                   lifeVars, callVars, Connstatus, wrShut>>

(* Where handleETRead returns to: the task loop has no revents left. *)
Return == IF FinishNum > 0 THEN "pending" ELSE "dispatch"

(* ... reads up to MaxReadNum times ... *)
ETRead ==
    /\ lpc = "etRead"
    /\ ReadNum < MaxReadNum
    /\ \/ /\ ReadSome
          /\ ReadNum' = ReadNum + 1
          /\ UNCHANGED <<listening, Connstatus, tasks, sockErr>>
       \/ ReadNothing(Return) /\ UNCHANGED <<inbound, RecvFull, ReadNum>>
    /\ UNCHANGED <<events, revents, FinishNum, outVars, oob, peer, lifeVars, callVars,
                   wrShut>>

(* ... and queues its continuation. *)
ETReadLater ==
    /\ lpc = "etRead"
    /\ ReadNum = MaxReadNum
    /\ tasks' = [tasks EXCEPT ![LoopThread] = Append(@, "etRead")]
    /\ lpc' = Return
    /\ UNCHANGED <<handlerVars, ReadNum, FinishNum, outVars, inVars, peerVars, lifeVars,
                   callVars, Connstatus, wrShut>>

(* Mutants of OnWrite: Write is cancelled after a partial send; the        *)
(* shutdown is forgotten.                                                  *)
OnWriteCancelsEarly ==
    /\ Turn("Write")
    /\ LET len == Len(SendBuffer)
           n   == Accepted(len)
       IN /\ wire' = wire \o SubSeq(SendBuffer, 1, n)
          /\ SendBuffer' = SubSeq(SendBuffer, n + 1, len)
          /\ room' = room - n
          /\ sockErr' = (sockErr /\ CanSend)
          /\ wrShut' = (wrShut \/ (n > 0 /\ n = len /\ Connstatus = "DisConnecting"))
          /\ IF n > 0 /\ "Write" \in events
               THEN events' = events \ {"Write"} /\ Update("dispatch")
               ELSE UNCHANGED <<events, lpc>>
    /\ UNCHANGED <<listening, ReadNum, FinishNum, tasks, msgs, overtaken, inVars, peer,
                   lifeVars, callVars, Connstatus>>

OnWriteNeverShuts ==
    /\ Turn("Write")
    /\ LET len == Len(SendBuffer)
           n   == Accepted(len)
       IN /\ wire' = wire \o SubSeq(SendBuffer, 1, n)
          /\ SendBuffer' = SubSeq(SendBuffer, n + 1, len)
          /\ room' = room - n
          /\ sockErr' = (sockErr /\ CanSend)
          /\ IF n > 0 /\ n = len /\ "Write" \in events
               THEN events' = events \ {"Write"} /\ Update("dispatch")
               ELSE UNCHANGED <<events, lpc>>
    /\ UNCHANGED <<listening, ReadNum, FinishNum, tasks, msgs, overtaken, inVars, peer,
                   lifeVars, callVars, Connstatus, wrShut>>

(* handleWrite *)
OnWrite ==
    /\ Turn("Write")
    /\ LET len == Len(SendBuffer)
           n   == Accepted(len)
           all == n > 0 /\ n = len
       IN /\ wire' = wire \o SubSeq(SendBuffer, 1, n)
          /\ SendBuffer' = SubSeq(SendBuffer, n + 1, len)
          /\ room' = room - n
          /\ sockErr' = (sockErr /\ CanSend)
          /\ wrShut' = (wrShut \/ (all /\ Connstatus = "DisConnecting"))
          /\ IF all /\ "Write" \in events
               THEN events' = events \ {"Write"} /\ Update("dispatch")
               ELSE UNCHANGED <<events, lpc>>
    /\ UNCHANGED <<listening, ReadNum, FinishNum, tasks, msgs, overtaken, inVars, peer,
                   lifeVars, callVars, Connstatus>>

DispatchEnd ==
    /\ lpc = "dispatch"
    /\ revents = {}
    /\ lpc' = "pending"
    /\ UNCHANGED <<handlerVars, ReadNum, FinishNum, tasks, outVars, inVars, peerVars,
                   lifeVars, callVars, Connstatus, wrShut>>

-----------------------------------------------------------------------------
(* The message callback: the application may call send, disconnect and     *)
(* sendOutput on the loop thread, where submit runs its closure at once.   *)

Call(p) == calls[p] < Calls[p] /\ calls' = [calls EXCEPT ![p] = @ + 1]

Asks == asked' = (asked \/ Connstatus = "Connected")

CallbackSends ==
    /\ lpc = "callback"
    /\ Call(LoopThread)
    /\ SendInLoop("callback")
    /\ UNCHANGED <<listening, revents, ReadNum, FinishNum, tasks, inVars, peer, lifeVars,
                   asked, Connstatus, wrShut>>

(* disconnect(): the same test of SendBuffer_ as in disconnectInLoop, but  *)
(* its other branch leaves Connstatus_ alone.                              *)
CallbackDisconnects ==
    /\ lpc = "callback"
    /\ Call(LoopThread)
    /\ Asks
    /\ IF SendBuffer = <<>>
         THEN DisconnectInLoop("callback")
         ELSE SetWriting("callback") /\ UNCHANGED <<Connstatus, wrShut>>
    /\ UNCHANGED <<listening, revents, ReadNum, FinishNum, tasks, outVars, inVars,
                   peerVars, lifeVars>>

(* A codec appends a message to sendBuffer() and calls sendOutput(). *)
CallbackOutputs ==
    /\ lpc = "callback"
    /\ Call(LoopThread)
    /\ SendBuffer' = SendBuffer \o Message(msgs + 1)
    /\ msgs' = msgs + 1
    /\ SetWriting("callback")
    /\ UNCHANGED <<listening, revents, ReadNum, FinishNum, tasks, wire, room, overtaken,
                   inVars, peerVars, lifeVars, asked, Connstatus, wrShut>>

CallbackReturns ==
    /\ lpc = "callback"
    /\ lpc' = IF isET THEN "etRead" ELSE "dispatch"
    /\ UNCHANGED <<handlerVars, ReadNum, FinishNum, tasks, outVars, inVars, peerVars,
                   lifeVars, callVars, Connstatus, wrShut>>

-----------------------------------------------------------------------------
(* The loop thread: doPendingFunctions. *)

TakeTask(p) ==
    /\ lpc = "pending"
    /\ tasks[p] # <<>>
    /\ tasks' = [tasks EXCEPT ![p] = Tail(@)]

(* A task is run.  All but the destruct closure hold a weak pointer.  The  *)
(* destruct closure has the acceptor's loop or TcpClient drop its          *)
(* reference, later; its own pointer is the raw this.                      *)
RunTask(p) ==
    /\ TakeTask(p)
    /\ FinishNum < BatchLimit
    /\ FinishNum' = FinishNum + 1
    /\ LET kind == IF alive \/ Head(tasks[p]) = "destruct" THEN Head(tasks[p]) ELSE "none"
       IN /\ CASE kind = "send" ->
                    SendInLoop("pending") /\ UNCHANGED <<Connstatus, wrShut, ReadNum>>
               [] kind = "disc" ->
                    DisconnectInLoop("pending") /\ UNCHANGED <<outVars, sockErr, ReadNum>>
               [] kind = "setW" ->
                    /\ SetWriting("pending")
                    /\ UNCHANGED <<outVars, sockErr, Connstatus, wrShut, ReadNum>>
               [] kind = "etRead" ->
                    /\ ReadNum' = 0
                    /\ lpc' = "etRead"
                    /\ UNCHANGED <<outVars, sockErr, events, Connstatus, wrShut>>
               [] OTHER ->
                    /\ lpc' = IF kind = "destruct" /\ ~alive THEN "dangling" ELSE lpc
                    /\ UNCHANGED <<outVars, sockErr, events, Connstatus, wrShut, ReadNum>>
          /\ released' = (released \/ kind = "destruct")
    /\ UNCHANGED <<listening, revents, inVars, peer, asserts, alive, callVars>>

(* A task is taken and dropped: the batch is full. *)
DropTask(p) ==
    /\ TakeTask(p)
    /\ FinishNum >= BatchLimit
    /\ FinishNum' = 0
    /\ lpc' = "poll"
    /\ UNCHANGED <<handlerVars, ReadNum, outVars, inVars, peerVars, lifeVars, callVars,
                   Connstatus, wrShut>>

PendingEnd ==
    /\ lpc = "pending"
    /\ \A p \in Producers : tasks[p] = <<>>
    /\ FinishNum' = 0
    /\ lpc' = "poll"
    /\ UNCHANGED <<handlerVars, ReadNum, tasks, outVars, inVars, peerVars, lifeVars,
                   callVars, Connstatus, wrShut>>

LoopStep ==
    \/ PollReturn \/ OnHup \/ OnError \/ OnExcept \/ OnRead \/ OnETRead \/ OnWrite
    \/ ETRead \/ ETReadLater \/ DispatchEnd
    \/ CallbackReturns
    \/ \E p \in Producers : RunTask(p) \/ DropTask(p)
    \/ PendingEnd

CallbackCalls == CallbackSends \/ CallbackDisconnects \/ CallbackOutputs

-----------------------------------------------------------------------------
(* The other threads: each call needs a reference, and enqueues a task. *)

Enqueue(t, kind) ==
    /\ alive
    /\ Call(t)
    /\ tasks' = [tasks EXCEPT ![t] = Append(@, kind)]
    /\ UNCHANGED <<handlerVars, ReadNum, FinishNum, lpc, outVars, inVars, peerVars,
                   lifeVars, Connstatus, wrShut>>

(* send(message,len), and send(std::string&&) on an established connection *)
Send(t) == Enqueue(t, "send") /\ UNCHANGED asked

(* disconnect() looks at SendBuffer_ from the caller's thread. *)
Disconnect(t) == Enqueue(t, IF SendBuffer = <<>> THEN "disc" ELSE "setW") /\ Asks

ThreadStep(t) == Send(t) \/ Disconnect(t)

(* The acceptor's loop, or TcpClient, drops the last reference. *)
Destroy ==
    /\ released /\ alive
    /\ lpc \in {"poll", "pending"}
    /\ alive' = FALSE
    /\ UNCHANGED <<handlerVars, loopVars, outVars, inVars, peerVars, asserts, released, callVars,
                   Connstatus, wrShut>>

-----------------------------------------------------------------------------
(* The peer. *)
ours == <<handlerVars, loopVars, lifeVars, callVars, Connstatus, wrShut, SendBuffer, wire,
          msgs, overtaken, RecvFull>>

PeerSends ==
    /\ peer = "open"
    /\ inbound < MaxInbound
    /\ inbound' = inbound + 1
    /\ UNCHANGED <<ours, room, peerVars, oob>>

PeerUrgent ==
    /\ peer = "open"
    /\ ~oob
    /\ oob' = TRUE
    /\ UNCHANGED <<ours, room, peerVars, inbound>>

PeerReads ==
    /\ peer # "reset"
    /\ room < SendRoom
    /\ room' = room + 1
    /\ UNCHANGED <<ours, peerVars, inbound, oob>>

PeerFin ==
    /\ peer = "open"
    /\ peer' = "fin"
    /\ UNCHANGED <<ours, room, sockErr, inbound, oob>>

PeerReset ==
    /\ peer # "reset"
    /\ peer' = "reset"
    /\ sockErr' = TRUE
    /\ UNCHANGED <<ours, room, inbound, oob>>

PeerStep == PeerSends \/ PeerUrgent \/ PeerReads \/ PeerFin \/ PeerReset

Next ==
    /\ lpc \notin Ended
    /\ LoopStep \/ CallbackCalls \/ (\E t \in Threads : ThreadStep(t)) \/ Destroy \/ PeerStep

Spec == Init /\ [][Next]_vars

(* The loop thread keeps running, a callback returns, and a peer that is   *)
(* there keeps reading.  Nobody has to send, disconnect or close.          *)
Fairness ==
    /\ WF_vars(lpc \notin Ended /\ LoopStep)
    /\ WF_vars(lpc \notin Ended /\ PeerReads)

FairSpec == Spec /\ Fairness

-----------------------------------------------------------------------------
(* Properties. *)

(* Type correctness. *)
TypeOK ==
    /\ asserts \in BOOLEAN
    /\ events \subseteq Interests
    /\ listening \in BOOLEAN
    /\ revents \subseteq Reported
    /\ Connstatus \in {"Connected", "DisConnecting", "DisConnected"}
    /\ SendBuffer \in Seq(Nat)
    /\ RecvFull \in BOOLEAN
    /\ ReadNum \in 0..MaxReadNum
    /\ FinishNum \in 0..BatchLimit
    /\ tasks \in [Producers -> Seq(TaskKinds)]
    /\ lpc \in Places
    /\ calls \in [Producers -> Nat] /\ \A p \in Producers : calls[p] <= Calls[p]
    /\ released \in BOOLEAN
    /\ alive \in BOOLEAN
    /\ wire \in Seq(Nat)
    /\ room \in 0..SendRoom
    /\ wrShut \in BOOLEAN
    /\ peer \in {"open", "fin", "reset"}
    /\ sockErr \in BOOLEAN
    /\ inbound \in 0..MaxInbound
    /\ oob \in BOOLEAN
    /\ msgs \in Nat
    /\ overtaken \in BOOLEAN
    /\ asked \in BOOLEAN

(* What the socket took and what SendBuffer_ still holds are together      *)
(* exactly the messages handed over: no unit twice, none missing, and the  *)
(* units of one message in order, through every split of a message between *)
(* the direct send and the buffer.  The messages are in order too, unless  *)
(* a direct send went past a buffer that was not empty.                    *)
StreamIntact ==
    LET out == wire \o SendBuffer
    IN /\ Len(out) = MsgLen * msgs
       /\ {out[i] : i \in 1..Len(out)} = 1..(MsgLen * msgs)
       /\ \A i, j \in 1..Len(out) :
             (out[i] < out[j] /\ (out[i] - 1) \div MsgLen = (out[j] - 1) \div MsgLen) => i < j
       /\ ~overtaken => \A i \in 1..Len(out) : out[i] = i

(* Before the loop sleeps, unsent data of an open connection has asked for *)
(* Write, whichever of sendInLoop, sendOutput, disconnect and handleWrite  *)
(* touched the buffer and the interest last.                               *)
NothingStuck ==
    lpc = "poll" /\ listening /\ SendBuffer # <<>> => "Write" \in events

(* Our side is shut down only when everything buffered is on the wire. *)
FinAfterData == [][wrShut' /\ ~wrShut => SendBuffer' = <<>>]_vars

(* An assert() of handleClose or of Epoll fails only on a connection that  *)
(* is already closed: nothing the peer or a caller does brings it down     *)
(* before handleClose has run.                                             *)
AbortOnlyAfterClose == lpc = "abort" => Connstatus = "DisConnected"

(* When the object is gone, nothing that holds a raw pointer to it is left *)
(* and nothing follows one: the epoll set, the handlers being dispatched,  *)
(* the closure of handleClose.  There is one exception, which takes both a *)
(* build without assert(), where handleClose may run a second time and     *)
(* queue its closure twice, and a connection that is edge-triggered or     *)
(* reads out-of-band data: no other gets to a second handleClose.          *)
Exposed == ~asserts /\ events \cap {"Edge", "Except"} # {}
DestroyedIsUnreachable ==
    /\ ~alive =>
          /\ ~listening
          /\ revents = {}
          /\ lpc \notin {"etRead", "callback"}
          /\ (\E i \in 1..Len(tasks[LoopThread]) : tasks[LoopThread][i] = "destruct") => Exposed
    /\ lpc = "dangling" => Exposed

(* The connection ended, or the process did. *)
Over == Connstatus = "DisConnected" \/ peer = "reset" \/ lpc \in Ended

(* disconnectInLoop with data pending leaves the shutdown to handleWrite,  *)
(* which comes to it.                                                      *)
DisconnectingShutsDown == (Connstatus = "DisConnecting") ~> (wrShut \/ Over)

(* What is in SendBuffer_ gets out, if the peer keeps reading.  (What      *)
(* sendOutput finds there after our side was shut down stays.)             *)
PendingDataIsFlushed ==
    (SendBuffer # <<>> /\ ~wrShut) ~> (SendBuffer = <<>> \/ Over)

(* TcpConnection.h, of disconnect(): it closes our writing side. *)
DisconnectShutsWrite == asked ~> (wrShut \/ Over)
=============================================================================
