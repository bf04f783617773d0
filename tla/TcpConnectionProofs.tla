------------------------ MODULE TcpConnectionProofs -------------------------
(***************************************************************************)
(* Proofs about TcpConnection for any number of calling threads and calls, *)
(* any message length and any size of the kernel's send buffer.            *)
(***************************************************************************)
EXTENDS TcpConnection, SequenceTheorems, TLAPS

(* The handler is in the epoll set exactly until handleClose, and only     *)
(* what comes after handleClose can fail an assert().                      *)
CloseInv ==
    /\ listening <=> Connstatus # "DisConnected"
    /\ lpc = "abort" => ~listening

(* Unsent data asks for Write at every place of the loop thread. *)
WriteInv == SendBuffer # <<>> => "Write" \in events

-----------------------------------------------------------------------------
(* What the parts of the handlers do to the state. *)

(* setWriting(): the interest is added; the loop thread goes on, or the    *)
(* assert() of Epoll::update_listen fails on a handler that was removed.   *)
LEMMA SetWritingEffect ==
    ASSUME NEW next, SetWriting(next)
    PROVE  /\ events' = events \cup {"Write"}
           /\ lpc' = next \/ (lpc' = "abort" /\ ~listening)
BY DEF SetWriting, Update

(* sendInLoop: the interest in Write can only be added, and is there if    *)
(* a part of the message was buffered.                                     *)
LEMMA SendInLoopEffect ==
    ASSUME NEW next, SendInLoop(next)
    PROVE  /\ events' \in {events, events \cup {"Write"}}
           /\ SendBuffer' # SendBuffer => "Write" \in events'
           /\ lpc' = next \/ (lpc' = "abort" /\ ~listening)
<1>1. CASE CanSend /\ Accepted(MsgLen) < MsgLen
  <2>1. SetWriting(next)
    BY <1>1 DEF SendInLoop
  <2> QED
    BY <2>1, SetWritingEffect
<1>2. CASE ~(CanSend /\ Accepted(MsgLen) < MsgLen)
  <2>1. lpc' = next /\ UNCHANGED <<SendBuffer, events>>
    BY <1>2 DEF SendInLoop
  <2> QED
    BY <2>1
<1> QED
  BY <1>1, <1>2

(* disconnectInLoop: an established connection starts to disconnect, and   *)
(* is shut down at once if nothing is buffered.                            *)
LEMMA DisconnectInLoopEffect ==
    ASSUME NEW next, DisconnectInLoop(next)
    PROVE  /\ events' \in {events, events \cup {"Write"}}
           /\ Connstatus' = IF Connstatus = "Connected" THEN "DisConnecting" ELSE Connstatus
           /\ wrShut' /\ ~wrShut => SendBuffer = <<>>
           /\ lpc' = next \/ (lpc' = "abort" /\ ~listening)
<1>1. CASE Connstatus = "Connected" /\ SendBuffer # <<>>
  <2>1. /\ SetWriting(next) /\ Connstatus' = "DisConnecting"
        /\ wrShut' = (wrShut \/ SendBuffer = <<>>)
    BY <1>1 DEF DisconnectInLoop
  <2> QED
    BY <1>1, <2>1, SetWritingEffect
<1>2. CASE Connstatus = "Connected" /\ SendBuffer = <<>>
  BY <1>2 DEF DisconnectInLoop
<1>3. CASE Connstatus # "Connected"
  BY <1>3 DEF DisconnectInLoop
<1> QED
  BY <1>1, <1>2, <1>3

(* handleClose: it fails an assert() on a connection it has closed, or     *)
(* takes the handler out of the epoll set and queues the destruct closure. *)
LEMMA HandleCloseEffect ==
    ASSUME NEW next, HandleClose(next)
    PROVE  \/ /\ Connstatus = "DisConnected" \/ ~listening
              /\ lpc' = "abort" /\ UNCHANGED <<listening, Connstatus, tasks>>
           \/ /\ asserts => Connstatus # "DisConnected" /\ listening
              /\ ~listening' /\ Connstatus' = "DisConnected" /\ lpc' = next
              /\ tasks' = [tasks EXCEPT ![LoopThread] = Append(@, "destruct")]
BY DEF HandleClose

LEMMA ReadNothingEffect ==
    ASSUME NEW next, ReadNothing(next)
    PROVE  /\ HandleClose(next) \/ (lpc' = next /\ UNCHANGED <<listening, Connstatus, tasks>>)
           /\ sockErr' = FALSE
BY DEF ReadNothing
-----------------------------------------------------------------------------
(* Type correctness. *)

LEMMA ConstantTypes ==
    /\ MsgLen \in Nat \ {0} /\ SendRoom \in Nat \ {0} /\ MaxReadNum \in Nat \ {0}
    /\ BatchLimit \in Nat \ {0} /\ MaxInbound \in Nat
    /\ Calls \in [Producers -> Nat]
BY ConnectionAssumption

LEMMA MessageType ==
    ASSUME NEW m \in Nat \ {0}
    PROVE  Message(m) \in Seq(Nat) /\ Len(Message(m)) = MsgLen
<1>1. MsgLen \in Nat \ {0} /\ MsgLen * (m - 1) \in Nat
  BY ConstantTypes
<1>2. Message(m) \in [1..MsgLen -> Nat]
  BY <1>1 DEF Message
<1> QED
  BY <1>1, <1>2 DEF Message

(* ::send never takes more than it is given or than there is room for. *)
LEMMA AcceptedType ==
    ASSUME TypeOK, NEW len \in Nat
    PROVE  /\ Accepted(len) \in Nat /\ Accepted(len) <= len
           /\ room - Accepted(len) \in 0..SendRoom
           /\ Accepted(len) > 0 => CanSend
BY ConstantTypes DEF TypeOK, Accepted

LEMMA SubSeqType ==
    ASSUME NEW s \in Seq(Nat), NEW a \in Nat \ {0}, NEW b \in Nat, b <= Len(s)
    PROVE  SubSeq(s, a, b) \in Seq(Nat)
OBVIOUS

LEMMA ConcatType ==
    ASSUME NEW s \in Seq(Nat), NEW t \in Seq(Nat)
    PROVE  s \o t \in Seq(Nat)
OBVIOUS

LEMMA SendInLoopTypes ==
    ASSUME TypeOK, NEW next \in Places, SendInLoop(next)
    PROVE  /\ wire' \in Seq(Nat) /\ SendBuffer' \in Seq(Nat)
           /\ room' \in 0..SendRoom /\ msgs' \in Nat
           /\ overtaken' \in BOOLEAN /\ sockErr' \in BOOLEAN
           /\ events' \subseteq Interests /\ lpc' \in Places
<1> DEFINE m == Message(msgs + 1)
           n == Accepted(MsgLen)
<1>1. MsgLen \in Nat \ {0} /\ msgs \in Nat /\ wire \in Seq(Nat) /\ SendBuffer \in Seq(Nat)
  BY ConstantTypes DEF TypeOK
<1>2. m \in Seq(Nat) /\ Len(m) = MsgLen
  BY <1>1, MessageType
<1>3. n \in Nat /\ n <= MsgLen /\ room - n \in 0..SendRoom
  BY <1>1, AcceptedType
<1>4. /\ wire' = wire \o SubSeq(m, 1, n) /\ room' = room - n
      /\ msgs' = IF CanSend THEN msgs + 1 ELSE msgs
      /\ SendBuffer' \in {SendBuffer, SendBuffer \o SubSeq(m, n + 1, MsgLen)}
  BY DEF SendInLoop
<1>5. overtaken' \in BOOLEAN /\ sockErr' \in BOOLEAN
  BY DEF SendInLoop
<1> HIDE DEF m, n
<1>6. SubSeq(m, 1, n) \in Seq(Nat) /\ SubSeq(m, n + 1, MsgLen) \in Seq(Nat)
  BY <1>1, <1>2, <1>3, SubSeqType
<1>7. wire' \in Seq(Nat) /\ SendBuffer' \in Seq(Nat)
  BY <1>1, <1>4, <1>6, ConcatType
<1>8. events' \subseteq Interests /\ lpc' \in Places
  BY SendInLoopEffect DEF TypeOK, Interests, Places, Ended
<1> QED
  BY <1>1, <1>3, <1>4, <1>5, <1>7, <1>8
LEMMA TaskTypes ==
    ASSUME TypeOK, NEW p \in Producers, NEW kind \in TaskKinds
    PROVE  [tasks EXCEPT ![p] = Append(@, kind)] \in [Producers -> Seq(TaskKinds)]
BY DEF TypeOK

LEMMA LoopProduces == LoopThread \in Producers
BY DEF Producers

LEMMA HandleCloseTypes ==
    ASSUME TypeOK, NEW next \in Places, HandleClose(next)
    PROVE  /\ listening' \in BOOLEAN /\ lpc' \in Places
           /\ Connstatus' \in {"Connected", "DisConnecting", "DisConnected"}
           /\ tasks' \in [Producers -> Seq(TaskKinds)]
<1>1. "destruct" \in TaskKinds /\ "abort" \in Places
  BY DEF TaskKinds, Places, Ended
<1>2. [tasks EXCEPT ![LoopThread] = Append(@, "destruct")] \in [Producers -> Seq(TaskKinds)]
  BY <1>1, TaskTypes, LoopProduces
<1>3. CASE lpc' = "abort" /\ UNCHANGED <<listening, Connstatus, tasks>>
  BY <1>1, <1>3 DEF TypeOK
<1>4. CASE /\ ~listening' /\ Connstatus' = "DisConnected" /\ lpc' = next
           /\ tasks' = [tasks EXCEPT ![LoopThread] = Append(@, "destruct")]
  <2>1. listening' \in BOOLEAN
    BY DEF HandleClose, TypeOK
  <2> QED
    BY <1>2, <1>4, <2>1
<1> QED
  BY <1>3, <1>4, HandleCloseEffect

LEMMA ReadNothingTypes ==
    ASSUME TypeOK, NEW next \in Places, ReadNothing(next)
    PROVE  /\ listening' \in BOOLEAN /\ lpc' \in Places /\ sockErr' \in BOOLEAN
           /\ Connstatus' \in {"Connected", "DisConnecting", "DisConnected"}
           /\ tasks' \in [Producers -> Seq(TaskKinds)]
<1>1. sockErr' \in BOOLEAN
  BY ReadNothingEffect
<1>2. CASE HandleClose(next)
  BY <1>1, <1>2, HandleCloseTypes
<1>3. CASE lpc' = next /\ UNCHANGED <<listening, Connstatus, tasks>>
  BY <1>1, <1>3 DEF TypeOK
<1> QED
  BY <1>2, <1>3, ReadNothingEffect

LEMMA DisconnectInLoopTypes ==
    ASSUME TypeOK, NEW next \in Places, DisconnectInLoop(next)
    PROVE  /\ events' \subseteq Interests /\ lpc' \in Places /\ wrShut' \in BOOLEAN
           /\ Connstatus' \in {"Connected", "DisConnecting", "DisConnected"}
<1>1. events' \subseteq Interests /\ lpc' \in Places
  BY DisconnectInLoopEffect DEF TypeOK, Interests, Places, Ended
<1>2. Connstatus' \in {"Connected", "DisConnecting", "DisConnected"}
  BY DisconnectInLoopEffect DEF TypeOK
<1>3. wrShut' \in BOOLEAN
  BY DEF DisconnectInLoop, TypeOK
<1> QED
  BY <1>1, <1>2, <1>3

(* A poll, and the callbacks of handler_revent, keep the types. *)
LEMMA DispatchTypes ==
    ASSUME TypeOK,
           \/ PollReturn \/ OnHup \/ OnError \/ OnExcept \/ OnRead \/ OnETRead
           \/ ETRead \/ ETReadLater \/ DispatchEnd \/ CallbackReturns
    PROVE  TypeOK'
<1> USE DEF loopVars, handlerVars, outVars, inVars, peerVars, lifeVars, callVars
<1>0. /\ "poll" \in Places /\ "dispatch" \in Places /\ "etRead" \in Places
      /\ "callback" \in Places /\ "pending" \in Places
      /\ Return \in Places /\ 0 \in 0..MaxReadNum
  BY ConstantTypes DEF Places, Ended, Return
<1>1. CASE PollReturn
  <2>1. revents' \subseteq Reported
    BY <1>1 DEF PollReturn, Ready
  <2> QED
    BY <1>0, <1>1, <2>1 DEF PollReturn, TypeOK
<1>2. CASE OnHup
  <2>1. revents' \subseteq Reported
    BY <1>2 DEF OnHup, Turn, TypeOK
  <2>2. CASE "Read" \in revents
    BY <1>2, <2>1, <2>2 DEF OnHup, TypeOK
  <2>3. CASE "Read" \notin revents
    <3>1. HandleClose("dispatch")
      BY <1>2, <2>3 DEF OnHup
    <3> QED
      BY <1>0, <1>2, <2>1, <3>1, HandleCloseTypes DEF OnHup, TypeOK
  <2> QED
    BY <2>2, <2>3
<1>3. CASE OnError
  BY <1>3 DEF OnError, Turn, TypeOK
<1>4. CASE OnExcept
  <2>1. revents' \subseteq Reported
    BY <1>4 DEF OnExcept, Turn, TypeOK
  <2>2. CASE oob /\ RecvFull
    <3>1. HandleClose("dispatch")
      BY <1>4, <2>2 DEF OnExcept
    <3> QED
      BY <1>0, <1>4, <2>1, <3>1, HandleCloseTypes DEF OnExcept, TypeOK
  <2>3. CASE ~(oob /\ RecvFull)
    <3>1. /\ oob' = FALSE
          /\ UNCHANGED <<events, listening, Connstatus, loopVars, outVars, inbound, RecvFull,
                         peerVars, lifeVars, callVars, wrShut>>
      BY <1>4, <2>3 DEF OnExcept
    <3>2. oob' \in BOOLEAN /\ listening' \in BOOLEAN /\ RecvFull' \in BOOLEAN
      BY <3>1 DEF TypeOK
    <3>3. /\ asserts' \in BOOLEAN /\ released' \in BOOLEAN /\ alive' \in BOOLEAN
          /\ wrShut' \in BOOLEAN /\ sockErr' \in BOOLEAN /\ overtaken' \in BOOLEAN
          /\ asked' \in BOOLEAN
      BY <3>1 DEF TypeOK
    <3> QED
      BY <2>1, <3>1, <3>2, <3>3 DEF TypeOK
  <2> QED
    BY <2>2, <2>3
<1>5. CASE OnRead
  <2>1. revents' \subseteq Reported
    BY <1>5 DEF OnRead, Turn, TypeOK
  <2>2. CASE ReadSome /\ UNCHANGED <<listening, Connstatus, tasks, sockErr>>
    BY <1>0, <1>5, <2>1, <2>2, ConstantTypes DEF OnRead, ReadSome, TypeOK
  <2>3. CASE ReadNothing("dispatch") /\ UNCHANGED <<inbound, RecvFull>>
    <3>1. /\ listening' \in BOOLEAN /\ lpc' \in Places /\ sockErr' \in BOOLEAN
          /\ Connstatus' \in {"Connected", "DisConnecting", "DisConnected"}
          /\ tasks' \in [Producers -> Seq(TaskKinds)]
      BY <1>0, <2>3, ReadNothingTypes
    <3> QED
      BY <1>5, <2>1, <2>3, <3>1 DEF OnRead, TypeOK
  <2> QED
    BY <1>5, <2>2, <2>3 DEF OnRead
<1>6. CASE OnETRead
  BY <1>0, <1>6 DEF OnETRead, Turn, TypeOK
<1>7. CASE ETRead
  <2>1. CASE ReadSome /\ ReadNum' = ReadNum + 1 /\ UNCHANGED <<listening, Connstatus, tasks, sockErr>>
    <3>1. ReadNum' \in 0..MaxReadNum
      BY <1>7, <2>1, ConstantTypes DEF ETRead, TypeOK
    <3> QED
      BY <1>0, <1>7, <2>1, <3>1, ConstantTypes DEF ETRead, ReadSome, TypeOK
  <2>2. CASE ReadNothing(Return) /\ UNCHANGED <<inbound, RecvFull, ReadNum>>
    <3>1. /\ listening' \in BOOLEAN /\ lpc' \in Places /\ sockErr' \in BOOLEAN
          /\ Connstatus' \in {"Connected", "DisConnecting", "DisConnected"}
          /\ tasks' \in [Producers -> Seq(TaskKinds)]
      BY <1>0, <2>2, ReadNothingTypes
    <3> QED
      BY <1>7, <2>2, <3>1 DEF ETRead, TypeOK
  <2> QED
    BY <1>7, <2>1, <2>2 DEF ETRead
<1>8. CASE ETReadLater
  <2>1. tasks' \in [Producers -> Seq(TaskKinds)]
    BY <1>8, TaskTypes, LoopProduces DEF ETReadLater, TaskKinds
  <2> QED
    BY <1>0, <1>8, <2>1 DEF ETReadLater, TypeOK
<1>9. CASE DispatchEnd
  BY <1>0, <1>9 DEF DispatchEnd, TypeOK
<1>10. CASE CallbackReturns
  BY <1>0, <1>10 DEF CallbackReturns, TypeOK
<1> QED
  BY <1>1, <1>2, <1>3, <1>4, <1>5, <1>6, <1>7, <1>8, <1>9, <1>10
(* handleWrite sends what fits and keeps the types. *)
LEMMA OnWriteTypes ==
    ASSUME TypeOK, OnWrite
    PROVE  TypeOK'
<1> DEFINE len == Len(SendBuffer)
           n   == Accepted(len)
<1>1. SendBuffer \in Seq(Nat) /\ wire \in Seq(Nat) /\ len \in Nat
  BY DEF TypeOK
<1>2. n \in Nat /\ n <= len /\ room - n \in 0..SendRoom
  BY <1>1, AcceptedType
<1>3. /\ wire' = wire \o SubSeq(SendBuffer, 1, n)
      /\ SendBuffer' = SubSeq(SendBuffer, n + 1, len)
      /\ room' = room - n
  BY DEF OnWrite
<1>4. wrShut' \in BOOLEAN /\ sockErr' \in BOOLEAN
  BY DEF OnWrite
<1>5. /\ events' \in {events, events \ {"Write"}}
      /\ lpc' \in {lpc, "dispatch", "abort"}
  BY DEF OnWrite, Update
<1>6. revents' \subseteq Reported
  BY DEF OnWrite, Turn, TypeOK
<1>7. UNCHANGED <<listening, ReadNum, FinishNum, tasks, msgs, overtaken, inVars, peer,
                  lifeVars, callVars, Connstatus>>
  BY DEF OnWrite
<1> HIDE DEF len, n
<1>8. SubSeq(SendBuffer, 1, n) \in Seq(Nat) /\ SubSeq(SendBuffer, n + 1, len) \in Seq(Nat)
  BY <1>1, <1>2, SubSeqType DEF len
<1>9. wire' \in Seq(Nat) /\ SendBuffer' \in Seq(Nat) /\ room' \in 0..SendRoom
  BY <1>1, <1>2, <1>3, <1>8, ConcatType
<1> QED
  BY <1>4, <1>5, <1>6, <1>7, <1>9 DEF TypeOK, Places, Ended, inVars, lifeVars, callVars

LEMMA CallTypes ==
    ASSUME TypeOK, NEW p \in Producers, Call(p)
    PROVE  calls' \in [Producers -> Nat] /\ \A q \in Producers : calls'[q] <= Calls[q]
<1>1. /\ calls \in [Producers -> Nat] /\ calls' = [calls EXCEPT ![p] = @ + 1]
      /\ calls[p] < Calls[p] /\ \A q \in Producers : calls[q] <= Calls[q]
  BY DEF TypeOK, Call
<1>2. \A q \in Producers : calls[q] \in Nat /\ Calls[q] \in Nat
  BY <1>1, ConstantTypes
<1>3. \A q \in Producers : calls'[q] = IF q = p THEN calls[q] + 1 ELSE calls[q]
  BY <1>1
<1> QED
  BY <1>1, <1>2, <1>3

LEMMA CallbackTypes ==
    ASSUME TypeOK, CallbackCalls
    PROVE  TypeOK'
<1> USE DEF loopVars, handlerVars, outVars, inVars, peerVars, lifeVars, callVars
<1>0. "callback" \in Places /\ LoopThread \in Producers
  BY LoopProduces DEF Places, Ended
<1>1. CASE CallbackSends
  <2>1. calls' \in [Producers -> Nat] /\ \A q \in Producers : calls'[q] <= Calls[q]
    BY <1>0, <1>1, CallTypes DEF CallbackSends
  <2>2. SendInLoop("callback")
    BY <1>1 DEF CallbackSends
  <2> QED
    BY <1>0, <1>1, <2>1, <2>2, SendInLoopTypes DEF CallbackSends, TypeOK
<1>2. CASE CallbackDisconnects
  <2>1. calls' \in [Producers -> Nat] /\ \A q \in Producers : calls'[q] <= Calls[q]
    BY <1>0, <1>2, CallTypes DEF CallbackDisconnects
  <2>2. asked' \in BOOLEAN
    BY <1>2 DEF CallbackDisconnects, Asks
  <2>3. /\ events' \subseteq Interests /\ lpc' \in Places /\ wrShut' \in BOOLEAN
        /\ Connstatus' \in {"Connected", "DisConnecting", "DisConnected"}
    <3>1. CASE SendBuffer = <<>>
      BY <1>0, <1>2, <3>1, DisconnectInLoopTypes DEF CallbackDisconnects
    <3>2. CASE SendBuffer # <<>>
      <4>1. SetWriting("callback") /\ UNCHANGED <<Connstatus, wrShut>>
        BY <1>2, <3>2 DEF CallbackDisconnects
      <4> QED
        BY <4>1, SetWritingEffect DEF TypeOK, Interests, Places, Ended
    <3> QED
      BY <3>1, <3>2
  <2> QED
    BY <1>2, <2>1, <2>2, <2>3 DEF CallbackDisconnects, TypeOK
<1>3. CASE CallbackOutputs
  <2>1. calls' \in [Producers -> Nat] /\ \A q \in Producers : calls'[q] <= Calls[q]
    BY <1>0, <1>3, CallTypes DEF CallbackOutputs
  <2>2. SendBuffer' = SendBuffer \o Message(msgs + 1) /\ msgs' = msgs + 1
    BY <1>3 DEF CallbackOutputs
  <2>3. SendBuffer \in Seq(Nat) /\ msgs \in Nat /\ msgs + 1 \in Nat \ {0}
    BY DEF TypeOK
  <2>4. SendBuffer' \in Seq(Nat) /\ msgs' \in Nat
    BY <2>2, <2>3, MessageType, ConcatType
  <2>5. events' \subseteq Interests /\ lpc' \in Places
    BY <1>3, SetWritingEffect DEF CallbackOutputs, TypeOK, Interests, Places, Ended
  <2> QED
    BY <1>3, <2>1, <2>4, <2>5 DEF CallbackOutputs, TypeOK
<1> QED
  BY <1>1, <1>2, <1>3 DEF CallbackCalls

(* doPendingFunctions, whatever task it takes, keeps the types. *)
LEMMA PendingTypes ==
    ASSUME TypeOK, PendingEnd \/ \E p \in Producers : RunTask(p) \/ DropTask(p)
    PROVE  TypeOK'
<1> USE DEF loopVars, handlerVars, outVars, inVars, peerVars, lifeVars, callVars
<1>0. /\ "poll" \in Places /\ "pending" \in Places /\ "etRead" \in Places
      /\ "dangling" \in Places /\ 0 \in 0..BatchLimit /\ 0 \in 0..MaxReadNum
  BY ConstantTypes DEF Places, Ended
<1>1. CASE PendingEnd
  BY <1>0, <1>1 DEF PendingEnd, TypeOK
<1>2. ASSUME NEW p \in Producers, TakeTask(p)
      PROVE  tasks' \in [Producers -> Seq(TaskKinds)]
  BY <1>2 DEF TakeTask, TypeOK
<1>3. ASSUME NEW p \in Producers, DropTask(p)
      PROVE  TypeOK'
  <2>1. tasks' \in [Producers -> Seq(TaskKinds)]
    BY <1>2, <1>3 DEF DropTask
  <2> QED
    BY <1>0, <1>3, <2>1 DEF DropTask, TypeOK
<1>4. ASSUME NEW p \in Producers, RunTask(p)
      PROVE  TypeOK'
  <2>1. tasks' \in [Producers -> Seq(TaskKinds)]
    BY <1>2, <1>4 DEF RunTask
  <2>2. FinishNum' \in 0..BatchLimit
    <3>1. FinishNum' = FinishNum + 1 /\ FinishNum < BatchLimit
      BY <1>4 DEF RunTask
    <3> QED
      BY <3>1, ConstantTypes DEF TypeOK
  <2>3. released' \in BOOLEAN
    BY <1>4 DEF RunTask
  <2>4. lpc = "pending" /\ UNCHANGED <<listening, revents, inVars, peer, asserts, alive, callVars>>
    BY <1>4 DEF RunTask, TakeTask
  <2>5. /\ wire' \in Seq(Nat) /\ SendBuffer' \in Seq(Nat)
        /\ room' \in 0..SendRoom /\ msgs' \in Nat
        /\ overtaken' \in BOOLEAN /\ sockErr' \in BOOLEAN
        /\ events' \subseteq Interests /\ lpc' \in Places
        /\ Connstatus' \in {"Connected", "DisConnecting", "DisConnected"}
        /\ wrShut' \in BOOLEAN /\ ReadNum' \in 0..MaxReadNum
    <3> DEFINE kind == IF alive \/ Head(tasks[p]) = "destruct" THEN Head(tasks[p]) ELSE "none"
    <3>1. CASE kind = "send"
      <4>1. SendInLoop("pending") /\ UNCHANGED <<Connstatus, wrShut, ReadNum>>
        BY <1>4, <3>1 DEF RunTask
      <4> QED
        BY <1>0, <4>1, SendInLoopTypes DEF TypeOK
    <3>2. CASE kind = "disc"
      <4>1. DisconnectInLoop("pending") /\ UNCHANGED <<outVars, sockErr, ReadNum>>
        BY <1>4, <3>2 DEF RunTask
      <4> QED
        BY <1>0, <4>1, DisconnectInLoopTypes DEF TypeOK
    <3>3. CASE kind = "setW"
      <4>1. SetWriting("pending") /\ UNCHANGED <<outVars, sockErr, Connstatus, wrShut, ReadNum>>
        BY <1>4, <3>3 DEF RunTask
      <4>2. events' \subseteq Interests /\ lpc' \in Places
        BY <4>1, SetWritingEffect DEF TypeOK, Interests, Places, Ended
      <4> QED
        BY <4>1, <4>2 DEF TypeOK
    <3>4. CASE kind = "etRead"
      <4>1. /\ ReadNum' = 0 /\ lpc' = "etRead"
            /\ UNCHANGED <<outVars, sockErr, events, Connstatus, wrShut>>
        BY <1>4, <3>4 DEF RunTask
      <4> QED
        BY <1>0, <4>1 DEF TypeOK
    <3>5. CASE kind \notin {"send", "disc", "setW", "etRead"}
      <4>1. /\ lpc' \in {lpc, "dangling"}
            /\ UNCHANGED <<outVars, sockErr, events, Connstatus, wrShut, ReadNum>>
        BY <1>4, <3>5 DEF RunTask
      <4> QED
        BY <1>0, <4>1 DEF TypeOK
    <3> QED
      BY <3>1, <3>2, <3>3, <3>4, <3>5
  <2> QED
    BY <2>1, <2>2, <2>3, <2>4, <2>5 DEF TypeOK
<1> QED
  BY <1>1, <1>3, <1>4
(* Calls of the other threads, and the end of the object, keep the types. *)
LEMMA ThreadTypes ==
    ASSUME TypeOK, Destroy \/ \E t \in Threads : ThreadStep(t)
    PROVE  TypeOK'
<1> USE DEF loopVars, handlerVars, outVars, inVars, peerVars, lifeVars, callVars
<1>1. CASE Destroy
  BY <1>1 DEF Destroy, TypeOK
<1>2. ASSUME NEW t \in Threads, NEW kind \in TaskKinds, Enqueue(t, kind), asked' \in BOOLEAN
      PROVE  TypeOK'
  <2>1. t \in Producers
    BY DEF Producers
  <2>2. calls' \in [Producers -> Nat] /\ \A q \in Producers : calls'[q] <= Calls[q]
    BY <1>2, <2>1, CallTypes DEF Enqueue
  <2>3. tasks' \in [Producers -> Seq(TaskKinds)]
    BY <1>2, <2>1, TaskTypes DEF Enqueue
  <2> QED
    BY <1>2, <2>2, <2>3 DEF Enqueue, TypeOK
<1>3. ASSUME NEW t \in Threads, Send(t)
      PROVE  TypeOK'
  BY <1>2, <1>3 DEF Send, TaskKinds, TypeOK
<1>4. ASSUME NEW t \in Threads, Disconnect(t)
      PROVE  TypeOK'
  <2>1. asked' \in BOOLEAN
    BY <1>4 DEF Disconnect, Asks
  <2>2. (IF SendBuffer = <<>> THEN "disc" ELSE "setW") \in TaskKinds
    BY DEF TaskKinds
  <2> QED
    BY <1>2, <1>4, <2>1, <2>2 DEF Disconnect
<1> QED
  BY <1>1, <1>3, <1>4 DEF ThreadStep

LEMMA PeerTypes ==
    ASSUME TypeOK, PeerStep
    PROVE  TypeOK'
<1> USE DEF ours, loopVars, handlerVars, outVars, inVars, peerVars, lifeVars, callVars
<1>1. CASE PeerSends
  BY <1>1, ConstantTypes DEF PeerSends, TypeOK
<1>2. CASE PeerUrgent
  BY <1>2 DEF PeerUrgent, TypeOK
<1>3. CASE PeerReads
  BY <1>3, ConstantTypes DEF PeerReads, TypeOK
<1>4. CASE PeerFin
  BY <1>4 DEF PeerFin, TypeOK
<1>5. CASE PeerReset
  BY <1>5 DEF PeerReset, TypeOK
<1> QED
  BY <1>1, <1>2, <1>3, <1>4, <1>5 DEF PeerStep

LEMMA InitTypes == Init => TypeOK
<1> SUFFICES ASSUME Init PROVE TypeOK
  OBVIOUS
<1>1. events \subseteq Interests
  BY ConnectionAssumption DEF Init
<1>2. /\ ReadNum \in 0..MaxReadNum /\ FinishNum \in 0..BatchLimit
      /\ inbound \in 0..MaxInbound /\ room \in 0..SendRoom /\ msgs \in Nat
  BY ConstantTypes DEF Init
<1>3. calls \in [Producers -> Nat] /\ \A p \in Producers : calls[p] <= Calls[p]
  BY ConstantTypes DEF Init
<1>4. /\ tasks \in [Producers -> Seq(TaskKinds)]
      /\ SendBuffer \in Seq(Nat) /\ wire \in Seq(Nat)
  BY DEF Init
<1>5. revents \subseteq Reported /\ lpc \in Places
  BY DEF Init, Places, Ended
<1> QED
  BY <1>1, <1>2, <1>3, <1>4, <1>5 DEF Init, TypeOK

LEMMA StepTypes ==
    ASSUME TypeOK, [Next]_vars
    PROVE  TypeOK'
<1>1. CASE Next
  BY <1>1, DispatchTypes, OnWriteTypes, CallbackTypes, PendingTypes, ThreadTypes, PeerTypes
     DEF Next, LoopStep
<1>2. CASE UNCHANGED vars
  BY <1>2 DEF vars, loopVars, handlerVars, outVars, inVars, peerVars, lifeVars, callVars,
              TypeOK
<1> QED
  BY <1>1, <1>2

(* The state of a connection is well typed whatever the peer, the callers  *)
(* and the callbacks do; in particular the kernel never takes more than it *)
(* has room for, handleETRead reads at most MaxReadNum times and a batch   *)
(* of tasks stays within its limit.                                        *)
THEOREM TypeCorrect == Spec => []TypeOK
<1>1. TypeOK /\ [Next]_vars => TypeOK'
  BY StepTypes
<1> QED
  BY <1>1, InitTypes, PTL DEF Spec
-----------------------------------------------------------------------------
(* Closing. *)

(* What CloseInv and WriteInv need of a step that neither closes nor       *)
(* touches what is buffered.                                               *)
LEMMA QuietStep ==
    ASSUME CloseInv, WriteInv, UNCHANGED <<listening, Connstatus, SendBuffer>>,
           events \subseteq events', lpc' = "abort" => ~listening
    PROVE  CloseInv' /\ WriteInv'
BY DEF CloseInv, WriteInv

LEMMA CloseStep ==
    ASSUME CloseInv, WriteInv, NEW next, next # "abort", HandleClose(next),
           UNCHANGED <<SendBuffer, events>>
    PROVE  CloseInv' /\ WriteInv'
BY HandleCloseEffect DEF CloseInv, WriteInv

LEMMA ReadNothingStep ==
    ASSUME CloseInv, WriteInv, NEW next, next # "abort", ReadNothing(next),
           UNCHANGED <<SendBuffer, events>>
    PROVE  CloseInv' /\ WriteInv'
<1>1. CASE HandleClose(next)
  BY <1>1, CloseStep
<1>2. CASE lpc' = next /\ UNCHANGED <<listening, Connstatus, tasks>>
  BY <1>2, QuietStep
<1> QED
  BY <1>1, <1>2, ReadNothingEffect

LEMMA SendStep ==
    ASSUME CloseInv, WriteInv, NEW next, next # "abort", SendInLoop(next),
           UNCHANGED <<listening, Connstatus>>
    PROVE  CloseInv' /\ WriteInv'
BY SendInLoopEffect DEF CloseInv, WriteInv

LEMMA DisconnectStep ==
    ASSUME CloseInv, WriteInv, NEW next, next # "abort", DisconnectInLoop(next),
           UNCHANGED <<listening, SendBuffer>>
    PROVE  CloseInv' /\ WriteInv'
<1>1. WriteInv'
  BY DisconnectInLoopEffect DEF WriteInv
<1>2. CloseInv'
  BY DisconnectInLoopEffect DEF CloseInv
<1> QED
  BY <1>1, <1>2

(* handleWrite cancels the interest only when it has emptied SendBuffer_. *)
LEMMA OnWriteStep ==
    ASSUME TypeOK, CloseInv, WriteInv, OnWrite
    PROVE  CloseInv' /\ WriteInv'
<1> DEFINE len == Len(SendBuffer)
           n   == Accepted(len)
<1>1. /\ lpc = "dispatch" /\ UNCHANGED <<listening, Connstatus>>
      /\ SendBuffer' = SubSeq(SendBuffer, n + 1, len)
  BY DEF OnWrite, Turn
<1>2. /\ SendBuffer \in Seq(Nat) /\ len \in Nat /\ n \in Nat /\ n <= len
  BY AcceptedType DEF TypeOK
<1>3. CASE n > 0 /\ n = len /\ "Write" \in events
  <2>1. SendBuffer' = <<>>
    BY <1>1, <1>2, <1>3
  <2>2. lpc' = "dispatch" \/ ~listening
    BY <1>3 DEF OnWrite, Update
  <2> QED
    BY <1>1, <2>1, <2>2 DEF CloseInv, WriteInv
<1>4. CASE ~(n > 0 /\ n = len /\ "Write" \in events)
  <2>1. UNCHANGED <<events, lpc>>
    BY <1>4 DEF OnWrite
  <2>2. SendBuffer = <<>> => SendBuffer' = <<>>
    BY <1>1, <1>2
  <2> QED
    BY <1>1, <2>1, <2>2 DEF CloseInv, WriteInv
<1> QED
  BY <1>3, <1>4

(* Every step keeps the handler's place in the epoll set in line with      *)
(* Connstatus_, and the interest in Write in line with SendBuffer_.        *)
LEMMA StepCloses ==
    ASSUME TypeOK, CloseInv, WriteInv, [Next]_vars
    PROVE  CloseInv' /\ WriteInv'
<1> USE DEF loopVars, handlerVars, outVars, inVars, peerVars, lifeVars, callVars
<1>1. CASE PollReturn
  BY <1>1, QuietStep DEF PollReturn
<1>2. CASE OnHup
  <2>1. CASE "Read" \in revents
    BY <1>2, <2>1, QuietStep DEF OnHup, Turn
  <2>2. CASE "Read" \notin revents
    BY <1>2, <2>2, CloseStep DEF OnHup
  <2> QED
    BY <2>1, <2>2
<1>3. CASE OnError
  BY <1>3, QuietStep DEF OnError, Turn
<1>4. CASE OnExcept
  <2>1. CASE oob /\ RecvFull
    BY <1>4, <2>1, CloseStep DEF OnExcept
  <2>2. CASE ~(oob /\ RecvFull)
    BY <1>4, <2>2, QuietStep DEF OnExcept, Turn
  <2> QED
    BY <2>1, <2>2
<1>5. CASE OnRead
  <2>1. CASE ReadSome /\ UNCHANGED <<listening, Connstatus, tasks, sockErr>>
    BY <1>5, <2>1, QuietStep DEF OnRead, ReadSome
  <2>2. CASE ReadNothing("dispatch")
    BY <1>5, <2>2, ReadNothingStep DEF OnRead
  <2> QED
    BY <1>5, <2>1, <2>2 DEF OnRead
<1>6. CASE OnETRead
  BY <1>6, QuietStep DEF OnETRead
<1>7. CASE OnWrite
  BY <1>7, OnWriteStep
<1>8. CASE ETRead
  <2>1. CASE ReadSome /\ UNCHANGED <<listening, Connstatus, tasks, sockErr>>
    BY <1>8, <2>1, QuietStep DEF ETRead, ReadSome
  <2>2. CASE ReadNothing(Return)
    BY <1>8, <2>2, ReadNothingStep DEF ETRead, Return
  <2> QED
    BY <1>8, <2>1, <2>2 DEF ETRead
<1>9. CASE ETReadLater
  BY <1>9, QuietStep DEF ETReadLater, Return
<1>10. CASE DispatchEnd
  BY <1>10, QuietStep DEF DispatchEnd
<1>11. CASE CallbackReturns
  BY <1>11, QuietStep DEF CallbackReturns
<1>12. CASE PendingEnd
  BY <1>12, QuietStep DEF PendingEnd
<1>13. ASSUME NEW p \in Producers, DropTask(p)
       PROVE  CloseInv' /\ WriteInv'
  BY <1>13, QuietStep DEF DropTask
<1>14. ASSUME NEW p \in Producers, RunTask(p)
       PROVE  CloseInv' /\ WriteInv'
  <2> DEFINE kind == IF alive \/ Head(tasks[p]) = "destruct" THEN Head(tasks[p]) ELSE "none"
  <2>0. lpc = "pending" /\ UNCHANGED listening
    BY <1>14 DEF RunTask, TakeTask
  <2>1. CASE kind = "send"
    <3>1. SendInLoop("pending") /\ UNCHANGED Connstatus
      BY <1>14, <2>1 DEF RunTask
    <3> QED
      BY <2>0, <3>1, SendStep
  <2>2. CASE kind = "disc"
    <3>1. DisconnectInLoop("pending") /\ UNCHANGED SendBuffer
      BY <1>14, <2>2 DEF RunTask
    <3> QED
      BY <2>0, <3>1, DisconnectStep
  <2>3. CASE kind = "setW"
    <3>1. SetWriting("pending") /\ UNCHANGED <<SendBuffer, Connstatus>>
      BY <1>14, <2>3 DEF RunTask
    <3> QED
      BY <2>0, <3>1, SetWritingEffect, QuietStep
  <2>4. CASE kind = "etRead"
    <3>1. lpc' = "etRead" /\ UNCHANGED <<SendBuffer, events, Connstatus>>
      BY <1>14, <2>4 DEF RunTask
    <3> QED
      BY <2>0, <3>1, QuietStep
  <2>5. CASE kind \notin {"send", "disc", "setW", "etRead"}
    <3>1. lpc' \in {lpc, "dangling"} /\ UNCHANGED <<SendBuffer, events, Connstatus>>
      BY <1>14, <2>5 DEF RunTask
    <3> QED
      BY <2>0, <3>1, QuietStep
  <2> QED
    BY <2>1, <2>2, <2>3, <2>4, <2>5
<1>15. CASE CallbackSends
  BY <1>15, SendStep DEF CallbackSends
<1>16. CASE CallbackDisconnects
  <2>1. CASE SendBuffer = <<>>
    BY <1>16, <2>1, DisconnectStep DEF CallbackDisconnects
  <2>2. CASE SendBuffer # <<>>
    BY <1>16, <2>2, SetWritingEffect, QuietStep DEF CallbackDisconnects
  <2> QED
    BY <2>1, <2>2
<1>17. CASE CallbackOutputs
  BY <1>17, SetWritingEffect DEF CallbackOutputs, CloseInv, WriteInv
<1>18. ASSUME NEW t \in Threads, ThreadStep(t)
       PROVE  CloseInv' /\ WriteInv'
  BY <1>18 DEF ThreadStep, Send, Disconnect, Enqueue, CloseInv, WriteInv
<1>19. CASE Destroy
  BY <1>19, QuietStep DEF Destroy
<1>20. CASE PeerStep
  BY <1>20 DEF PeerStep, PeerSends, PeerUrgent, PeerReads, PeerFin, PeerReset, ours,
               CloseInv, WriteInv
<1>21. CASE UNCHANGED vars
  BY <1>21 DEF vars, CloseInv, WriteInv
<1> QED
  BY <1>1, <1>2, <1>3, <1>4, <1>5, <1>6, <1>7, <1>8, <1>9, <1>10, <1>11, <1>12, <1>13,
     <1>14, <1>15, <1>16, <1>17, <1>18, <1>19, <1>20, <1>21
     DEF Next, LoopStep, CallbackCalls

(* The two hold in every reachable state of a connection. *)
THEOREM CloseInvariance == Spec => [](TypeOK /\ CloseInv /\ WriteInv)
<1>1. Init => TypeOK /\ CloseInv /\ WriteInv
  BY InitTypes DEF Init, CloseInv, WriteInv
<1>2. TypeOK /\ CloseInv /\ WriteInv /\ [Next]_vars => (TypeOK /\ CloseInv /\ WriteInv)'
  BY StepTypes, StepCloses
<1> QED
  BY <1>1, <1>2, PTL DEF Spec

(* An assert() of handleClose or of Epoll can fail only on a connection    *)
(* that handleClose has already closed.                                    *)
THEOREM AbortsExplained == Spec => []AbortOnlyAfterClose
<1>1. CloseInv => AbortOnlyAfterClose
  BY DEF CloseInv, AbortOnlyAfterClose
<1> QED
  BY <1>1, CloseInvariance, PTL

(* Whenever the loop sleeps, a connection with unsent data is asking for   *)
(* Write: sendInLoop, sendOutput, disconnect and handleWrite never leave   *)
(* data behind that no event will flush.                                   *)
THEOREM NothingGetsStuck == Spec => []NothingStuck
<1>1. WriteInv => NothingStuck
  BY DEF WriteInv, NothingStuck
<1> QED
  BY <1>1, CloseInvariance, PTL
-----------------------------------------------------------------------------
(* The shutdown of our side. *)

(* Only handleWrite and disconnectInLoop shut our side down. *)
LEMMA ShutStep ==
    ASSUME TypeOK, [Next]_vars, wrShut', ~wrShut
    PROVE  SendBuffer' = <<>>
<1> USE DEF loopVars, handlerVars, outVars, inVars, peerVars, lifeVars, callVars
<1>1. CASE OnWrite
  <2> DEFINE len == Len(SendBuffer)
             n   == Accepted(len)
  <2>1. n = len /\ SendBuffer' = SubSeq(SendBuffer, n + 1, len)
    BY <1>1 DEF OnWrite
  <2>2. SendBuffer \in Seq(Nat) /\ len \in Nat
    BY DEF TypeOK
  <2> QED
    BY <2>1, <2>2
<1>2. CASE CallbackDisconnects
  <2>1. SendBuffer = <<>> /\ UNCHANGED SendBuffer
    BY <1>2 DEF CallbackDisconnects
  <2> QED
    BY <2>1
<1>3. ASSUME NEW p \in Producers, RunTask(p)
      PROVE  SendBuffer' = <<>>
  <2> DEFINE kind == IF alive \/ Head(tasks[p]) = "destruct" THEN Head(tasks[p]) ELSE "none"
  <2>1. CASE kind = "disc"
    <3>1. DisconnectInLoop("pending") /\ UNCHANGED SendBuffer
      BY <1>3, <2>1 DEF RunTask
    <3> QED
      BY <3>1, DisconnectInLoopEffect
  <2>2. CASE kind # "disc"
    <3>1. UNCHANGED wrShut
      BY <1>3, <2>2 DEF RunTask
    <3> QED
      BY <3>1
  <2> QED
    BY <2>1, <2>2
<1>4. CASE \/ PollReturn \/ OnHup \/ OnError \/ OnExcept \/ OnRead \/ OnETRead
           \/ ETRead \/ ETReadLater \/ DispatchEnd \/ CallbackReturns \/ PendingEnd
           \/ CallbackSends \/ CallbackOutputs \/ Destroy
  BY <1>4 DEF PollReturn, OnHup, OnError, OnExcept, OnRead, OnETRead, ETRead, ETReadLater,
              DispatchEnd, CallbackReturns, PendingEnd, CallbackSends, CallbackOutputs, Destroy
<1>5. CASE (\E p \in Producers : DropTask(p)) \/ (\E t \in Threads : ThreadStep(t))
  BY <1>5 DEF DropTask, ThreadStep, Send, Disconnect, Enqueue
<1>6. CASE PeerStep
  BY <1>6 DEF PeerStep, PeerSends, PeerUrgent, PeerReads, PeerFin, PeerReset, ours
<1>7. CASE UNCHANGED vars
  BY <1>7 DEF vars
<1> QED
  BY <1>1, <1>2, <1>3, <1>4, <1>5, <1>6, <1>7 DEF Next, LoopStep, CallbackCalls

(* disconnect() never cuts data off: the step that shuts our side down     *)
(* leaves SendBuffer_ empty.                                               *)
THEOREM FinFollowsData == Spec => FinAfterData
<1>1. TypeOK /\ [Next]_vars => [wrShut' /\ ~wrShut => SendBuffer' = <<>>]_vars
  BY ShutStep
<1> QED
  BY <1>1, TypeCorrect, PTL DEF Spec, FinAfterData

-----------------------------------------------------------------------------
(* The end of the object. *)

NoTask(p, kind) == \A i \in 1..Len(tasks[p]) : tasks[p][i] # kind

(* handler_revent and handleETRead leave nothing half done where the       *)
(* object may be destroyed.                                                *)
FlowInv ==
    /\ lpc \in {"poll", "dispatch"} => FinishNum = 0
    /\ lpc \in {"poll", "pending"} => revents = {}
    /\ FinishNum > 0 => revents = {}
    /\ lpc = "etRead" => isET
    /\ lpc = "callback" /\ ~isET => FinishNum = 0

(* Only the loop thread queues continuations of handleETRead and destruct  *)
(* closures, the former only on an Edge connection.                        *)
QueueInv ==
    /\ ~isET => NoTask(LoopThread, "etRead")
    /\ \A t \in Threads : NoTask(t, "etRead") /\ NoTask(t, "destruct")

(* A connection that asks for neither Edge nor out-of-band data is found   *)
(* hung up or readable only while its handler is in the epoll set: no      *)
(* callback of one dispatch comes after another one's handleClose.         *)
Plain == events \cap {"Edge", "Except"} = {}

OnceInv ==
    Plain => /\ "Except" \notin revents
             /\ revents \cap {"Hup", "Read"} # {} => listening

(* The destruct closure is queued when the handler leaves the epoll set,   *)
(* never before.  Where handleClose runs once it is queued once, and is    *)
(* gone when destructCallBack_ has been called.                            *)
DestructInv ==
    /\ released => ~listening
    /\ listening => NoTask(LoopThread, "destruct")
    /\ ~Exposed =>
          /\ released => NoTask(LoopThread, "destruct")
          /\ \A i, j \in 1..Len(tasks[LoopThread]) :
                tasks[LoopThread][i] = "destruct" /\ tasks[LoopThread][j] = "destruct" => i = j

GoneInv ==
    ~alive => released /\ revents = {} /\ lpc \notin {"etRead", "callback"}

(* A destruct closure outlives the object only where there can be two. *)
DanglingInv == lpc = "dangling" => Exposed

LifeInv == FlowInv /\ QueueInv /\ OnceInv /\ DestructInv /\ GoneInv /\ DanglingInv

(* What a step does to the queue of tasks, and with it to the flags of the *)
(* connection's life.                                                      *)
LEMMA TaskEffect ==
    ASSUME FlowInv, OnceInv, [Next]_vars
    PROVE  \/ UNCHANGED <<tasks, listening, released>>
           \/ /\ \E next : HandleClose(next)
              /\ Plain => listening
              /\ UNCHANGED released
           \/ ETReadLater
           \/ \E t \in Threads, kind \in {"send", "disc", "setW"} : Enqueue(t, kind)
           \/ \E p \in Producers : RunTask(p) \/ DropTask(p)
<1> USE DEF loopVars, handlerVars, outVars, inVars, peerVars, lifeVars, callVars
<1>1. CASE OnHup
  <2>1. Plain => listening
    BY <1>1 DEF OnHup, Turn, OnceInv
  <2> QED
    BY <1>1, <2>1 DEF OnHup
<1>2. CASE OnExcept
  <2>1. ~Plain
    BY <1>2 DEF OnExcept, Turn, OnceInv
  <2> QED
    BY <1>2, <2>1 DEF OnExcept
<1>3. CASE OnRead
  <2>1. Plain => listening
    BY <1>3 DEF OnRead, Turn, OnceInv
  <2>2. CASE ReadNothing("dispatch")
    BY <1>3, <2>1, <2>2, ReadNothingEffect DEF OnRead
  <2> QED
    BY <1>3, <2>2 DEF OnRead
<1>4. CASE ETRead
  <2>1. ~Plain
    BY <1>4 DEF ETRead, FlowInv, isET, Plain
  <2>2. CASE ReadNothing(Return)
    BY <1>4, <2>1, <2>2, ReadNothingEffect DEF ETRead
  <2> QED
    BY <1>4, <2>2 DEF ETRead
<1>5. ASSUME NEW t \in Threads, ThreadStep(t)
      PROVE  \E kind \in {"send", "disc", "setW"} : Enqueue(t, kind)
  <2>1. CASE Send(t)
    BY <2>1 DEF Send
  <2>2. CASE Disconnect(t)
    <3>1. Enqueue(t, IF SendBuffer = <<>> THEN "disc" ELSE "setW")
      BY <2>2 DEF Disconnect
    <3> QED
      BY <3>1
  <2> QED
    BY <1>5, <2>1, <2>2 DEF ThreadStep
<1>6. CASE PollReturn \/ OnError \/ OnETRead \/ OnWrite \/ DispatchEnd \/ CallbackReturns
           \/ PendingEnd \/ CallbackCalls \/ Destroy
  BY <1>6 DEF PollReturn, OnError, OnETRead, OnWrite, DispatchEnd, CallbackReturns, PendingEnd,
              CallbackCalls, CallbackSends, CallbackDisconnects, CallbackOutputs, Destroy
<1>7. CASE PeerStep
  BY <1>7 DEF PeerStep, PeerSends, PeerUrgent, PeerReads, PeerFin, PeerReset, ours
<1>8. CASE UNCHANGED vars
  BY <1>8 DEF vars
<1> QED
  BY <1>1, <1>2, <1>3, <1>4, <1>5, <1>6, <1>7, <1>8 DEF Next, LoopStep

(* No step changes the build or an interest other than Write. *)
LEMMA InterestsKept ==
    ASSUME [Next]_vars
    PROVE  events' \ {"Write"} = events \ {"Write"} /\ asserts' = asserts
<1> USE DEF loopVars, handlerVars, outVars, inVars, peerVars, lifeVars, callVars
<1>1. CASE OnWrite
  BY <1>1 DEF OnWrite
<1>2. CASE CallbackSends
  BY <1>2, SendInLoopEffect DEF CallbackSends
<1>3. CASE CallbackDisconnects
  <2>1. events' \in {events, events \cup {"Write"}} /\ asserts' = asserts
    BY <1>3, DisconnectInLoopEffect, SetWritingEffect DEF CallbackDisconnects
  <2> QED
    BY <2>1
<1>4. CASE CallbackOutputs
  BY <1>4, SetWritingEffect DEF CallbackOutputs
<1>5. ASSUME NEW p \in Producers, RunTask(p)
      PROVE  events' \ {"Write"} = events \ {"Write"} /\ asserts' = asserts
  <2> DEFINE kind == IF alive \/ Head(tasks[p]) = "destruct" THEN Head(tasks[p]) ELSE "none"
  <2>1. CASE kind = "send"
    BY <1>5, <2>1, SendInLoopEffect DEF RunTask
  <2>2. CASE kind = "disc"
    BY <1>5, <2>2, DisconnectInLoopEffect DEF RunTask
  <2>3. CASE kind = "setW"
    BY <1>5, <2>3, SetWritingEffect DEF RunTask
  <2>4. CASE kind \notin {"send", "disc", "setW"}
    BY <1>5, <2>4 DEF RunTask
  <2> QED
    BY <2>1, <2>2, <2>3, <2>4
<1>6. CASE \/ PollReturn \/ OnHup \/ OnError \/ OnExcept \/ OnRead \/ OnETRead
           \/ ETRead \/ ETReadLater \/ DispatchEnd \/ CallbackReturns \/ PendingEnd
           \/ Destroy
  BY <1>6 DEF PollReturn, OnHup, OnError, OnExcept, OnRead, OnETRead, ETRead, ETReadLater,
              DispatchEnd, CallbackReturns, PendingEnd, Destroy
<1>7. CASE (\E p \in Producers : DropTask(p)) \/ (\E t \in Threads : ThreadStep(t))
  BY <1>7 DEF DropTask, ThreadStep, Send, Disconnect, Enqueue
<1>8. CASE PeerStep
  BY <1>8 DEF PeerStep, PeerSends, PeerUrgent, PeerReads, PeerFin, PeerReset, ours
<1>9. CASE UNCHANGED vars
  BY <1>9 DEF vars
<1> QED
  BY <1>1, <1>2, <1>3, <1>4, <1>5, <1>6, <1>7, <1>8, <1>9 DEF Next, LoopStep, CallbackCalls

LEMMA EdgeKept ==
    ASSUME [Next]_vars
    PROVE  (isET' <=> isET) /\ (Plain' <=> Plain) /\ (Exposed' <=> Exposed)
BY InterestsKept DEF isET, Plain, Exposed

(* Appending a task of another kind, or taking one, brings no new task of  *)
(* this kind into a queue.                                                 *)
LEMMA NoTaskAppend ==
    ASSUME TypeOK, NEW p \in Producers, NEW q \in Producers, NEW kind, NEW new \in TaskKinds,
           NoTask(q, kind), new # kind \/ p # q,
           tasks' = [tasks EXCEPT ![p] = Append(@, new)]
    PROVE  NoTask(q, kind)'
<1>1. tasks[p] \in Seq(TaskKinds) /\ tasks[q] \in Seq(TaskKinds)
  BY DEF TypeOK
<1>2. CASE p = q
  <2>1. tasks'[q] = Append(tasks[q], new)
    BY <1>2 DEF TypeOK
  <2> QED
    BY <1>1, <1>2, <2>1 DEF NoTask
<1>3. CASE p # q
  BY <1>3 DEF NoTask, TypeOK
<1> QED
  BY <1>2, <1>3

LEMMA NoTaskTake ==
    ASSUME TypeOK, NEW p \in Producers, NEW q \in Producers, NEW kind,
           NoTask(q, kind), TakeTask(p)
    PROVE  NoTask(q, kind)'
<1>1. tasks[p] \in Seq(TaskKinds) /\ tasks[p] # <<>>
  BY DEF TypeOK, TakeTask
<1>2. CASE p = q
  <2>1. tasks'[q] = Tail(tasks[q])
    BY <1>2 DEF TypeOK, TakeTask
  <2> QED
    BY <1>1, <1>2, <2>1 DEF NoTask
<1>3. CASE p # q
  <2>1. tasks'[q] = tasks[q]
    BY <1>3 DEF TypeOK, TakeTask
  <2> QED
    BY <2>1 DEF NoTask
<1> QED
  BY <1>2, <1>3
LEMMA QueueStep ==
    ASSUME TypeOK, FlowInv, OnceInv, QueueInv, [Next]_vars
    PROVE  QueueInv'
<1>0. /\ LoopThread \in Producers /\ \A t \in Threads : t \in Producers /\ t # LoopThread
      /\ isET' <=> isET
      /\ {"send", "disc", "setW", "etRead", "destruct"} \subseteq TaskKinds
  BY ConnectionAssumption, EdgeKept DEF Producers, TaskKinds
<1>1. CASE UNCHANGED tasks
  BY <1>0, <1>1 DEF QueueInv, NoTask
<1>2. ASSUME NEW next, HandleClose(next)
      PROVE  QueueInv'
  <2>1. CASE UNCHANGED tasks
    BY <2>1, <1>1
  <2>2. CASE tasks' = [tasks EXCEPT ![LoopThread] = Append(@, "destruct")]
    <3>1. ~isET => NoTask(LoopThread, "etRead")'
      BY <1>0, <2>2, NoTaskAppend DEF QueueInv
    <3>2. ASSUME NEW t \in Threads PROVE NoTask(t, "etRead")' /\ NoTask(t, "destruct")'
      BY <1>0, <2>2, NoTaskAppend DEF QueueInv
    <3> QED
      BY <1>0, <3>1, <3>2 DEF QueueInv
  <2> QED
    BY <1>2, <2>1, <2>2, HandleCloseEffect
<1>3. CASE ETReadLater
  <2>1. isET /\ tasks' = [tasks EXCEPT ![LoopThread] = Append(@, "etRead")]
    BY <1>3 DEF ETReadLater, FlowInv
  <2>2. ASSUME NEW t \in Threads PROVE NoTask(t, "etRead")' /\ NoTask(t, "destruct")'
    BY <1>0, <2>1, NoTaskAppend DEF QueueInv
  <2> QED
    BY <1>0, <2>1, <2>2 DEF QueueInv
<1>4. ASSUME NEW u \in Threads, NEW kind \in {"send", "disc", "setW"}, Enqueue(u, kind)
      PROVE  QueueInv'
  <2>1. /\ tasks' = [tasks EXCEPT ![u] = Append(@, kind)]
        /\ kind \in TaskKinds /\ kind # "etRead" /\ kind # "destruct"
    BY <1>0, <1>4 DEF Enqueue
  <2>2. ASSUME NEW t \in Threads PROVE NoTask(t, "etRead")' /\ NoTask(t, "destruct")'
    BY <1>0, <2>1, NoTaskAppend DEF QueueInv
  <2>3. ~isET => NoTask(LoopThread, "etRead")'
    BY <1>0, <2>1, NoTaskAppend DEF QueueInv
  <2> QED
    BY <1>0, <2>2, <2>3 DEF QueueInv
<1>5. ASSUME NEW p \in Producers, TakeTask(p)
      PROVE  QueueInv'
  <2>1. ASSUME NEW t \in Threads PROVE NoTask(t, "etRead")' /\ NoTask(t, "destruct")'
    BY <1>0, <1>5, NoTaskTake DEF QueueInv
  <2>2. ~isET => NoTask(LoopThread, "etRead")'
    BY <1>0, <1>5, NoTaskTake DEF QueueInv
  <2> QED
    BY <1>0, <2>1, <2>2 DEF QueueInv
<1> QED
  BY <1>1, <1>2, <1>3, <1>4, <1>5, TaskEffect DEF RunTask, DropTask

(* The steps of the loop thread outside the task queue keep FlowInv. *)
LEMMA FlowDispatch ==
    ASSUME TypeOK, FlowInv, isET' <=> isET,
           \/ PollReturn \/ OnHup \/ OnError \/ OnExcept \/ OnRead \/ OnETRead \/ OnWrite
           \/ ETRead \/ ETReadLater \/ DispatchEnd \/ CallbackReturns \/ PendingEnd
    PROVE  FlowInv'
<1> USE DEF loopVars, handlerVars, callVars
<1>0. FinishNum \in Nat
  BY DEF TypeOK
<1>1. CASE PollReturn
  BY <1>0, <1>1 DEF PollReturn, FlowInv
<1>2. CASE OnHup
  BY <1>0, <1>2, HandleCloseEffect DEF OnHup, Turn, FlowInv
<1>3. CASE OnError
  BY <1>0, <1>3 DEF OnError, Turn, FlowInv
<1>4. CASE OnExcept
  BY <1>0, <1>4, HandleCloseEffect DEF OnExcept, Turn, FlowInv
<1>5. CASE OnRead
  <2>1. lpc = "dispatch" /\ ~isET /\ FinishNum = 0 /\ UNCHANGED FinishNum
    BY <1>5 DEF OnRead, Turn, FlowInv
  <2>2. lpc' \in {"callback", "dispatch", "abort"}
    BY <1>5, ReadNothingEffect, HandleCloseEffect DEF OnRead, ReadSome
  <2> QED
    BY <1>0, <2>1, <2>2 DEF FlowInv
<1>6. CASE OnETRead
  BY <1>0, <1>6 DEF OnETRead, Turn, FlowInv
<1>7. CASE OnWrite
  <2>1. lpc = "dispatch" /\ FinishNum = 0 /\ UNCHANGED FinishNum
    BY <1>7 DEF OnWrite, Turn, FlowInv
  <2>2. lpc' \in {"dispatch", "abort"}
    BY <1>7, <2>1 DEF OnWrite, Update
  <2> QED
    BY <1>0, <2>1, <2>2 DEF FlowInv
<1>8. CASE ETRead
  <2>1. lpc = "etRead" /\ isET /\ UNCHANGED <<FinishNum, revents>>
    BY <1>8 DEF ETRead, FlowInv
  <2>2. lpc' \in {"callback", Return, "abort"}
    BY <1>8, ReadNothingEffect, HandleCloseEffect DEF ETRead, ReadSome
  <2> QED
    BY <1>0, <2>1, <2>2 DEF FlowInv, Return
<1>9. CASE ETReadLater
  BY <1>0, <1>9 DEF ETReadLater, Return, FlowInv
<1>10. CASE DispatchEnd
  BY <1>0, <1>10 DEF DispatchEnd, FlowInv
<1>11. CASE CallbackReturns
  BY <1>0, <1>11 DEF CallbackReturns, FlowInv
<1>12. CASE PendingEnd
  BY <1>0, <1>12 DEF PendingEnd, FlowInv
<1> QED
  BY <1>1, <1>2, <1>3, <1>4, <1>5, <1>6, <1>7, <1>8, <1>9, <1>10, <1>11, <1>12

(* A task that handleETRead left behind is only there on an Edge           *)
(* connection, so that it returns to the task loop and not to dispatch.    *)
LEMMA FlowTasks ==
    ASSUME TypeOK, FlowInv, QueueInv, isET' <=> isET, NEW p \in Producers,
           RunTask(p) \/ DropTask(p)
    PROVE  FlowInv'
<1>0. FinishNum \in Nat
  BY DEF TypeOK
<1>1. CASE DropTask(p)
  BY <1>0, <1>1 DEF DropTask, TakeTask, FlowInv, handlerVars
<1>2. CASE RunTask(p)
  <2>1. /\ lpc = "pending" /\ revents = {} /\ UNCHANGED revents
        /\ FinishNum' = FinishNum + 1 /\ tasks[p] # <<>>
    BY <1>2 DEF RunTask, TakeTask, FlowInv
  <2> DEFINE kind == IF alive \/ Head(tasks[p]) = "destruct" THEN Head(tasks[p]) ELSE "none"
  <2>2. CASE kind = "send"
    <3>1. lpc' \in {"pending", "abort"}
      BY <1>2, <2>2, SendInLoopEffect DEF RunTask
    <3> QED
      BY <1>0, <2>1, <3>1 DEF FlowInv
  <2>3. CASE kind = "disc"
    <3>1. lpc' \in {"pending", "abort"}
      BY <1>2, <2>3, DisconnectInLoopEffect DEF RunTask
    <3> QED
      BY <1>0, <2>1, <3>1 DEF FlowInv
  <2>4. CASE kind = "setW"
    <3>1. lpc' \in {"pending", "abort"}
      BY <1>2, <2>4, SetWritingEffect DEF RunTask
    <3> QED
      BY <1>0, <2>1, <3>1 DEF FlowInv
  <2>5. CASE kind = "etRead"
    <3>1. lpc' = "etRead" /\ Head(tasks[p]) = "etRead"
      BY <1>2, <2>5 DEF RunTask
    <3>2. ~NoTask(p, "etRead")
      <4>1. tasks[p] \in Seq(TaskKinds)
        BY DEF TypeOK
      <4> QED
        BY <2>1, <3>1, <4>1 DEF NoTask
    <3>3. isET
      BY <3>2 DEF QueueInv, Producers
    <3> QED
      BY <1>0, <2>1, <3>1, <3>3 DEF FlowInv
  <2>6. CASE kind \notin {"send", "disc", "setW", "etRead"}
    <3>1. lpc' \in {"pending", "dangling"}
      BY <1>2, <2>1, <2>6 DEF RunTask
    <3> QED
      BY <1>0, <2>1, <3>1 DEF FlowInv
  <2> QED
    BY <2>2, <2>3, <2>4, <2>5, <2>6
<1> QED
  BY <1>1, <1>2

LEMMA FlowStep ==
    ASSUME TypeOK, FlowInv, QueueInv, [Next]_vars
    PROVE  FlowInv'
<1> USE DEF loopVars, handlerVars, callVars
<1>0. isET' <=> isET
  BY EdgeKept
<1>1. ASSUME lpc' \in {lpc, "abort"}, UNCHANGED <<FinishNum, revents>>
      PROVE  FlowInv'
  BY <1>0, <1>1 DEF FlowInv
<1>2. CASE CallbackSends
  BY <1>1, <1>2, SendInLoopEffect DEF CallbackSends
<1>3. CASE CallbackDisconnects
  <2>1. lpc' \in {lpc, "abort"}
    BY <1>3, DisconnectInLoopEffect, SetWritingEffect DEF CallbackDisconnects
  <2> QED
    BY <1>1, <1>3, <2>1 DEF CallbackDisconnects
<1>4. CASE CallbackOutputs
  BY <1>1, <1>4, SetWritingEffect DEF CallbackOutputs
<1>5. CASE Destroy
  BY <1>1, <1>5 DEF Destroy
<1>6. ASSUME NEW t \in Threads, ThreadStep(t)
      PROVE  FlowInv'
  BY <1>1, <1>6 DEF ThreadStep, Send, Disconnect, Enqueue
<1>7. CASE PeerStep
  BY <1>1, <1>7 DEF PeerStep, PeerSends, PeerUrgent, PeerReads, PeerFin, PeerReset, ours
<1>8. CASE UNCHANGED vars
  BY <1>1, <1>8 DEF vars
<1> QED
  BY <1>0, <1>2, <1>3, <1>4, <1>5, <1>6, <1>7, <1>8, FlowDispatch, FlowTasks
     DEF Next, LoopStep, CallbackCalls

(* A callback that finds a plain connection closed has nothing to read and *)
(* no hang-up left to handle.                                              *)
LEMMA OnceStep ==
    ASSUME TypeOK, FlowInv, OnceInv, [Next]_vars
    PROVE  OnceInv'
<1> USE DEF loopVars, handlerVars, outVars, inVars, peerVars, lifeVars, callVars
<1>0. Plain' <=> Plain
  BY EdgeKept
<1>1. CASE PollReturn
  BY <1>0, <1>1 DEF PollReturn, OnceInv, Plain, Ready
<1>2. CASE OnHup
  <2>1. CASE "Read" \in revents
    BY <1>0, <1>2, <2>1 DEF OnHup, Turn, OnceInv
  <2>2. CASE "Read" \notin revents
    BY <1>0, <1>2, <2>2 DEF OnHup, Turn, OnceInv
  <2> QED
    BY <2>1, <2>2
<1>3. CASE OnRead
  <2>1. "Hup" \notin revents /\ revents' = revents \ {"Read"}
    BY <1>3 DEF OnRead, Turn, Before
  <2> QED
    BY <1>0, <2>1 DEF OnceInv
<1>4. CASE OnExcept
  BY <1>0, <1>4 DEF OnExcept, Turn, OnceInv
<1>5. CASE ETRead
  <2>1. ~Plain
    BY <1>5 DEF ETRead, FlowInv, isET, Plain
  <2> QED
    BY <1>0, <2>1 DEF OnceInv
<1>6. CASE OnError \/ OnETRead \/ OnWrite
  BY <1>0, <1>6 DEF OnError, OnETRead, OnWrite, Turn, OnceInv
<1>7. CASE UNCHANGED <<revents, listening>>
  BY <1>0, <1>7 DEF OnceInv
<1>8. CASE \/ ETReadLater \/ DispatchEnd \/ CallbackReturns \/ PendingEnd
           \/ CallbackCalls \/ Destroy
  BY <1>7, <1>8 DEF ETReadLater, DispatchEnd, CallbackReturns, PendingEnd, CallbackCalls,
                    CallbackSends, CallbackDisconnects, CallbackOutputs, Destroy
<1>9. CASE \/ \E p \in Producers : RunTask(p) \/ DropTask(p)
           \/ \E t \in Threads : ThreadStep(t)
  BY <1>7, <1>9 DEF RunTask, DropTask, ThreadStep, Send, Disconnect, Enqueue
<1>10. CASE PeerStep \/ UNCHANGED vars
  BY <1>7, <1>10 DEF PeerStep, PeerSends, PeerUrgent, PeerReads, PeerFin, PeerReset, ours, vars
<1> QED
  BY <1>1, <1>2, <1>3, <1>4, <1>5, <1>6, <1>8, <1>9, <1>10 DEF Next, LoopStep

(* handleClose runs a second time only where the connection is Exposed, so *)
(* that elsewhere one destruct closure is ever queued.                     *)
LEMMA DestructStep ==
    ASSUME TypeOK, FlowInv, OnceInv, QueueInv, DestructInv, GoneInv, [Next]_vars
    PROVE  DestructInv'
<1> DEFINE q == tasks[LoopThread]
<1>0. LoopThread \in Producers /\ q \in Seq(TaskKinds)
  BY LoopProduces DEF TypeOK
<1>E. Exposed' <=> Exposed
  BY EdgeKept
<1>1. CASE UNCHANGED <<tasks, listening, released>>
  BY <1>1, <1>E DEF DestructInv, NoTask
<1>2. ASSUME NEW next, HandleClose(next), Plain => listening, UNCHANGED released
      PROVE  DestructInv'
  <2>1. CASE UNCHANGED <<tasks, listening>>
    BY <1>2, <2>1, <1>1
  <2>2. CASE /\ listening /\ ~listening'
             /\ tasks' = [tasks EXCEPT ![LoopThread] = Append(@, "destruct")]
    <3>1. ~released /\ NoTask(LoopThread, "destruct")
      BY <2>2 DEF DestructInv
    <3>2. q' = Append(q, "destruct")
      BY <1>0, <2>2 DEF TypeOK
    <3>3. \A i \in 1..Len(q') : q'[i] = "destruct" => i = Len(q) + 1
      BY <1>0, <3>1, <3>2 DEF NoTask
    <3> QED
      BY <1>2, <1>E, <2>2, <3>1, <3>3 DEF DestructInv
  <2>3. CASE Exposed /\ ~listening'
    BY <1>E, <2>3 DEF DestructInv
  <2>4. ~asserts /\ ~Plain => Exposed
    BY DEF Plain, Exposed
  <2> QED
    BY <1>2, <2>1, <2>2, <2>3, <2>4, HandleCloseEffect
<1>3. CASE ETReadLater
  <2>1. /\ tasks' = [tasks EXCEPT ![LoopThread] = Append(@, "etRead")]
        /\ UNCHANGED <<listening, released>>
    BY <1>3 DEF ETReadLater, handlerVars, lifeVars
  <2>2. q' = Append(q, "etRead")
    BY <1>0, <2>1 DEF TypeOK
  <2>3. \A i \in 1..Len(q') : q'[i] = "destruct" => i \in 1..Len(q) /\ q[i] = "destruct"
    BY <1>0, <2>2
  <2> QED
    BY <1>E, <2>1, <2>3 DEF DestructInv, NoTask
<1>4. ASSUME NEW t \in Threads, NEW kind, Enqueue(t, kind)
      PROVE  DestructInv'
  <2>1. t # LoopThread
    BY ConnectionAssumption
  <2>2. q' = q /\ UNCHANGED <<listening, released>>
    BY <1>0, <1>4, <2>1 DEF Enqueue, handlerVars, lifeVars, TypeOK
  <2> QED
    BY <1>E, <2>2 DEF DestructInv, NoTask
<1>5. ASSUME NEW p \in Producers, RunTask(p) \/ DropTask(p)
      PROVE  DestructInv'
  <2>1. TakeTask(p) /\ UNCHANGED listening
    BY <1>5 DEF RunTask, DropTask, handlerVars
  <2>2. CASE p # LoopThread
    <3>1. q' = q
      BY <1>0, <2>1, <2>2 DEF TakeTask, TypeOK
    <3>2. NoTask(p, "destruct") /\ tasks[p] # <<>> /\ tasks[p] \in Seq(TaskKinds)
      BY <2>1, <2>2 DEF QueueInv, Producers, TakeTask, TypeOK
    <3>3. Head(tasks[p]) # "destruct"
      BY <3>2 DEF NoTask
    <3>4. released' => released
      BY <1>5, <3>3 DEF RunTask, DropTask, lifeVars
    <3> QED
      BY <1>E, <2>1, <3>1, <3>4 DEF DestructInv, NoTask
  <2>3. CASE p = LoopThread
    <3>1. q # <<>> /\ q' = Tail(q)
      BY <1>0, <2>1, <2>3 DEF TakeTask, TypeOK
    <3>2. /\ \A i \in 1..Len(q') : i + 1 \in 2..Len(q) /\ q'[i] = q[i + 1]
          /\ 1 \in 1..Len(q) /\ Head(q) = q[1] /\ Len(q) \in Nat /\ Len(q') \in Nat
      BY <1>0, <3>1
    <3>3. ~Exposed => \A i, j \in 1..Len(q') : q'[i] = "destruct" /\ q'[j] = "destruct" => i = j
      <4>0. SUFFICES ASSUME ~Exposed
                     PROVE  \A i, j \in 1..Len(q') :
                                q'[i] = "destruct" /\ q'[j] = "destruct" => i = j
        OBVIOUS
      <4>1. \A i, j \in 1..Len(q) : q[i] = "destruct" /\ q[j] = "destruct" => i = j
        BY <4>0 DEF DestructInv
      <4>2. SUFFICES ASSUME NEW i \in 1..Len(q'), NEW j \in 1..Len(q'),
                            q'[i] = "destruct", q'[j] = "destruct"
                     PROVE  i = j
        OBVIOUS
      <4>3. i + 1 \in 1..Len(q) /\ j + 1 \in 1..Len(q)
        BY <3>2
      <4>4. i + 1 = j + 1
        BY <3>2, <4>1, <4>2, <4>3
      <4> QED
        BY <3>2, <4>4
    <3>4. CASE released' /\ ~released
      <4>1. q[1] = "destruct"
        <5>1. CASE DropTask(p)
          BY <3>4, <5>1 DEF DropTask, lifeVars
        <5>2. CASE RunTask(p)
          <6>1. released' = (released \/ Head(tasks[p]) = "destruct")
            BY <5>2 DEF RunTask
          <6> QED
            BY <2>3, <3>2, <3>4, <6>1
        <5> QED
          BY <1>5, <5>1, <5>2
      <4>2. ~NoTask(LoopThread, "destruct")
        BY <3>2, <4>1 DEF NoTask
      <4>3. ~listening
        BY <4>2 DEF DestructInv
      <4>4. ~Exposed => \A i \in 1..Len(q) : q[i] = "destruct" => i = 1
        BY <3>2, <4>1 DEF DestructInv
      <4>5. ~Exposed => \A i \in 1..Len(q') : q'[i] # "destruct"
        BY <3>2, <4>4
      <4> QED
        BY <1>E, <2>1, <3>3, <4>3, <4>5 DEF DestructInv, NoTask
    <3>5. CASE released' => released
      <4>1. NoTask(LoopThread, "destruct") => NoTask(LoopThread, "destruct")'
        BY <2>1, <1>0, NoTaskTake
      <4> QED
        BY <1>E, <2>1, <3>3, <3>5, <4>1 DEF DestructInv
    <3> QED
      BY <3>4, <3>5
  <2> QED
    BY <2>2, <2>3
<1> QED
  BY <1>1, <1>2, <1>3, <1>4, <1>5, TaskEffect

(* Nothing is dispatched to an object that is gone. *)
LEMMA GoneStep ==
    ASSUME TypeOK, FlowInv, DestructInv, GoneInv, [Next]_vars
    PROVE  GoneInv'
<1> USE DEF loopVars, handlerVars, outVars, inVars, peerVars, lifeVars, callVars
<1>1. CASE Destroy
  BY <1>1 DEF Destroy, FlowInv, GoneInv
<1>2. CASE ~Destroy
  <2>1. UNCHANGED alive
    <3>1. CASE \/ PollReturn \/ OnHup \/ OnError \/ OnExcept \/ OnRead \/ OnETRead
               \/ OnWrite \/ ETRead \/ ETReadLater \/ DispatchEnd \/ CallbackReturns
               \/ PendingEnd \/ CallbackCalls
      BY <3>1 DEF PollReturn, OnHup, OnError, OnExcept, OnRead, OnETRead, OnWrite, ETRead,
                  ETReadLater, DispatchEnd, CallbackReturns, PendingEnd, CallbackCalls,
                  CallbackSends, CallbackDisconnects, CallbackOutputs
    <3>2. CASE \E p \in Producers : RunTask(p) \/ DropTask(p)
      BY <3>2 DEF RunTask, DropTask
    <3>3. CASE (\E t \in Threads : ThreadStep(t)) \/ PeerStep \/ UNCHANGED vars
      BY <3>3 DEF ThreadStep, Send, Disconnect, Enqueue, PeerStep, PeerSends, PeerUrgent,
                  PeerReads, PeerFin, PeerReset, ours, vars
    <3> QED
      BY <1>2, <3>1, <3>2, <3>3 DEF Next, LoopStep
  <2>2. SUFFICES ASSUME ~alive PROVE GoneInv'
    BY <2>1 DEF GoneInv
  <2>3. /\ released /\ revents = {} /\ lpc \notin {"etRead", "callback"} /\ ~listening
    BY <2>2 DEF GoneInv, DestructInv
  <2>4. CASE PollReturn \/ DispatchEnd \/ PendingEnd
    BY <2>3, <2>4 DEF PollReturn, DispatchEnd, PendingEnd, GoneInv
  <2>5. CASE \/ OnHup \/ OnError \/ OnExcept \/ OnRead \/ OnETRead \/ OnWrite
             \/ ETRead \/ ETReadLater \/ CallbackReturns \/ CallbackCalls
    BY <2>3, <2>5 DEF OnHup, OnError, OnExcept, OnRead, OnETRead, OnWrite, Turn, ETRead,
                      ETReadLater, CallbackReturns, CallbackCalls, CallbackSends,
                      CallbackDisconnects, CallbackOutputs
  <2>6. ASSUME NEW p \in Producers, RunTask(p) \/ DropTask(p)
        PROVE  GoneInv'
    <3>1. CASE RunTask(p)
      <4>1. released' /\ revents' = {} /\ lpc' \in {lpc, "dangling"}
        BY <2>2, <2>3, <3>1 DEF RunTask
      <4> QED
        BY <2>3, <4>1 DEF GoneInv
    <3>2. CASE DropTask(p)
      BY <2>2, <2>3, <3>2 DEF DropTask, GoneInv
    <3> QED
      BY <2>6, <3>1, <3>2
  <2>7. CASE \E t \in Threads : ThreadStep(t)
    BY <2>2, <2>7 DEF ThreadStep, Send, Disconnect, Enqueue
  <2>8. CASE PeerStep \/ UNCHANGED vars
    BY <2>3, <2>8 DEF PeerStep, PeerSends, PeerUrgent, PeerReads, PeerFin, PeerReset, ours,
                      vars, GoneInv
  <2> QED
    BY <1>2, <2>4, <2>5, <2>6, <2>7, <2>8 DEF Next, LoopStep
<1> QED
  BY <1>1, <1>2

(* A destruct closure executed on an object that is gone was the second.  *)
LEMMA DanglingStep ==
    ASSUME TypeOK, QueueInv, DestructInv, GoneInv, DanglingInv, [Next]_vars
    PROVE  DanglingInv'
<1> USE DEF loopVars, handlerVars, outVars, inVars, peerVars, lifeVars, callVars
<1>0. Exposed' <=> Exposed
  BY EdgeKept
<1>1. CASE lpc' = lpc \/ lpc' # "dangling"
  BY <1>0, <1>1 DEF DanglingInv
<1>2. ASSUME NEW next, next # "dangling", HandleClose(next)
      PROVE  DanglingInv'
  BY <1>1, <1>2, HandleCloseEffect
<1>3. CASE OnHup \/ OnExcept
  BY <1>1, <1>2, <1>3 DEF OnHup, OnExcept
<1>4. CASE OnRead
  <2>1. CASE ReadSome
    BY <1>1, <2>1 DEF ReadSome
  <2>2. CASE ReadNothing("dispatch")
    <3>1. HandleClose("dispatch") \/ lpc' = "dispatch"
      BY <2>2, ReadNothingEffect
    <3>2. CASE HandleClose("dispatch")
      BY <1>2, <3>2
    <3> QED
      BY <1>1, <3>1, <3>2
  <2> QED
    BY <1>4, <2>1, <2>2 DEF OnRead
<1>5. CASE ETRead
  <2>1. Return # "dangling"
    BY DEF Return
  <2> QED
    BY <1>1, <1>2, <1>5, <2>1, ReadNothingEffect DEF ETRead, ReadSome
<1>6. CASE OnWrite
  BY <1>1, <1>6 DEF OnWrite, Update
<1>7. CASE \/ PollReturn \/ OnError \/ OnETRead \/ ETReadLater \/ DispatchEnd
           \/ CallbackReturns \/ PendingEnd \/ Destroy
  BY <1>1, <1>7 DEF PollReturn, OnError, OnETRead, ETReadLater, Return, DispatchEnd,
                    CallbackReturns, PendingEnd, Destroy
<1>8. CASE CallbackCalls
  <2>1. CASE CallbackSends
    BY <1>1, <2>1, SendInLoopEffect DEF CallbackSends
  <2>2. CASE CallbackDisconnects
    BY <1>1, <2>2, DisconnectInLoopEffect, SetWritingEffect DEF CallbackDisconnects
  <2>3. CASE CallbackOutputs
    BY <1>1, <2>3, SetWritingEffect DEF CallbackOutputs
  <2> QED
    BY <1>8, <2>1, <2>2, <2>3 DEF CallbackCalls
<1>9. ASSUME NEW p \in Producers, RunTask(p)
      PROVE  DanglingInv'
  <2> DEFINE kind == IF alive \/ Head(tasks[p]) = "destruct" THEN Head(tasks[p]) ELSE "none"
  <2>0. lpc = "pending"
    BY <1>9 DEF RunTask, TakeTask
  <2>1. CASE kind = "send"
    BY <1>1, <1>9, <2>1, SendInLoopEffect DEF RunTask
  <2>2. CASE kind = "disc"
    BY <1>1, <1>9, <2>2, DisconnectInLoopEffect DEF RunTask
  <2>3. CASE kind = "setW"
    BY <1>1, <1>9, <2>3, SetWritingEffect DEF RunTask
  <2>4. CASE kind = "etRead"
    BY <1>1, <1>9, <2>4 DEF RunTask
  <2>5. CASE kind \notin {"send", "disc", "setW", "etRead"}
    <3>1. lpc' = IF kind = "destruct" /\ ~alive THEN "dangling" ELSE lpc
      BY <1>9, <2>5 DEF RunTask
    <3>2. CASE kind = "destruct" /\ ~alive
      <4>1. tasks[p] # <<>> /\ tasks[p] \in Seq(TaskKinds) /\ Head(tasks[p]) = "destruct"
        BY <1>9, <3>2 DEF RunTask, TakeTask, TypeOK
      <4>2. ~NoTask(p, "destruct")
        BY <4>1 DEF NoTask
      <4>3. p = LoopThread
        BY <4>2 DEF QueueInv, Producers
      <4>4. Exposed
        BY <3>2, <4>2, <4>3 DEF GoneInv, DestructInv
      <4> QED
        BY <1>0, <4>4 DEF DanglingInv
    <3> QED
      BY <1>1, <3>1, <3>2
  <2> QED
    BY <2>1, <2>2, <2>3, <2>4, <2>5
<1>10. CASE \/ \E p \in Producers : DropTask(p)
            \/ \E t \in Threads : ThreadStep(t)
  BY <1>1, <1>10 DEF DropTask, ThreadStep, Send, Disconnect, Enqueue
<1>11. CASE PeerStep \/ UNCHANGED vars
  BY <1>1, <1>11 DEF PeerStep, PeerSends, PeerUrgent, PeerReads, PeerFin, PeerReset, ours, vars
<1> QED
  BY <1>3, <1>4, <1>5, <1>6, <1>7, <1>8, <1>9, <1>10, <1>11 DEF Next, LoopStep

LEMMA InitLife == Init => LifeInv
<1> SUFFICES ASSUME Init PROVE LifeInv
  OBVIOUS
<1>1. \A p \in Producers : tasks[p] = <<>>
  BY DEF Init
<1>2. /\ \A p \in Producers : \A kind : NoTask(p, kind)
      /\ LoopThread \in Producers /\ \A t \in Threads : t \in Producers
      /\ \A i \in 1..Len(tasks[LoopThread]) : FALSE
  BY <1>1 DEF NoTask, Producers
<1>3. FlowInv /\ GoneInv /\ DanglingInv
  BY DEF Init, FlowInv, GoneInv, DanglingInv
<1> QED
  BY <1>2, <1>3 DEF Init, LifeInv, QueueInv, OnceInv, DestructInv

(* No raw pointer to a destroyed connection is left in the epoll set, in   *)
(* the dispatch under way or in a queued destruct closure, with assert()   *)
(* compiled in or without it, whatever the peer and the callers do; a      *)
(* second destruct closure, and with it a use of the object that is gone,  *)
(* takes a build without assert() and a connection that asks for Edge or   *)
(* for out-of-band data.                                                   *)
THEOREM NeverReachedAgain == Spec => []DestroyedIsUnreachable
<1>1. Init => TypeOK /\ LifeInv
  BY InitTypes, InitLife
<1>2. TypeOK /\ LifeInv /\ [Next]_vars => (TypeOK /\ LifeInv)'
  BY StepTypes, FlowStep, QueueStep, OnceStep, DestructStep, GoneStep,
     DanglingStep DEF LifeInv
<1>3. LifeInv => DestroyedIsUnreachable
  BY DEF LifeInv, DestructInv, GoneInv, DanglingInv, NoTask, DestroyedIsUnreachable
<1> QED
  BY <1>1, <1>2, <1>3, PTL DEF Spec
-----------------------------------------------------------------------------
(* The stream.  Values are numbers of units: message m is the units        *)
(* MsgLen * (m - 1) + 1 up to MsgLen * m.                                  *)

SameMessage(x, y) == (x - 1) \div MsgLen = (y - 1) \div MsgLen

(* StreamIntact of the units out, of which msgs messages are made up. *)
Intact(out, k, past) ==
    /\ Len(out) = MsgLen * k
    /\ \A i \in 1..Len(out) : out[i] \in 1..(MsgLen * k)
    /\ \A v \in 1..(MsgLen * k) : \E i \in 1..Len(out) : out[i] = v
    /\ \A i, j \in 1..Len(out) : out[i] < out[j] /\ SameMessage(out[i], out[j]) => i < j
    /\ ~past => \A i \in 1..Len(out) : out[i] = i

LEMMA UnitsAre ==
    ASSUME NEW out, NEW units
    PROVE  {out[i] : i \in 1..Len(out)} = units
             <=> /\ \A i \in 1..Len(out) : out[i] \in units
                 /\ \A v \in units : \E i \in 1..Len(out) : out[i] = v
BY Zenon

(* The units of the next message belong to no message before it. *)
LEMMA NextMessage ==
    ASSUME NEW k \in Nat
    PROVE  /\ MsgLen * k \in Nat /\ MsgLen * (k + 1) = MsgLen * k + MsgLen
           /\ \A x \in 1..(MsgLen * k) : (x - 1) \div MsgLen \in Nat /\ (x - 1) \div MsgLen < k
           /\ \A x \in 1..MsgLen : (MsgLen * k + x - 1) \div MsgLen = k
<1>1. MsgLen \in Nat \ {0}
  BY ConstantTypes
<1>2. MsgLen * k \in Nat /\ MsgLen * (k + 1) = MsgLen * k + MsgLen
  BY <1>1
<1>3. ASSUME NEW x \in 1..(MsgLen * k)
      PROVE  (x - 1) \div MsgLen \in Nat /\ (x - 1) \div MsgLen < k
  <2> DEFINE d == (x - 1) \div MsgLen
             r == (x - 1) % MsgLen
  <2>1. x - 1 \in Nat /\ x - 1 < MsgLen * k
    BY <1>2, <1>3
  <2>2. d \in Nat /\ r \in Nat /\ x - 1 = MsgLen * d + r
    BY <1>1, <2>1
  <2> HIDE DEF d, r
  <2>3. MsgLen * d < MsgLen * k /\ MsgLen * d \in Nat
    BY <1>1, <1>2, <2>1, <2>2
  <2>4. d < k
    <3>1. CASE d >= k
      <4>1. MsgLen * d >= MsgLen * k
        BY <1>1, <2>2, <3>1
      <4> QED
        BY <1>2, <2>3, <4>1
    <3> QED
      BY <2>2, <3>1
  <2> QED
    BY <2>2, <2>4 DEF d
<1>4. ASSUME NEW x \in 1..MsgLen
      PROVE  (MsgLen * k + x - 1) \div MsgLen = k
  BY <1>1, <1>2
<1> QED
  BY <1>2, <1>3, <1>4
(* A cut sequence. *)
LEMMA SubSeqIndex ==
    ASSUME NEW s \in Seq(Nat), NEW n \in Nat, n <= Len(s)
    PROVE  /\ SubSeq(s, 1, n) \in Seq(Nat) /\ Len(SubSeq(s, 1, n)) = n
           /\ \A i \in 1..n : SubSeq(s, 1, n)[i] = s[i]
           /\ SubSeq(s, n + 1, Len(s)) \in Seq(Nat)
           /\ Len(SubSeq(s, n + 1, Len(s))) = Len(s) - n
           /\ \A i \in 1..(Len(s) - n) : SubSeq(s, n + 1, Len(s))[i] = s[n + i]
OBVIOUS

(* A message m split between a wire of lw units and a buffer, its first n  *)
(* units going past the buffer: where the units of the stream out and of   *)
(* the message end up in the stream new.                                   *)
Split(lw, out, m, n, new) ==
    /\ Len(new) = Len(out) + Len(m)
    /\ \A i \in 1..lw : new[i] = out[i]
    /\ \A i \in (lw + 1)..(lw + n) : new[i] = m[i - lw]
    /\ \A i \in (lw + n + 1)..(Len(out) + n) : new[i] = out[i - n]
    /\ \A i \in (Len(out) + n + 1)..Len(new) : new[i] = m[i - Len(out)]

LEMMA SplitMessage ==
    ASSUME NEW w \in Seq(Nat), NEW b \in Seq(Nat), NEW m \in Seq(Nat), NEW n \in 0..Len(m)
    PROVE  Split(Len(w), w \o b, m, n,
                 (w \o SubSeq(m, 1, n)) \o (b \o SubSeq(m, n + 1, Len(m))))
<1> DEFINE out == w \o b
           new == (w \o SubSeq(m, 1, n)) \o (b \o SubSeq(m, n + 1, Len(m)))
           first == SubSeq(m, 1, n)
           rest  == SubSeq(m, n + 1, Len(m))
           front == w \o first
           back  == b \o rest
           lw == Len(w)
           lb == Len(b)
           lm == Len(m)
<1>1. lw \in Nat /\ lb \in Nat /\ lm \in Nat /\ n \in Nat /\ n <= lm
  OBVIOUS
<1>2. first \in Seq(Nat) /\ Len(first) = n /\ \A i \in 1..n : first[i] = m[i]
  BY <1>1, SubSeqIndex
<1>3. rest \in Seq(Nat) /\ Len(rest) = lm - n /\ \A i \in 1..(lm - n) : rest[i] = m[n + i]
  BY <1>1, SubSeqIndex
<1> HIDE DEF first, rest
<1>4. /\ Len(out) = lw + lb
      /\ \A i \in 1..(lw + lb) : out[i] = IF i <= lw THEN w[i] ELSE b[i - lw]
  BY ConcatProperties
<1>5. /\ front \in Seq(Nat) /\ Len(front) = lw + n
      /\ \A i \in 1..(lw + n) : front[i] = IF i <= lw THEN w[i] ELSE first[i - lw]
  BY <1>2, ConcatProperties
<1>6. /\ back \in Seq(Nat) /\ Len(back) = lb + (lm - n)
      /\ \A i \in 1..(lb + (lm - n)) : back[i] = IF i <= lb THEN b[i] ELSE rest[i - lb]
  <2>1. /\ back \in Seq(Nat) /\ Len(back) = Len(b) + Len(rest)
        /\ \A i \in 1..(Len(b) + Len(rest)) :
              back[i] = IF i <= Len(b) THEN b[i] ELSE rest[i - Len(b)]
    BY <1>3, ConcatProperties
  <2> QED
    BY <1>3, <2>1
<1>7. new = front \o back
  BY DEF first, rest
<1> HIDE DEF front, back, lw, lb, lm, out, new
<1>8. /\ Len(new) = (lw + n) + (lb + (lm - n))
      /\ \A i \in 1..((lw + n) + (lb + (lm - n))) :
            new[i] = IF i <= lw + n THEN front[i] ELSE back[i - (lw + n)]
  <2>1. /\ Len(new) = Len(front) + Len(back)
        /\ \A i \in 1..(Len(front) + Len(back)) :
              new[i] = IF i <= Len(front) THEN front[i] ELSE back[i - Len(front)]
    <3>1. front \in Seq(Nat) /\ back \in Seq(Nat)
      BY <1>5, <1>6
    <3> QED
      BY <1>7, <3>1, ConcatProperties, Zenon
  <2>2. Len(front) = lw + n /\ Len(back) = lb + (lm - n)
    BY <1>5, <1>6
  <2> QED
    BY <2>1, <2>2
<1>9. Len(new) = Len(out) + lm
  BY <1>1, <1>4, <1>8
<1>10. \A i \in 1..lw : new[i] = out[i]
  <2> SUFFICES ASSUME NEW i \in 1..lw PROVE new[i] = out[i]
    OBVIOUS
  <2>1. /\ i <= lw /\ i <= lw + n /\ i \in 1..(lw + lb) /\ i \in 1..(lw + n)
        /\ i \in 1..((lw + n) + (lb + (lm - n)))
    BY <1>1
  <2> QED
    BY <1>4, <1>5, <1>8, <2>1
<1>11. \A i \in (lw + 1)..(lw + n) : new[i] = m[i - lw]
  <2> SUFFICES ASSUME NEW i \in (lw + 1)..(lw + n) PROVE new[i] = m[i - lw]
    OBVIOUS
  <2>1. /\ i - lw \in 1..n /\ ~(i <= lw) /\ i \in 1..(lw + n) /\ i <= lw + n
        /\ i \in 1..((lw + n) + (lb + (lm - n)))
    BY <1>1
  <2> QED
    BY <1>2, <1>5, <1>8, <2>1
<1>12. \A i \in (lw + n + 1)..(Len(out) + n) : new[i] = out[i - n]
  <2> SUFFICES ASSUME NEW i \in (lw + n + 1)..(lw + lb + n) PROVE new[i] = out[i - n]
    BY <1>1, <1>4
  <2>1. /\ i - (lw + n) \in 1..lb /\ ~(i <= lw + n) /\ i \in 1..((lw + n) + (lb + (lm - n)))
        /\ i - n \in 1..(lw + lb) /\ ~(i - n <= lw) /\ (i - n) - lw = i - (lw + n)
        /\ i - (lw + n) \in 1..(lb + (lm - n)) /\ i - (lw + n) <= lb
    BY <1>1
  <2>2. new[i] = b[i - (lw + n)]
    BY <1>6, <1>8, <2>1
  <2>3. out[i - n] = b[(i - n) - lw]
    BY <1>4, <2>1
  <2> QED
    BY <2>1, <2>2, <2>3
<1>13. \A i \in (Len(out) + n + 1)..Len(new) : new[i] = m[i - Len(out)]
  <2> SUFFICES ASSUME NEW i \in (lw + lb + n + 1)..(lw + lb + lm)
               PROVE  new[i] = m[i - (lw + lb)]
    BY <1>1, <1>4, <1>9
  <2> DEFINE j == i - (lw + n)
  <2>1. /\ ~(i <= lw + n) /\ i \in 1..((lw + n) + (lb + (lm - n)))
        /\ j \in 1..(lb + (lm - n)) /\ ~(j <= lb) /\ j - lb \in 1..(lm - n)
        /\ n + (j - lb) = i - (lw + lb)
    BY <1>1
  <2>2. new[i] = back[j]
    BY <1>8, <2>1
  <2>3. back[j] = rest[j - lb]
    BY <1>6, <2>1
  <2>4. rest[j - lb] = m[n + (j - lb)]
    BY <1>3, <2>1 DEF lm
  <2> QED
    BY <2>1, <2>2, <2>3, <2>4
<1> QED
  BY <1>9, <1>10, <1>11, <1>12, <1>13 DEF Split, lw, lm, out, new
(* A message split in this way keeps the stream intact: the units behind   *)
(* position l of the stream are overtaken by the first n of the message.   *)
LEMMA SplitKeepsIntact ==
    ASSUME NEW k \in Nat, NEW full, full = MsgLen * k, NEW l \in 0..full, NEW n \in 0..MsgLen,
           NEW past, NEW past2, ~past2 => ~past /\ (n = 0 \/ l = full),
           NEW out, NEW new, Intact(out, k, past), Len(new) = Len(out) + MsgLen,
           \A i \in 1..l : new[i] = out[i],
           \A i \in (l + 1)..(l + n) : new[i] = full + (i - l),
           \A i \in (l + n + 1)..(full + n) : new[i] = out[i - n],
           \A i \in (full + n + 1)..(full + MsgLen) : new[i] = i
    PROVE  Intact(new, k + 1, past2)
<1> DEFINE M == MsgLen
           Old(i) == i \in 1..l \/ i \in (l + n + 1)..(full + n)
           place(i) == IF i \in 1..l THEN i ELSE i - n
           rank(i) == IF i \in (l + 1)..(l + n) THEN i - l ELSE i - full
<1>1. /\ M \in Nat \ {0} /\ full \in Nat /\ MsgLen * (k + 1) = full + M
      /\ l \in Nat /\ l <= full /\ n \in Nat /\ n <= M
      /\ Len(out) = full /\ Len(new) = full + M
  BY ConstantTypes, NextMessage DEF Intact
<1>2. ASSUME NEW i \in 1..(full + M), Old(i)
      PROVE  /\ place(i) \in 1..full /\ new[i] = out[place(i)] /\ new[i] \in 1..full
             /\ (new[i] - 1) \div MsgLen \in Nat /\ (new[i] - 1) \div MsgLen < k
  <2>1. place(i) \in 1..full /\ new[i] = out[place(i)]
    BY <1>1, <1>2
  <2>2. new[i] \in 1..full
    BY <1>1, <2>1 DEF Intact
  <2> QED
    BY <2>1, <2>2, NextMessage
<1>3. ASSUME NEW i \in 1..(full + M), ~Old(i)
      PROVE  /\ rank(i) \in 1..M /\ new[i] = full + rank(i)
             /\ (new[i] - 1) \div MsgLen = k
             /\ rank(i) <= n => i = l + rank(i)
             /\ rank(i) > n => i = full + rank(i)
  <2>1. i \in (l + 1)..(l + n) \/ i \in (full + n + 1)..(full + M)
    BY <1>1, <1>3
  <2>2. CASE i \in (l + 1)..(l + n)
    <3>1. rank(i) \in 1..M /\ new[i] = full + rank(i) /\ i = l + rank(i) /\ rank(i) <= n
      BY <1>1, <2>2
    <3>2. (full + rank(i) - 1) \div MsgLen = k
      BY <3>1, NextMessage
    <3> QED
      BY <1>1, <3>1, <3>2
  <2>3. CASE i \in (full + n + 1)..(full + M)
    <3>1. i \notin (l + 1)..(l + n)
      BY <1>1, <2>3
    <3>2. rank(i) \in 1..M /\ new[i] = full + rank(i) /\ i = full + rank(i) /\ rank(i) > n
      BY <1>1, <2>3, <3>1
    <3>3. (full + rank(i) - 1) \div MsgLen = k
      BY <3>2, NextMessage
    <3> QED
      BY <1>1, <3>2, <3>3
  <2> QED
    BY <2>1, <2>2, <2>3
<1>4. \A i \in 1..(full + M) : new[i] \in 1..(full + M)
  <2> SUFFICES ASSUME NEW i \in 1..(full + M) PROVE new[i] \in 1..(full + M)
    OBVIOUS
  <2>1. CASE Old(i)
    BY <1>1, <1>2, <2>1
  <2>2. CASE ~Old(i)
    <3>1. rank(i) \in 1..M /\ new[i] = full + rank(i)
      BY <1>3, <2>2
    <3> HIDE DEF rank
    <3> QED
      BY <1>1, <3>1
  <2> QED
    BY <2>1, <2>2
<1>5. ASSUME NEW v \in 1..(full + M)
      PROVE  \E i \in 1..(full + M) : new[i] = v
  <2>1. CASE v \in 1..full
    <3>1. PICK i \in 1..full : out[i] = v
      BY <1>1, <2>1 DEF Intact
    <3>2. CASE i <= l
      BY <1>1, <3>1, <3>2
    <3>3. CASE i > l
      <4>1. i + n \in (l + n + 1)..(full + n) /\ i + n \in 1..(full + M) /\ (i + n) - n = i
        BY <1>1, <3>3
      <4> QED
        BY <3>1, <4>1
    <3> QED
      BY <1>1, <3>2, <3>3
  <2>2. CASE v \in (full + 1)..(full + n)
    <3>1. /\ l + (v - full) \in (l + 1)..(l + n) /\ l + (v - full) \in 1..(full + M)
          /\ full + ((l + (v - full)) - l) = v
      BY <1>1, <2>2
    <3> QED
      BY <3>1
  <2>3. CASE v \in (full + n + 1)..(full + M)
    BY <1>1, <2>3
  <2> QED
    BY <1>1, <2>1, <2>2, <2>3
<1>6. ASSUME NEW i \in 1..(full + M), NEW j \in 1..(full + M), new[i] < new[j],
             SameMessage(new[i], new[j])
      PROVE  i < j
  <2>1. CASE Old(i) /\ Old(j)
    <3>1. /\ place(i) \in 1..full /\ place(j) \in 1..full
          /\ new[i] = out[place(i)] /\ new[j] = out[place(j)]
      BY <1>2, <2>1
    <3>2. place(i) < place(j)
      BY <1>1, <1>6, <3>1 DEF Intact
    <3> QED
      BY <1>1, <2>1, <3>2
  <2>2. CASE ~Old(i) /\ ~Old(j)
    <3>1. /\ rank(i) \in 1..M /\ new[i] = full + rank(i)
          /\ rank(i) <= n => i = l + rank(i)
          /\ rank(i) > n => i = full + rank(i)
      BY <1>3, <2>2
    <3>2. /\ rank(j) \in 1..M /\ new[j] = full + rank(j)
          /\ rank(j) <= n => j = l + rank(j)
          /\ rank(j) > n => j = full + rank(j)
      BY <1>3, <2>2
    <3> HIDE DEF rank
    <3> QED
      BY <1>1, <1>6, <3>1, <3>2
  <2>3. CASE ~(Old(i) <=> Old(j))
    <3> HIDE DEF Old
    <3> QED
      BY <1>2, <1>3, <1>6, <2>3 DEF SameMessage
  <2> QED
    BY <2>1, <2>2, <2>3
<1>7. ASSUME ~past2, NEW i \in 1..(full + M)
      PROVE  new[i] = i
  <2>1. \A x \in 1..full : out[x] = x
    BY <1>1, <1>7 DEF Intact
  <2>2. CASE n = 0
    BY <1>1, <2>1, <2>2
  <2>3. CASE l = full
    BY <1>1, <2>1, <2>3
  <2> QED
    BY <1>7, <2>2, <2>3
<1> QED
  BY <1>1, <1>4, <1>5, <1>6, <1>7 DEF Intact
LEMMA MessageKeepsIntact ==
    ASSUME NEW w \in Seq(Nat), NEW b \in Seq(Nat), NEW k \in Nat, NEW n \in 0..MsgLen,
           NEW past, NEW past2, ~past2 => ~past /\ (n = 0 \/ b = <<>>),
           Intact(w \o b, k, past)
    PROVE  Intact((w \o SubSeq(Message(k + 1), 1, n))
                    \o (b \o SubSeq(Message(k + 1), n + 1, MsgLen)), k + 1, past2)
<1> DEFINE m    == Message(k + 1)
           out  == w \o b
           new  == (w \o SubSeq(m, 1, n)) \o (b \o SubSeq(m, n + 1, MsgLen))
           full == MsgLen * k
<1>1. m \in Seq(Nat) /\ Len(m) = MsgLen /\ MsgLen \in Nat \ {0} /\ full \in Nat
  BY MessageType, ConstantTypes, NextMessage
<1>2. \A x \in 1..MsgLen : m[x] = full + x
  BY <1>1 DEF Message
<1>3. Len(out) = full /\ Len(w) \in Nat /\ Len(b) \in Nat /\ Len(out) = Len(w) + Len(b)
  BY DEF Intact
<1> HIDE DEF m, full
<1>4. Split(Len(w), out, m, n, new)
  BY <1>1, SplitMessage
<1> HIDE DEF out, new
<1>5. \A i \in (Len(w) + 1)..(Len(w) + n) : new[i] = full + (i - Len(w))
  <2> SUFFICES ASSUME NEW i \in (Len(w) + 1)..(Len(w) + n)
               PROVE  new[i] = full + (i - Len(w))
    OBVIOUS
  <2>1. i - Len(w) \in 1..MsgLen
    BY <1>1, <1>3
  <2> QED
    BY <1>2, <1>4, <2>1 DEF Split
<1>6. \A i \in (full + n + 1)..(full + MsgLen) : new[i] = i
  <2> SUFFICES ASSUME NEW i \in (full + n + 1)..(full + MsgLen)
               PROVE  new[i] = i
    OBVIOUS
  <2>1. i - full \in 1..MsgLen /\ full + (i - full) = i
    BY <1>1
  <2>2. new[i] = m[i - full]
    BY <1>1, <1>3, <1>4 DEF Split
  <2> QED
    BY <1>2, <2>1, <2>2
<1>7. Len(w) \in 0..full /\ (b = <<>> => Len(w) = full)
  BY <1>3
<1>8. \A i \in (Len(w) + n + 1)..(full + n) : new[i] = out[i - n]
  BY <1>3, <1>4 DEF Split
<1>9. Intact(out, k, past)
  BY DEF out
<1>10. Len(new) = Len(out) + MsgLen
  BY <1>1, <1>4 DEF Split
<1>11. Intact(new, k + 1, past2)
  <2>1. ~past2 => ~past /\ (n = 0 \/ Len(w) = full)
    BY <1>7
  <2>2. \A i \in 1..Len(w) : new[i] = out[i]
    BY <1>4 DEF Split
  <2> QED
    BY <1>5, <1>6, <1>7, <1>8, <1>9, <1>10, <2>1, <2>2, SplitKeepsIntact DEF full
<1> QED
  BY <1>11 DEF new, m

(* sendInLoop hands over one message, or none if the socket refuses it. *)
LEMMA SendInLoopKeepsIntact ==
    ASSUME TypeOK, NEW next, SendInLoop(next), Intact(wire \o SendBuffer, msgs, overtaken)
    PROVE  Intact(wire \o SendBuffer, msgs, overtaken)'
<1> DEFINE m == Message(msgs + 1)
           n == Accepted(MsgLen)
<1>1. /\ MsgLen \in Nat \ {0} /\ msgs \in Nat /\ wire \in Seq(Nat) /\ SendBuffer \in Seq(Nat)
      /\ overtaken \in BOOLEAN
  BY ConstantTypes DEF TypeOK
<1>2. m \in Seq(Nat) /\ Len(m) = MsgLen
  BY <1>1, MessageType
<1>3. n \in Nat /\ n <= MsgLen /\ (n > 0 => CanSend)
  BY <1>1, AcceptedType
<1>4. /\ wire' = wire \o SubSeq(m, 1, n)
      /\ msgs' = IF CanSend THEN msgs + 1 ELSE msgs
      /\ overtaken' = (overtaken \/ (n > 0 /\ SendBuffer # <<>>))
      /\ SendBuffer' = IF CanSend /\ n < MsgLen THEN SendBuffer \o SubSeq(m, n + 1, MsgLen)
                                                ELSE SendBuffer
  BY DEF SendInLoop
<1> HIDE DEF m, n
<1>5. CASE CanSend
  <2>1. SendBuffer' = SendBuffer \o SubSeq(m, n + 1, MsgLen)
    <3>1. CASE n < MsgLen
      BY <1>4, <1>5, <3>1
    <3>2. CASE ~(n < MsgLen)
      <4>1. SubSeq(m, n + 1, MsgLen) = <<>>
        BY <1>1, <1>3, <3>2, SubSeqEmpty
      <4>2. SendBuffer \o <<>> = SendBuffer
        BY <1>1, ConcatEmptySeq
      <4> QED
        BY <1>4, <3>2, <4>1, <4>2
    <3> QED
      BY <3>1, <3>2
  <2>2. ~overtaken' => ~overtaken /\ (n = 0 \/ SendBuffer = <<>>)
    <3>1. ~overtaken' => ~overtaken /\ (~(n > 0) \/ SendBuffer = <<>>)
      BY <1>4, Zenon
    <3> QED
      BY <1>3, <3>1
  <2>3. n \in 0..MsgLen
    BY <1>1, <1>3
  <2>4. Intact((wire \o SubSeq(m, 1, n)) \o (SendBuffer \o SubSeq(m, n + 1, MsgLen)),
               msgs + 1, overtaken')
    BY <1>1, <2>2, <2>3, MessageKeepsIntact DEF m
  <2> QED
    BY <1>4, <1>5, <2>1, <2>4
<1>6. CASE ~CanSend
  <2>1. n = 0 /\ SendBuffer' = SendBuffer /\ msgs' = msgs
    BY <1>3, <1>4, <1>6
  <2>2. SubSeq(m, 1, n) = <<>>
    BY <2>1, SubSeqEmpty
  <2>3. wire' = wire
    BY <1>1, <1>4, <2>2, ConcatEmptySeq
  <2>4. overtaken' = overtaken
    BY <1>1, <1>4, <2>1
  <2> QED
    BY <2>1, <2>3, <2>4
<1> QED
  BY <1>5, <1>6

LEMMA ConcatAssoc ==
    ASSUME NEW s \in Seq(Nat), NEW t \in Seq(Nat), NEW u \in Seq(Nat)
    PROVE  (s \o t) \o u = s \o (t \o u)
BY ConcatAssociative

(* handleWrite moves the front of SendBuffer_ to the wire. *)
LEMMA OnWriteKeepsStream ==
    ASSUME TypeOK, OnWrite
    PROVE  wire' \o SendBuffer' = wire \o SendBuffer
<1> DEFINE len == Len(SendBuffer)
           n   == Accepted(len)
<1>1. SendBuffer \in Seq(Nat) /\ wire \in Seq(Nat) /\ len \in Nat
  BY DEF TypeOK
<1>2. n \in Nat /\ n <= len
  BY <1>1, AcceptedType
<1>3. /\ wire' = wire \o SubSeq(SendBuffer, 1, n)
      /\ SendBuffer' = SubSeq(SendBuffer, n + 1, len)
  BY DEF OnWrite
<1> HIDE DEF n
<1>4. SubSeq(SendBuffer, 1, n) \in Seq(Nat) /\ SubSeq(SendBuffer, n + 1, len) \in Seq(Nat)
  BY <1>1, <1>2, SubSeqIndex
<1>5. wire' \o SendBuffer' = wire \o (SubSeq(SendBuffer, 1, n) \o SubSeq(SendBuffer, n + 1, len))
  <2> DEFINE x == SubSeq(SendBuffer, 1, n)
             y == SubSeq(SendBuffer, n + 1, len)
  <2>1. x \in Seq(Nat) /\ y \in Seq(Nat) /\ wire' = wire \o x /\ SendBuffer' = y
    BY <1>3, <1>4
  <2> HIDE DEF x, y
  <2>2. (wire \o x) \o y = wire \o (x \o y)
    BY <1>1, <2>1, ConcatAssoc
  <2>3. wire' \o SendBuffer' = wire \o (x \o y)
    BY <2>1, <2>2
  <2> QED
    BY <2>3 DEF x, y
<1>6. SubSeq(SendBuffer, 1, n) \o SubSeq(SendBuffer, n + 1, len) = SubSeq(SendBuffer, 1, len)
  <2>1. 1 \in 1..(Len(SendBuffer) + 1) /\ n \in (1 - 1)..Len(SendBuffer) /\ len \in n..Len(SendBuffer)
    BY <1>1, <1>2
  <2> QED
    BY <1>1, <2>1, ConcatAdjacentSubSeq
<1>7. SubSeq(SendBuffer, 1, len) = SendBuffer
  BY <1>1, SubSeqFull
<1> QED
  BY <1>5, <1>6, <1>7
LEMMA StreamStep ==
    ASSUME TypeOK, StreamIntact, [Next]_vars
    PROVE  StreamIntact'
<1> USE DEF loopVars, handlerVars, outVars, inVars, peerVars, lifeVars, callVars
<1>0. Intact(wire \o SendBuffer, msgs, overtaken)
  BY UnitsAre, Zenon DEF StreamIntact, Intact, SameMessage
<1>1. SUFFICES Intact(wire \o SendBuffer, msgs, overtaken)'
  BY UnitsAre, Zenon DEF StreamIntact, Intact, SameMessage
<1>2. CASE UNCHANGED outVars
  BY <1>0, <1>2
<1>3. CASE CallbackSends
  BY <1>0, <1>3, SendInLoopKeepsIntact DEF CallbackSends
<1>4. CASE CallbackOutputs
  <2> DEFINE m == Message(msgs + 1)
  <2>1. /\ MsgLen \in Nat \ {0} /\ msgs \in Nat /\ wire \in Seq(Nat) /\ SendBuffer \in Seq(Nat)
        /\ overtaken \in BOOLEAN /\ 0 \in 0..MsgLen
    BY ConstantTypes DEF TypeOK
  <2>2. m \in Seq(Nat) /\ Len(m) = MsgLen
    BY <2>1, MessageType
  <2>3. /\ SendBuffer' = SendBuffer \o m /\ msgs' = msgs + 1
        /\ UNCHANGED <<wire, overtaken>>
    BY <1>4 DEF CallbackOutputs
  <2>4. Intact((wire \o SubSeq(m, 1, 0)) \o (SendBuffer \o SubSeq(m, 0 + 1, MsgLen)),
               msgs + 1, overtaken)
    BY <1>0, <2>1, MessageKeepsIntact
  <2> HIDE DEF m
  <2>5. SubSeq(m, 1, 0) = <<>> /\ SubSeq(m, 0 + 1, MsgLen) = m
    BY <2>2, SubSeqEmpty, SubSeqFull
  <2>6. wire \o <<>> = wire
    BY <2>1, ConcatEmptySeq
  <2> QED
    BY <2>3, <2>4, <2>5, <2>6
<1>5. CASE OnWrite
  <2>1. wire' \o SendBuffer' = wire \o SendBuffer /\ UNCHANGED <<msgs, overtaken>>
    BY <1>5, OnWriteKeepsStream DEF OnWrite
  <2> QED
    BY <1>0, <2>1
<1>6. ASSUME NEW p \in Producers, RunTask(p)
      PROVE  Intact(wire \o SendBuffer, msgs, overtaken)'
  <2> DEFINE kind == IF alive \/ Head(tasks[p]) = "destruct" THEN Head(tasks[p]) ELSE "none"
  <2>1. CASE kind = "send"
    BY <1>0, <1>6, <2>1, SendInLoopKeepsIntact DEF RunTask
  <2>2. CASE kind # "send"
    <3>1. UNCHANGED outVars
      BY <1>6, <2>2 DEF RunTask
    <3> QED
      BY <1>2, <3>1
  <2> QED
    BY <2>1, <2>2
<1>7. CASE \/ PollReturn \/ OnHup \/ OnError \/ OnExcept \/ OnRead \/ OnETRead
           \/ ETRead \/ ETReadLater \/ DispatchEnd \/ CallbackReturns \/ PendingEnd
           \/ CallbackDisconnects \/ Destroy
  <2>1. UNCHANGED outVars
    BY <1>7 DEF PollReturn, OnHup, OnError, OnExcept, OnRead, OnETRead, ETRead, ETReadLater,
                DispatchEnd, CallbackReturns, PendingEnd, CallbackDisconnects, Destroy
  <2> QED
    BY <1>2, <2>1
<1>8. CASE (\E p \in Producers : DropTask(p)) \/ (\E t \in Threads : ThreadStep(t))
  <2>1. UNCHANGED outVars
    BY <1>8 DEF DropTask, ThreadStep, Send, Disconnect, Enqueue
  <2> QED
    BY <1>2, <2>1
<1>9. CASE PeerStep \/ UNCHANGED vars
  <2>1. UNCHANGED <<wire, SendBuffer, msgs, overtaken>>
    BY <1>9 DEF PeerStep, PeerSends, PeerUrgent, PeerReads, PeerFin, PeerReset, ours, vars
  <2> QED
    BY <1>0, <2>1
<1> QED
  BY <1>3, <1>4, <1>5, <1>6, <1>7, <1>8, <1>9 DEF Next, LoopStep, CallbackCalls

(* Whatever the kernel takes of each ::send and whichever of sendInLoop,   *)
(* sendOutput and handleWrite comes next, the wire and SendBuffer_ hold    *)
(* together every unit of every message once, in order within its message, *)
(* and the messages in order unless a direct send passed buffered data.    *)
THEOREM StreamStaysIntact == Spec => []StreamIntact
<1>1. Init => TypeOK /\ StreamIntact
  <2> SUFFICES ASSUME Init PROVE StreamIntact
    BY InitTypes
  <2>1. wire \o SendBuffer = <<>> /\ MsgLen * msgs = 0
    BY ConstantTypes DEF Init
  <2>2. Intact(wire \o SendBuffer, msgs, overtaken)
    BY <2>1 DEF Intact
  <2> QED
    BY <2>2, UnitsAre, Zenon DEF StreamIntact, Intact, SameMessage
<1>2. TypeOK /\ StreamIntact /\ [Next]_vars => (TypeOK /\ StreamIntact)'
  BY StepTypes, StreamStep
<1> QED
  BY <1>1, <1>2, PTL DEF Spec
=============================================================================
