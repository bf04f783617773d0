-------------------------- MODULE TcpClientProofs --------------------------
(***************************************************************************)
(* Proofs about TcpClient for any number of calls of the user's thread, in *)
(* any interleaving with the loop's thread.                                *)
(***************************************************************************)
EXTENDS TcpClient, TLAPS

(* The socket an attempt holds: the one that connects, or the one whose    *)
(* failure retry() is about to deal with, which may be the same.           *)
AttemptSockets == IF pc = "retry" \/ state = "kConnecting" THEN 1 ELSE 0

ConnectionSockets == IF connection = None THEN 0 ELSE 1

(* SocketsOwned at every place of the loop's thread, not only in poll. *)
SocketCount == open = AttemptSockets + ConnectionSockets + abandoned

(* Where the loop's thread is decides what the Connector's state can be:   *)
(* an attempt and a connection never exist together.                       *)
AttemptInv ==
    /\ connection # None => state = "kConnected" /\ pc \in {"poll", "removeConnection"}
    /\ pc = "connectInLoop" => state = "kDisconnected"
    /\ pc = "retry" => state # "kConnected"
    /\ pc = "removeConnection" => state # "kConnecting"

(* Below handler_revent the loop reaches connectInLoop only if retry_ was  *)
(* FALSE in retry() and TRUE in removeConnection().                        *)
HandlerInv ==
    /\ inHandler => pc # "poll"
    /\ inHandler /\ pc = "connectInLoop" => toggled
    /\ inHandler /\ pc = "removeConnection" /\ retry => toggled
    /\ freed => toggled

IInv == TypeOK /\ SocketCount /\ AttemptInv /\ HandlerInv

-----------------------------------------------------------------------------
(* A freshly constructed TcpClient satisfies the invariant. *)
LEMMA InitInv == Init => IInv
<1> SUFFICES ASSUME Init PROVE IInv
  OBVIOUS
<1>1. userTasks \in Seq({"start", "stop"})
  BY DEF Init
<1>2. left \in [DOMAIN Quota -> Nat]
  BY QuotaAssumption DEF Init
<1>3. {timers, open, abandoned} \subseteq Nat
  BY DEF Init
<1>4. TypeOK
  BY <1>1, <1>2, <1>3, Zenon DEF Init, TypeOK, None
<1>5. SocketCount /\ AttemptInv /\ HandlerInv
  BY DEF Init, SocketCount, AttemptSockets, ConnectionSockets, AttemptInv, HandlerInv
<1> QED
  BY <1>4, <1>5 DEF IInv

(* A call of the user's thread preserves the invariant: it can change a    *)
(* connection from up to shut, retry_ and the queue, and toggles only what *)
(* HandlerInv allows.                                                      *)
LEMMA UserStepInv ==
    ASSUME IInv, UserStep
    PROVE  IInv'
<1> USE DEF IInv, None
<1>1. ASSUME NEW f \in DOMAIN Quota, Call(f)
      PROVE  left' \in [DOMAIN Quota -> Nat]
  BY <1>1 DEF Call, TypeOK
<1>2. DOMAIN Quota = {"connect", "disconnect", "stop", "enableRetry", "disableRetry"}
  BY QuotaAssumption
<1>3. CASE connect
  <2>0. userTasks' \in Seq({"start", "stop"})
    BY <1>3 DEF connect, TypeOK
  <2>1. TypeOK'
    BY <1>1, <1>2, <1>3, <2>0 DEF connect, TypeOK, loopVars
  <2>2. UNCHANGED <<loopVars, retry, toggled>>
    BY <1>3 DEF connect
  <2> QED
    BY <2>1, <2>2 DEF loopVars, SocketCount, AttemptSockets, ConnectionSockets,
                      AttemptInv, HandlerInv
<1>4. CASE disconnect
  <2>1. TypeOK'
    BY <1>1, <1>2, <1>4 DEF disconnect, TestConnection, TypeOK, loopVars, history
  <2>2. UNCHANGED <<loopVars, retry, toggled>>
    BY <1>4 DEF disconnect, history
  <2> QED
    BY <2>1, <2>2 DEF loopVars, SocketCount, AttemptSockets, ConnectionSockets,
                      AttemptInv, HandlerInv
<1>5. CASE stop
  <2>0. userTasks' \in Seq({"start", "stop"})
    BY <1>5 DEF stop, TypeOK
  <2>1. TypeOK'
    BY <1>1, <1>2, <1>5, <2>0 DEF stop, TypeOK, loopVars, history
  <2>2. retry' = FALSE /\ UNCHANGED <<loopVars, toggled>>
    BY <1>5 DEF stop, history
  <2> QED
    BY <2>1, <2>2 DEF loopVars, SocketCount, AttemptSockets, ConnectionSockets,
                      AttemptInv, HandlerInv
<1>6. CASE stopConnection
  <2>1. TypeOK'
    BY <1>6 DEF stopConnection, TestConnection, TypeOK, loopVars, history
  <2>2. UNCHANGED <<loopVars, retry, toggled>>
    BY <1>6 DEF stopConnection, history
  <2> QED
    BY <2>1, <2>2 DEF loopVars, SocketCount, AttemptSockets, ConnectionSockets,
                      AttemptInv, HandlerInv
<1>7. CASE enableRetry
  <2>1. TypeOK'
    BY <1>1, <1>2, <1>7 DEF enableRetry, TypeOK, loopVars
  <2>2. toggled' = (toggled \/ pc = "removeConnection") /\ UNCHANGED loopVars
    BY <1>7 DEF enableRetry
  <2> QED
    BY <2>1, <2>2 DEF loopVars, SocketCount, AttemptSockets, ConnectionSockets,
                      AttemptInv, HandlerInv
<1>8. CASE disableRetry
  <2>1. TypeOK'
    BY <1>1, <1>2, <1>8 DEF disableRetry, TypeOK, loopVars, history
  <2>2. retry' = FALSE /\ UNCHANGED <<loopVars, toggled>>
    BY <1>8 DEF disableRetry, history
  <2> QED
    BY <2>1, <2>2 DEF loopVars, SocketCount, AttemptSockets, ConnectionSockets,
                      AttemptInv, HandlerInv
<1>9. CASE shutConnection
  <2>0. nulled' \in BOOLEAN
    BY <1>9 DEF shutConnection
  <2>1. TypeOK'
    BY <1>9, <2>0 DEF shutConnection, TypeOK, Shut
  <2>2. /\ connection' = Shut
        /\ UNCHANGED <<state, pc, inHandler, open, abandoned, freed, retry, toggled>>
    BY <1>9 DEF shutConnection
  <2> QED
    BY <2>1, <2>2 DEF Shut, SocketCount, AttemptSockets, ConnectionSockets,
                      AttemptInv, HandlerInv
<1> QED
  BY <1>3, <1>4, <1>5, <1>6, <1>7, <1>8, <1>9 DEF UserStep

(* A step of the loop's thread, or the loss of the connection, preserves   *)
(* the invariant.  The sockets it opens and closes are those the places of *)
(* AttemptInv say it holds.                                                *)
LEMMA LoopStepInv ==
    ASSUME IInv, LoopStep \/ Lost
    PROVE  IInv'
<1> USE DEF IInv, None, userVars, history, SocketCount, AttemptSockets, ConnectionSockets,
            AttemptInv, HandlerInv, TypeOK
<1>1. CASE RunStart
  BY <1>1 DEF RunStart, startInLoop
<1>2. CASE RunTimer
  BY <1>2 DEF RunTimer, startInLoop
<1>3. CASE RunStop
  BY <1>3 DEF RunStop
<1>4. CASE connecting
  <2>1. SocketCount' /\ open' \in Nat
    BY <1>4 DEF connecting
  <2>2. AttemptInv'
    BY <1>4 DEF connecting
  <2>3. HandlerInv' /\ freed' \in BOOLEAN
    BY <1>4 DEF connecting
  <2>4. TypeOK'
    BY <1>4, <2>1, <2>3 DEF connecting
  <2> QED
    BY <2>1, <2>2, <2>3, <2>4
<1>5. CASE connectRefused
  BY <1>5 DEF connectRefused
<1>6. CASE connectFailed
  BY <1>6 DEF connectFailed
<1>7. CASE handleWrite
  BY <1>7 DEF handleWrite
<1>8. CASE handleError
  BY <1>8 DEF handleError
<1>9. CASE retryStep
  <2>1. SocketCount' /\ open' \in Nat
    BY <1>9 DEF retryStep
  <2>2. AttemptInv'
    BY <1>9 DEF retryStep
  <2>3. HandlerInv'
    BY <1>9 DEF retryStep
  <2>4. timers' \in Nat
    BY <1>9 DEF retryStep
  <2>5. inHandler' \in BOOLEAN /\ pc' \in {"poll", "removeConnection"}
    BY <1>9, Zenon DEF retryStep
  <2>6. TypeOK'
    BY <1>9, <2>1, <2>4, <2>5 DEF retryStep
  <2> QED
    BY <2>1, <2>2, <2>3, <2>6
<1>10. CASE Lost
  BY <1>10 DEF Lost
<1>11. CASE RunDestruct
  BY <1>11 DEF RunDestruct
<1>12. CASE removeConnection
  <2>1. SocketCount' /\ open' \in Nat
    BY <1>12 DEF removeConnection, restart
  <2>2. AttemptInv'
    BY <1>12 DEF removeConnection, restart
  <2>3. HandlerInv'
    BY <1>12 DEF removeConnection, restart
  <2>4. TypeOK'
    BY <1>12, <2>1 DEF removeConnection, restart
  <2> QED
    BY <2>1, <2>2, <2>3, <2>4
<1> QED
  BY <1>1, <1>2, <1>3, <1>4, <1>5, <1>6, <1>7, <1>8, <1>9, <1>10, <1>11, <1>12
     DEF LoopStep, Connecting

-----------------------------------------------------------------------------
(* The strengthened invariant holds in every reachable state of TcpClient  *)
(* and its Connector.                                                      *)
THEOREM InvCorrect == Spec => []IInv
<1>1. Init => IInv
  BY InitInv
<1>2. IInv /\ [Next]_vars => IInv'
  <2> SUFFICES ASSUME IInv, [Next]_vars PROVE IInv'
    OBVIOUS
  <2>1. CASE Next
    BY <2>1, UserStepInv, LoopStepInv DEF Next
  <2>2. CASE UNCHANGED vars
    BY <2>2 DEF vars, loopVars, userVars, history, IInv, TypeOK, SocketCount,
                AttemptSockets, ConnectionSockets, AttemptInv, HandlerInv
  <2> QED
    BY <2>1, <2>2
<1> QED
  BY <1>1, <1>2, PTL DEF Spec

(* TcpClient's state is well typed, the counts of sockets, timers and      *)
(* abandoned attempts included: none of them goes below zero.              *)
THEOREM TypeCorrect == Spec => []TypeOK
<1>1. IInv => TypeOK
  BY DEF IInv
<1> QED
  BY <1>1, InvCorrect, PTL

(* Between callbacks every open socket is the attempt's, the connection's  *)
(* or one that stopInLoop gave up: no timer, closure or handler of         *)
(* Connector opens a second connection or forgets one.                     *)
THEOREM SocketsOwnedCorrect == Spec => []SocketsOwned
<1>1. IInv => SocketsOwned
  BY DEF IInv, SocketCount, AttemptSockets, ConnectionSockets, SocketsOwned
<1> QED
  BY <1>1, InvCorrect, PTL

(* The handler of a connecting socket is destroyed below its own callback  *)
(* only if enableRetry() came between the two reads of retry_.             *)
THEOREM HandlerSurvivesCallbackCorrect == Spec => []HandlerSurvivesCallback
<1>1. IInv => HandlerSurvivesCallback
  BY DEF IInv, HandlerInv, HandlerSurvivesCallback
<1> QED
  BY <1>1, InvCorrect, PTL
=============================================================================
