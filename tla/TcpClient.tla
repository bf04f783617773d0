----------------------------- MODULE TcpClient -----------------------------
(***************************************************************************)
(* A TcpClient with its Connector: a user's thread calls connect,          *)
(* disconnect, stop, enableRetry and disableRetry; the loop's thread runs  *)
(* the closures they submit, the retry timers, the handler of the socket   *)
(* that connects, and the removal of a connection that was closed.         *)
(*                                                                         *)
(* retry_ and connection_ are plain members that both threads use: every   *)
(* access is a step.  The lengths of the retry delays are left out (they   *)
(* decide when a timer fires, never what it does), and so is what happens  *)
(* on the established connection, which is TcpConnection's.                *)
(***************************************************************************)
EXTENDS Naturals, Sequences, SequencesExt

CONSTANTS Quota   \* how many times the user makes each call

ASSUME QuotaAssumption ==
    Quota \in [{"connect", "disconnect", "stop", "enableRetry", "disableRetry"} -> Nat]

None == "none"

VARIABLES
    retry,        \* retry_
    connection,   \* connection_: None, or the state of the connection it points to
    state,        \* Connector::state_
    timers,       \* retry timers that have not fired yet
    userTasks,    \* closures of the user's thread in the loop's queue
    pc,           \* the function the loop's thread is about to execute
    inHandler,    \* the loop's thread is below handler_revent of the current handler_
    open,         \* open sockets this client has created
    upc,          \* the user's thread: "idle", or "stop" or "shut" below a call
    left,         \* calls the user may still make
    abandoned,    \* connecting sockets that stopInLoop has given up
    stopped,      \* stop() is through: no connect() and no enableRetry() since
    toggled,      \* enableRetry() came after retry() had read FALSE
    freed,        \* handler_ was replaced below its own handler_revent
    nulled        \* connection_ was dereferenced after the loop's thread had reset it

loopVars == <<connection, state, timers, pc, inHandler, open, abandoned, freed>>
userVars == <<retry, upc, left>>
history  == <<stopped, toggled, nulled>>
vars     == <<loopVars, userVars, userTasks, history>>

TypeOK ==
    /\ retry \in BOOLEAN /\ inHandler \in BOOLEAN /\ stopped \in BOOLEAN /\ toggled \in BOOLEAN
    /\ freed \in BOOLEAN /\ nulled \in BOOLEAN
    /\ connection \in {None, "up", "shut", "lost"}
    /\ state \in {"kDisconnected", "kConnecting", "kConnected"}
    /\ {timers, open, abandoned} \subseteq Nat
    /\ userTasks \in Seq({"start", "stop"})
    /\ pc \in {"poll", "connectInLoop", "retry", "removeConnection"}
    /\ upc \in {"idle", "stop", "shut"}
    /\ left \in [DOMAIN Quota -> Nat]

Init ==
    /\ retry = FALSE /\ connection = None /\ state = "kDisconnected"
    /\ timers = 0 /\ userTasks = <<>> /\ pc = "poll" /\ inHandler = FALSE
    /\ open = 0 /\ upc = "idle" /\ left = Quota
    /\ abandoned = 0 /\ stopped = FALSE /\ toggled = FALSE /\ freed = FALSE
    /\ nulled = FALSE

-----------------------------------------------------------------------------
(* The user's thread. *)
Call(f) == upc = "idle" /\ left[f] > 0 /\ left' = [left EXCEPT ![f] = @ - 1]

connect ==
    /\ Call("connect") /\ userTasks' = Append(userTasks, "start") /\ stopped' = FALSE
    /\ UNCHANGED <<loopVars, retry, upc, toggled, nulled>>

(* if(connection_), before the call that uses it. *)
TestConnection == upc' = IF connection = None THEN "idle" ELSE "shut"

disconnect ==
    /\ Call("disconnect") /\ TestConnection
    /\ UNCHANGED <<loopVars, retry, userTasks, history>>

stop ==
    /\ Call("stop") /\ upc' = "stop"
    /\ retry' = FALSE /\ userTasks' = Append(userTasks, "stop")
    /\ UNCHANGED <<loopVars, history>>

stopConnection ==
    /\ upc = "stop" /\ TestConnection
    /\ UNCHANGED <<loopVars, retry, left, userTasks, history>>

(* connection_->disconnect(): TcpConnection shuts the write side down.  The *)
(* loop's thread may have reset connection_ since the test.                 *)
Shut == IF connection = "up" THEN "shut" ELSE connection

shutConnection ==
    /\ upc = "shut" /\ upc' = "idle"
    /\ connection' = Shut /\ nulled' = (connection = None)
    /\ UNCHANGED <<state, timers, pc, inHandler, open, abandoned, freed, retry, left, userTasks,
                   stopped, toggled>>

enableRetry ==
    /\ Call("enableRetry") /\ retry' = TRUE
    /\ toggled' = (toggled \/ pc = "removeConnection") /\ stopped' = FALSE
    /\ UNCHANGED <<loopVars, upc, userTasks, nulled>>

disableRetry ==
    /\ Call("disableRetry") /\ retry' = FALSE
    /\ UNCHANGED <<loopVars, upc, userTasks, history>>

-----------------------------------------------------------------------------
(* The loop's thread. *)

(* Mutant of startInLoop: no test of the state. *)
startInLoopAlways == pc' = "connectInLoop"

startInLoop == pc' = IF state = "kDisconnected" THEN "connectInLoop" ELSE "poll"

RunStart ==
    /\ pc = "poll" /\ userTasks # <<>> /\ Head(userTasks) = "start"
    /\ userTasks' = Tail(userTasks) /\ startInLoop
    /\ UNCHANGED <<connection, state, timers, inHandler, open, abandoned, freed, userVars, history>>

RunTimer ==
    /\ pc = "poll" /\ timers > 0 /\ timers' = timers - 1 /\ startInLoop
    /\ UNCHANGED <<connection, state, inHandler, open, abandoned, freed, userVars, userTasks, history>>

(* stopInLoop(): a connecting socket is no longer listened to, and stays open. *)
RunStop ==
    /\ pc = "poll" /\ userTasks # <<>> /\ Head(userTasks) = "stop"
    /\ userTasks' = Tail(userTasks)
    /\ IF state = "kConnecting" THEN state' = "kDisconnected" /\ abandoned' = abandoned + 1
                                ELSE UNCHANGED <<state, abandoned>>
    /\ stopped' = (~retry /\ Tail(userTasks) = <<>>)
    /\ UNCHANGED <<connection, timers, pc, inHandler, open, freed, userVars, toggled, nulled>>

(* connect() returned 0, EINPROGRESS, EINTR or EISCONN: connecting() *)
(* replaces handler_, the one it may be called from too.             *)
connecting ==
    /\ pc = "connectInLoop" /\ pc' = "poll" /\ inHandler' = FALSE
    /\ open' = open + 1 /\ state' = "kConnecting" /\ freed' = (freed \/ inHandler)
    /\ UNCHANGED <<connection, timers, abandoned, userVars, userTasks, history>>

(* One of the errors that retry() is for. *)
connectRefused ==
    /\ pc = "connectInLoop" /\ pc' = "retry" /\ open' = open + 1
    /\ UNCHANGED <<connection, state, timers, inHandler, abandoned, freed, userVars, userTasks, history>>

(* Another error: the socket is closed and Fcb_ called. *)
connectFailed ==
    /\ pc = "connectInLoop" /\ pc' = "removeConnection"
    /\ UNCHANGED <<connection, state, timers, inHandler, open, abandoned, freed, userVars, userTasks, history>>

(* handleWrite() without an error: Ncb_, newConnection(). *)
handleWrite ==
    /\ pc = "poll" /\ state = "kConnecting"
    /\ state' = "kConnected" /\ connection' = "up"
    /\ UNCHANGED <<timers, pc, inHandler, open, abandoned, freed, userVars, userTasks, history>>

(* handleWrite() with SO_ERROR or a self connect, or handleError(). *)
handleError ==
    /\ pc = "poll" /\ state = "kConnecting" /\ pc' = "retry" /\ inHandler' = TRUE
    /\ UNCHANGED <<connection, state, timers, open, abandoned, freed, userVars, userTasks, history>>

(* Mutant of retryStep: the next attempt at once, without a timer. *)
retryStepAtOnce ==
    /\ pc = "retry" /\ state' = "kDisconnected" /\ open' = open - 1
    /\ IF retry THEN pc' = "connectInLoop" /\ UNCHANGED <<timers, inHandler>>
                ELSE pc' = "removeConnection" /\ UNCHANGED <<timers, inHandler>>
    /\ UNCHANGED <<connection, abandoned, freed, userVars, userTasks, history>>

retryStep ==
    /\ pc = "retry" /\ state' = "kDisconnected" /\ open' = open - 1
    /\ IF retry THEN pc' = "poll" /\ timers' = timers + 1 /\ inHandler' = FALSE
                ELSE pc' = "removeConnection" /\ UNCHANGED <<timers, inHandler>>
    /\ UNCHANGED <<connection, abandoned, freed, userVars, userTasks, history>>

(* handleClose() of the connection, whoever closed it; its delayed  *)
(* destruct closure is the next step.                               *)
Lost ==
    /\ pc = "poll" /\ connection \in {"up", "shut"} /\ connection' = "lost"
    /\ UNCHANGED <<state, timers, pc, inHandler, open, abandoned, freed, userVars, userTasks, history>>

RunDestruct ==
    /\ pc = "poll" /\ connection = "lost" /\ pc' = "removeConnection"
    /\ UNCHANGED <<connection, state, timers, inHandler, open, abandoned, freed, userVars, userTasks, history>>

(* Mutant of removeConnection: startInLoop() without restart()'s reset. *)
removeConnectionNoReset ==
    /\ pc = "removeConnection"
    /\ connection' = None /\ open' = open - (IF connection = None THEN 0 ELSE 1)
    /\ IF retry THEN startInLoop /\ UNCHANGED <<inHandler, state>>
                ELSE pc' = "poll" /\ inHandler' = FALSE /\ state' = state
    /\ UNCHANGED <<timers, abandoned, freed, userVars, userTasks, history>>

restart == state' = "kDisconnected" /\ pc' = "connectInLoop"

removeConnection ==
    /\ pc = "removeConnection"
    /\ connection' = None /\ open' = open - (IF connection = None THEN 0 ELSE 1)
    /\ IF retry THEN restart /\ UNCHANGED inHandler
                ELSE pc' = "poll" /\ inHandler' = FALSE /\ state' = state
    /\ UNCHANGED <<timers, abandoned, freed, userVars, userTasks, history>>

-----------------------------------------------------------------------------
UserStep == \/ connect \/ disconnect \/ stop \/ enableRetry \/ disableRetry
            \/ stopConnection \/ shutConnection
Connecting == connecting \/ connectRefused \/ connectFailed
LoopStep == \/ RunStart \/ RunStop \/ RunTimer \/ RunDestruct
            \/ Connecting \/ handleWrite \/ handleError \/ retryStep \/ removeConnection

(* Once a dead object was used there is no program left to describe. *)
Alive == ~freed /\ ~nulled
Next == Alive /\ (UserStep \/ LoopStep \/ Lost)
Spec == Init /\ [][Next]_vars

(* Every task and timer gets its turn, and the server is never out of reach *)
(* for good: a connect() and a handshake succeed now and then.              *)
Fairness ==
    /\ WF_vars(Alive /\ LoopStep)
    /\ SF_vars(Alive /\ RunStart) /\ SF_vars(Alive /\ RunStop)
    /\ SF_vars(Alive /\ RunTimer) /\ SF_vars(Alive /\ RunDestruct)
    /\ SF_vars(Alive /\ connecting) /\ SF_vars(Alive /\ handleWrite)
FairSpec == Spec /\ Fairness

-----------------------------------------------------------------------------
(* Whatever the timers, closures and handlers do, no socket is lost sight  *)
(* of: between callbacks every open socket is the attempt's, the           *)
(* connection's, or one that stopInLoop left open.  In particular a retry  *)
(* timer that fires late never starts a second connection beside the first.*)
SocketsOwned ==
    pc = "poll" => open = (IF state = "kConnecting" THEN 1 ELSE 0)
                        + (IF connection = None THEN 0 ELSE 1) + abandoned

(* handler_ is never destroyed while its own callback is executing, except *)
(* when enableRetry() comes between the two reads of retry_, in retry()    *)
(* and in removeConnection().                                              *)
HandlerSurvivesCallback == freed => toggled

(* A client that has something under way - an attempt, a timer or the loss *)
(* of its connection - and whose retry_ stays set gets a connection, if no *)
(* stop is still on its way to the loop.                                   *)
UnderWay == /\ \/ state = "kConnecting" \/ pc # "poll" \/ connection = "lost"
               \/ state = "kDisconnected" /\ timers > 0
            /\ ~Contains(userTasks, "stop")
RetryReconnects == []((UnderWay /\ []retry) => <>(connection = "up" \/ ~Alive))

(* stop() "stops the client completely, no more reconnecting": once its   *)
(* closure has run, no attempt to connect begins until the user asks again.*)
StopIsFinal == [][stopped => (pc' = "connectInLoop" => pc = "connectInLoop")]_vars
=============================================================================
