----------------------------- MODULE TcpServer -----------------------------
(***************************************************************************)
(* A TcpServer: the main thread starts and stops the acceptors' and the    *)
(* workers' loops (EventLoopThread), an acceptor hands each accepted       *)
(* descriptor to the next worker, the worker makes the TcpConnection and   *)
(* reports it, and later its end, to the acceptor that keeps connects_.    *)
(*                                                                         *)
(* A loop is seen from outside: it lives from run() until it has noticed   *)
(* quit() and drained its queue, and keeps one queue per producer, each in *)
(* order, with no order between them.  Of a closure that is next it may    *)
(* also do nothing at all: the one behind the batch limit is dequeued and  *)
(* dropped (EventLoop.cpp:261; EventLoop and TaskExecutor have it as       *)
(* Lose).  The other closures of a batch are not seen here, so any closure *)
(* may be the one.  A pointer to a loop that has ended dangles.  What a    *)
(* fault leads to is undefined, so behaviours end there.  With pooled,     *)
(* connections come from a TcpConPool per worker and go back to it in the  *)
(* close callback.                                                         *)
(***************************************************************************)
EXTENDS Naturals, Sequences, FiniteSets

CONSTANTS
    Acceptors, Workers,   \* the two pools' threads, in the order of their vectors
    Clients,              \* clients that connect, once each
    Arrivals,             \* which of them come, and whose listening socket gets them
    MaxLost               \* bound: closures the loops drop

As      == {Acceptors[i] : i \in 1..Len(Acceptors)}
Ws      == {Workers[i] : i \in 1..Len(Workers)}
Objects == Clients    \* TcpConnection objects, by the client they were made for
None    == "none"

(* Every thread is an element of one of the vectors, once; a client comes *)
(* to one listening socket.                                               *)
ASSUME ServerAssumption ==
    /\ Acceptors \in Seq(As) /\ Workers \in Seq(Ws) /\ Acceptors # <<>> /\ Workers # <<>>
    /\ LET all == Acceptors \o Workers
       IN \A i, j \in 1..Len(all) : all[i] = all[j] => i = j
    /\ None \notin As \cup Ws \cup Clients
    /\ \A b \in Arrivals : /\ b \subseteq [client : Clients, acceptor : As]
                           /\ \A x, y \in b : x.client = y.client => x = y
    /\ MaxLost \in Nat

VARIABLES
    pooled,     \* connections come from TcpConPool
    main,       \* the main thread: phase, and the position in the order of threads
    thread,     \* EventLoopThread: "off", "running", "quit" (told to), "gone"
    backlog,    \* clients waiting in the listening sockets (SO_REUSEPORT: one each)
    nextId,     \* getEventLoop's static nextId
    apc,        \* each acceptor: "poll", "pick", "load", "store"
    hand,       \* its accepted client, chosen worker and value read from nextId
    given,      \* closures of acceptor a in the queue of worker w
    destructs,  \* delayed destructCallBack_ closures in the queue of worker w
    reports,    \* closures of worker w in the queue of acceptor a
    connects,   \* Acceptor::connects_
    conn,       \* TcpConnection: client, worker, acceptor in destructCallBack_
    free,       \* TcpConPool::free_list_ of each worker
    fds,        \* clients whose descriptor is open
    served,     \* clients whose connection was made
    reused,     \* objects acquired with an earlier removal still on its way
    lost,       \* closures a loop has dropped, and whom they were about
    fault       \* None, or what went wrong

mainVars == <<main, thread>>
accVars  == <<backlog, nextId, apc, hand>>
connVars == <<connects, conn, free, fds, served, reused, destructs>>
vars     == <<pooled, mainVars, accVars, connVars, given, reports, lost, fault>>

NextIds     == 0..(Len(Workers) - 1)
Hands       == [client : Clients \cup {None}, worker : Ws \cup {None}, next : NextIds]
Messages    == [op : {"insert", "remove"}, conn : Objects]
Connections == [client : Clients \cup {None}, worker : Ws \cup {None},
                acceptor : As \cup {None}, open : BOOLEAN]
Closures    == [op : {"accept", "insert", "remove", "destruct"}, of : Clients]
               \cup [op : {"quit"}, of : As \cup Ws]

TypeOK ==
    /\ pooled \in BOOLEAN
    /\ main \in [phase : {"run", "up", "quit", "wake", "join", "done"}, i : Nat]
    /\ thread \in [As \cup Ws -> {"off", "running", "quit", "gone"}]
    /\ backlog \subseteq [client : Clients, acceptor : As]
    /\ nextId \in NextIds /\ hand \in [As -> Hands]
    /\ apc \in [As -> {"poll", "pick", "load", "store"}]
    /\ given \in [Ws -> [As -> Seq(Clients)]] /\ reports \in [As -> [Ws -> Seq(Messages)]]
    /\ destructs \in [Ws -> Seq(Objects)] /\ free \in [Ws -> Seq(Objects)]
    /\ connects \in [As -> SUBSET Objects] /\ conn \in [Objects -> Connections]
    /\ fds \subseteq Clients /\ served \subseteq Clients /\ reused \subseteq Objects
    /\ lost \subseteq Closures
    /\ fault \in {None, "nullLoop", "deadWorker", "deadAcceptor", "deadLoop", "exit", "dropped"}

NoConn == [client |-> None, worker |-> None, acceptor |-> None, open |-> FALSE]

Init ==
    /\ pooled \in BOOLEAN
    /\ main = [phase |-> "run", i |-> 1] /\ thread = [t \in As \cup Ws |-> "off"]
    /\ backlog \in Arrivals /\ nextId = 0 /\ apc = [a \in As |-> "poll"]
    /\ hand = [a \in As |-> [client |-> None, worker |-> None, next |-> 0]]
    /\ given = [w \in Ws |-> [a \in As |-> <<>>]] /\ destructs = [w \in Ws |-> <<>>]
    /\ reports = [a \in As |-> [w \in Ws |-> <<>>]]
    /\ connects = [a \in As |-> {}] /\ conn = [o \in Objects |-> NoConn]
    /\ free = [w \in Ws |-> <<>>] /\ fds = {} /\ served = {} /\ reused = {}
    /\ lost = {} /\ fault = None

Alive(t) == thread[t] \in {"running", "quit"}

-----------------------------------------------------------------------------
(* The main thread. *)

(* loop(): AcceptorPool_.run(), then WorkThreadPool_.run(). *)
StartOrder == Acceptors \o Workers

(* Mutant of StopOrder: the workers first. *)
WorkersFirst == Workers \o Acceptors

(* stop(): the same order. *)
StopOrder == Acceptors \o Workers

(* run() returns when the thread has published its loop; an acceptor then *)
(* listens.                                                               *)
RunThread ==
    /\ main.phase = "run"
    /\ thread' = [thread EXCEPT ![StartOrder[main.i]] = "running"]
    /\ main' = IF main.i = Len(StartOrder) THEN [phase |-> "up", i |-> 1]
                                           ELSE [main EXCEPT !.i = @ + 1]
    /\ UNCHANGED <<pooled, accVars, connVars, given, reports, lost, fault>>

stop == main.phase = "up" /\ main' = [main EXCEPT !.phase = "quit"]
        /\ UNCHANGED <<pooled, thread, accVars, connVars, given, reports, lost, fault>>

(* EventLoop::quit() submits the closure that ends the loop ...            *)
QuitThread ==
    /\ main.phase = "quit" /\ main' = [main EXCEPT !.phase = "wake"]
    /\ thread' = [thread EXCEPT ![StopOrder[main.i]] = "quit"]
    /\ UNCHANGED <<pooled, accVars, connVars, given, reports, lost, fault>>

(* ... and then writes to the descriptor of a loop that may be gone.       *)
WakeThread ==
    /\ main.phase = "wake" /\ main' = [main EXCEPT !.phase = "join"]
    /\ fault' = IF thread[StopOrder[main.i]] = "gone" THEN "deadLoop" ELSE fault
    /\ UNCHANGED <<pooled, thread, accVars, connVars, given, reports, lost>>

JoinThread ==
    /\ main.phase = "join" /\ thread[StopOrder[main.i]] = "gone"
    /\ main' = IF main.i = Len(StopOrder) THEN [main EXCEPT !.phase = "done"]
                                          ELSE [phase |-> "quit", i |-> main.i + 1]
    /\ UNCHANGED <<pooled, thread, accVars, connVars, given, reports, lost, fault>>

Drained(t) ==
    /\ t \in Ws => destructs[t] = <<>> /\ \A a \in As : given[t][a] = <<>>
    /\ t \in As => apc[t] = "poll" /\ \A w \in Ws : reports[t][w] = <<>>

(* The closure behind the batch limit is dropped, whatever it was to do. *)
Lose(op, x) == Cardinality(lost) < MaxLost /\ lost' = lost \cup {[op |-> op, of |-> x]}

(* Without its closure quit() has no effect. *)
LoseQuit(t) ==
    /\ thread[t] = "quit" /\ Lose("quit", t)
    /\ thread' = [thread EXCEPT ![t] = "running"]
    /\ UNCHANGED <<pooled, main, accVars, connVars, given, reports, fault>>

(* loop() returns and the local EventLoop is destroyed. *)
EndLoop(t) ==
    /\ thread[t] = "quit" /\ Drained(t)
    /\ thread' = [thread EXCEPT ![t] = "gone"]
    /\ UNCHANGED <<pooled, main, accVars, connVars, given, reports, lost, fault>>

-----------------------------------------------------------------------------
(* An acceptor's thread. *)

accept(a) ==
    /\ Alive(a) /\ apc[a] = "poll"
    /\ \E b \in backlog :
         /\ b.acceptor = a /\ backlog' = backlog \ {b}
         /\ fds' = fds \cup {b.client} /\ hand' = [hand EXCEPT ![a].client = b.client]
    /\ apc' = [apc EXCEPT ![a] = "pick"]
    /\ UNCHANGED <<pooled, mainVars, nextId, connects, conn, free, served, reused,
                   destructs, given, reports, lost, fault>>

(* EMFILE: idleFd_ is closed and accept called on the failed result, which *)
(* is EBADF: acceptAutoOrDie ends the process.                             *)
acceptEMFILE(a) ==
    /\ Alive(a) /\ apc[a] = "poll" /\ fault' = "exit"
    /\ \E b \in backlog : b.acceptor = a
    /\ UNCHANGED <<pooled, mainVars, accVars, connVars, given, reports, lost>>

(* getEventLoop() reads nextId for the element, reads it again, and stores. *)
(* The loop of a thread that was not run is null: assert(loop) will fail.   *)
getEventLoop(a) ==
    /\ apc[a] = "pick" /\ apc' = [apc EXCEPT ![a] = "load"]
    /\ LET w == Workers[nextId + 1] IN
       /\ hand' = [hand EXCEPT ![a].worker = w]
       /\ fault' = IF thread[w] = "off" THEN "nullLoop" ELSE fault
    /\ UNCHANGED <<pooled, mainVars, backlog, nextId, connVars, given, reports, lost>>

LoadNextId(a) ==
    /\ apc[a] = "load" /\ apc' = [apc EXCEPT ![a] = "store"]
    /\ hand' = [hand EXCEPT ![a].next = (nextId + 1) % Len(Workers)]
    /\ UNCHANGED <<pooled, mainVars, backlog, nextId, connVars, given, reports, lost, fault>>

(* The store, and the rest of NewConnection(). *)
NewConnection(a) ==
    /\ apc[a] = "store" /\ apc' = [apc EXCEPT ![a] = "poll"] /\ nextId' = hand[a].next
    /\ LET w == hand[a].worker IN
       IF Alive(w) THEN given' = [given EXCEPT ![w][a] = Append(@, hand[a].client)] /\ fault' = fault
                   ELSE fault' = "deadWorker" /\ UNCHANGED given
    /\ UNCHANGED <<pooled, mainVars, backlog, hand, connVars, reports, lost>>

(* Who keeps a TcpConnection alive: connects_, closures, the pool. *)
Holds(con, rep, o) ==
    \/ \E a \in As : o \in con[a]
    \/ \E a \in As, w \in Ws : \E i \in 1..Len(rep[a][w]) : rep[a][w][i].conn = o
    \/ \E w \in Ws : \E i \in 1..Len(free[w]) : free[w][i] = o

(* A closure and its reference to o are gone.  The last reference closes   *)
(* the descriptor of a connection that is not pooled, and takes the object *)
(* away from a client that is still there.                                 *)
Unref(o) ==
    LET last == ~Holds(connects', reports', o)
    IN /\ fds' = IF last THEN fds \ {conn[o].client} ELSE fds
       /\ fault' = IF last /\ conn[o].open THEN "dropped" ELSE fault

(* The next closure of worker w leaves a's queue; con is what it makes of  *)
(* connects_.                                                              *)
TakeReport(a, w, con) ==
    /\ Alive(a) /\ apc[a] = "poll" /\ reports[a][w] # <<>>
    /\ reports' = [reports EXCEPT ![a][w] = Tail(@)] /\ connects' = con
    /\ Unref(Head(reports[a][w]).conn)
    /\ UNCHANGED <<pooled, mainVars, accVars, conn, free, served, reused, destructs, given>>

(* It inserts into connects_ or, removeConnection(), erases. *)
RunReport(a, w) ==
    LET r == Head(reports[a][w])
    IN /\ TakeReport(a, w, [connects EXCEPT ![a] = IF r.op = "insert" THEN @ \cup {r.conn}
                                                                     ELSE @ \ {r.conn}])
       /\ UNCHANGED lost

LoseReport(a, w) ==
    /\ TakeReport(a, w, connects)
    /\ Lose(Head(reports[a][w]).op, Head(reports[a][w]).conn)

-----------------------------------------------------------------------------
(* A worker's thread. *)

(* Mutant of Report: the queue does not keep the order. *)
ReportUnordered(w, a, r) ==
    IF Alive(a) THEN reports' = [reports EXCEPT ![a][w] = <<r>> \o @] /\ fault' = fault
                ELSE fault' = "deadAcceptor" /\ UNCHANGED reports

(* loop_->submit of an acceptor's loop, from worker w. *)
Report(w, a, r) ==
    IF Alive(a) THEN reports' = [reports EXCEPT ![a][w] = Append(@, r)] /\ fault' = fault
                ELSE fault' = "deadAcceptor" /\ UNCHANGED reports

(* A removal of object o is still on its way from worker w. *)
RemovalPending(w, o) ==
    \/ \E i \in 1..Len(destructs[w]) : destructs[w][i] = o
    \/ \E a \in As : \E i \in 1..Len(reports[a][w]) : reports[a][w][i] = [op |-> "remove", conn |-> o]

(* TcpConPool::acquire(): the front of free_list_, or a new object. *)
Acquired(w, c) == IF free[w] # <<>> THEN Head(free[w]) ELSE c

(* The closure of NewConnection(): the connection is made, *)
(* its destructCallBack_ set and its insertion submitted.  *)
MakeConnection(w, a) ==
    /\ Alive(w) /\ given[w][a] # <<>>
    /\ LET c == Head(given[w][a])  o == Acquired(w, c) IN
       /\ given' = [given EXCEPT ![w][a] = Tail(@)]
       /\ free' = [free EXCEPT ![w] = IF @ = <<>> THEN @ ELSE Tail(@)]
       /\ conn' = [conn EXCEPT ![o] = [client |-> c, worker |-> w, acceptor |-> a, open |-> TRUE]]
       /\ served' = served \cup {c}
       /\ reused' = IF RemovalPending(w, o) THEN reused \cup {o} ELSE reused
       /\ Report(w, a, [op |-> "insert", conn |-> o])
    /\ UNCHANGED <<pooled, mainVars, accVars, connects, fds, destructs, lost>>

(* The accepted descriptor is an int in the closure: it stays open. *)
LoseConnection(w, a) ==
    /\ Alive(w) /\ given[w][a] # <<>> /\ Lose("accept", Head(given[w][a]))
    /\ given' = [given EXCEPT ![w][a] = Tail(@)]
    /\ UNCHANGED <<pooled, mainVars, accVars, connVars, reports, fault>>

(* Mutant of handleClose: the removal is submitted beside the closure. *)
handleCloseAtOnce(w, o) ==
    /\ Alive(w) /\ conn[o].open /\ conn[o].worker = w
    /\ conn' = [conn EXCEPT ![o].open = FALSE]
    /\ IF pooled THEN free' = [free EXCEPT ![w] = Append(@, o)] /\ fds' = fds \ {conn[o].client}
                 ELSE UNCHANGED <<free, fds>>
    /\ destructs' = [destructs EXCEPT ![w] = Append(@, o)]
    /\ Report(w, conn[o].acceptor, [op |-> "remove", conn |-> o])
    /\ UNCHANGED <<pooled, mainVars, accVars, connects, served, reused, given, lost>>

(* handleClose(): the close callback, which releases a pooled connection *)
(* and closes its descriptor, then the delayed destruct closure.         *)
handleClose(w, o) ==
    /\ Alive(w) /\ conn[o].open /\ conn[o].worker = w
    /\ conn' = [conn EXCEPT ![o].open = FALSE]
    /\ IF pooled THEN free' = [free EXCEPT ![w] = Append(@, o)] /\ fds' = fds \ {conn[o].client}
                 ELSE UNCHANGED <<free, fds>>
    /\ destructs' = [destructs EXCEPT ![w] = Append(@, o)]
    /\ UNCHANGED <<pooled, mainVars, accVars, connects, served, reused, given, reports, lost, fault>>

(* destructCallBack_(shared_from_this()), the one set last on the object. *)
RunDestruct(w) ==
    /\ Alive(w) /\ destructs[w] # <<>>
    /\ LET o == Head(destructs[w]) IN
       /\ destructs' = [destructs EXCEPT ![w] = Tail(@)]
       /\ IF Holds(connects, reports, o)
          THEN Report(w, conn[o].acceptor, [op |-> "remove", conn |-> o])
          ELSE fault' = "dropped" /\ UNCHANGED reports
    /\ UNCHANGED <<pooled, mainVars, accVars, connects, conn, free, fds, served, reused, given, lost>>

LoseDestruct(w) ==
    /\ Alive(w) /\ destructs[w] # <<>> /\ Lose("destruct", Head(destructs[w]))
    /\ destructs' = [destructs EXCEPT ![w] = Tail(@)]
    /\ UNCHANGED <<pooled, mainVars, accVars, connects, conn, free, fds, served, reused, given,
                   reports, fault>>

-----------------------------------------------------------------------------
MainStep == RunThread \/ QuitThread \/ WakeThread \/ JoinThread
AcceptorStep(a) == \/ getEventLoop(a) \/ LoadNextId(a) \/ NewConnection(a)
                   \/ \E w \in Ws : RunReport(a, w)
WorkerStep(w) == RunDestruct(w) \/ \E a \in As : MakeConnection(w, a)

LoopLoses == \/ \E t \in As \cup Ws : LoseQuit(t)
             \/ \E a \in As, w \in Ws : LoseReport(a, w) \/ LoseConnection(w, a)
             \/ \E w \in Ws : LoseDestruct(w)

Next == fault = None /\
    \/ MainStep \/ stop \/ LoopLoses \/ \E t \in As \cup Ws : EndLoop(t)
    \/ \E a \in As : accept(a) \/ acceptEMFILE(a) \/ AcceptorStep(a)
    \/ \E w \in Ws : WorkerStep(w) \/ \E o \in Objects : handleClose(w, o)

Spec == Init /\ [][Next]_vars

(* A loop's thread is scheduled: what is queued is executed or dropped     *)
(* (EventLoop's QueueIsServed says that it leaves the queue), and a loop   *)
(* that has executed the closure of quit() ends.  Clients need not come or *)
(* go, stop() need not be called, and no closure need be dropped.          *)
Fairness ==
    /\ WF_vars(fault = None /\ MainStep)
    /\ \A t \in As \cup Ws : WF_vars(fault = None /\ EndLoop(t))
    /\ \A a \in As : WF_vars(fault = None /\ AcceptorStep(a))
    /\ \A w \in Ws : WF_vars(fault = None /\ WorkerStep(w))
FairSpec == Spec /\ Fairness

-----------------------------------------------------------------------------
(* The order in which the pools start and stop leaves three windows and no *)
(* other: until loop() has started every worker an accepted client may     *)
(* meet a null loop, once stop() has ended an acceptor a worker may report *)
(* to a loop that is gone, and stop() itself may write to the descriptor   *)
(* of the loop its closure has ended.  An acceptor never hands a client to *)
(* a worker that has ended.                                                *)
FaultsOnlyInWindow ==
    /\ fault = "nullLoop" => main.phase = "run"
    /\ fault = "deadAcceptor" => main.phase \in {"quit", "wake", "join"}
    /\ fault = "deadLoop" => main.phase = "join"
    /\ fault # "deadWorker"

(* A TcpConnection is never destroyed under an open connection or before   *)
(* its destruct closure has run, whichever closures the loops drop, but    *)
(* for two cases: the closure that inserts it into connects_ was dropped   *)
(* (Acceptor.cpp:59), or a pooled object was acquired again while its      *)
(* removal was still on the way, and the removal then hits the new         *)
(* connection.  A dropped removal or destruct closure costs no connection, *)
(* also not the next one that gets the object from the pool.               *)
InsertionLost == \E x \in lost : x.op = "insert"
DroppedOnlyAfterReuseOrLoss == fault = "dropped" => reused # {} \/ InsertionLost

(* Every client that was accepted gets its connection, also when stop()    *)
(* comes in between (the loops drain their queues, and the workers are     *)
(* stopped after the acceptors), and when its connection has closed its    *)
(* descriptor is closed too; unless a loop dropped the very closure that   *)
(* makes the connection, or one of the two that take it out of connects_:  *)
(* no other loss does it.                                                  *)
Closed(c) == c \in served /\ \A o \in Objects : ~(conn[o].open /\ conn[o].client = c)
Lost(op, c) == [op |-> op, of |-> c] \in lost
ClientsComplete ==
    \A c \in Clients :
        /\ (c \in fds) ~> (c \in served \/ fault # None \/ Lost("accept", c))
        /\ Closed(c) ~> (c \notin fds \/ fault # None \/ Lost("destruct", c) \/ Lost("remove", c))
=============================================================================
