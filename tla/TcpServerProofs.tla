-------------------------- MODULE TcpServerProofs --------------------------
(***************************************************************************)
(* Proofs about TcpServer, for any number of acceptors, workers, clients   *)
(* and dropped closures, pooled or not: the order in which the pools start *)
(* and stop confines the faults to its windows (FaultsOnlyInWindow), and a *)
(* connection in use is never destroyed unless its insertion was dropped   *)
(* or TcpConPool handed out an object with its removal on the way          *)
(* (DroppedOnlyAfterReuseOrLoss).                                          *)
(***************************************************************************)
EXTENDS TcpServer, Integers, TLAPS

-----------------------------------------------------------------------------
(* The invariants.                                                         *)

(* The main thread goes through the threads in order, twice: what it has   *)
(* passed is running (then gone), what is ahead is off (then running).     *)
Order == Acceptors \o Workers

Stage(k, state) ==
    /\ main.phase = "run"  => state = IF k < main.i THEN "running" ELSE "off"
    /\ main.phase = "up"   => state = "running"
    /\ main.phase = "quit" => state = IF k < main.i THEN "gone" ELSE "running"
    /\ main.phase \in {"wake", "join"} => /\ k < main.i => state = "gone"
                                          /\ k = main.i => state \in {"running", "quit", "gone"}
                                          /\ k > main.i => state = "running"
    /\ main.phase = "done" => state = "gone"

ThreadInv ==
    /\ main.i \in 1..Len(Order) /\ (main.phase = "up" => main.i = 1)
    /\ main.phase = "done" => main.i = Len(Order)
    /\ \A k \in 1..Len(Order) : Stage(k, thread[Order[k]])

(* An acceptor that does not run yet, or no more, is not inside            *)
(* NewConnection; the worker it has chosen has been started; and whoever   *)
(* got a client or a connection from it proves that it was started.        *)
AcceptorInv ==
    \A a \in As :
        /\ thread[a] \in {"off", "gone"} => apc[a] = "poll"
        /\ apc[a] # "poll" => hand[a].client \in Clients
        /\ apc[a] \in {"load", "store"} => hand[a].worker \in Ws /\ thread[hand[a].worker] # "off"
        /\ \A w \in Ws : given[w][a] # <<>> => thread[a] # "off"

ConnInv ==
    /\ \A o \in Objects :
          /\ conn[o].acceptor \in As => thread[conn[o].acceptor] # "off"
          /\ conn[o].open => conn[o].acceptor \in As
    /\ \A w \in Ws : \A i \in 1..Len(destructs[w]) : conn[destructs[w][i]].acceptor \in As

WindowInv == TypeOK /\ ThreadInv /\ (fault = None => AcceptorInv /\ ConnInv) /\ FaultsOnlyInWindow

(* A client is in one place: in a listening socket, in an acceptor's hand, *)
(* in a closure on its way to a worker, or served.                         *)
Waiting(c) == \E b \in backlog : b.client = c
Held(a, c) == apc[a] # "poll" /\ hand[a].client = c
Says(q, x) == \E i \in 1..Len(q) : q[i] = x
Once(q, x) == \A i, j \in 1..Len(q) : q[i] = x /\ q[j] = x => i = j

Queued(w, a, c) == Says(given[w][a], c)

Place(c) ==
    /\ \A x, y \in backlog : x.client = c /\ y.client = c => x = y
    /\ Waiting(c) => /\ \A a \in As : ~Held(a, c)
                     /\ \A a \in As, w \in Ws : ~Queued(w, a, c)
                     /\ c \notin served
    /\ \A a \in As : Held(a, c) => /\ \A b \in As : Held(b, c) => b = a
                                   /\ \A b \in As, w \in Ws : ~Queued(w, b, c)
                                   /\ c \notin served
    /\ \A a \in As, w \in Ws : Queued(w, a, c) =>
          /\ \A b \in As, v \in Ws : Queued(v, b, c) => b = a /\ v = w
          /\ c \notin served
    /\ \A a \in As, w \in Ws : Once(given[w][a], c)

PlaceInv == \A c \in Clients : Place(c)

(* One object: whatever mentions it comes from its connection's worker ... *)
Ins(o) == [op |-> "insert", conn |-> o]
Rem(o) == [op |-> "remove", conn |-> o]

AtHome(o) ==
    /\ \A a \in As, w \in Ws : Says(reports[a][w], Ins(o)) \/ Says(reports[a][w], Rem(o))
                                  => conn[o].worker = w
    /\ \A w \in Ws : Says(destructs[w], o) \/ Says(free[w], o) => conn[o].worker = w
    /\ conn[o].worker \in Ws => o \in served
    /\ conn[o].open => conn[o].worker \in Ws

Tidy(o) == \A w \in Ws : Once(destructs[w], o) /\ Once(free[w], o)

(* ... and it goes from open to closed with its destruct closure queued,   *)
(* to the removal on its way; until its destruct closure has run it is in  *)
(* connects_ or on its way there.  What a dropped closure leaves behind in *)
(* connects_ only keeps it longer.                                         *)
Leaving(o)  == \E w \in Ws : Says(destructs[w], o)
Removing(o) == \E a \in As, w \in Ws : Says(reports[a][w], Rem(o))
Kept(o)     == \E a \in As : o \in connects[a] \/ \E w \in Ws : Says(reports[a][w], Ins(o))

Phase(o) ==
    /\ conn[o].open => ~Leaving(o) /\ ~Removing(o) /\ \A w \in Ws : ~Says(free[w], o)
    /\ conn[o].open \/ Leaving(o) => Kept(o)
    /\ Removing(o) => ~Leaving(o)

Fine(o) == AtHome(o) /\ Tidy(o) /\ Phase(o)

ObjectInv == \A o \in Objects : Fine(o)

(* Neither of the two things that can take an object away has happened. *)
Undisturbed == reused = {} /\ ~InsertionLost

ReuseInv ==
    /\ WindowInv
    /\ fault = None => PlaceInv
    /\ fault = None /\ Undisturbed => ObjectInv
    /\ DroppedOnlyAfterReuseOrLoss

-----------------------------------------------------------------------------
(* Queues: what Head, Tail and Append do to the elements.                  *)

LEMMA TailPlaces ==
    ASSUME NEW S, NEW q \in Seq(S), q # <<>>
    PROVE  /\ Len(q) \in Nat /\ Len(q) > 0 /\ Tail(q) \in Seq(S) /\ Head(q) \in S
           /\ Len(Tail(q)) = Len(q) - 1 /\ Head(q) = q[1] /\ 1 \in 1..Len(q)
           /\ \A i \in 1..Len(Tail(q)) : i + 1 \in 1..Len(q) /\ Tail(q)[i] = q[i + 1]
           /\ \A i \in 2..Len(q) : i - 1 \in 1..Len(Tail(q)) /\ Tail(q)[i - 1] = q[i]
<1>1. Len(q) \in Nat /\ Len(q) > 0 /\ Tail(q) \in Seq(S) /\ Len(Tail(q)) = Len(q) - 1
  OBVIOUS
<1>2. Head(q) = q[1] /\ Head(q) \in S /\ 1 \in 1..Len(q)
  BY <1>1
<1>3. \A i \in 1..(Len(q) - 1) : Tail(q)[i] = q[i + 1]
  BY <1>1
<1>4. \A i \in 1..(Len(q) - 1) : i + 1 \in 1..Len(q)
  BY <1>1
<1>5. \A i \in 2..Len(q) : i - 1 \in 1..(Len(q) - 1) /\ (i - 1) + 1 = i
  BY <1>1
<1>6. \A i \in 2..Len(q) : Tail(q)[i - 1] = q[i]
  BY <1>3, <1>5
<1> QED
  BY <1>1, <1>2, <1>3, <1>4, <1>5, <1>6

LEMMA SaysTail ==
    ASSUME NEW S, NEW q \in Seq(S), q # <<>>, NEW x
    PROVE  /\ Says(q, x) <=> x = Head(q) \/ Says(Tail(q), x)
           /\ Once(q, x) => Once(Tail(q), x)
           /\ Once(q, x) /\ x = Head(q) => ~Says(Tail(q), x)
<1> DEFINE n == Len(q)
<1>1. /\ n \in Nat /\ n > 0 /\ Len(Tail(q)) = n - 1 /\ Head(q) = q[1] /\ 1 \in 1..n
      /\ \A i \in 1..Len(Tail(q)) : i + 1 \in 1..n /\ Tail(q)[i] = q[i + 1]
      /\ \A i \in 2..n : i - 1 \in 1..Len(Tail(q)) /\ Tail(q)[i - 1] = q[i]
  BY TailPlaces
<1>2. ASSUME Says(q, x), x # Head(q) PROVE Says(Tail(q), x)
  <2>1. PICK i \in 1..n : q[i] = x
    BY <1>2 DEF Says
  <2>2. i \in 2..n
    BY <1>1, <1>2, <2>1
  <2> QED
    BY <1>1, <2>1, <2>2 DEF Says
<1>3. ASSUME Says(Tail(q), x) PROVE Says(q, x)
  BY <1>1, <1>3 DEF Says
<1>4. x = Head(q) => Says(q, x)
  BY <1>1 DEF Says
<1>5. ASSUME Once(q, x) PROVE Once(Tail(q), x)
  <2> SUFFICES ASSUME NEW i \in 1..Len(Tail(q)), NEW j \in 1..Len(Tail(q)),
                      Tail(q)[i] = x, Tail(q)[j] = x
               PROVE  i = j
    BY DEF Once
  <2>1. i + 1 \in 1..n /\ j + 1 \in 1..n /\ q[i + 1] = x /\ q[j + 1] = x
    BY <1>1
  <2>2. i + 1 = j + 1
    BY <1>5, <2>1 DEF Once
  <2> QED
    BY <1>1, <2>2
<1>6. ASSUME Once(q, x), x = Head(q), Says(Tail(q), x) PROVE FALSE
  <2>1. PICK i \in 1..Len(Tail(q)) : Tail(q)[i] = x
    BY <1>6 DEF Says
  <2>2. i + 1 \in 1..n /\ q[i + 1] = x /\ q[1] = x
    BY <1>1, <1>6, <2>1
  <2>3. i + 1 = 1
    BY <1>1, <1>6, <2>2 DEF Once
  <2> QED
    BY <1>1, <2>1, <2>3
<1> QED
  BY <1>2, <1>3, <1>4, <1>5, <1>6

LEMMA AppendPlaces ==
    ASSUME NEW S, NEW q \in Seq(S), NEW y \in S
    PROVE  /\ Append(q, y) \in Seq(S) /\ Len(q) \in Nat /\ Len(Append(q, y)) = Len(q) + 1
           /\ Append(q, y)[Len(q) + 1] = y
           /\ \A i \in 1..Len(q) : i \in 1..Len(Append(q, y)) /\ Append(q, y)[i] = q[i]
           /\ \A i \in 1..Len(Append(q, y)) : i \in 1..Len(q) \/ i = Len(q) + 1
OBVIOUS

LEMMA SaysAppend ==
    ASSUME NEW S, NEW q \in Seq(S), NEW y \in S, NEW x
    PROVE  /\ Says(Append(q, y), x) <=> x = y \/ Says(q, x)
           /\ Once(q, x) /\ (x = y => ~Says(q, x)) => Once(Append(q, y), x)
<1> DEFINE n == Len(q)
           p == Append(q, y)
<1>1. /\ n \in Nat /\ Len(p) = n + 1 /\ p[n + 1] = y /\ n + 1 \in 1..Len(p)
      /\ \A i \in 1..n : i \in 1..Len(p) /\ p[i] = q[i]
      /\ \A i \in 1..Len(p) : i \in 1..n \/ i = n + 1
  BY AppendPlaces
<1> HIDE DEF n, p
<1>2. Says(p, x) <=> x = y \/ \E i \in 1..n : q[i] = x
  BY <1>1 DEF Says
<1>3. Says(q, x) <=> \E i \in 1..n : q[i] = x
  BY DEF Says, n
<1>4. ASSUME Once(q, x), x = y => ~Says(q, x)
      PROVE  Once(p, x)
  <2>1. \A i, j \in 1..n : q[i] = x /\ q[j] = x => i = j
    BY <1>4 DEF Once, n
  <2> QED
    BY <1>1, <1>3, <1>4, <2>1 DEF Once
<1> QED
  BY <1>2, <1>3, <1>4 DEF p

-----------------------------------------------------------------------------
(* The order of the threads.                                               *)

LEMMA OrderFacts ==
    /\ Len(Acceptors) \in Nat \ {0} /\ Len(Workers) \in Nat \ {0}
    /\ Len(Order) = Len(Acceptors) + Len(Workers)
    /\ \A k \in 1..Len(Order) : Order[k] \in As \cup Ws
    /\ \A a \in As : \E k \in 1..Len(Acceptors) : k \in 1..Len(Order) /\ Order[k] = a
    /\ \A w \in Ws : \E k \in 1..Len(Order) : k > Len(Acceptors) /\ Order[k] = w
    /\ \A i, j \in 1..Len(Order) : Order[i] = Order[j] => i = j
    /\ StartOrder = Order /\ StopOrder = Order
<1>1. Acceptors \in Seq(As) /\ Workers \in Seq(Ws) /\ Acceptors # <<>> /\ Workers # <<>>
  BY ServerAssumption
<1>2. Len(Acceptors) \in Nat \ {0} /\ Len(Workers) \in Nat \ {0}
  BY <1>1
<1>3. /\ Len(Order) = Len(Acceptors) + Len(Workers)
      /\ \A k \in 1..Len(Acceptors) : Order[k] = Acceptors[k]
      /\ \A k \in 1..Len(Workers) : Order[Len(Acceptors) + k] = Workers[k]
  BY <1>1, <1>2 DEF Order
<1>4. \A k \in 1..Len(Order) : Order[k] \in As \cup Ws
  <2> TAKE k \in 1..Len(Order)
  <2>1. CASE k \in 1..Len(Acceptors)
    BY <1>1, <1>3, <2>1
  <2>2. CASE k \notin 1..Len(Acceptors)
    <3>1. PICK j : j = k - Len(Acceptors)
      OBVIOUS
    <3>2. j \in 1..Len(Workers) /\ k = Len(Acceptors) + j
      BY <1>2, <1>3, <2>2, <3>1
    <3>3. Order[k] = Workers[j]
      BY <1>3, <3>2
    <3> QED
      BY <3>2, <3>3 DEF Ws
  <2> QED
    BY <2>1, <2>2
<1>5. \A a \in As : \E k \in 1..Len(Acceptors) : k \in 1..Len(Order) /\ Order[k] = a
  <2> TAKE a \in As
  <2>1. PICK k \in 1..Len(Acceptors) : Acceptors[k] = a
    BY DEF As
  <2>2. k \in 1..Len(Order) /\ Order[k] = a
    BY <1>2, <1>3, <2>1
  <2> QED
    BY <2>2
<1>6. \A w \in Ws : \E k \in 1..Len(Order) : k > Len(Acceptors) /\ Order[k] = w
  <2> TAKE w \in Ws
  <2>1. PICK j \in 1..Len(Workers) : Workers[j] = w
    BY DEF Ws
  <2>2. PICK k : k = Len(Acceptors) + j
    OBVIOUS
  <2>3. k \in 1..Len(Order) /\ k > Len(Acceptors) /\ Order[k] = w
    BY <1>2, <1>3, <2>1, <2>2
  <2> QED
    BY <2>3
<1>7. \A i, j \in 1..Len(Order) : Order[i] = Order[j] => i = j
  BY ServerAssumption DEF Order
<1> QED
  BY <1>2, <1>3, <1>4, <1>5, <1>6, <1>7 DEF StartOrder, StopOrder, Order

(* What the state of one thread says about the main thread and the others. *)
LEMMA Stages ==
    ASSUME TypeOK, ThreadInv
    PROVE  /\ \A t \in As \cup Ws : thread[t] = "off" => main.phase = "run"
           /\ \A t \in As \cup Ws : thread[t] = "gone" => main.phase \in {"quit", "wake", "join", "done"}
           /\ \A t \in As \cup Ws : main.phase = "done" => thread[t] = "gone"
           /\ \A w \in Ws, a \in As : thread[w] = "gone" => thread[a] = "gone"
<1>1. ASSUME NEW t \in As \cup Ws
      PROVE  \E k \in 1..Len(Order) : Order[k] = t
  BY OrderFacts
<1>2. ASSUME NEW w \in Ws, NEW a \in As, thread[w] = "gone"
      PROVE  thread[a] = "gone"
  <2>1. PICK k \in 1..Len(Order) : k > Len(Acceptors) /\ Order[k] = w
    BY OrderFacts
  <2>2. PICK j \in 1..Len(Acceptors) : j \in 1..Len(Order) /\ Order[j] = a
    BY OrderFacts
  <2>3. j < k /\ j \in Int /\ k \in Int /\ main.i \in Int
    BY <2>1, <2>2, OrderFacts DEF ThreadInv
  <2>4. Stage(k, "gone") /\ Stage(j, thread[a])
    BY <1>2, <2>1, <2>2 DEF ThreadInv
  <2>5. main.phase \in {"run", "up", "quit", "wake", "join", "done"}
    BY DEF TypeOK
  <2> QED
    BY <2>3, <2>4, <2>5 DEF Stage
<1>3. ASSUME NEW t \in As \cup Ws
      PROVE  /\ thread[t] = "off" => main.phase = "run"
             /\ thread[t] = "gone" => main.phase \in {"quit", "wake", "join", "done"}
             /\ main.phase = "done" => thread[t] = "gone"
  <2>1. PICK k \in 1..Len(Order) : Order[k] = t
    BY <1>1
  <2>2. Stage(k, thread[t]) /\ k \in Int /\ main.i \in Int
    BY <2>1 DEF ThreadInv
  <2>3. main.phase \in {"run", "up", "quit", "wake", "join", "done"}
    BY DEF TypeOK
  <2> QED
    BY <2>2, <2>3 DEF Stage
<1> QED
  BY <1>2, <1>3

-----------------------------------------------------------------------------
(* Types.                                                                  *)

LEMMA ReportType ==
    ASSUME TypeOK, NEW w \in Ws, NEW a, NEW r \in Messages, fault = None, Report(w, a, r)
    PROVE  reports' \in [As -> [Ws -> Seq(Messages)]] /\ fault' \in {None, "deadAcceptor"}
<1>1. CASE Alive(a)
  <2>1. reports' = [reports EXCEPT ![a][w] = Append(reports[a][w], r)] /\ fault' = fault
    BY <1>1 DEF Report
  <2>2. CASE a \in As
    <3>1. reports[a] \in [Ws -> Seq(Messages)] /\ reports[a][w] \in Seq(Messages)
      BY <2>2 DEF TypeOK
    <3>2. Append(reports[a][w], r) \in Seq(Messages)
      BY <3>1
    <3> QED
      BY <2>1, <2>2, <3>1, <3>2 DEF TypeOK
  <2>3. CASE a \notin As
    BY <2>1, <2>3 DEF TypeOK
  <2> QED
    BY <2>2, <2>3
<1>2. CASE ~Alive(a)
  BY <1>2 DEF Report, TypeOK
<1> QED
  BY <1>1, <1>2

LEMMA LoseType ==
    ASSUME TypeOK, NEW op, NEW x, [op |-> op, of |-> x] \in Closures, Lose(op, x)
    PROVE  lost' \subseteq Closures
BY DEF Lose, TypeOK

LEMMA TakeReportType ==
    ASSUME TypeOK, fault = None, NEW a \in As, NEW w \in Ws, NEW con \in [As -> SUBSET Objects],
           TakeReport(a, w, con), lost' \subseteq Closures
    PROVE  TypeOK'
<1>1. reports[a] \in [Ws -> Seq(Messages)] /\ reports[a][w] \in Seq(Messages) /\ reports[a][w] # <<>>
  BY DEF TakeReport, TypeOK
<1>2. Tail(reports[a][w]) \in Seq(Messages)
  BY <1>1
<1>3. /\ reports' = [reports EXCEPT ![a][w] = Tail(reports[a][w])] /\ connects' = con
      /\ fds' \subseteq fds /\ fault' \in {fault, "dropped"}
  BY DEF TakeReport, Unref
<1>4. reports' \in [As -> [Ws -> Seq(Messages)]]
  BY <1>1, <1>2, <1>3 DEF TypeOK
<1> QED
  BY <1>3, <1>4 DEF TakeReport, TypeOK, mainVars, accVars

(* What the closure at the head of a's queue says. *)
LEMMA HeadReport ==
    ASSUME TypeOK, NEW a \in As, NEW w \in Ws, reports[a][w] # <<>>
    PROVE  /\ Head(reports[a][w]) \in Messages /\ Head(reports[a][w]).conn \in Objects
           /\ Head(reports[a][w]).op \in {"insert", "remove"}
<1>1. reports[a][w] \in Seq(Messages)
  BY DEF TypeOK
<1>2. Head(reports[a][w]) \in Messages
  BY <1>1
<1> QED
  BY <1>2 DEF Messages

LEMMA TypeStep ==
    ASSUME TypeOK, fault = None => AcceptorInv, Next
    PROVE  TypeOK'
<1> DEFINE Phases == {"run", "up", "quit", "wake", "join", "done"}
<1>0. fault = None
  BY DEF Next
<1>m. main \in [phase : Phases, i : Nat] /\ main.phase \in Phases /\ main.i \in Nat
  BY DEF TypeOK
<1>1. CASE RunThread
  <2>1. main' \in [phase : Phases, i : Nat]
    BY <1>1, <1>m DEF RunThread
  <2> QED
    BY <1>1, <2>1 DEF RunThread, TypeOK, accVars, connVars
<1>2. CASE QuitThread
  <2>1. main' \in [phase : Phases, i : Nat]
    BY <1>2, <1>m DEF QuitThread
  <2> QED
    BY <1>2, <2>1 DEF QuitThread, TypeOK, accVars, connVars
<1>w. CASE WakeThread
  <2>1. main' \in [phase : Phases, i : Nat]
    BY <1>w, <1>m DEF WakeThread
  <2> QED
    BY <1>0, <1>w, <2>1 DEF WakeThread, TypeOK, accVars, connVars
<1>q. ASSUME NEW t \in As \cup Ws, LoseQuit(t)
      PROVE  TypeOK'
  <2>1. lost' \subseteq Closures
    BY <1>q, LoseType DEF LoseQuit, Closures
  <2> QED
    BY <1>q, <2>1 DEF LoseQuit, TypeOK, accVars, connVars
<1>3. CASE JoinThread
  <2>1. main' \in [phase : Phases, i : Nat]
    BY <1>3, <1>m DEF JoinThread
  <2> QED
    BY <1>3, <2>1 DEF JoinThread, TypeOK, accVars, connVars
<1>4. CASE stop
  BY <1>4 DEF stop, TypeOK, accVars, connVars
<1>5. ASSUME NEW t \in As \cup Ws, EndLoop(t)
      PROVE  TypeOK'
  BY <1>5 DEF EndLoop, TypeOK, accVars, connVars
<1>6. ASSUME NEW a \in As, accept(a)
      PROVE  TypeOK'
  <2>1. PICK b \in backlog : backlog' = backlog \ {b} /\ fds' = fds \cup {b.client}
                             /\ hand' = [hand EXCEPT ![a].client = b.client]
    BY <1>6 DEF accept
  <2>2. b.client \in Clients
    BY <2>1 DEF TypeOK
  <2>3. hand' \in [As -> Hands]
    <3>1. hand[a] \in Hands
      BY DEF TypeOK
    <3>2. [hand[a] EXCEPT !.client = b.client] \in Hands
      BY <2>2, <3>1 DEF Hands
    <3> QED
      BY <2>1, <3>2 DEF TypeOK
  <2> QED
    BY <1>6, <2>1, <2>2, <2>3 DEF accept, TypeOK, mainVars
<1>7. ASSUME NEW a \in As, acceptEMFILE(a)
      PROVE  TypeOK'
  BY <1>7 DEF acceptEMFILE, TypeOK, mainVars, accVars, connVars
<1>8. ASSUME NEW a \in As, getEventLoop(a)
      PROVE  TypeOK'
  <2>1. PICK w : w = Workers[nextId + 1]
    OBVIOUS
  <2>2. w \in Ws
    BY <2>1, OrderFacts DEF TypeOK, NextIds, Ws
  <2>3. hand' = [hand EXCEPT ![a].worker = w] /\ fault' \in {fault, "nullLoop"}
    BY <1>8, <2>1 DEF getEventLoop
  <2>4. hand' \in [As -> Hands]
    <3>1. hand[a] \in Hands
      BY DEF TypeOK
    <3>2. [hand[a] EXCEPT !.worker = w] \in Hands
      BY <2>2, <3>1 DEF Hands
    <3> QED
      BY <2>3, <3>2 DEF TypeOK
  <2> QED
    BY <1>0, <1>8, <2>3, <2>4 DEF getEventLoop, TypeOK, mainVars, connVars
<1>9. ASSUME NEW a \in As, LoadNextId(a)
      PROVE  TypeOK'
  <2>1. PICK n : n = (nextId + 1) % Len(Workers)
    OBVIOUS
  <2>2. n \in NextIds
    BY <2>1, OrderFacts DEF TypeOK, NextIds
  <2>3. hand' \in [As -> Hands]
    BY <1>9, <2>1, <2>2 DEF LoadNextId, TypeOK, Hands
  <2> QED
    BY <1>9, <2>3 DEF LoadNextId, TypeOK, mainVars, connVars
<1>10. ASSUME NEW a \in As, NewConnection(a)
       PROVE  TypeOK'
  <2>0. hand[a].client \in Clients
    BY <1>0, <1>10 DEF NewConnection, AcceptorInv
  <2>1. PICK w : w = hand[a].worker
    OBVIOUS
  <2>2. hand[a] \in Hands /\ hand[a].next \in NextIds
    BY DEF TypeOK, Hands
  <2>3. given' \in [Ws -> [As -> Seq(Clients)]] /\ fault' \in {fault, "deadWorker"}
    <3>1. CASE Alive(w) /\ w \in Ws
      <4>1. given' = [given EXCEPT ![w][a] = Append(given[w][a], hand[a].client)] /\ fault' = fault
        BY <1>10, <2>1, <3>1 DEF NewConnection
      <4>2. given[w] \in [As -> Seq(Clients)] /\ Append(given[w][a], hand[a].client) \in Seq(Clients)
        BY <2>0, <3>1 DEF TypeOK
      <4> QED
        BY <4>1, <4>2 DEF TypeOK
    <3>2. CASE ~Alive(w)
      BY <1>10, <2>1, <3>2 DEF NewConnection, TypeOK
    <3>3. CASE w \notin Ws
      BY <1>10, <2>1, <3>3 DEF NewConnection, TypeOK
    <3> QED
      BY <3>1, <3>2, <3>3
  <2> QED
    BY <1>0, <1>10, <2>2, <2>3 DEF NewConnection, TypeOK, mainVars, connVars
<1>11. ASSUME NEW a \in As, NEW w \in Ws, RunReport(a, w) \/ LoseReport(a, w)
       PROVE  TypeOK'
  <2>1. PICK r : r = Head(reports[a][w])
    OBVIOUS
  <2>2. r.conn \in Objects /\ r.op \in {"insert", "remove"}
    BY <1>11, <2>1, HeadReport DEF RunReport, LoseReport, TakeReport
  <2>3. CASE RunReport(a, w)
    <3>1. PICK con : con = [connects EXCEPT ![a] = IF r.op = "insert" THEN connects[a] \cup {r.conn}
                                                                     ELSE connects[a] \ {r.conn}]
      OBVIOUS
    <3>2. con \in [As -> SUBSET Objects]
      BY <2>2, <3>1 DEF TypeOK
    <3>3. TakeReport(a, w, con) /\ lost' = lost
      BY <2>1, <2>3, <3>1 DEF RunReport
    <3> QED
      BY <1>0, <3>2, <3>3, TakeReportType DEF TypeOK
  <2>4. CASE LoseReport(a, w)
    <3>1. TakeReport(a, w, connects) /\ Lose(r.op, r.conn)
      BY <2>1, <2>4 DEF LoseReport
    <3>2. lost' \subseteq Closures
      BY <2>2, <3>1, LoseType DEF Closures, Objects
    <3>3. connects \in [As -> SUBSET Objects]
      BY DEF TypeOK
    <3> QED
      BY <1>0, <3>1, <3>2, <3>3, TakeReportType
  <2> QED
    BY <1>11, <2>3, <2>4
<1>l. ASSUME NEW w \in Ws, NEW a \in As, LoseConnection(w, a)
      PROVE  TypeOK'
  <2>1. given[w] \in [As -> Seq(Clients)] /\ given[w][a] \in Seq(Clients) /\ given[w][a] # <<>>
    BY <1>l DEF LoseConnection, TypeOK
  <2>2. Head(given[w][a]) \in Clients /\ Tail(given[w][a]) \in Seq(Clients)
    BY <2>1
  <2>3. lost' \subseteq Closures
    BY <1>l, <2>2, LoseType DEF LoseConnection, Closures
  <2>4. given' \in [Ws -> [As -> Seq(Clients)]]
    BY <1>l, <2>1, <2>2 DEF LoseConnection, TypeOK
  <2> QED
    BY <1>l, <2>3, <2>4 DEF LoseConnection, TypeOK, mainVars, accVars, connVars
<1>d. ASSUME NEW w \in Ws, LoseDestruct(w)
      PROVE  TypeOK'
  <2>1. destructs[w] \in Seq(Objects) /\ destructs[w] # <<>>
    BY <1>d DEF LoseDestruct, TypeOK
  <2>2. Head(destructs[w]) \in Objects /\ Tail(destructs[w]) \in Seq(Objects)
    BY <2>1
  <2>3. lost' \subseteq Closures
    BY <1>d, <2>2, LoseType DEF LoseDestruct, Closures, Objects
  <2>4. destructs' \in [Ws -> Seq(Objects)]
    BY <1>d, <2>2 DEF LoseDestruct, TypeOK
  <2> QED
    BY <1>d, <2>3, <2>4 DEF LoseDestruct, TypeOK, mainVars, accVars
<1>12. ASSUME NEW w \in Ws, RunDestruct(w)
       PROVE  TypeOK'
  <2>1. PICK o : o = Head(destructs[w])
    OBVIOUS
  <2>2. destructs[w] \in Seq(Objects) /\ destructs[w] # <<>>
    BY <1>12 DEF RunDestruct, TypeOK
  <2>3. o \in Objects /\ Tail(destructs[w]) \in Seq(Objects)
    BY <2>1, <2>2
  <2>4. destructs' \in [Ws -> Seq(Objects)]
    BY <1>12, <2>3 DEF RunDestruct, TypeOK
  <2>5. PICK r : r = [op |-> "remove", conn |-> o]
    OBVIOUS
  <2>6. r \in Messages
    BY <2>3, <2>5 DEF Messages
  <2>7. \/ Report(w, conn[o].acceptor, r)
        \/ fault' = "dropped" /\ reports' = reports
    BY <1>12, <2>1, <2>5 DEF RunDestruct
  <2>8. reports' \in [As -> [Ws -> Seq(Messages)]] /\ fault' \in {None, "deadAcceptor", "dropped"}
    <3>1. CASE Report(w, conn[o].acceptor, r)
      BY <1>0, <2>6, <3>1, ReportType
    <3>2. CASE fault' = "dropped" /\ reports' = reports
      BY <3>2 DEF TypeOK
    <3> QED
      BY <2>7, <3>1, <3>2
  <2> QED
    BY <1>12, <2>4, <2>8 DEF RunDestruct, TypeOK, mainVars, accVars
<1>13. ASSUME NEW w \in Ws, NEW a \in As, MakeConnection(w, a)
       PROVE  TypeOK'
  <2>1. PICK c : c = Head(given[w][a])
    OBVIOUS
  <2>2. PICK o : o = Acquired(w, c)
    OBVIOUS
  <2>3. given[w] \in [As -> Seq(Clients)] /\ given[w][a] \in Seq(Clients) /\ given[w][a] # <<>>
    BY <1>13 DEF MakeConnection, TypeOK
  <2>4. c \in Clients /\ Tail(given[w][a]) \in Seq(Clients)
    BY <2>1, <2>3
  <2>5. free[w] \in Seq(Objects)
    BY DEF TypeOK
  <2>6. o \in Objects
    BY <2>2, <2>4, <2>5 DEF Acquired, Objects
  <2>7. /\ given' = [given EXCEPT ![w][a] = Tail(given[w][a])]
        /\ free' = [free EXCEPT ![w] = IF free[w] = <<>> THEN free[w] ELSE Tail(free[w])]
        /\ conn' = [conn EXCEPT ![o] = [client |-> c, worker |-> w, acceptor |-> a, open |-> TRUE]]
        /\ served' = served \cup {c} /\ reused' \in {reused, reused \cup {o}}
    BY <1>13, <2>1, <2>2 DEF MakeConnection
  <2>8. PICK r : r = [op |-> "insert", conn |-> o]
    OBVIOUS
  <2>9. Report(w, a, r) /\ r \in Messages
    BY <1>13, <2>1, <2>2, <2>6, <2>8 DEF MakeConnection, Messages
  <2>10. reports' \in [As -> [Ws -> Seq(Messages)]] /\ fault' \in {None, "deadAcceptor"}
    BY <1>0, <2>9, ReportType
  <2>11. given' \in [Ws -> [As -> Seq(Clients)]]
    BY <2>3, <2>4, <2>7 DEF TypeOK
  <2>12. free' \in [Ws -> Seq(Objects)]
    <3>1. (IF free[w] = <<>> THEN free[w] ELSE Tail(free[w])) \in Seq(Objects)
      BY <2>5
    <3> QED
      BY <2>7, <3>1 DEF TypeOK
  <2>13. conn' \in [Objects -> Connections]
    <3>1. [client |-> c, worker |-> w, acceptor |-> a, open |-> TRUE] \in Connections
      BY <2>4 DEF Connections
    <3> QED
      BY <2>7, <3>1 DEF TypeOK
  <2> QED
    BY <1>13, <2>4, <2>6, <2>7, <2>10, <2>11, <2>12, <2>13
       DEF MakeConnection, TypeOK, mainVars, accVars
<1>14. ASSUME NEW w \in Ws, NEW o \in Objects, handleClose(w, o)
       PROVE  TypeOK'
  <2>1. Append(destructs[w], o) \in Seq(Objects) /\ Append(free[w], o) \in Seq(Objects)
    BY DEF TypeOK
  <2>2. /\ destructs' = [destructs EXCEPT ![w] = Append(destructs[w], o)]
        /\ free' \in {free, [free EXCEPT ![w] = Append(free[w], o)]} /\ fds' \subseteq fds
    BY <1>14 DEF handleClose
  <2>3. destructs' \in [Ws -> Seq(Objects)] /\ free' \in [Ws -> Seq(Objects)]
    BY <2>1, <2>2 DEF TypeOK
  <2>4. conn' \in [Objects -> Connections]
    <3>1. conn[o] \in Connections
      BY DEF TypeOK
    <3>2. [conn[o] EXCEPT !.open = FALSE] \in Connections
      BY <3>1 DEF Connections
    <3>3. conn' = [conn EXCEPT ![o] = [conn[o] EXCEPT !.open = FALSE]]
      BY <1>14 DEF handleClose
    <3> QED
      BY <3>2, <3>3 DEF TypeOK
  <2> QED
    BY <1>14, <2>2, <2>3, <2>4 DEF handleClose, TypeOK, mainVars, accVars
<1> QED
  BY <1>0, <1>1, <1>2, <1>w, <1>3, <1>4, <1>q, <1>5, <1>6, <1>7, <1>8, <1>9, <1>10, <1>11, <1>l, <1>d,
     <1>12, <1>13, <1>14
     DEF Next, MainStep, LoopLoses, AcceptorStep, WorkerStep

-----------------------------------------------------------------------------
(* The order in which threads start and stop.                              *)

(* Only the main thread and the loop that ends touch it. *)
LEMMA OthersLeaveThreads ==
    ASSUME Next
    PROVE  \/ RunThread \/ QuitThread \/ WakeThread \/ JoinThread \/ stop
           \/ \E t \in As \cup Ws : EndLoop(t) \/ LoseQuit(t)
           \/ UNCHANGED mainVars
<1>1. ASSUME NEW a \in As, accept(a) \/ acceptEMFILE(a) \/ AcceptorStep(a)
      PROVE  UNCHANGED mainVars
  BY <1>1 DEF AcceptorStep, accept, acceptEMFILE, getEventLoop, LoadNextId, NewConnection,
              RunReport, TakeReport
<1>2. ASSUME NEW w \in Ws, WorkerStep(w) \/ \E o \in Objects : handleClose(w, o)
      PROVE  UNCHANGED mainVars
  BY <1>2 DEF WorkerStep, RunDestruct, MakeConnection, handleClose
<1>3. ASSUME NEW w \in Ws, \/ LoseDestruct(w)
                           \/ \E a \in As : LoseReport(a, w) \/ LoseConnection(w, a)
      PROVE  UNCHANGED mainVars
  BY <1>3 DEF LoseReport, TakeReport, LoseConnection, LoseDestruct
<1> QED
  BY <1>1, <1>2, <1>3 DEF Next, MainStep, LoopLoses

LEMMA ThreadStep ==
    ASSUME TypeOK, ThreadInv, Next
    PROVE  ThreadInv'
<1> DEFINE n == Len(Order)
<1>0. /\ main.i \in Int /\ main.i >= 1 /\ main.i <= n /\ n \in Nat
      /\ main.i \in 1..n
      /\ main.phase = "up" => main.i = 1
      /\ \A k \in 1..n : k \in Int
  BY OrderFacts DEF ThreadInv
<1>t. /\ main \in [phase : {"run", "up", "quit", "wake", "join", "done"}, i : Nat]
      /\ thread \in [As \cup Ws -> {"off", "running", "quit", "gone"}]
  BY DEF TypeOK
<1>s. \A k \in 1..n : Stage(k, thread[Order[k]])
  BY DEF ThreadInv
<1>p. PICK t \in As \cup Ws : t = Order[main.i]
  BY <1>0, OrderFacts
<1>o. \A k \in 1..n : /\ Order[k] \in As \cup Ws /\ (Order[k] = t <=> k = main.i)
  BY <1>0, <1>p, OrderFacts
<1>1. CASE RunThread
  <2>1. main.phase = "run" /\ thread' = [thread EXCEPT ![t] = "running"]
    BY <1>1, <1>p, OrderFacts DEF RunThread
  <2>2. \A k \in 1..n : /\ k = main.i => thread'[Order[k]] = "running"
                        /\ k # main.i => thread'[Order[k]] = thread[Order[k]]
    BY <1>o, <1>t, <2>1
  <2>3. \A k \in 1..n : /\ k < main.i + 1 => thread'[Order[k]] = "running"
                        /\ k >= main.i + 1 => thread'[Order[k]] = "off"
    BY <1>0, <1>s, <2>1, <2>2 DEF Stage
  <2>4. CASE main.i = n
    <3>1. main' = [phase |-> "up", i |-> 1]
      BY <1>1, <2>4, OrderFacts DEF RunThread
    <3>2. \A k \in 1..n : thread'[Order[k]] = "running"
      BY <1>0, <2>3, <2>4
    <3> QED
      BY <1>0, <3>1, <3>2 DEF ThreadInv, Stage
  <2>5. CASE main.i # n
    <3>1. main' = [main EXCEPT !.i = main.i + 1]
      BY <1>1, <2>5, OrderFacts DEF RunThread
    <3>2. main'.phase = "run" /\ main'.i = main.i + 1 /\ main'.i \in 1..n
      BY <1>0, <1>t, <2>1, <2>5, <3>1
    <3> QED
      BY <1>0, <2>3, <3>2 DEF ThreadInv, Stage
  <2> QED
    BY <2>4, <2>5
<1>2. CASE QuitThread
  <2>1. main.phase = "quit" /\ thread' = [thread EXCEPT ![t] = "quit"]
    BY <1>2, <1>p, OrderFacts DEF QuitThread
  <2>2. \A k \in 1..n : /\ k = main.i => thread'[Order[k]] = "quit"
                        /\ k # main.i => thread'[Order[k]] = thread[Order[k]]
    BY <1>o, <1>t, <2>1
  <2>3. main'.phase = "wake" /\ main'.i = main.i
    BY <1>2, <1>t DEF QuitThread
  <2> QED
    BY <1>0, <1>s, <2>1, <2>2, <2>3 DEF ThreadInv, Stage
<1>w. CASE WakeThread
  <2>1. main.phase = "wake" /\ thread' = thread /\ main'.phase = "join" /\ main'.i = main.i
    BY <1>w, <1>t DEF WakeThread
  <2> QED
    BY <1>0, <1>s, <2>1 DEF ThreadInv, Stage
<1>3. CASE JoinThread
  <2>1. main.phase = "join" /\ thread' = thread /\ thread[t] = "gone"
    BY <1>3, <1>p, OrderFacts DEF JoinThread
  <2>2. \A k \in 1..n : /\ k < main.i + 1 => thread'[Order[k]] = "gone"
                        /\ k >= main.i + 1 => thread'[Order[k]] = "running"
    BY <1>0, <1>s, <1>p, <2>1 DEF Stage
  <2>3. CASE main.i = n
    <3>1. main'.phase = "done" /\ main'.i = n
      BY <1>3, <1>t, <2>3, OrderFacts DEF JoinThread
    <3>2. \A k \in 1..n : thread'[Order[k]] = "gone"
      BY <1>0, <2>2, <2>3
    <3> QED
      BY <1>0, <2>3, <3>1, <3>2 DEF ThreadInv, Stage
  <2>4. CASE main.i # n
    <3>1. main'.phase = "quit" /\ main'.i = main.i + 1
      BY <1>3, <2>4, OrderFacts DEF JoinThread
    <3>2. main'.i \in 1..n
      BY <1>0, <2>4, <3>1
    <3> QED
      BY <1>0, <2>2, <3>1, <3>2 DEF ThreadInv, Stage
  <2> QED
    BY <2>3, <2>4
<1>4. CASE stop
  <2>1. main.phase = "up" /\ thread' = thread /\ main'.phase = "quit" /\ main'.i = 1
    BY <1>0, <1>4, <1>t DEF stop
  <2>2. \A k \in 1..n : thread'[Order[k]] = "running"
    BY <1>s, <2>1 DEF Stage
  <2> QED
    BY <1>0, <2>1, <2>2 DEF ThreadInv, Stage
<1>5. ASSUME NEW u \in As \cup Ws, EndLoop(u) \/ LoseQuit(u)
      PROVE  ThreadInv'
  <2>1. PICK y \in {"gone", "running"} :
           thread[u] = "quit" /\ thread' = [thread EXCEPT ![u] = y] /\ main' = main
    BY <1>5 DEF EndLoop, LoseQuit
  <2>2. \A k \in 1..n : \/ thread'[Order[k]] = thread[Order[k]]
                        \/ thread[Order[k]] = "quit" /\ thread'[Order[k]] = y
    BY <1>o, <1>t, <2>1
  <2>3. main.phase \in {"run", "up", "quit", "wake", "join", "done"}
    BY <1>t
  <2>4. ASSUME NEW k \in 1..n
        PROVE  Stage(k, thread'[Order[k]])
    <3>1. Stage(k, thread[Order[k]]) /\ k \in Int
      BY <1>0, <1>s
    <3>2. CASE thread'[Order[k]] = thread[Order[k]]
      BY <3>1, <3>2
    <3>3. CASE thread[Order[k]] = "quit" /\ thread'[Order[k]] = y
      BY <1>0, <2>1, <2>3, <3>1, <3>3 DEF Stage
    <3> QED
      BY <2>2, <3>2, <3>3
  <2>5. main'.i \in 1..n /\ (main'.phase = "up" => main'.i = 1) /\ (main'.phase = "done" => main'.i = n)
    BY <2>1 DEF ThreadInv
  <2> QED
    BY <2>1, <2>4, <2>5 DEF ThreadInv, Stage
<1>6. CASE UNCHANGED mainVars
  BY <1>6 DEF ThreadInv, Stage, mainVars
<1> QED
  BY <1>1, <1>2, <1>w, <1>3, <1>4, <1>5, <1>6, OthersLeaveThreads

(* A thread that was started stays started, and ends with nothing queued. *)
LEMMA StartedStays ==
    ASSUME TypeOK, ThreadInv, Next, NEW t \in As \cup Ws
    PROVE  /\ thread[t] # "off" => thread'[t] # "off"
           /\ thread'[t] = "gone" => thread[t] = "gone" \/ Drained(t)
<1>0. thread \in [As \cup Ws -> {"off", "running", "quit", "gone"}]
  BY DEF TypeOK
<1>1. CASE RunThread
  BY <1>0, <1>1 DEF RunThread
<1>2. CASE QuitThread
  BY <1>0, <1>2 DEF QuitThread
<1>3. CASE WakeThread \/ JoinThread \/ stop \/ UNCHANGED mainVars
  BY <1>3 DEF WakeThread, JoinThread, stop, mainVars
<1>4. ASSUME NEW u \in As \cup Ws, EndLoop(u) \/ LoseQuit(u)
      PROVE  /\ thread[t] # "off" => thread'[t] # "off"
             /\ thread'[t] = "gone" => thread[t] = "gone" \/ Drained(t)
  BY <1>0, <1>4 DEF EndLoop, LoseQuit
<1> QED
  BY <1>1, <1>2, <1>3, <1>4, OthersLeaveThreads

(* What the acceptors know of the threads. *)
LEMMA AcceptorStepInv ==
    ASSUME TypeOK, ThreadInv, AcceptorInv, Next, fault' = None
    PROVE  AcceptorInv'
<1>1. ASSUME UNCHANGED <<apc, hand, given>>
      PROVE  AcceptorInv'
  <2> SUFFICES ASSUME NEW a \in As
               PROVE  /\ thread'[a] \in {"off", "gone"} => apc[a] = "poll"
                      /\ apc[a] \in {"load", "store"} => thread'[hand[a].worker] # "off"
                      /\ \A w \in Ws : given[w][a] # <<>> => thread'[a] # "off"
    BY <1>1 DEF AcceptorInv
  <2>1. thread'[a] \in {"off", "gone"} => apc[a] = "poll"
    BY StartedStays DEF AcceptorInv, Drained
  <2>2. apc[a] \in {"load", "store"} => thread'[hand[a].worker] # "off"
    BY StartedStays DEF AcceptorInv
  <2>3. \A w \in Ws : given[w][a] # <<>> => thread'[a] # "off"
    BY StartedStays DEF AcceptorInv
  <2> QED
    BY <2>1, <2>2, <2>3
<1>2. ASSUME NEW a \in As, accept(a)
      PROVE  AcceptorInv'
  <2>1. PICK b \in backlog : hand' = [hand EXCEPT ![a].client = b.client]
    BY <1>2 DEF accept
  <2>2. /\ apc' = [apc EXCEPT ![a] = "pick"] /\ thread' = thread /\ given' = given
        /\ thread[a] \in {"running", "quit"} /\ b.client \in Clients
    BY <1>2, <2>1 DEF accept, Alive, mainVars, TypeOK
  <2>3. /\ hand'[a].client = b.client /\ apc'[a] = "pick"
        /\ \A c \in As : c # a => hand'[c] = hand[c] /\ apc'[c] = apc[c]
    BY <2>1, <2>2 DEF TypeOK, Hands
  <2> QED
    BY <2>2, <2>3 DEF AcceptorInv
<1>3. ASSUME NEW a \in As, getEventLoop(a)
      PROVE  AcceptorInv'
  <2>1. PICK w : w = Workers[nextId + 1]
    OBVIOUS
  <2>2. w \in Ws
    BY <2>1, OrderFacts DEF TypeOK, NextIds, Ws
  <2>3. thread[w] # "off"
    BY <1>3, <2>1 DEF getEventLoop, None
  <2>4. /\ apc[a] = "pick" /\ apc' = [apc EXCEPT ![a] = "load"] /\ thread' = thread
        /\ given' = given /\ hand' = [hand EXCEPT ![a].worker = w]
    BY <1>3, <2>1 DEF getEventLoop, mainVars
  <2>5. /\ hand'[a].client = hand[a].client /\ hand'[a].worker = w /\ apc'[a] = "load"
        /\ \A c \in As : c # a => hand'[c] = hand[c] /\ apc'[c] = apc[c]
    BY <2>4 DEF TypeOK, Hands
  <2> QED
    BY <2>2, <2>3, <2>4, <2>5 DEF AcceptorInv
<1>4. ASSUME NEW a \in As, LoadNextId(a)
      PROVE  AcceptorInv'
  <2>1. PICK n : n = (nextId + 1) % Len(Workers)
    OBVIOUS
  <2>2. /\ apc[a] = "load" /\ apc' = [apc EXCEPT ![a] = "store"] /\ thread' = thread
        /\ given' = given /\ hand' = [hand EXCEPT ![a].next = n]
    BY <1>4, <2>1 DEF LoadNextId, mainVars
  <2>3. /\ hand'[a].client = hand[a].client /\ hand'[a].worker = hand[a].worker /\ apc'[a] = "store"
        /\ \A c \in As : c # a => hand'[c] = hand[c] /\ apc'[c] = apc[c]
    BY <2>2 DEF TypeOK, Hands
  <2> QED
    BY <2>2, <2>3 DEF AcceptorInv
<1>5. ASSUME NEW a \in As, NewConnection(a)
      PROVE  AcceptorInv'
  <2>1. /\ apc[a] = "store" /\ apc' = [apc EXCEPT ![a] = "poll"] /\ thread' = thread /\ hand' = hand
        /\ thread[a] # "off"
    BY <1>5 DEF NewConnection, mainVars, AcceptorInv
  <2>2. PICK w : w = hand[a].worker
    OBVIOUS
  <2>3. given' = [given EXCEPT ![w][a] = Append(given[w][a], hand[a].client)] \/ given' = given
    BY <1>5, <2>2 DEF NewConnection
  <2>4. \A v \in Ws, c \in As : c # a => given'[v][c] = given[v][c]
    <3>1. \A v \in Ws : given[v] \in [As -> Seq(Clients)]
      BY DEF TypeOK
    <3>2. CASE given' = given
      BY <3>2
    <3>3. CASE given' = [given EXCEPT ![w] = [given[w] EXCEPT ![a] = Append(given[w][a], hand[a].client)]]
      BY <3>1, <3>3 DEF TypeOK
    <3> QED
      BY <2>3, <3>2, <3>3
  <2>5. apc'[a] = "poll" /\ \A c \in As : c # a => apc'[c] = apc[c]
    BY <2>1 DEF TypeOK
  <2> QED
    BY <2>1, <2>4, <2>5 DEF AcceptorInv
<1>6. ASSUME NEW w \in Ws, NEW a \in As, MakeConnection(w, a) \/ LoseConnection(w, a)
      PROVE  AcceptorInv'
  <2>1. /\ thread' = thread /\ apc' = apc /\ hand' = hand /\ given[w][a] # <<>>
        /\ given' = [given EXCEPT ![w][a] = Tail(given[w][a])]
    BY <1>6 DEF MakeConnection, LoseConnection, mainVars, accVars
  <2>2. \A v \in Ws, c \in As : given'[v][c] = given[v][c] \/ (v = w /\ c = a)
    BY <2>1 DEF TypeOK
  <2> QED
    BY <2>1, <2>2 DEF AcceptorInv
<1>7. ASSUME \/ RunThread \/ QuitThread \/ WakeThread \/ JoinThread \/ stop
             \/ \E t \in As \cup Ws : EndLoop(t) \/ LoseQuit(t)
      PROVE  UNCHANGED <<apc, hand, given>>
  BY <1>7 DEF RunThread, QuitThread, WakeThread, JoinThread, stop, EndLoop, LoseQuit, accVars
<1>8. ASSUME NEW a \in As, acceptEMFILE(a) \/ \E w \in Ws : RunReport(a, w) \/ LoseReport(a, w)
      PROVE  UNCHANGED <<apc, hand, given>>
  BY <1>8 DEF acceptEMFILE, RunReport, LoseReport, TakeReport, accVars
<1>9. ASSUME NEW w \in Ws, RunDestruct(w) \/ LoseDestruct(w) \/ \E o \in Objects : handleClose(w, o)
      PROVE  UNCHANGED <<apc, hand, given>>
  BY <1>9 DEF RunDestruct, LoseDestruct, handleClose, accVars
<1> QED
  BY <1>1, <1>2, <1>3, <1>4, <1>5, <1>6, <1>7, <1>8, <1>9
     DEF Next, MainStep, LoopLoses, AcceptorStep, WorkerStep

(* What the connections know of the threads. *)
LEMMA ConnStepInv ==
    ASSUME TypeOK, ThreadInv, AcceptorInv, ConnInv, Next, fault' = None
    PROVE  ConnInv'
<1>0. conn \in [Objects -> Connections] /\ destructs \in [Ws -> Seq(Objects)]
  BY DEF TypeOK
<1>1. ASSUME UNCHANGED <<conn, destructs>>
      PROVE  ConnInv'
  BY <1>1, StartedStays DEF ConnInv
<1>2. ASSUME NEW w \in Ws, NEW a \in As, MakeConnection(w, a)
      PROVE  ConnInv'
  <2>1. PICK o, c : conn' = [conn EXCEPT ![o] = [client |-> c, worker |-> w, acceptor |-> a, open |-> TRUE]]
    BY <1>2 DEF MakeConnection
  <2>2. thread' = thread /\ destructs' = destructs /\ thread[a] # "off"
    BY <1>2 DEF MakeConnection, mainVars, AcceptorInv
  <2>3. \A p \in Objects : \/ conn'[p] = conn[p]
                           \/ conn'[p].acceptor = a
    BY <1>0, <2>1
  <2>4. \A p \in Objects : /\ conn'[p].acceptor \in As => thread'[conn'[p].acceptor] # "off"
                           /\ conn'[p].open => conn'[p].acceptor \in As
    BY <2>2, <2>3 DEF ConnInv
  <2>5. ASSUME NEW v \in Ws, NEW i \in 1..Len(destructs'[v])
        PROVE  conn'[destructs'[v][i]].acceptor \in As
    <3>1. destructs[v][i] \in Objects /\ conn[destructs[v][i]].acceptor \in As
      BY <1>0, <2>2, <2>5 DEF ConnInv
    <3> QED
      BY <2>2, <2>3, <3>1
  <2> QED
    BY <2>4, <2>5 DEF ConnInv
<1>3. ASSUME NEW w \in Ws, NEW o \in Objects, handleClose(w, o)
      PROVE  ConnInv'
  <2>1. /\ conn' = [conn EXCEPT ![o].open = FALSE] /\ thread' = thread /\ conn[o].open
        /\ destructs' = [destructs EXCEPT ![w] = Append(destructs[w], o)]
    BY <1>3 DEF handleClose, mainVars
  <2>2. \A p \in Objects : /\ conn'[p].acceptor = conn[p].acceptor
                           /\ conn'[p].open => conn[p].open
    BY <1>0, <2>1 DEF Connections
  <2>3. ASSUME NEW v \in Ws, NEW i \in 1..Len(destructs'[v])
        PROVE  conn'[destructs'[v][i]].acceptor \in As
    <3>1. \/ destructs'[v][i] = o
          \/ i \in 1..Len(destructs[v]) /\ destructs'[v][i] = destructs[v][i]
      BY <1>0, <2>1
    <3>2. conn[o].acceptor \in As
      BY <2>1 DEF ConnInv
    <3>3. i \in 1..Len(destructs[v]) => destructs[v][i] \in Objects /\ conn[destructs[v][i]].acceptor \in As
      BY <1>0 DEF ConnInv
    <3> QED
      BY <2>2, <3>1, <3>2, <3>3
  <2> QED
    BY <2>1, <2>2, <2>3 DEF ConnInv
<1>4. ASSUME NEW w \in Ws, RunDestruct(w) \/ LoseDestruct(w)
      PROVE  ConnInv'
  <2>1. /\ conn' = conn /\ thread' = thread /\ destructs[w] # <<>>
        /\ destructs' = [destructs EXCEPT ![w] = Tail(destructs[w])]
    BY <1>4 DEF RunDestruct, LoseDestruct, mainVars
  <2>2. ASSUME NEW v \in Ws, NEW i \in 1..Len(destructs'[v])
        PROVE  \E j \in 1..Len(destructs[v]) : destructs'[v][i] = destructs[v][j]
    <3>1. CASE v = w
      <4>1. destructs[w] \in Seq(Objects) /\ destructs'[w] = Tail(destructs[w])
        BY <1>0, <2>1
      <4>2. i \in 1..Len(Tail(destructs[w]))
        BY <2>2, <3>1, <4>1
      <4>3. PICK q \in Seq(Objects) : q = destructs[w] /\ q # <<>>
        BY <2>1, <4>1
      <4>4. \A k \in 1..Len(Tail(q)) : k + 1 \in 1..Len(q) /\ Tail(q)[k] = q[k + 1]
        BY <4>3, TailPlaces
      <4>5. i + 1 \in 1..Len(destructs[w]) /\ destructs'[w][i] = destructs[w][i + 1]
        BY <4>1, <4>2, <4>3, <4>4
      <4> QED
        BY <3>1, <4>5
    <3>2. CASE v # w
      BY <1>0, <2>1, <3>2
    <3> QED
      BY <3>1, <3>2
  <2> QED
    BY <2>1, <2>2 DEF ConnInv
<1>5. ASSUME \/ RunThread \/ QuitThread \/ WakeThread \/ JoinThread \/ stop
             \/ \E t \in As \cup Ws : EndLoop(t) \/ LoseQuit(t)
      PROVE  UNCHANGED <<conn, destructs>>
  BY <1>5 DEF RunThread, QuitThread, WakeThread, JoinThread, stop, EndLoop, LoseQuit, connVars
<1>6. ASSUME NEW a \in As, accept(a) \/ acceptEMFILE(a) \/ AcceptorStep(a)
      PROVE  UNCHANGED <<conn, destructs>>
  BY <1>6 DEF AcceptorStep, accept, acceptEMFILE, getEventLoop, LoadNextId, NewConnection,
              RunReport, TakeReport, connVars
<1>7. ASSUME NEW a \in As, NEW w \in Ws, LoseReport(a, w) \/ LoseConnection(w, a)
      PROVE  UNCHANGED <<conn, destructs>>
  BY <1>7 DEF LoseReport, TakeReport, LoseConnection, connVars
<1> QED
  BY <1>1, <1>2, <1>3, <1>4, <1>5, <1>6, <1>7 DEF Next, MainStep, LoopLoses, WorkerStep

(* A report goes to an acceptor that was started, from a worker that is    *)
(* alive: only the end of the acceptor can be in its way.                  *)
LEMMA ReportFault ==
    ASSUME TypeOK, ThreadInv, NEW w \in Ws, Alive(w), NEW a \in As, thread[a] # "off",
           NEW r, Report(w, a, r)
    PROVE  fault' = fault \/ (fault' = "deadAcceptor" /\ main.phase \in {"quit", "wake", "join"})
<1>1. CASE Alive(a)
  BY <1>1 DEF Report
<1>2. CASE ~Alive(a)
  <2>1. thread[a] = "gone" /\ fault' = "deadAcceptor"
    BY <1>2 DEF Alive, Report, TypeOK
  <2>2. main.phase # "done"
    BY Stages DEF Alive
  <2> QED
    BY <2>1, <2>2, Stages
<1> QED
  BY <1>1, <1>2

LEMMA WindowStep ==
    ASSUME TypeOK, ThreadInv, AcceptorInv, ConnInv, Next
    PROVE  FaultsOnlyInWindow'
<1>0. fault = None
  BY DEF Next
<1>1. ASSUME fault' \in {None, "exit", "dropped"}
      PROVE  FaultsOnlyInWindow'
  BY <1>1 DEF FaultsOnlyInWindow, None
<1>2. ASSUME NEW a \in As, getEventLoop(a)
      PROVE  FaultsOnlyInWindow'
  <2>1. Workers[nextId + 1] \in Ws
    BY OrderFacts DEF TypeOK, NextIds, Ws
  <2>2. main' = main /\ (fault' = fault \/ (fault' = "nullLoop" /\ thread[Workers[nextId + 1]] = "off"))
    BY <1>2 DEF getEventLoop, mainVars
  <2> QED
    BY <1>0, <2>1, <2>2, Stages DEF FaultsOnlyInWindow, None
<1>3. ASSUME NEW a \in As, NewConnection(a)
      PROVE  FaultsOnlyInWindow'
  <2>1. /\ apc[a] = "store" /\ hand[a].worker \in Ws /\ thread[hand[a].worker] # "off"
    BY <1>3 DEF NewConnection, AcceptorInv
  <2>2. thread[hand[a].worker] # "gone"
    BY <2>1, Stages DEF AcceptorInv
  <2>3. Alive(hand[a].worker)
    BY <2>1, <2>2 DEF Alive, TypeOK
  <2>4. fault' = None
    BY <1>0, <1>3, <2>3 DEF NewConnection
  <2> QED
    BY <1>1, <2>4
<1>4. ASSUME NEW w \in Ws, RunDestruct(w)
      PROVE  FaultsOnlyInWindow'
  <2>1. PICK o : o = Head(destructs[w])
    OBVIOUS
  <2>2. destructs[w] \in Seq(Objects) /\ destructs[w] # <<>> /\ main' = main /\ Alive(w)
    BY <1>4 DEF RunDestruct, TypeOK, mainVars
  <2>3. o = destructs[w][1] /\ o \in Objects /\ 1 \in 1..Len(destructs[w])
    BY <2>1, <2>2
  <2>4. conn[o].acceptor \in As /\ thread[conn[o].acceptor] # "off"
    BY <2>3 DEF ConnInv
  <2>5. CASE fault' = "dropped"
    BY <1>1, <2>5
  <2>6. CASE Report(w, conn[o].acceptor, [op |-> "remove", conn |-> o])
    BY <1>0, <2>2, <2>4, <2>6, ReportFault DEF FaultsOnlyInWindow, None
  <2> QED
    BY <1>4, <2>1, <2>5, <2>6 DEF RunDestruct
<1>5. ASSUME NEW w \in Ws, NEW a \in As, MakeConnection(w, a)
      PROVE  FaultsOnlyInWindow'
  <2>1. /\ thread[a] # "off" /\ main' = main /\ Alive(w)
        /\ \E r : Report(w, a, r)
    BY <1>5 DEF MakeConnection, AcceptorInv, mainVars
  <2> QED
    BY <1>0, <2>1, ReportFault DEF FaultsOnlyInWindow, None
<1>w. ASSUME WakeThread
      PROVE  FaultsOnlyInWindow'
  <2>1. main'.phase = "join" /\ fault' \in {None, "deadLoop"}
    BY <1>0, <1>w DEF WakeThread, TypeOK
  <2> QED
    BY <2>1 DEF FaultsOnlyInWindow, None
<1>6. ASSUME \/ RunThread \/ QuitThread \/ JoinThread \/ stop
             \/ \E t \in As \cup Ws : EndLoop(t) \/ LoseQuit(t)
      PROVE  fault' = fault
  BY <1>6 DEF RunThread, QuitThread, JoinThread, stop, EndLoop, LoseQuit
<1>7. ASSUME NEW a \in As, \/ accept(a) \/ acceptEMFILE(a) \/ LoadNextId(a)
                           \/ \E w \in Ws : RunReport(a, w) \/ LoseReport(a, w)
      PROVE  fault' \in {fault, "exit", "dropped"}
  BY <1>7 DEF accept, acceptEMFILE, LoadNextId, RunReport, LoseReport, TakeReport, Unref
<1>8. ASSUME NEW w \in Ws, \/ LoseDestruct(w) \/ \E a \in As : LoseConnection(w, a)
                           \/ \E o \in Objects : handleClose(w, o)
      PROVE  fault' = fault
  BY <1>8 DEF handleClose, LoseDestruct, LoseConnection
<1> QED
  BY <1>0, <1>1, <1>2, <1>3, <1>4, <1>5, <1>w, <1>6, <1>7, <1>8
     DEF Next, MainStep, LoopLoses, AcceptorStep, WorkerStep

LEMMA WindowInvariant == Spec => []WindowInv
<1>1. Init => WindowInv
  <2> SUFFICES ASSUME Init PROVE WindowInv
    OBVIOUS
  <2>1. TypeOK
    BY ServerAssumption, OrderFacts
       DEF Init, TypeOK, Hands, NextIds, Connections, NoConn, None
  <2>2. ThreadInv
    <3>1. \A k \in 1..Len(Order) : thread[Order[k]] = "off" /\ ~(k < 1)
      BY OrderFacts DEF Init
    <3> QED
      BY <3>1, OrderFacts DEF Init, ThreadInv, Stage
  <2>3. AcceptorInv
    BY DEF Init, AcceptorInv
  <2>4. ConnInv
    BY ServerAssumption DEF Init, ConnInv, NoConn
  <2>5. FaultsOnlyInWindow
    BY DEF Init, FaultsOnlyInWindow, None
  <2> QED
    BY <2>1, <2>2, <2>3, <2>4, <2>5 DEF WindowInv
<1>2. WindowInv /\ [Next]_vars => WindowInv'
  <2> SUFFICES ASSUME WindowInv, [Next]_vars
               PROVE  WindowInv'
    OBVIOUS
  <2>1. CASE Next
    <3>1. fault = None /\ TypeOK /\ ThreadInv /\ AcceptorInv /\ ConnInv
      BY <2>1 DEF Next, WindowInv
    <3> QED
      BY <2>1, <3>1, TypeStep, ThreadStep, AcceptorStepInv, ConnStepInv, WindowStep DEF WindowInv
  <2>2. CASE UNCHANGED vars
    BY <2>2 DEF WindowInv, TypeOK, ThreadInv, Stage, AcceptorInv, ConnInv, FaultsOnlyInWindow,
                vars, mainVars, accVars, connVars
  <2> QED
    BY <2>1, <2>2
<1> QED
  BY <1>1, <1>2, PTL DEF Spec

-----------------------------------------------------------------------------
(* A client is in one place.                                               *)

LEMMA PlaceStep ==
    ASSUME TypeOK, ThreadInv, AcceptorInv, PlaceInv, Next, fault' = None
    PROVE  PlaceInv'
<1>0. fault = None /\ given \in [Ws -> [As -> Seq(Clients)]] /\ apc \in [As -> {"poll", "pick", "load", "store"}]
      /\ hand \in [As -> Hands]
  BY DEF Next, TypeOK
<1>1. ASSUME UNCHANGED <<backlog, apc, hand, given, served>>
      PROVE  PlaceInv'
  BY <1>1 DEF PlaceInv, Place, Waiting, Held, Queued
<1>2. ASSUME NEW a \in As, accept(a)
      PROVE  PlaceInv'
  <2>1. PICK b \in backlog : backlog' = backlog \ {b} /\ hand' = [hand EXCEPT ![a].client = b.client]
    BY <1>2 DEF accept
  <2>2. /\ apc[a] = "poll" /\ apc' = [apc EXCEPT ![a] = "pick"] /\ given' = given /\ served' = served
    BY <1>2 DEF accept
  <2>3. /\ apc'[a] = "pick" /\ hand'[a].client = b.client
        /\ \A x \in As : x # a => apc'[x] = apc[x] /\ hand'[x] = hand[x]
    BY <1>0, <2>1, <2>2 DEF Hands
  <2> SUFFICES ASSUME NEW c \in Clients
               PROVE  Place(c)'
    BY DEF PlaceInv
  <2>4. Place(c) /\ Place(b.client)
    BY <2>1 DEF PlaceInv, TypeOK
  <2>5. \A x \in As : Held(x, c)' <=> Held(x, c) \/ (x = a /\ c = b.client)
    BY <2>2, <2>3 DEF Held
  <2>6. ~Held(a, c)
    BY <2>2 DEF Held
  <2>7. Waiting(c)' => Waiting(c) /\ c # b.client
    BY <2>1, <2>4 DEF Waiting, Place
  <2>8. c = b.client => Waiting(c)
    BY <2>1 DEF Waiting
  <2>9. \A x \in As, w \in Ws : Queued(w, x, c)' <=> Queued(w, x, c)
    BY <2>2 DEF Queued
  <2> QED
    BY <2>1, <2>2, <2>4, <2>5, <2>6, <2>7, <2>8, <2>9 DEF Place
<1>3. ASSUME NEW a \in As, getEventLoop(a) \/ LoadNextId(a)
      PROVE  PlaceInv'
  <2>1. /\ apc[a] # "poll" /\ apc' \in {[apc EXCEPT ![a] = "load"], [apc EXCEPT ![a] = "store"]}
        /\ \E x : hand' \in {[hand EXCEPT ![a].worker = x], [hand EXCEPT ![a].next = x]}
        /\ backlog' = backlog /\ given' = given /\ served' = served
    BY <1>3 DEF getEventLoop, LoadNextId, connVars
  <2>2. \A x \in As : (apc'[x] # "poll" <=> apc[x] # "poll") /\ hand'[x].client = hand[x].client
    <3>1. \A x \in As : apc'[x] # "poll" <=> apc[x] # "poll"
      BY <1>0, <2>1
    <3>2. PICK y : hand' \in {[hand EXCEPT ![a].worker = y], [hand EXCEPT ![a].next = y]}
      BY <2>1
    <3>3. CASE hand' = [hand EXCEPT ![a] = [hand[a] EXCEPT !.worker = y]]
      BY <1>0, <3>1, <3>3 DEF Hands
    <3>4. CASE hand' = [hand EXCEPT ![a] = [hand[a] EXCEPT !.next = y]]
      BY <1>0, <3>1, <3>4 DEF Hands
    <3> QED
      BY <3>2, <3>3, <3>4
  <2>3. \A x \in As, c \in Clients : Held(x, c)' <=> Held(x, c)
    BY <2>2 DEF Held
  <2>4. \A c \in Clients : /\ Waiting(c)' <=> Waiting(c)
                           /\ \A x \in As, w \in Ws : Queued(w, x, c)' <=> Queued(w, x, c)
    BY <2>1 DEF Waiting, Queued
  <2> QED
    BY <2>1, <2>3, <2>4 DEF PlaceInv, Place
<1>4. ASSUME NEW a \in As, NewConnection(a)
      PROVE  PlaceInv'
  <2>1. /\ apc[a] = "store" /\ apc' = [apc EXCEPT ![a] = "poll"] /\ hand' = hand
        /\ backlog' = backlog /\ served' = served
    BY <1>4 DEF NewConnection, connVars
  <2>2. PICK w : w = hand[a].worker
    OBVIOUS
  <2>3. PICK d : d = hand[a].client
    OBVIOUS
  <2>4. w \in Ws /\ d \in Clients
    BY <2>1, <2>2, <2>3 DEF AcceptorInv
  <2>5. given' = [given EXCEPT ![w] = [given[w] EXCEPT ![a] = Append(given[w][a], d)]]
    BY <1>4, <2>2, <2>3 DEF NewConnection, None
  <2>6. PICK q \in Seq(Clients) : q = given[w][a]
    BY <1>0, <2>4
  <2>7. /\ given'[w][a] = Append(q, d)
        /\ \A v \in Ws, x \in As : v # w \/ x # a => given'[v][x] = given[v][x]
    BY <1>0, <2>4, <2>5, <2>6
  <2> SUFFICES ASSUME NEW c \in Clients
               PROVE  Place(c)'
    BY DEF PlaceInv
  <2>8. Place(c)
    BY DEF PlaceInv
  <2>9. \A x \in As : Held(x, c)' <=> Held(x, c) /\ x # a
    BY <1>0, <2>1 DEF Held
  <2>10. c = d => Held(a, c)
    BY <2>1, <2>3 DEF Held
  <2>11. /\ Says(Append(q, d), c) <=> c = d \/ Says(q, c)
         /\ Once(q, c) /\ (c = d => ~Says(q, c)) => Once(Append(q, d), c)
    BY <2>4, SaysAppend
  <2>12. \A x \in As, v \in Ws : Queued(v, x, c)' <=> Queued(v, x, c) \/ (v = w /\ x = a /\ c = d)
    BY <2>6, <2>7, <2>11 DEF Queued
  <2>13. Waiting(c)' <=> Waiting(c)
    BY <2>1 DEF Waiting
  <2>14. \A x \in As, v \in Ws : Once(given'[v][x], c)
    <3>1. Once(q, c) /\ (c = d => ~Says(q, c))
      BY <2>4, <2>6, <2>8, <2>10 DEF Place, Queued
    <3>2. Once(given'[w][a], c)
      BY <2>7, <2>11, <3>1
    <3> QED
      BY <2>7, <2>8, <3>2 DEF Place
  <2>15. Held(a, c) => ~Waiting(c)
    BY <2>8 DEF Place
  <2> QED
    BY <2>1, <2>4, <2>8, <2>9, <2>10, <2>12, <2>13, <2>14, <2>15 DEF Place
<1>5. ASSUME NEW w \in Ws, NEW a \in As, MakeConnection(w, a) \/ LoseConnection(w, a)
      PROVE  PlaceInv'
  <2>1. PICK q \in Seq(Clients) : q = given[w][a] /\ q # <<>>
    BY <1>0, <1>5 DEF MakeConnection, LoseConnection
  <2>2. PICK d : d = Head(q)
    OBVIOUS
  <2>3. /\ given' = [given EXCEPT ![w] = [given[w] EXCEPT ![a] = Tail(q)]]
        /\ served' \in {served, served \cup {d}} /\ backlog' = backlog /\ apc' = apc /\ hand' = hand
    BY <1>5, <2>1, <2>2 DEF MakeConnection, LoseConnection, accVars, connVars
  <2>4. /\ given'[w][a] = Tail(q)
        /\ \A v \in Ws, x \in As : v # w \/ x # a => given'[v][x] = given[v][x]
    BY <1>0, <2>3
  <2> SUFFICES ASSUME NEW c \in Clients
               PROVE  Place(c)'
    BY DEF PlaceInv
  <2>5. Place(c)
    BY DEF PlaceInv
  <2>6. /\ Says(q, c) <=> c = d \/ Says(Tail(q), c)
        /\ Once(q, c) => Once(Tail(q), c)
        /\ Once(q, c) /\ c = d => ~Says(Tail(q), c)
    BY <2>1, <2>2, SaysTail
  <2>7. Once(q, c)
    BY <2>1, <2>5 DEF Place
  <2>8. \A x \in As, v \in Ws : Queued(v, x, c)' => Queued(v, x, c) /\ c # d
    <3>1. c = d => Queued(w, a, c)
      BY <2>1, <2>6 DEF Queued
    <3>2. ASSUME NEW x \in As, NEW v \in Ws, Queued(v, x, c)'
          PROVE  Queued(v, x, c) /\ c # d
      <4>1. CASE v = w /\ x = a
        BY <2>1, <2>4, <2>6, <2>7, <3>2, <4>1 DEF Queued
      <4>2. CASE ~(v = w /\ x = a)
        BY <2>4, <2>5, <3>1, <3>2, <4>2 DEF Queued, Place
      <4> QED
        BY <4>1, <4>2
    <3> QED
      BY <3>2
  <2>9. c = d => Queued(w, a, c)
    BY <2>1, <2>6 DEF Queued
  <2>10. Waiting(c)' = Waiting(c) /\ \A x \in As : Held(x, c)' = Held(x, c)
    BY <2>3 DEF Waiting, Held
  <2>11. \A x \in As, v \in Ws : Once(given'[v][x], c)
    BY <2>4, <2>5, <2>6, <2>7 DEF Place
  <2> QED
    BY <2>3, <2>5, <2>8, <2>9, <2>10, <2>11 DEF Place
<1>6. ASSUME \/ RunThread \/ QuitThread \/ WakeThread \/ JoinThread \/ stop
             \/ \E t \in As \cup Ws : EndLoop(t) \/ LoseQuit(t)
      PROVE  UNCHANGED <<backlog, apc, hand, given, served>>
  BY <1>6 DEF RunThread, QuitThread, WakeThread, JoinThread, stop, EndLoop, LoseQuit, accVars, connVars
<1>7. ASSUME NEW a \in As, acceptEMFILE(a) \/ \E w \in Ws : RunReport(a, w) \/ LoseReport(a, w)
      PROVE  UNCHANGED <<backlog, apc, hand, given, served>>
  BY <1>7 DEF acceptEMFILE, RunReport, LoseReport, TakeReport, accVars, connVars
<1>8. ASSUME NEW w \in Ws, RunDestruct(w) \/ LoseDestruct(w) \/ \E o \in Objects : handleClose(w, o)
      PROVE  UNCHANGED <<backlog, apc, hand, given, served>>
  BY <1>8 DEF RunDestruct, LoseDestruct, handleClose, accVars
<1> QED
  BY <1>1, <1>2, <1>3, <1>4, <1>5, <1>6, <1>7, <1>8
     DEF Next, MainStep, LoopLoses, AcceptorStep, WorkerStep

-----------------------------------------------------------------------------
(* The life of an object.                                                  *)

(* A step that does not mention the object. *)
Same(o) ==
    /\ conn'[o] = conn[o] /\ (o \in served => o \in served')
    /\ \A a \in As : o \in connects'[a] <=> o \in connects[a]
    /\ \A a \in As, w \in Ws :
          /\ Says(reports'[a][w], Ins(o)) <=> Says(reports[a][w], Ins(o))
          /\ Says(reports'[a][w], Rem(o)) <=> Says(reports[a][w], Rem(o))
    /\ \A w \in Ws : /\ Says(destructs'[w], o) <=> Says(destructs[w], o)
                     /\ Says(free'[w], o) <=> Says(free[w], o)
                     /\ Once(destructs[w], o) => Once(destructs'[w], o)
                     /\ Once(free[w], o) => Once(free'[w], o)

LEMMA SameFine ==
    ASSUME NEW o \in Objects, Fine(o), Same(o)
    PROVE  Fine(o)'
<1>1. AtHome(o)'
  BY DEF Fine, AtHome, Same
<1>2. Tidy(o)'
  BY DEF Fine, Tidy, Same
<1>3. (Leaving(o)' <=> Leaving(o)) /\ (Removing(o)' <=> Removing(o)) /\ (Kept(o)' <=> Kept(o))
  BY DEF Same, Leaving, Removing, Kept
<1>4. \A w \in Ws : Says(free'[w], o) <=> Says(free[w], o)
  BY DEF Same
<1>5. conn'[o] = conn[o]
  BY DEF Same
<1>6. Phase(o)'
  BY <1>3, <1>4, <1>5 DEF Fine, Phase
<1> QED
  BY <1>1, <1>2, <1>6 DEF Fine

(* One queue of a family of queues changes. *)
LEMMA MessageFacts ==
    ASSUME NEW m
    PROVE  /\ Ins(m) # Rem(m)
           /\ \A o : Ins(m) # Rem(o) /\ (o # m => Ins(m) # Ins(o) /\ Rem(m) # Rem(o))
           /\ m \in Objects => Ins(m) \in Messages /\ Rem(m) \in Messages
<1>1. Ins(m).op = "insert" /\ Rem(m).op = "remove" /\ \A o : Rem(o).op = "remove"
  BY DEF Ins, Rem
<1>2. \A o : Ins(o).conn = o /\ Rem(o).conn = o
  BY DEF Ins, Rem
<1>3. Ins(m) # Rem(m) /\ \A o : Ins(m) # Rem(o)
  BY <1>1
<1>4. \A o : o # m => Ins(m) # Ins(o) /\ Rem(m) # Rem(o)
  BY <1>2
<1>5. m \in Objects => Ins(m) \in Messages /\ Rem(m) \in Messages
  BY DEF Ins, Rem, Messages
<1> QED
  BY <1>3, <1>4, <1>5

(* The closure at the head of an acceptor's queue, executed or, unless it  *)
(* is an insertion, dropped.                                               *)
LEMMA TakeReportObjects ==
    ASSUME TypeOK, ObjectInv, NEW a \in As, NEW w \in Ws, NEW con, TakeReport(a, w, con),
           NEW r, r = Head(reports[a][w]),
           \A o \in Objects : o # r.conn => \A x \in As : o \in con[x] <=> o \in connects[x],
           r.op = "insert" => r.conn \in con[a]
    PROVE  fault' = fault /\ ObjectInv'
<1>1. PICK q \in Seq(Messages) : q = reports[a][w] /\ q # <<>>
  BY DEF TakeReport, TypeOK
<1>2. r = Head(q)
  BY <1>1
<1>3. r \in Messages
  BY <1>1, <1>2, TailPlaces
<1>4. PICK m \in Objects : m = r.conn /\ (r = Ins(m) \/ r = Rem(m))
  BY <1>3 DEF Messages, Ins, Rem
<1>5. /\ reports' = [reports EXCEPT ![a] = [reports[a] EXCEPT ![w] = Tail(q)]] /\ connects' = con
      /\ conn' = conn /\ free' = free /\ served' = served /\ destructs' = destructs
      /\ fault' = fault \/ (conn[m].open /\ ~Holds(connects', reports', m))
  BY <1>1, <1>2, <1>4 DEF TakeReport, Unref
<1>6. /\ reports'[a][w] = Tail(q)
      /\ \A x \in As, v \in Ws : x # a \/ v # w => reports'[x][v] = reports[x][v]
  BY <1>5 DEF TypeOK
<1>7. ASSUME NEW x PROVE Says(q, x) <=> x = r \/ Says(Tail(q), x)
  BY <1>1, <1>2, SaysTail
<1>8. \A o \in Objects : Fine(o)
  BY DEF ObjectInv
<1>9. ASSUME NEW o \in Objects, o # m
      PROVE  Fine(o)'
  <2>1. r # Ins(o) /\ r # Rem(o)
    BY <1>4, <1>9, MessageFacts
  <2>2. \A x \in As : o \in connects'[x] <=> o \in connects[x]
    BY <1>4, <1>5, <1>9
  <2>3. \A x \in As, v \in Ws :
          /\ Says(reports'[x][v], Ins(o)) <=> Says(reports[x][v], Ins(o))
          /\ Says(reports'[x][v], Rem(o)) <=> Says(reports[x][v], Rem(o))
    BY <1>1, <1>6, <1>7, <2>1
  <2>4. Same(o)
    BY <1>5, <2>2, <2>3 DEF Same
  <2> QED
    BY <1>8, <2>4, SameFine
<1>10. Fine(m) /\ AtHome(m) /\ Tidy(m) /\ Phase(m)
  BY <1>8 DEF Fine
<1>11. \A x \in As, v \in Ws :
          /\ Says(reports'[x][v], Ins(m)) => Says(reports[x][v], Ins(m))
          /\ Says(reports'[x][v], Rem(m)) => Says(reports[x][v], Rem(m))
  BY <1>1, <1>6, <1>7
<1>12. AtHome(m)'
  BY <1>5, <1>10, <1>11 DEF AtHome
<1>13. Tidy(m)'
  BY <1>5, <1>10 DEF Tidy
<1>14. (Leaving(m)' <=> Leaving(m)) /\ (Removing(m)' => Removing(m))
  BY <1>5, <1>11 DEF Leaving, Removing
<1>15. CASE r = Ins(m)
  <2>1. m \in connects'[a]
    BY <1>4, <1>5, <1>15 DEF Ins
  <2>2. Kept(m)'
    BY <2>1 DEF Kept
  <2>3. Phase(m)'
    BY <1>5, <1>10, <1>14, <2>2 DEF Phase
  <2>4. Holds(connects', reports', m)
    BY <2>1 DEF Holds
  <2> QED
    BY <1>5, <1>9, <1>12, <1>13, <2>3, <2>4 DEF ObjectInv, Fine
<1>16. CASE r = Rem(m)
  <2>1. Removing(m)
    BY <1>1, <1>7, <1>16 DEF Removing
  <2>2. ~conn[m].open /\ ~Leaving(m)
    BY <1>10, <2>1 DEF Phase
  <2>3. Phase(m)'
    BY <1>5, <1>14, <2>2 DEF Phase
  <2> QED
    BY <1>5, <1>9, <1>12, <1>13, <2>2, <2>3 DEF ObjectInv, Fine
<1> QED
  BY <1>4, <1>15, <1>16

LEMMA RunReportObjects ==
    ASSUME TypeOK, ObjectInv, NEW a \in As, NEW w \in Ws, RunReport(a, w)
    PROVE  fault' = fault /\ ObjectInv'
<1>1. PICK r : r = Head(reports[a][w])
  OBVIOUS
<1>2. PICK con : con = [connects EXCEPT ![a] = IF r.op = "insert" THEN connects[a] \cup {r.conn}
                                                                 ELSE connects[a] \ {r.conn}]
  OBVIOUS
<1>3. TakeReport(a, w, con)
  BY <1>1, <1>2 DEF RunReport
<1>4. \A o \in Objects : o # r.conn => \A x \in As : o \in con[x] <=> o \in connects[x]
  BY <1>2 DEF TypeOK
<1>5. r.op = "insert" => r.conn \in con[a]
  BY <1>2 DEF TypeOK
<1> QED
  BY <1>1, <1>3, <1>4, <1>5, TakeReportObjects

LEMMA LoseReportObjects ==
    ASSUME TypeOK, ObjectInv, NEW a \in As, NEW w \in Ws, LoseReport(a, w), ~InsertionLost'
    PROVE  fault' = fault /\ ObjectInv'
<1>1. PICK r : r = Head(reports[a][w])
  OBVIOUS
<1>2. TakeReport(a, w, connects) /\ lost' = lost \cup {[op |-> r.op, of |-> r.conn]}
  BY <1>1 DEF LoseReport, Lose
<1>3. \A x \in lost' : x.op # "insert"
  BY DEF InsertionLost
<1>4. PICK x : x = [op |-> r.op, of |-> r.conn]
  OBVIOUS
<1>5. x \in lost' /\ x.op = r.op
  BY <1>2, <1>4
<1>6. r.op # "insert"
  BY <1>3, <1>5
<1> QED
  BY <1>1, <1>2, <1>6, TakeReportObjects

LEMMA LoseDestructObjects ==
    ASSUME TypeOK, ObjectInv, NEW w \in Ws, LoseDestruct(w)
    PROVE  ObjectInv'
<1>1. PICK q \in Seq(Objects) : q = destructs[w] /\ q # <<>>
  BY DEF LoseDestruct, TypeOK
<1>2. PICK m : m = Head(q)
  OBVIOUS
<1>3. /\ destructs' = [destructs EXCEPT ![w] = Tail(q)] /\ reports' = reports
      /\ connects' = connects /\ conn' = conn /\ free' = free /\ served' = served
  BY <1>1 DEF LoseDestruct
<1>4. destructs'[w] = Tail(q) /\ \A v \in Ws : v # w => destructs'[v] = destructs[v]
  BY <1>3 DEF TypeOK
<1>5. ASSUME NEW x PROVE /\ Says(q, x) <=> x = m \/ Says(Tail(q), x)
                         /\ Once(q, x) => Once(Tail(q), x)
                         /\ Once(q, x) /\ x = m => ~Says(Tail(q), x)
  BY <1>1, <1>2, SaysTail
<1>6. \A o \in Objects : Fine(o)
  BY DEF ObjectInv
<1>7. ASSUME NEW o \in Objects, o # m
      PROVE  Fine(o)'
  <2>1. \A v \in Ws : /\ Says(destructs'[v], o) <=> Says(destructs[v], o)
                      /\ Once(destructs[v], o) => Once(destructs'[v], o)
    BY <1>1, <1>4, <1>5, <1>7
  <2>2. Same(o)
    BY <1>3, <2>1 DEF Same
  <2> QED
    BY <1>6, <2>2, SameFine
<1>8. m \in Objects
  BY <1>1, <1>2, TailPlaces
<1>9. Fine(m) /\ AtHome(m) /\ Tidy(m) /\ Phase(m)
  BY <1>6, <1>8 DEF Fine
<1>10. Leaving(m) /\ conn[m].worker = w /\ ~conn[m].open /\ Once(q, m)
  <2>1. Says(destructs[w], m)
    BY <1>1, <1>5
  <2> QED
    BY <1>1, <1>9, <2>1 DEF Leaving, AtHome, Phase, Tidy
<1>11. \A v \in Ws : ~Says(destructs'[v], m)
  BY <1>4, <1>5, <1>9, <1>10 DEF AtHome
<1>12. AtHome(m)'
  BY <1>3, <1>9, <1>11 DEF AtHome
<1>13. Tidy(m)'
  <2>1. \A v \in Ws : Once(destructs'[v], m)
    BY <1>11 DEF Once, Says
  <2> QED
    BY <1>3, <1>9, <2>1 DEF Tidy
<1>14. Phase(m)'
  BY <1>3, <1>10, <1>11 DEF Phase, Leaving
<1> QED
  BY <1>7, <1>12, <1>13, <1>14 DEF ObjectInv, Fine

LEMMA RunDestructObjects ==
    ASSUME TypeOK, ConnInv, ObjectInv, NEW w \in Ws, RunDestruct(w), fault = None
    PROVE  fault' # "dropped" /\ (fault' = None => ObjectInv')
<1>1. PICK q \in Seq(Objects) : q = destructs[w] /\ q # <<>>
  BY DEF RunDestruct, TypeOK
<1>2. PICK m : m = Head(q)
  OBVIOUS
<1>3. m \in Objects
  BY <1>1, <1>2, TailPlaces
<1>4. PICK a : a = conn[m].acceptor
  OBVIOUS
<1>5. a \in As /\ conn[m].worker = w /\ Leaving(m)
  <2>1. Says(q, m)
    BY <1>1, <1>2, SaysTail
  <2>2. PICK i \in 1..Len(destructs[w]) : destructs[w][i] = m
    BY <1>1, <2>1 DEF Says
  <2>3. conn[m].acceptor \in As
    BY <2>2 DEF ConnInv
  <2> QED
    BY <1>1, <1>3, <1>4, <2>1, <2>3 DEF ObjectInv, Fine, AtHome, Leaving
<1>6. Fine(m) /\ AtHome(m) /\ Tidy(m) /\ Phase(m)
  BY <1>3 DEF ObjectInv, Fine
<1>7. ~conn[m].open /\ Kept(m) /\ ~Removing(m)
  BY <1>5, <1>6 DEF Phase
<1>8. Holds(connects, reports, m)
  <2>1. CASE \E x \in As : m \in connects[x]
    BY <2>1 DEF Holds
  <2>2. CASE \E x \in As, v \in Ws : Says(reports[x][v], Ins(m))
    <3>1. PICK x \in As, v \in Ws : \E i \in 1..Len(reports[x][v]) : reports[x][v][i] = Ins(m)
      BY <2>2 DEF Says
    <3>2. Ins(m).conn = m
      BY DEF Ins
    <3> QED
      BY <3>1, <3>2 DEF Holds
  <2> QED
    BY <1>7, <2>1, <2>2 DEF Kept
<1>9. /\ Report(w, a, Rem(m)) /\ destructs' = [destructs EXCEPT ![w] = Tail(q)]
      /\ connects' = connects /\ conn' = conn /\ free' = free /\ served' = served
  BY <1>1, <1>2, <1>4, <1>8 DEF RunDestruct, Rem
<1>10. fault' # "dropped"
  BY <1>9 DEF Report, None
<1>11. ASSUME fault' = None
       PROVE  ObjectInv'
  <2>1. reports' = [reports EXCEPT ![a] = [reports[a] EXCEPT ![w] = Append(reports[a][w], Rem(m))]]
    BY <1>9, <1>11 DEF Report, None
  <2>2. PICK p \in Seq(Messages) : p = reports[a][w]
    BY <1>5 DEF TypeOK
  <2>3. /\ reports'[a][w] = Append(p, Rem(m))
        /\ \A x \in As, v \in Ws : x # a \/ v # w => reports'[x][v] = reports[x][v]
    BY <1>5, <2>1, <2>2 DEF TypeOK
  <2>4. destructs'[w] = Tail(q) /\ \A v \in Ws : v # w => destructs'[v] = destructs[v]
    BY <1>9 DEF TypeOK
  <2>5. Rem(m) \in Messages
    BY <1>3, MessageFacts
  <2>6. ASSUME NEW x PROVE Says(Append(p, Rem(m)), x) <=> x = Rem(m) \/ Says(p, x)
    BY <2>5, SaysAppend
  <2>8. ASSUME NEW x PROVE /\ Says(q, x) <=> x = m \/ Says(Tail(q), x)
                           /\ Once(q, x) => Once(Tail(q), x)
                           /\ Once(q, x) /\ x = m => ~Says(Tail(q), x)
    BY <1>1, <1>2, SaysTail
  <2>9. ASSUME NEW o \in Objects, o # m
        PROVE  Fine(o)'
    <3>1. Rem(m) # Ins(o) /\ Rem(m) # Rem(o)
      BY <2>9, MessageFacts
    <3>2. \A x \in As, v \in Ws :
            /\ Says(reports'[x][v], Ins(o)) <=> Says(reports[x][v], Ins(o))
            /\ Says(reports'[x][v], Rem(o)) <=> Says(reports[x][v], Rem(o))
      BY <2>2, <2>3, <2>6, <3>1
    <3>3. \A v \in Ws : /\ Says(destructs'[v], o) <=> Says(destructs[v], o)
                        /\ Once(destructs[v], o) => Once(destructs'[v], o)
      BY <1>1, <2>4, <2>8, <2>9
    <3>4. Same(o)
      BY <1>9, <3>2, <3>3 DEF Same
    <3> QED
      BY <2>9, <3>4, SameFine DEF ObjectInv
  <2>10. ~Leaving(m)'
    <3>1. Once(q, m)
      BY <1>1, <1>6 DEF Tidy
    <3>2. \A v \in Ws : ~Says(destructs'[v], m)
      BY <1>5, <1>6, <2>4, <2>8, <3>1 DEF AtHome
    <3> QED
      BY <3>2 DEF Leaving
  <2>11. Removing(m)'
    BY <1>5, <2>3, <2>6 DEF Removing
  <2>12. \A x \in As, v \in Ws :
            /\ Says(reports'[x][v], Ins(m)) <=> Says(reports[x][v], Ins(m))
            /\ Says(reports'[x][v], Rem(m)) => Says(reports[x][v], Rem(m)) \/ (x = a /\ v = w)
    BY <2>2, <2>3, <2>6, MessageFacts
  <2>13. \A v \in Ws : /\ Says(destructs'[v], m) => Says(destructs[v], m)
                       /\ Once(destructs'[v], m)
    <3>1. \A v \in Ws : Once(destructs[v], m)
      BY <1>6 DEF Tidy
    <3> QED
      BY <1>1, <2>4, <2>8, <3>1
  <2>14. AtHome(m)'
    BY <1>4, <1>5, <1>6, <1>9, <2>12, <2>13 DEF AtHome
  <2>15. Tidy(m)'
    BY <1>6, <1>9, <2>12, <2>13 DEF Tidy
  <2>16. Phase(m)'
    BY <1>7, <1>9, <2>10, <2>11 DEF Phase
  <2> QED
    BY <2>9, <2>14, <2>15, <2>16 DEF ObjectInv, Fine
<1> QED
  BY <1>10, <1>11

LEMMA handleCloseObjects ==
    ASSUME TypeOK, ObjectInv, NEW w \in Ws, NEW m \in Objects, handleClose(w, m)
    PROVE  ObjectInv'
<1>1. PICK q \in Seq(Objects) : q = destructs[w]
  BY DEF TypeOK
<1>2. PICK f \in Seq(Objects) : f = free[w]
  BY DEF TypeOK
<1>3. /\ conn[m].open /\ conn[m].worker = w
      /\ conn' = [conn EXCEPT ![m] = [conn[m] EXCEPT !.open = FALSE]]
      /\ destructs' = [destructs EXCEPT ![w] = Append(q, m)]
      /\ free' = [free EXCEPT ![w] = Append(f, m)] \/ free' = free
      /\ connects' = connects /\ served' = served /\ reports' = reports
  BY <1>1, <1>2 DEF handleClose
<1>4. /\ destructs'[w] = Append(q, m) /\ \A v \in Ws : v # w => destructs'[v] = destructs[v]
      /\ free'[w] = Append(f, m) \/ free'[w] = f
      /\ \A v \in Ws : v # w => free'[v] = free[v]
  BY <1>2, <1>3 DEF TypeOK
<1>5. /\ \A o \in Objects : o # m => conn'[o] = conn[o]
      /\ conn'[m].worker = w /\ conn'[m].acceptor = conn[m].acceptor /\ conn'[m].open = FALSE
  BY <1>3 DEF TypeOK, Connections
<1>6. ASSUME NEW x PROVE /\ Says(Append(q, m), x) <=> x = m \/ Says(q, x)
                         /\ Once(q, x) /\ (x = m => ~Says(q, x)) => Once(Append(q, m), x)
  BY SaysAppend
<1>7. ASSUME NEW x PROVE /\ Says(Append(f, m), x) <=> x = m \/ Says(f, x)
                         /\ Once(f, x) /\ (x = m => ~Says(f, x)) => Once(Append(f, m), x)
  BY SaysAppend
<1>8. ASSUME NEW o \in Objects, o # m
      PROVE  Fine(o)'
  <2>1. \A v \in Ws : /\ Says(destructs'[v], o) <=> Says(destructs[v], o)
                      /\ Once(destructs[v], o) => Once(destructs'[v], o)
    BY <1>1, <1>4, <1>6, <1>8
  <2>2. \A v \in Ws : /\ Says(free'[v], o) <=> Says(free[v], o)
                      /\ Once(free[v], o) => Once(free'[v], o)
    BY <1>2, <1>4, <1>7, <1>8
  <2>3. Same(o)
    BY <1>3, <1>5, <1>8, <2>1, <2>2 DEF Same
  <2> QED
    BY <2>3, SameFine DEF ObjectInv
<1>9. Fine(m) /\ AtHome(m) /\ Tidy(m) /\ Phase(m)
  BY DEF ObjectInv, Fine
<1>10. /\ ~Leaving(m) /\ ~Removing(m) /\ Kept(m) /\ ~Says(f, m) /\ ~Says(q, m)
  BY <1>1, <1>2, <1>3, <1>9 DEF Phase, Leaving
<1>11. \A v \in Ws : /\ Says(destructs'[v], m) \/ Says(free'[v], m) => v = w
                     /\ Once(destructs'[v], m) /\ Once(free'[v], m)
  <2>1. \A v \in Ws : /\ Says(destructs[v], m) \/ Says(free[v], m) => v = w
                      /\ Once(destructs[v], m) /\ Once(free[v], m)
    BY <1>3, <1>9 DEF AtHome, Tidy
  <2>2. Once(destructs'[w], m)
    BY <1>1, <1>4, <1>6, <1>10, <2>1
  <2>3. Once(free'[w], m)
    BY <1>2, <1>4, <1>7, <1>10, <2>1
  <2> QED
    BY <1>4, <2>1, <2>2, <2>3
<1>12. AtHome(m)'
  BY <1>3, <1>5, <1>9, <1>11 DEF AtHome
<1>13. Tidy(m)'
  BY <1>3, <1>9, <1>11 DEF Tidy
<1>14. Leaving(m)' /\ (Removing(m)' <=> Removing(m)) /\ (Kept(m)' <=> Kept(m))
  <2>1. Says(destructs'[w], m)
    BY <1>4, <1>6
  <2> QED
    BY <1>3, <2>1 DEF Leaving, Removing, Kept
<1>15. Phase(m)'
  BY <1>5, <1>10, <1>14 DEF Phase
<1> QED
  BY <1>8, <1>12, <1>13, <1>15 DEF ObjectInv, Fine

(* The object acquire() returns has nothing left from an earlier life,     *)
(* but for what a lost closure or a late insertion leaves in connects_.    *)
LEMMA AcquiredClean ==
    ASSUME TypeOK, PlaceInv, ObjectInv, NEW w \in Ws, NEW a \in As, NEW c \in Clients,
           Queued(w, a, c), NEW m, m = Acquired(w, c), ~RemovalPending(w, m)
    PROVE  /\ m \in Objects /\ ~conn[m].open
           /\ \A v \in Ws : ~Says(destructs[v], m)
           /\ \A x \in As, v \in Ws : /\ ~Says(reports[x][v], Rem(m))
                                      /\ Says(reports[x][v], Ins(m)) => v = w
           /\ m \in served \/ m = c
           /\ \A v \in Ws : v # w => ~Says(free[v], m)
           /\ free[w] = <<>> => ~Says(free[w], m)
<1>1. CASE free[w] # <<>>
  <2>1. PICK f \in Seq(Objects) : f = free[w] /\ f # <<>>
    BY <1>1 DEF TypeOK
  <2>2. m \in Objects /\ Says(f, m)
    <3>1. m = Head(f)
      BY <1>1, <2>1 DEF Acquired
    <3> QED
      BY <2>1, <3>1, SaysTail, TailPlaces
  <2>3. AtHome(m) /\ Phase(m)
    BY <2>2 DEF ObjectInv, Fine
  <2>4. conn[m].worker = w /\ ~conn[m].open /\ m \in served
    BY <2>1, <2>2, <2>3 DEF AtHome, Phase
  <2>5. ~Says(destructs[w], m) /\ \A x \in As : ~Says(reports[x][w], Rem(m))
    BY DEF RemovalPending, Says, Rem
  <2>6. /\ \A v \in Ws : ~Says(destructs[v], m)
        /\ \A x \in As, v \in Ws : /\ ~Says(reports[x][v], Rem(m))
                                   /\ Says(reports[x][v], Ins(m)) => v = w
        /\ \A v \in Ws : v # w => ~Says(free[v], m)
    BY <2>3, <2>4, <2>5 DEF AtHome
  <2> QED
    BY <1>1, <2>2, <2>4, <2>6
<1>2. CASE free[w] = <<>>
  <2>1. m = c /\ m \in Objects /\ m \notin served
    BY <1>2 DEF Acquired, Objects, PlaceInv, Place
  <2>2. AtHome(m)
    BY <2>1 DEF ObjectInv, Fine
  <2>3. conn[m].worker \notin Ws /\ ~conn[m].open
    BY <2>1, <2>2 DEF AtHome
  <2>4. /\ \A v \in Ws : ~Says(destructs[v], m) /\ ~Says(free[v], m)
        /\ \A x \in As, v \in Ws : ~Says(reports[x][v], Ins(m)) /\ ~Says(reports[x][v], Rem(m))
    BY <2>2, <2>3 DEF AtHome
  <2> QED
    BY <2>1, <2>3, <2>4
<1> QED
  BY <1>1, <1>2

LEMMA MakeConnectionObjects ==
    ASSUME TypeOK, PlaceInv, ObjectInv, NEW w \in Ws, NEW a \in As, MakeConnection(w, a),
           fault = None, fault' = None, reused' = {}
    PROVE  ObjectInv'
<1>1. PICK g \in Seq(Clients) : g = given[w][a] /\ g # <<>>
  BY DEF MakeConnection, TypeOK
<1>2. PICK c : c = Head(g)
  OBVIOUS
<1>3. c \in Clients /\ Queued(w, a, c)
  BY <1>1, <1>2, TailPlaces, SaysTail DEF Queued
<1>4. PICK m : m = Acquired(w, c)
  OBVIOUS
<1>5. PICK f \in Seq(Objects) : f = free[w]
  BY DEF TypeOK
<1>6. /\ free' = [free EXCEPT ![w] = IF f = <<>> THEN f ELSE Tail(f)]
      /\ conn' = [conn EXCEPT ![m] = [client |-> c, worker |-> w, acceptor |-> a, open |-> TRUE]]
      /\ served' = served \cup {c} /\ connects' = connects /\ destructs' = destructs
      /\ Report(w, a, Ins(m)) /\ ~RemovalPending(w, m)
  BY <1>1, <1>2, <1>4, <1>5 DEF MakeConnection, Ins
<1>7. /\ m \in Objects /\ ~conn[m].open
      /\ \A v \in Ws : ~Says(destructs[v], m)
      /\ \A x \in As, v \in Ws : /\ ~Says(reports[x][v], Rem(m))
                                 /\ Says(reports[x][v], Ins(m)) => v = w
      /\ m \in served \/ m = c
      /\ \A v \in Ws : v # w => ~Says(free[v], m)
      /\ free[w] = <<>> => ~Says(free[w], m)
  BY <1>3, <1>4, <1>6, AcquiredClean
<1>8. reports' = [reports EXCEPT ![a] = [reports[a] EXCEPT ![w] = Append(reports[a][w], Ins(m))]]
  BY <1>6 DEF Report, None
<1>9. PICK p \in Seq(Messages) : p = reports[a][w]
  BY DEF TypeOK
<1>10. /\ reports'[a][w] = Append(p, Ins(m))
       /\ \A x \in As, v \in Ws : x # a \/ v # w => reports'[x][v] = reports[x][v]
  BY <1>8, <1>9 DEF TypeOK
<1>11. Ins(m) \in Messages
  BY <1>7, MessageFacts
<1>12. ASSUME NEW x PROVE Says(Append(p, Ins(m)), x) <=> x = Ins(m) \/ Says(p, x)
  BY <1>11, SaysAppend
<1>14. /\ \A o \in Objects : o # m => conn'[o] = conn[o]
       /\ conn'[m].worker = w /\ conn'[m].acceptor = a /\ conn'[m].open
  BY <1>6, <1>7 DEF TypeOK
<1>15. /\ \A v \in Ws : v # w => free'[v] = free[v]
       /\ f = <<>> => free'[w] = f
       /\ f # <<>> => free'[w] = Tail(f)
  BY <1>6 DEF TypeOK
<1>16. ASSUME f # <<>>, NEW x
       PROVE  /\ Says(f, x) <=> x = m \/ Says(Tail(f), x)
              /\ Once(f, x) => Once(Tail(f), x)
              /\ Once(f, x) /\ x = m => ~Says(Tail(f), x)
  <2>1. m = Head(f)
    BY <1>4, <1>5, <1>16 DEF Acquired
  <2> QED
    BY <1>16, <2>1, SaysTail
<1>17. ASSUME NEW o \in Objects, o # m
       PROVE  Fine(o)'
  <2>1. Ins(m) # Ins(o) /\ Ins(m) # Rem(o)
    BY <1>17, MessageFacts
  <2>2. \A x \in As, v \in Ws :
          /\ Says(reports'[x][v], Ins(o)) <=> Says(reports[x][v], Ins(o))
          /\ Says(reports'[x][v], Rem(o)) <=> Says(reports[x][v], Rem(o))
    BY <1>9, <1>10, <1>12, <2>1
  <2>3. \A v \in Ws : /\ Says(free'[v], o) <=> Says(free[v], o)
                      /\ Once(free[v], o) => Once(free'[v], o)
    BY <1>5, <1>15, <1>16, <1>17
  <2>4. Same(o)
    BY <1>6, <1>14, <1>17, <2>2, <2>3 DEF Same
  <2> QED
    BY <2>4, SameFine DEF ObjectInv
<1>18. Fine(m) /\ Tidy(m)
  BY <1>7 DEF ObjectInv, Fine
<1>19. \A v \in Ws : ~Says(free'[v], m) /\ Once(free'[v], m)
  <2>1. \A v \in Ws : Once(free[v], m)
    BY <1>18 DEF Tidy
  <2>2. ~Says(free'[w], m) /\ Once(free'[w], m)
    <3>1. CASE f = <<>>
      BY <1>5, <1>7, <1>15, <2>1, <3>1
    <3>2. CASE f # <<>>
      BY <1>5, <1>15, <1>16, <2>1, <3>2
    <3> QED
      BY <3>1, <3>2
  <2> QED
    BY <1>7, <1>15, <2>1, <2>2
<1>20. \A x \in As, v \in Ws : /\ ~Says(reports'[x][v], Rem(m))
                               /\ Says(reports'[x][v], Ins(m)) => v = w
  BY <1>7, <1>9, <1>10, <1>12, MessageFacts
<1>21. AtHome(m)'
  BY <1>6, <1>7, <1>14, <1>19, <1>20 DEF AtHome
<1>22. Tidy(m)'
  BY <1>6, <1>18, <1>19, <1>20 DEF Tidy
<1>23. Kept(m)' /\ ~Leaving(m)' /\ ~Removing(m)'
  <2>1. Says(reports'[a][w], Ins(m))
    BY <1>10, <1>12
  <2> QED
    BY <1>6, <1>7, <1>20, <2>1 DEF Kept, Leaving, Removing
<1>24. Phase(m)'
  BY <1>14, <1>19, <1>23 DEF Phase
<1> QED
  BY <1>17, <1>21, <1>22, <1>24 DEF ObjectInv, Fine

LEMMA ObjectStep ==
    ASSUME TypeOK, ConnInv, PlaceInv, Next, Undisturbed => ObjectInv
    PROVE  /\ fault' = "dropped" => ~Undisturbed'
           /\ fault' = None /\ Undisturbed' => ObjectInv'
<1> DEFINE Goal == /\ fault' = "dropped" => ~Undisturbed'
                   /\ fault' = None /\ Undisturbed' => ObjectInv'
<1>0. fault = None
  BY DEF Next
<1>u. ASSUME reused \subseteq reused', lost \subseteq lost'
      PROVE  Undisturbed' => Undisturbed
  BY <1>u DEF Undisturbed, InsertionLost
<1>1. ASSUME UNCHANGED <<conn, connects, free, served, destructs, reports, reused>>,
             lost \subseteq lost', fault' # "dropped"
      PROVE  Goal
  <2>1. Undisturbed' => ObjectInv
    BY <1>1, <1>u
  <2>2. ObjectInv => ObjectInv'
    BY <1>1 DEF ObjectInv, Fine, AtHome, Tidy, Phase, Leaving, Removing, Kept
  <2> QED
    BY <1>1, <2>1, <2>2
<1>2. ASSUME NEW a \in As, NEW w \in Ws, RunReport(a, w) \/ LoseReport(a, w)
      PROVE  Goal
  <2>1. reused' = reused /\ lost \subseteq lost'
    BY <1>2 DEF RunReport, LoseReport, TakeReport, Lose
  <2>2. Undisturbed' => ~InsertionLost' /\ ObjectInv
    BY <1>u, <2>1 DEF Undisturbed
  <2>3. Undisturbed' => fault' = fault /\ ObjectInv'
    BY <1>2, <2>2, RunReportObjects, LoseReportObjects
  <2> QED
    BY <1>0, <2>3 DEF None
<1>3. ASSUME NEW w \in Ws, RunDestruct(w)
      PROVE  Goal
  <2>1. reused' = reused /\ lost' = lost
    BY <1>3 DEF RunDestruct
  <2>2. Undisturbed' => ObjectInv
    BY <1>u, <2>1
  <2> QED
    BY <1>0, <1>3, <2>2, RunDestructObjects
<1>4. ASSUME NEW w \in Ws, NEW a \in As, MakeConnection(w, a)
      PROVE  Goal
  <2>1. fault' # "dropped"
    BY <1>0, <1>4 DEF MakeConnection, Report, None
  <2>2. reused \subseteq reused' /\ lost' = lost
    BY <1>4 DEF MakeConnection
  <2>3. Undisturbed' => ObjectInv /\ reused' = {}
    BY <1>u, <2>2 DEF Undisturbed
  <2> QED
    BY <1>0, <1>4, <2>1, <2>3, MakeConnectionObjects
<1>5. ASSUME NEW w \in Ws, LoseDestruct(w) \/ \E o \in Objects : handleClose(w, o)
      PROVE  Goal
  <2>1. fault' = None /\ reused' = reused /\ lost \subseteq lost'
    BY <1>0, <1>5 DEF handleClose, LoseDestruct, Lose
  <2>2. Undisturbed' => ObjectInv
    BY <1>u, <2>1
  <2>3. ObjectInv => ObjectInv'
    BY <1>5, handleCloseObjects, LoseDestructObjects
  <2> QED
    BY <2>1, <2>2, <2>3 DEF None
<1>6. ASSUME \/ RunThread \/ QuitThread \/ WakeThread \/ JoinThread \/ stop
             \/ \E t \in As \cup Ws : EndLoop(t) \/ LoseQuit(t)
      PROVE  /\ UNCHANGED <<conn, connects, free, served, destructs, reports, reused>>
             /\ lost \subseteq lost' /\ fault' \in {fault, "deadLoop"}
  BY <1>6 DEF RunThread, QuitThread, WakeThread, JoinThread, stop, EndLoop, LoseQuit, Lose, connVars
<1>7. ASSUME NEW a \in As, \/ accept(a) \/ acceptEMFILE(a) \/ getEventLoop(a) \/ LoadNextId(a)
                           \/ NewConnection(a) \/ \E w \in Ws : LoseConnection(w, a)
      PROVE  /\ UNCHANGED <<conn, connects, free, served, destructs, reports, reused>>
             /\ lost \subseteq lost' /\ fault' # "dropped"
  BY <1>0, <1>7 DEF accept, acceptEMFILE, getEventLoop, LoadNextId, NewConnection, LoseConnection,
                    Lose, connVars, None
<1>8. fault # "dropped"
  BY <1>0 DEF None
<1>9. Goal
  BY <1>1, <1>2, <1>3, <1>4, <1>5, <1>6, <1>7, <1>8
     DEF Next, MainStep, LoopLoses, AcceptorStep, WorkerStep
<1> QED
  BY <1>9

LEMMA ReuseInvariant == Spec => []ReuseInv
<1>1. Init /\ WindowInv => ReuseInv
  <2> SUFFICES ASSUME Init, WindowInv
               PROVE  ReuseInv
    OBVIOUS
  <2>1. PlaceInv
    <3>1. \A a \in As, w \in Ws : \A c : ~Queued(w, a, c) /\ Once(given[w][a], c)
      BY DEF Init, Queued, Says, Once
    <3>2. \A x, y \in backlog : x.client = y.client => x = y
      BY ServerAssumption DEF Init
    <3>3. \A a \in As : \A c : ~Held(a, c)
      BY DEF Init, Held
    <3>4. served = {}
      BY DEF Init
    <3> QED
      BY <3>1, <3>2, <3>3, <3>4 DEF PlaceInv, Place
  <2>2. ObjectInv
    <3> SUFFICES ASSUME NEW o \in Objects PROVE Fine(o)
      BY DEF ObjectInv
    <3>1. conn[o] = NoConn
      BY DEF Init
    <3>2. conn[o].worker \notin Ws /\ conn[o].acceptor \notin As /\ ~conn[o].open
      BY <3>1, ServerAssumption DEF NoConn
    <3>3. /\ \A a \in As : connects[a] = {} /\ \A w \in Ws : reports[a][w] = <<>>
          /\ \A w \in Ws : destructs[w] = <<>> /\ free[w] = <<>>
      BY DEF Init
    <3>4. \A x : ~Says(<<>>, x) /\ Once(<<>>, x)
      BY DEF Says, Once
    <3>5. /\ \A a \in As, w \in Ws : ~Says(reports[a][w], Ins(o)) /\ ~Says(reports[a][w], Rem(o))
          /\ \A w \in Ws : /\ ~Says(destructs[w], o) /\ ~Says(free[w], o)
                           /\ Once(destructs[w], o) /\ Once(free[w], o)
      BY <3>3, <3>4
    <3>6. ~Leaving(o) /\ ~Removing(o) /\ ~Kept(o)
      BY <3>3, <3>5 DEF Leaving, Removing, Kept
    <3> QED
      BY <3>2, <3>3, <3>5, <3>6 DEF Fine, AtHome, Tidy, Phase
  <2> QED
    BY <2>1, <2>2 DEF ReuseInv, DroppedOnlyAfterReuseOrLoss, Init, None
<1>2. ReuseInv /\ WindowInv' /\ [Next]_vars => ReuseInv'
  <2> SUFFICES ASSUME ReuseInv, WindowInv', [Next]_vars
               PROVE  ReuseInv'
    OBVIOUS
  <2>1. CASE Next
    <3>1. /\ fault = None /\ TypeOK /\ ThreadInv /\ AcceptorInv /\ ConnInv /\ PlaceInv
          /\ Undisturbed => ObjectInv
      BY <2>1 DEF Next, ReuseInv, WindowInv
    <3>2. fault' = None => PlaceInv'
      BY <2>1, <3>1, PlaceStep
    <3>3. /\ fault' = "dropped" => ~Undisturbed'
          /\ fault' = None /\ Undisturbed' => ObjectInv'
      BY <2>1, <3>1, ObjectStep
    <3>4. DroppedOnlyAfterReuseOrLoss'
      BY <3>3 DEF Undisturbed, DroppedOnlyAfterReuseOrLoss
    <3> QED
      BY <3>2, <3>3, <3>4 DEF ReuseInv
  <2>2. CASE UNCHANGED vars
    BY <2>2 DEF ReuseInv, PlaceInv, Place, Waiting, Held, Queued, ObjectInv, Fine, AtHome, Tidy,
                Phase, Leaving, Removing, Kept, Undisturbed, InsertionLost,
                DroppedOnlyAfterReuseOrLoss, vars, accVars, connVars
  <2> QED
    BY <2>1, <2>2
<1> QED
  BY <1>1, <1>2, WindowInvariant, PTL DEF Spec

(* Without the pool free_list_ stays empty and no object is used twice. *)
UnpooledInv == ~pooled /\ ~InsertionLost => (\A w \in Ws : free[w] = <<>>) /\ reused = {}

LEMMA UnpooledInvariant == Spec => []UnpooledInv
<1>1. Init => UnpooledInv
  BY DEF Init, UnpooledInv
<1>2. ReuseInv /\ UnpooledInv /\ [Next]_vars => UnpooledInv'
  <2> SUFFICES ASSUME ReuseInv, UnpooledInv, [Next]_vars, ~pooled', ~InsertionLost'
               PROVE  (\A w \in Ws : free'[w] = <<>>) /\ reused' = {}
    BY DEF UnpooledInv
  <2>0. pooled' = pooled
    BY DEF vars, Next, MainStep, RunThread, QuitThread, WakeThread, JoinThread, stop, EndLoop, accept,
           acceptEMFILE, AcceptorStep, getEventLoop, LoadNextId, NewConnection, RunReport,
           TakeReport, WorkerStep, RunDestruct, MakeConnection, handleClose, LoopLoses, LoseQuit,
           LoseReport, LoseConnection, LoseDestruct
  <2>l. lost \subseteq lost'
    BY DEF vars, Next, MainStep, RunThread, QuitThread, WakeThread, JoinThread, stop, EndLoop, accept,
           acceptEMFILE, AcceptorStep, getEventLoop, LoadNextId, NewConnection, RunReport,
           TakeReport, WorkerStep, RunDestruct, MakeConnection, handleClose, LoopLoses, LoseQuit,
           LoseReport, LoseConnection, LoseDestruct, Lose
  <2>i. ~InsertionLost
    BY <2>l DEF InsertionLost
  <2>1. (\A w \in Ws : free[w] = <<>>) /\ reused = {}
    BY <2>0, <2>i DEF UnpooledInv
  <2>2. ASSUME NEW w \in Ws, NEW a \in As, MakeConnection(w, a), fault = None
        PROVE  free' = free /\ reused' = reused
    <3>1. TypeOK /\ PlaceInv /\ ObjectInv
      BY <2>1, <2>2, <2>i DEF ReuseInv, WindowInv, Undisturbed
    <3>2. PICK g \in Seq(Clients) : g = given[w][a] /\ g # <<>>
      BY <2>2, <3>1 DEF MakeConnection, TypeOK
    <3>3. PICK c : c = Head(g)
      OBVIOUS
    <3>4. c \in Clients /\ Queued(w, a, c)
      BY <3>2, <3>3, TailPlaces, SaysTail DEF Queued
    <3>5. c \notin served /\ AtHome(c)
      BY <3>1, <3>4 DEF PlaceInv, Place, ObjectInv, Fine, Objects
    <3>6. /\ ~Says(destructs[w], c)
          /\ \A x \in As : ~Says(reports[x][w], Rem(c))
      BY <3>5 DEF AtHome
    <3>7. ~RemovalPending(w, c)
      BY <3>6 DEF RemovalPending, Says, Rem
    <3>8. Acquired(w, c) = c
      BY <2>1 DEF Acquired
    <3>9. reused' = reused
      BY <2>2, <3>2, <3>3, <3>7, <3>8 DEF MakeConnection
    <3>10. free' = free
      BY <2>1, <2>2, <3>1 DEF MakeConnection, TypeOK
    <3> QED
      BY <3>9, <3>10
  <2>3. ASSUME NEW w \in Ws, NEW o \in Objects, handleClose(w, o)
        PROVE  free' = free /\ reused' = reused
    BY <2>0, <2>3 DEF handleClose
  <2>4. ASSUME NEW w \in Ws, \/ RunDestruct(w) \/ LoseDestruct(w)
                             \/ \E a \in As : LoseReport(a, w) \/ LoseConnection(w, a)
        PROVE  free' = free /\ reused' = reused
    BY <2>4 DEF RunDestruct, LoseDestruct, LoseReport, TakeReport, LoseConnection, connVars
  <2>5. ASSUME NEW a \in As, accept(a) \/ acceptEMFILE(a) \/ AcceptorStep(a)
        PROVE  free' = free /\ reused' = reused
    BY <2>5 DEF accept, acceptEMFILE, AcceptorStep, getEventLoop, LoadNextId, NewConnection,
                RunReport, TakeReport, connVars
  <2>6. ASSUME MainStep \/ stop \/ \E t \in As \cup Ws : EndLoop(t) \/ LoseQuit(t)
        PROVE  free' = free /\ reused' = reused
    BY <2>6 DEF MainStep, RunThread, QuitThread, WakeThread, JoinThread, stop, EndLoop, LoseQuit,
                connVars
  <2>7. CASE Next
    BY <2>1, <2>2, <2>3, <2>4, <2>5, <2>6, <2>7 DEF Next, WorkerStep, LoopLoses
  <2>8. CASE UNCHANGED vars
    BY <2>1, <2>8 DEF vars, connVars
  <2> QED
    BY <2>7, <2>8
<1> QED
  BY <1>1, <1>2, ReuseInvariant, PTL DEF Spec

-----------------------------------------------------------------------------
(* The results.                                                            *)

(* The server's variables keep their types: in particular an acceptor      *)
(* hands only accepted clients to workers of the pool, and acquire() is    *)
(* always able to return an object.                                        *)
THEOREM TypeCorrect == Spec => []TypeOK
<1>1. WindowInv => TypeOK
  BY DEF WindowInv
<1> QED
  BY <1>1, WindowInvariant, PTL

(* TcpServer::loop() and stop(): a client meets a null loop only while the *)
(* threads are being started, a report meets a dead acceptor only while    *)
(* they are being stopped, and no client is handed to a dead worker.       *)
THEOREM FaultsOnlyInWindowCorrect == Spec => []FaultsOnlyInWindow
<1>1. WindowInv => FaultsOnlyInWindow
  BY DEF WindowInv
<1> QED
  BY <1>1, WindowInvariant, PTL

(* NewConnection(), handleClose() and removeConnection(): whichever        *)
(* closures the loops drop, a connection loses its last reference too      *)
(* early only when the closure that was to insert a connection into        *)
(* connects_ was dropped, or TcpConPool::acquire() returned an object      *)
(* whose removal was still on its way.                                     *)
THEOREM DroppedOnlyAfterReuseOrLossCorrect == Spec => []DroppedOnlyAfterReuseOrLoss
<1>1. ReuseInv => DroppedOnlyAfterReuseOrLoss
  BY DEF ReuseInv
<1> QED
  BY <1>1, ReuseInvariant, PTL

(* A server that makes its connections with make_shared loses one too      *)
(* early only when a loop drops an insertion: lost removals and lost       *)
(* destruct closures never cost a connection.                              *)
THEOREM DroppedOnlyWithPoolOrLoss == Spec => [](fault = "dropped" => pooled \/ InsertionLost)
<1>1. ReuseInv /\ UnpooledInv => (fault = "dropped" => pooled \/ InsertionLost)
  BY DEF ReuseInv, UnpooledInv, DroppedOnlyAfterReuseOrLoss
<1> QED
  BY <1>1, ReuseInvariant, UnpooledInvariant, PTL
=============================================================================
