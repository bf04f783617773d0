-------------------------- MODULE ThreadPoolProofs --------------------------
(***************************************************************************)
(* Proofs about ThreadPool, for any number of tasks, workers and calls of  *)
(* add_dependency: no task is lost or run twice without one of the two     *)
(* known causes (NoTaskLostOrDuplicated), and a task runs after the tasks  *)
(* it waits for (DependenciesRespected).                                   *)
(***************************************************************************)
EXTENDS ThreadPool, FiniteSetTheorems, FunctionTheorems, TLAPS

-----------------------------------------------------------------------------
(* The invariants.                                                         *)

(* Threads and slots: a null slot has no thread, except the one the        *)
(* monitor is joining; the local queues keep to their capacity.            *)
SlotInv ==
    /\ \A w \in Workers :
          /\ w > size => ~slot[w]
          /\ ~slot[w] => wpc[w] = "none" \/ (mpc = "join" /\ w = mi)
          /\ wpc[w] \in Walk \cup {"exec"} => task[w] \in Tasks
          /\ wpc[w] \in Walk \ {"deps"} => dep[w] \in Tasks
          /\ Len(local[w]) <= Capacity
    /\ mpc \in {"scan", "join", "grow"} => worker_count = size
    /\ mpc = "join" => mi \in 1..size
    /\ cpc = "add" => \E t \in Tasks : carg = <<t>>
    /\ cpc = "insert" => \E t, p \in Tasks : carg = <<t, p>>

(* Who walks through a task's dependents: one worker, after the task ran.  *)
Walks(w) == wpc[w] \in Walk

WalkInv ==
    \A w \in Workers : Walks(w) =>
        /\ ran[task[w]] > 0 /\ todo[w] \subseteq dependents[task[w]]
        /\ wpc[w] # "deps" => dep[w] \in dependents[task[w]]
        /\ wpc[w] = "dec" => dep[w] \in todo[w]
        /\ \A v \in Workers : Walks(v) /\ task[v] = task[w] => v = w

(* The tasks that will still decrement t's counter, and the call of        *)
(* add_dependency that has incremented it and not yet told the             *)
(* predecessor.                                                            *)
Inserting(t) == cpc = "insert" /\ carg[1] = t
Due(t) == {p \in Tasks : \/ t \in dependents[p] /\ ran[p] = 0
                         \/ \E w \in Workers : Walks(w) /\ task[w] = p /\ t \in todo[w]}

CounterInv(t) ==
    /\ unresolved[t] >= Cardinality(Due(t)) + (IF Inserting(t) THEN 1 ELSE 0)
    /\ \A p \in awaits[t] : t \in dependents[p] \/ (cpc = "insert" /\ carg = <<t, p>>)
    /\ status[t] = "none" => awaits[t] = {} /\ ~Inserting(t) /\ \A p \in Tasks : t \notin dependents[p]
    /\ Released(t) => \A p \in awaits[t] : ran[p] > 0

(* How often t exists or has been run.  A task that was released once is   *)
(* released again only when a second predecessor is between its decrement  *)
(* and its store, or after a late call of add_dependency.                  *)
Total(t) == Copies(t) + ran[t]
Preds(t) == {p \in Tasks : t \in dependents[p]}

(* w may still release t, or is about to. *)
Releases(w, t) == wpc[w] \in {"test", "store"} /\ dep[w] = t

CopyInv(t) ==
    /\ status[t] = "PENDING" => Total(t) >= 1
    /\ status[t] # "PENDING" => Total(t) = 0
    /\ Total(t) > 1 => Cardinality(Preds(t)) > 1 \/ t \in late
    /\ Released(t) /\ t \notin late => Due(t) = {} /\ ~Inserting(t)
    /\ status[t] = "PENDING" /\ t \notin late =>
          \A w \in Workers : Releases(w, t) => Cardinality(Preds(t)) > 1

PoolInv == TypeOK /\ SlotInv /\ WalkInv /\ \A t \in Tasks : CounterInv(t) /\ CopyInv(t)

-----------------------------------------------------------------------------
(* Finite sets and least elements.                                         *)

LEMMA Finite ==
    /\ IsFiniteSet(Tasks) /\ IsFiniteSet(Workers)
    /\ MaxThreads \in Nat \ {0} /\ MinThreads \in Nat \ {0} /\ Capacity \in Nat \ {0}
    /\ MinThreads <= MaxThreads
<1>1. IsFiniteSet(Tasks)
  BY PoolAssumption, FS_Union DEF Tasks
<1>2. MaxThreads \in Nat \ {0} /\ MinThreads \in Nat \ {0} /\ Capacity \in Nat \ {0} /\ MinThreads <= MaxThreads
  BY PoolAssumption
<1>3. IsFiniteSet(Workers)
  BY <1>2, FS_Interval DEF Workers
<1> QED
  BY <1>1, <1>2, <1>3

(* try_add_task and add_worker take the first of the candidates. *)
LEMMA Least ==
    ASSUME NEW S, S \subseteq Nat, S # {}
    PROVE  (CHOOSE x \in S : \A y \in S : x <= y) \in S
<1>1. PICK x \in S : \A y \in S : ~(<<y, x>> \in OpToRel(<, Nat))
  BY NatLessThanWellFounded, WFMin
<1>2. \A y \in S : ~(y < x)
  BY <1>1 DEF OpToRel
<1>3. \A y \in S : x <= y
  BY <1>2
<1> QED
  BY <1>3

LEMMA SubsetCardinality ==
    ASSUME NEW S, NEW T, IsFiniteSet(T), S \subseteq T
    PROVE  IsFiniteSet(S) /\ Cardinality(S) \in Nat /\ Cardinality(T) \in Nat
           /\ Cardinality(S) <= Cardinality(T)
BY FS_Subset, FS_CardinalityType

LEMMA DueFinite == \A t : IsFiniteSet(Due(t)) /\ Cardinality(Due(t)) \in Nat
BY Finite, SubsetCardinality DEF Due

-----------------------------------------------------------------------------
(* The copies of a task in the local queues.                               *)

Queues           == [Workers -> Seq(Tasks)]
LocalIn(q, t)    == UNION {{w} \X Positions(q[w], t) : w \in Workers}
Entry(q, w, k, t) == k \in 1..Len(q[w]) /\ q[w][k] = t
Short(q)         == \A w \in Workers : Len(q[w]) <= Capacity
Is(t, u)         == IF t = u THEN 1 ELSE 0

LEMMA IsNumber == \A t, u : Is(t, u) \in {0, 1}
BY DEF Is

(* p has the places of q and one more. *)
OneMore(q, p, v, n, t) ==
    \A w \in Workers : \A k : Entry(p, w, k, t) <=> Entry(q, w, k, t) \/ (w = v /\ k = n)

(* A place in the queues, as an uninterpreted pair. *)
Pair(w, k) == <<w, k>>
First(x)   == x[1]
Second(x)  == x[2]

LEMMA Pairs ==
    ASSUME NEW w, NEW k
    PROVE  /\ \A v, j : Pair(w, k) = Pair(v, j) => w = v /\ k = j
           /\ First(Pair(w, k)) = w /\ Second(Pair(w, k)) = k
           /\ \A S, T : w \in S /\ k \in T => Pair(w, k) \in S \X T
BY DEF Pair, First, Second

LEMMA LocalPlaces ==
    ASSUME NEW q \in Queues, NEW t
    PROVE  /\ \A w \in Workers : \A k : Pair(w, k) \in LocalIn(q, t) <=> Entry(q, w, k, t)
           /\ \A x \in LocalIn(q, t) : \E w \in Workers : \E k \in Nat :
                 x = Pair(w, k) /\ Entry(q, w, k, t)
<1>1. ASSUME NEW w \in Workers, NEW k
      PROVE  Pair(w, k) \in LocalIn(q, t) <=> Entry(q, w, k, t)
  BY <1>1 DEF LocalIn, Positions, Pair, Entry
<1>2. ASSUME NEW x \in LocalIn(q, t)
      PROVE  \E w \in Workers : \E k \in Nat : x = Pair(w, k) /\ Entry(q, w, k, t)
  <2>1. PICK w \in Workers : x \in {w} \X Positions(q[w], t)
    BY <1>2 DEF LocalIn
  <2>2. PICK k \in Positions(q[w], t) : x = <<w, k>>
    BY <2>1
  <2>3. k \in Nat
    BY <2>2 DEF Positions
  <2> QED
    BY <2>2, <2>3 DEF Pair, Entry, Positions
<1> QED
  BY <1>1, <1>2

(* Two families of queues that have the same places but for one. *)
LEMMA LocalPlus ==
    ASSUME NEW q \in Queues, NEW p \in Queues, NEW t, NEW v \in Workers, NEW n,
           OneMore(q, p, v, n, t)
    PROVE  LocalIn(p, t) = LocalIn(q, t) \cup {Pair(v, n)}
<1>1. ASSUME NEW x \in LocalIn(p, t)
      PROVE  x \in LocalIn(q, t) \cup {Pair(v, n)}
  <2>1. PICK w \in Workers, k \in Nat : x = Pair(w, k) /\ Entry(p, w, k, t)
    BY LocalPlaces
  <2>2. CASE Entry(q, w, k, t)
    BY <2>1, <2>2, LocalPlaces
  <2>3. CASE w = v /\ k = n
    BY <2>1, <2>3
  <2> QED
    BY <2>1, <2>2, <2>3 DEF OneMore
<1>2. ASSUME NEW x \in LocalIn(q, t)
      PROVE  x \in LocalIn(p, t)
  <2>1. PICK w \in Workers, k \in Nat : x = Pair(w, k) /\ Entry(q, w, k, t)
    BY LocalPlaces
  <2>2. Entry(p, w, k, t)
    BY <2>1 DEF OneMore
  <2> QED
    BY <2>1, <2>2, LocalPlaces
<1>3. Pair(v, n) \in LocalIn(p, t)
  <2>1. Entry(p, v, n, t)
    BY DEF OneMore
  <2> QED
    BY <2>1, LocalPlaces
<1> QED
  BY <1>1, <1>2, <1>3

LEMMA LocalSame ==
    ASSUME NEW q \in Queues, NEW p \in Queues, NEW t,
           \A w \in Workers : \A k : Entry(p, w, k, t) <=> Entry(q, w, k, t)
    PROVE  LocalIn(p, t) = LocalIn(q, t)
<1>1. ASSUME NEW x \in LocalIn(p, t)
      PROVE  x \in LocalIn(q, t)
  <2>1. PICK w \in Workers, k \in Nat : x = Pair(w, k) /\ Entry(p, w, k, t)
    BY LocalPlaces
  <2>2. Entry(q, w, k, t)
    BY <2>1
  <2> QED
    BY <2>1, <2>2, LocalPlaces
<1>2. ASSUME NEW x \in LocalIn(q, t)
      PROVE  x \in LocalIn(p, t)
  <2>1. PICK w \in Workers, k \in Nat : x = Pair(w, k) /\ Entry(q, w, k, t)
    BY LocalPlaces
  <2>2. Entry(p, w, k, t)
    BY <2>1
  <2> QED
    BY <2>1, <2>2, LocalPlaces
<1> QED
  BY <1>1, <1>2

LEMMA LocalFinite ==
    ASSUME NEW q \in Queues, NEW t, Short(q)
    PROVE  IsFiniteSet(LocalIn(q, t)) /\ Cardinality(LocalIn(q, t)) \in Nat
<1>1. IsFiniteSet(1..Capacity)
  BY Finite, FS_Interval
<1>2. IsFiniteSet(Workers \X (1..Capacity))
  BY <1>1, Finite, FS_Product
<1>3. ASSUME NEW x \in LocalIn(q, t)
      PROVE  x \in Workers \X (1..Capacity)
  <2>1. PICK w \in Workers, k \in Nat : x = Pair(w, k) /\ Entry(q, w, k, t)
    BY LocalPlaces
  <2>2. Len(q[w]) <= Capacity /\ Len(q[w]) \in Nat
    BY DEF Short, Queues
  <2>3. k \in 1..Capacity
    BY <2>1, <2>2, Finite DEF Entry
  <2> QED
    BY <2>1, <2>3, Pairs
<1>4. LocalIn(q, t) \subseteq Workers \X (1..Capacity)
  BY <1>3
<1> QED
  BY <1>2, <1>4, SubsetCardinality

LEMMA LocalMore ==
    ASSUME NEW q \in Queues, NEW p \in Queues, Short(q), NEW t, NEW v \in Workers, NEW n,
           ~Entry(q, v, n, t), OneMore(q, p, v, n, t)
    PROVE  Cardinality(LocalIn(p, t)) = Cardinality(LocalIn(q, t)) + 1
<1>1. LocalIn(p, t) = LocalIn(q, t) \cup {Pair(v, n)}
  BY LocalPlus
<1>2. Pair(v, n) \notin LocalIn(q, t)
  BY LocalPlaces
<1> QED
  BY <1>1, <1>2, LocalFinite, FS_AddElement

(* The changes of a queue: p after, q before, u the task. *)
Pushed(q, p, v, u)  == p = [q EXCEPT ![v] = Append(q[v], u)]
PoppedAt(q, p, v, u) == q[v] # <<>> /\ u = Head(q[v]) /\ p = [q EXCEPT ![v] = Tail(q[v])]
StolenAt(q, p, v, u) == /\ q[v] # <<>> /\ u = q[v][Len(q[v])]
                        /\ p = [q EXCEPT ![v] = SubSeq(q[v], 1, Len(q[v]) - 1)]

(* try_push_task appends ... *)
LEMMA LocalAppend ==
    ASSUME NEW q \in Queues, Short(q), NEW v \in Workers, NEW u \in Tasks,
           NEW p, Pushed(q, p, v, u), NEW t
    PROVE  Cardinality(LocalIn(p, t)) = Cardinality(LocalIn(q, t)) + Is(t, u)
<1>0. p = [q EXCEPT ![v] = Append(q[v], u)]
  BY DEF Pushed
<1>1. PICK n : n = Len(q[v])
  OBVIOUS
<1>2. /\ n \in Nat /\ p \in Queues /\ Len(p[v]) = n + 1 /\ p[v][n + 1] = u
      /\ \A k \in 1..n : p[v][k] = q[v][k]
      /\ \A w \in Workers : w # v => p[w] = q[w]
  <2>1. q[v] \in Seq(Tasks) /\ n \in Nat
    BY <1>0, <1>1 DEF Queues
  <2>2. p[v] = Append(q[v], u) /\ \A w \in Workers : w # v => p[w] = q[w]
    BY <1>0 DEF Queues
  <2>3. Append(q[v], u) \in Seq(Tasks)
    BY <2>1
  <2>4. p \in Queues
    BY <1>0, <2>3 DEF Queues
  <2>5. Len(p[v]) = n + 1 /\ p[v][n + 1] = u /\ \A k \in 1..n : p[v][k] = q[v][k]
    BY <1>0, <1>1, <2>1, <2>2
  <2> QED
    BY <2>1, <2>2, <2>4, <2>5
<1>3. ASSUME NEW w \in Workers, NEW k
      PROVE  Entry(p, w, k, t) <=> Entry(q, w, k, t) \/ (w = v /\ k = n + 1 /\ t = u)
  <2>1. CASE w = v
    <3>1. k \in 1..(n + 1) <=> k \in 1..n \/ k = n + 1
      BY <1>2
    <3> QED
      BY <1>1, <1>2, <2>1, <3>1 DEF Entry
  <2>2. CASE w # v
    BY <1>2, <2>2 DEF Entry
  <2> QED
    BY <2>1, <2>2
<1>4. ~Entry(q, v, n + 1, t)
  BY <1>1, <1>2 DEF Entry
<1>5. CASE t = u
  <2>1. PICK m : m = n + 1
    OBVIOUS
  <2>2. ASSUME NEW w \in Workers, NEW k
        PROVE  Entry(p, w, k, t) <=> Entry(q, w, k, t) \/ (w = v /\ k = m)
    <3>1. Entry(p, w, k, t) <=> Entry(q, w, k, t) \/ (w = v /\ k = n + 1 /\ t = u)
      BY <1>3
    <3> QED
      BY <1>5, <2>1, <3>1
  <2>3. OneMore(q, p, v, m, t)
    BY <2>2, Zenon DEF OneMore
  <2>4. ~Entry(q, v, m, t)
    BY <1>4, <2>1
  <2> QED
    BY <1>2, <1>5, <2>3, <2>4, LocalMore DEF Is
<1>6. CASE t # u
  <2>1. LocalIn(p, t) = LocalIn(q, t)
    BY <1>2, <1>3, <1>6, LocalSame
  <2> QED
    BY <1>6, <2>1, LocalFinite DEF Is
<1> QED
  BY <1>5, <1>6

(* ... a thief takes the last element ... *)
LEMMA LocalDropLast ==
    ASSUME NEW q \in Queues, Short(q), NEW v \in Workers,
           NEW p, NEW u, StolenAt(q, p, v, u), NEW t
    PROVE  Cardinality(LocalIn(p, t)) = Cardinality(LocalIn(q, t)) - Is(t, u)
<1>0. q[v] # <<>> /\ u = q[v][Len(q[v])] /\ p = [q EXCEPT ![v] = SubSeq(q[v], 1, Len(q[v]) - 1)]
  BY DEF StolenAt
<1>1. PICK n : n = Len(q[v])
  OBVIOUS
<1>2. /\ n \in Nat /\ n > 0 /\ p \in Queues /\ Len(p[v]) = n - 1 /\ u = q[v][n]
      /\ \A k \in 1..(n - 1) : p[v][k] = q[v][k]
      /\ \A w \in Workers : w # v => p[w] = q[w]
  <2>1. q[v] \in Seq(Tasks) /\ n \in Nat /\ n > 0
    BY <1>0, <1>1 DEF Queues
  <2>2. p[v] = SubSeq(q[v], 1, n - 1) /\ \A w \in Workers : w # v => p[w] = q[w]
    BY <1>0, <1>1 DEF Queues
  <2>3. SubSeq(q[v], 1, n - 1) \in Seq(Tasks)
    BY <1>0, <1>1, <2>1
  <2>4. p \in Queues
    BY <1>0, <1>1, <2>3 DEF Queues
  <2>5. Len(p[v]) = n - 1 /\ \A k \in 1..(n - 1) : p[v][k] = q[v][k]
    BY <1>0, <1>1, <2>1, <2>2
  <2> QED
    BY <1>0, <1>1, <2>1, <2>2, <2>4, <2>5
<1>3. ASSUME NEW w \in Workers, NEW k
      PROVE  Entry(q, w, k, t) <=> Entry(p, w, k, t) \/ (w = v /\ k = n /\ t = u)
  <2>1. CASE w = v
    <3>1. k \in 1..n <=> k \in 1..(n - 1) \/ k = n
      BY <1>2
    <3> QED
      BY <1>1, <1>2, <2>1, <3>1 DEF Entry
  <2>2. CASE w # v
    BY <1>2, <2>2 DEF Entry
  <2> QED
    BY <2>1, <2>2
<1>4. ~Entry(p, v, n, t)
  BY <1>1, <1>2 DEF Entry
<1>5. Short(p)
  <2>1. n <= Capacity
    BY <1>1 DEF Short
  <2>2. Len(p[v]) <= Capacity
    BY <1>2, <2>1, Finite
  <2> QED
    BY <1>2, <2>2 DEF Short
<1>6. Cardinality(LocalIn(p, t)) \in Nat
  BY <1>2, <1>5, LocalFinite
<1>7. CASE t = u
  <2>1. OneMore(p, q, v, n, t)
    <3>1. ASSUME NEW w \in Workers, NEW k
          PROVE  Entry(q, w, k, t) <=> Entry(p, w, k, t) \/ (w = v /\ k = n)
      <4>1. Entry(q, w, k, t) <=> Entry(p, w, k, t) \/ (w = v /\ k = n /\ t = u)
        BY <1>3
      <4> QED
        BY <1>7, <4>1
    <3> QED
      BY <3>1, Zenon DEF OneMore
  <2>2. Cardinality(LocalIn(q, t)) = Cardinality(LocalIn(p, t)) + 1
    BY <1>2, <1>4, <1>5, <2>1, LocalMore
  <2> QED
    BY <1>6, <1>7, <2>2 DEF Is
<1>8. CASE t # u
  <2>1. LocalIn(p, t) = LocalIn(q, t)
    BY <1>2, <1>3, <1>8, LocalSame
  <2> QED
    BY <1>6, <1>8, <2>1 DEF Is
<1> QED
  BY <1>7, <1>8

(* ... the owner takes the first, and the others move up ... *)
LEMMA LocalTail ==
    ASSUME NEW q \in Queues, Short(q), NEW v \in Workers,
           NEW p, NEW u, PoppedAt(q, p, v, u), NEW t
    PROVE  Cardinality(LocalIn(p, t)) = Cardinality(LocalIn(q, t)) - Is(t, u)
<1>0. q[v] # <<>> /\ u = Head(q[v]) /\ p = [q EXCEPT ![v] = Tail(q[v])]
  BY DEF PoppedAt
<1>1. PICK n : n = Len(q[v])
  OBVIOUS
<1>2. /\ n \in Nat /\ n > 0 /\ p \in Queues /\ Len(p[v]) = n - 1 /\ u = q[v][1]
      /\ \A k \in 1..(n - 1) : p[v][k] = q[v][k + 1]
      /\ \A w \in Workers : w # v => p[w] = q[w]
  <2>1. q[v] \in Seq(Tasks) /\ n \in Nat /\ n > 0
    BY <1>0, <1>1 DEF Queues
  <2>2. p[v] = Tail(q[v]) /\ \A w \in Workers : w # v => p[w] = q[w]
    BY <1>0, <1>1 DEF Queues
  <2>3. Tail(q[v]) \in Seq(Tasks)
    BY <1>0, <1>1, <2>1
  <2>4. p \in Queues
    BY <1>0, <1>1, <2>3 DEF Queues
  <2>5. Len(p[v]) = n - 1 /\ \A k \in 1..(n - 1) : p[v][k] = q[v][k + 1]
    <3>1. PICK s \in Seq(Tasks) : s = q[v] /\ s # <<>>
      BY <1>0, <2>1
    <3>2. Len(Tail(s)) = n - 1
      BY <1>0, <1>1, <2>1, <3>1
    <3>3. \A k \in 1..(n - 1) : Tail(s)[k] = s[k + 1]
      BY <1>0, <1>1, <2>1, <3>1
    <3> QED
      BY <2>2, <3>1, <3>2, <3>3
  <2> QED
    BY <1>0, <1>1, <2>1, <2>2, <2>4, <2>5
<1>3. \A w \in Workers : \A k : Entry(p, w, k, t) => k \in Nat /\ Entry(q, w, IF w = v THEN k + 1 ELSE k, t)
  <2>1. ASSUME NEW w \in Workers, NEW k, Entry(p, w, k, t)
        PROVE  k \in Nat
    BY <2>1 DEF Entry
  <2>2. ASSUME NEW k, Entry(p, v, k, t)
        PROVE  Entry(q, v, k + 1, t)
    BY <1>1, <1>2, <2>2 DEF Entry
  <2>3. ASSUME NEW w \in Workers, NEW k, w # v, Entry(p, w, k, t)
        PROVE  Entry(q, w, k, t)
    BY <1>2, <2>3 DEF Entry
  <2> QED
    BY <2>1, <2>2, <2>3
<1>4. ASSUME NEW w \in Workers, NEW k \in Nat, Entry(q, w, k, t), ~(w = v /\ k = 1)
      PROVE  \E j \in Nat : Entry(p, w, j, t) /\ k = IF w = v THEN j + 1 ELSE j
  <2>1. CASE w = v
    <3>1. k - 1 \in Nat /\ k - 1 \in 1..(n - 1) /\ (k - 1) + 1 = k
      BY <1>1, <1>2, <1>4, <2>1 DEF Entry
    <3>2. Entry(p, w, k - 1, t)
      BY <1>2, <1>4, <2>1, <3>1 DEF Entry
    <3> QED
      BY <2>1, <3>1, <3>2
  <2>2. CASE w # v
    BY <1>2, <1>4, <2>2 DEF Entry
  <2> QED
    BY <2>1, <2>2
<1>5. Entry(q, v, 1, t) <=> t = u
  BY <1>1, <1>2 DEF Entry
<1> DEFINE moved(x) == Pair(First(x), IF First(x) = v THEN Second(x) + 1 ELSE Second(x))
           f == [x \in LocalIn(p, t) |-> moved(x)]
           rest == LocalIn(q, t) \ {Pair(v, 1)}
<1>6. ASSUME NEW x \in LocalIn(p, t)
      PROVE  f[x] \in rest
  <2>1. PICK w \in Workers, k \in Nat : x = Pair(w, k) /\ Entry(p, w, k, t)
    BY <1>2, LocalPlaces
  <2>2. First(x) = w /\ Second(x) = k
    BY <2>1, Pairs
  <2>3. PICK j \in Nat : j = IF w = v THEN k + 1 ELSE k
    OBVIOUS
  <2>4. f[x] = Pair(w, j)
    BY <2>2, <2>3
  <2>5. Pair(w, j) \in LocalIn(q, t)
    BY <1>3, <2>1, <2>3, LocalPlaces
  <2>6. k # 0
    BY <1>2, <2>1 DEF Entry, Queues
  <2>7. ~(w = v /\ j = 1)
    BY <2>3, <2>6
  <2>8. Pair(w, j) # Pair(v, 1)
    BY <2>7, Pairs
  <2> QED
    BY <2>4, <2>5, <2>8
<1>7. ASSUME NEW x \in LocalIn(p, t), NEW y \in LocalIn(p, t), f[x] = f[y]
      PROVE  x = y
  <2>1. PICK w \in Workers, k \in Nat : x = Pair(w, k) /\ Entry(p, w, k, t)
    BY <1>2, LocalPlaces
  <2>2. PICK w2 \in Workers, k2 \in Nat : y = Pair(w2, k2) /\ Entry(p, w2, k2, t)
    BY <1>2, LocalPlaces
  <2>3. First(x) = w /\ Second(x) = k /\ First(y) = w2 /\ Second(y) = k2
    BY <2>1, <2>2, Pairs
  <2>4. PICK j \in Nat : j = IF w = v THEN k + 1 ELSE k
    OBVIOUS
  <2>5. PICK j2 \in Nat : j2 = IF w2 = v THEN k2 + 1 ELSE k2
    OBVIOUS
  <2>6. Pair(w, j) = Pair(w2, j2)
    BY <1>7, <2>3, <2>4, <2>5
  <2>7. w = w2 /\ j = j2
    BY <2>6, Pairs
  <2>8. k = k2
    BY <2>4, <2>5, <2>7
  <2> QED
    BY <2>1, <2>2, <2>7, <2>8
<1>8. ASSUME NEW y \in rest
      PROVE  \E x \in LocalIn(p, t) : f[x] = y
  <2>1. PICK w \in Workers, k \in Nat : y = Pair(w, k) /\ Entry(q, w, k, t)
    BY <1>8, LocalPlaces
  <2>2. ~(w = v /\ k = 1)
    BY <1>8, <2>1
  <2>3. PICK j \in Nat : Entry(p, w, j, t) /\ k = IF w = v THEN j + 1 ELSE j
    BY <1>4, <2>1, <2>2
  <2>4. Pair(w, j) \in LocalIn(p, t)
    BY <1>2, <2>3, LocalPlaces
  <2>5. First(Pair(w, j)) = w /\ Second(Pair(w, j)) = j
    BY Pairs
  <2>6. f[Pair(w, j)] = Pair(w, k)
    BY <2>3, <2>4, <2>5
  <2> QED
    BY <2>1, <2>4, <2>6
<1>9. f \in Bijection(LocalIn(p, t), rest)
  <2>1. f \in [LocalIn(p, t) -> rest]
    BY <1>6
  <2> HIDE DEF f
  <2> QED
    BY <1>7, <1>8, <2>1 DEF Bijection, Injection, Surjection, IsInjective
<1>10. IsFiniteSet(LocalIn(q, t)) /\ Cardinality(LocalIn(q, t)) \in Nat
  BY LocalFinite
<1>11. IsFiniteSet(rest) /\ Cardinality(rest) = Cardinality(LocalIn(q, t)) - Is(t, u)
  <2>1. Pair(v, 1) \in LocalIn(q, t) <=> t = u
    BY <1>5, LocalPlaces
  <2> QED
    BY <1>10, <2>1, FS_RemoveElement DEF Is
<1>12. ExistsBijection(LocalIn(p, t), rest)
  BY <1>9 DEF ExistsBijection
<1>13. ExistsBijection(rest, LocalIn(p, t))
  BY <1>12, Fun_ExistsBijSymmetric
<1> HIDE DEF f, rest
<1>14. Cardinality(LocalIn(p, t)) = Cardinality(rest)
  BY <1>11, <1>13, FS_Bijection
<1> QED
  BY <1>11, <1>14

(* ... and remove_worker empties a queue. *)
LEMMA LocalClear ==
    ASSUME NEW q \in Queues, Short(q), NEW v \in Workers,
           NEW p, p = [q EXCEPT ![v] = <<>>], NEW t
    PROVE  /\ Occurrences(q[v], t) \in Nat
           /\ Cardinality(LocalIn(p, t)) + Occurrences(q[v], t) = Cardinality(LocalIn(q, t))
<1>1. p \in Queues /\ p[v] = <<>> /\ \A w \in Workers : w # v => p[w] = q[w]
  BY DEF Queues
<1>2. Short(p)
  BY <1>1, Finite DEF Short
<1> DEFINE here == Positions(q[v], t)
           gone == {v} \X here
<1>3. IsFiniteSet(here) /\ Cardinality(here) \in Nat
  <2>1. Len(q[v]) \in Nat
    BY DEF Queues
  <2>2. IsFiniteSet(1..Len(q[v]))
    BY <2>1, FS_Interval
  <2> QED
    BY <2>2, SubsetCardinality DEF Positions
<1>4. IsFiniteSet(gone) /\ Cardinality(gone) = Cardinality(here)
  <2>1. IsFiniteSet({v}) /\ Cardinality({v}) = 1
    BY FS_Singleton
  <2> QED
    BY <1>3, <2>1, FS_Product
<1>5. \A k : Pair(v, k) \in gone <=> Entry(q, v, k, t)
  BY DEF Pair, Entry, Positions
<1>6. ASSUME NEW w \in Workers, NEW k
      PROVE  Entry(p, w, k, t) <=> w # v /\ Entry(q, w, k, t)
  BY <1>1 DEF Entry
<1>7. \A x \in gone : \E k : x = Pair(v, k)
  BY DEF Pair
<1> HIDE DEF gone, here
<1>8. LocalIn(p, t) \cap gone = {}
  <2>1. ASSUME NEW x \in LocalIn(p, t), x \in gone
        PROVE  FALSE
    <3>1. PICK k : x = Pair(v, k)
      BY <1>7, <2>1
    <3>2. Entry(p, v, k, t)
      BY <1>1, <2>1, <3>1, LocalPlaces
    <3> QED
      BY <1>6, <3>2
  <2> QED
    BY <2>1
<1>9. LocalIn(p, t) \cup gone = LocalIn(q, t)
  <2>1. ASSUME NEW x \in LocalIn(p, t)
        PROVE  x \in LocalIn(q, t)
    <3>1. PICK w \in Workers, k \in Nat : x = Pair(w, k) /\ Entry(p, w, k, t)
      BY <1>1, LocalPlaces
    <3> QED
      BY <1>6, <3>1, LocalPlaces
  <2>2. ASSUME NEW x \in gone
        PROVE  x \in LocalIn(q, t)
    <3>1. PICK k : x = Pair(v, k)
      BY <1>7, <2>2
    <3> QED
      BY <1>5, <2>2, <3>1, LocalPlaces
  <2>3. ASSUME NEW x \in LocalIn(q, t)
        PROVE  x \in LocalIn(p, t) \cup gone
    <3>1. PICK w \in Workers, k \in Nat : x = Pair(w, k) /\ Entry(q, w, k, t)
      BY LocalPlaces
    <3>2. CASE w = v
      BY <1>5, <3>1, <3>2
    <3>3. CASE w # v
      BY <1>1, <1>6, <3>1, <3>3, LocalPlaces
    <3> QED
      BY <3>2, <3>3
  <2> QED
    BY <2>1, <2>2, <2>3
<1>10. IsFiniteSet(LocalIn(p, t)) /\ Cardinality(LocalIn(p, t)) \in Nat
  BY <1>1, <1>2, LocalFinite
<1>11. Cardinality(LocalIn(q, t)) = Cardinality(LocalIn(p, t)) + Cardinality(gone) - Cardinality({})
  <2>1. PICK A : A = LocalIn(p, t) /\ IsFiniteSet(A)
    BY <1>10
  <2>2. Cardinality(A \cup gone) = Cardinality(A) + Cardinality(gone) - Cardinality(A \cap gone)
    BY <1>4, <2>1, FS_Union
  <2> QED
    BY <1>8, <1>9, <2>1, <2>2
<1>12. Cardinality({}) = 0
  BY FS_EmptySet
<1> QED
  BY <1>3, <1>4, <1>10, <1>11, <1>12 DEF Occurrences, here

-----------------------------------------------------------------------------
(* The types, and the threads in their slots.                              *)

Typed == TypeOK /\ SlotInv

(* What a local queue is, and what it stays under the three changes. *)
LEMMA QueueFacts ==
    ASSUME Typed
    PROVE  /\ local \in Queues /\ Short(local)
           /\ \A w \in Workers : local[w] \in Seq(Tasks) /\ Len(local[w]) \in Nat
                                 /\ Len(local[w]) <= Capacity
BY DEF Typed, TypeOK, SlotInv, Queues, Short

LEMMA Appended ==
    ASSUME NEW q \in Queues, Short(q), NEW v \in Workers, NEW t \in Tasks,
           Len(q[v]) < Capacity
    PROVE  [q EXCEPT ![v] = Append(q[v], t)] \in Queues
           /\ Short([q EXCEPT ![v] = Append(q[v], t)])
<1>1. PICK s \in Seq(Tasks) : s = q[v] /\ Len(s) \in Nat
  BY DEF Queues
<1>2. Append(s, t) \in Seq(Tasks) /\ Len(Append(s, t)) = Len(s) + 1
  BY <1>1
<1>3. Len(Append(s, t)) <= Capacity
  BY <1>1, <1>2, Finite
<1> QED
  BY <1>1, <1>2, <1>3 DEF Queues, Short

LEMMA Popped ==
    ASSUME NEW q \in Queues, Short(q), NEW v \in Workers, q[v] # <<>>
    PROVE  /\ Head(q[v]) \in Tasks
           /\ [q EXCEPT ![v] = Tail(q[v])] \in Queues /\ Short([q EXCEPT ![v] = Tail(q[v])])
<1>1. PICK s \in Seq(Tasks) : s = q[v] /\ s # <<>> /\ Len(s) \in Nat
  BY DEF Queues
<1>2. Head(s) \in Tasks /\ Tail(s) \in Seq(Tasks) /\ Len(Tail(s)) = Len(s) - 1
  BY <1>1
<1>3. Len(Tail(s)) <= Capacity
  BY <1>1, <1>2, Finite DEF Short
<1> QED
  BY <1>1, <1>2, <1>3 DEF Queues, Short

LEMMA Stolen ==
    ASSUME NEW q \in Queues, Short(q), NEW v \in Workers, q[v] # <<>>
    PROVE  /\ q[v][Len(q[v])] \in Tasks
           /\ [q EXCEPT ![v] = SubSeq(q[v], 1, Len(q[v]) - 1)] \in Queues
           /\ Short([q EXCEPT ![v] = SubSeq(q[v], 1, Len(q[v]) - 1)])
<1>1. PICK s \in Seq(Tasks) : s = q[v] /\ s # <<>> /\ Len(s) \in Nat /\ Len(s) > 0
  BY DEF Queues
<1>2. s[Len(s)] \in Tasks /\ SubSeq(s, 1, Len(s) - 1) \in Seq(Tasks)
      /\ Len(SubSeq(s, 1, Len(s) - 1)) = Len(s) - 1
  BY <1>1
<1>3. Len(SubSeq(s, 1, Len(s) - 1)) <= Capacity
  BY <1>1, <1>2, Finite DEF Short
<1> QED
  BY <1>1, <1>2, <1>3 DEF Queues, Short

LEMMA Emptied ==
    ASSUME NEW q \in Queues, Short(q), NEW v \in Workers
    PROVE  [q EXCEPT ![v] = <<>>] \in Queues /\ Short([q EXCEPT ![v] = <<>>])
<1>1. <<>> \in Seq(Tasks) /\ Len(<<>>) = 0
  OBVIOUS
<1> QED
  BY <1>1, Finite DEF Queues, Short

LEMMA TypedInit == Init => Typed
<1> SUFFICES ASSUME Init PROVE Typed
  OBVIOUS
<1>1. /\ size \in 0..MaxThreads /\ mi \in 1..MaxThreads + 1 /\ worker_count \in 0..MaxThreads
      /\ depCalls \in 0..DepCalls
  BY Finite, PoolAssumption DEF Init
<1>2. /\ slot \in [Workers -> BOOLEAN] /\ Stoping \in [Workers -> BOOLEAN]
      /\ wpc \in [Workers -> Places] /\ todo \in [Workers -> SUBSET Tasks]
  BY DEF Init, Places, Walk
<1>3. local \in [Workers -> Seq(Tasks)] /\ carg \in Seq(Tasks)
  BY DEF Init
<1>4. TypeOK
  <2>1. /\ task \in [Workers -> Tasks \cup {None}] /\ dep \in [Workers -> Tasks \cup {None}]
        /\ global \in [Tasks -> Nat] /\ unresolved \in [Tasks -> Int] /\ ran \in [Tasks -> Nat]
    BY DEF Init
  <2>2. /\ status \in [Tasks -> {"none", "DEPENDENCY", "PENDING"}] /\ all_tasks \subseteq Tasks
        /\ dependents \in [Tasks -> SUBSET Tasks] /\ awaits \in [Tasks -> SUBSET Tasks]
        /\ late \subseteq Tasks
    BY DEF Init
  <2>3. /\ cpc \in {"idle", "add", "insert"} /\ strategies \in BOOLEAN /\ running \in BOOLEAN
        /\ mpc \in {"off", "top", "scan", "join", "grow", "exit"}
        /\ spc \in {"none", "monitor", "workers", "done"} /\ aborted \in BOOLEAN
    BY DEF Init
  <2> QED
    BY <1>1, <1>2, <1>3, <2>1, <2>2, <2>3 DEF TypeOK
<1>5. \A w \in Workers : /\ w > size => ~slot[w]
                         /\ ~slot[w] => wpc[w] = "none"
                         /\ wpc[w] \in {"none", "local"}
  <2>1. ASSUME NEW w \in Workers
        PROVE  /\ slot[w] <=> w <= MinThreads
               /\ wpc[w] = IF w <= MinThreads THEN "local" ELSE "none"
    BY DEF Init
  <2>2. size = MinThreads /\ \A w \in Workers : w \in Nat
    BY DEF Init, Workers
  <2>3. ASSUME NEW w \in Workers
        PROVE  /\ w > size => ~slot[w]
               /\ ~slot[w] => wpc[w] = "none"
               /\ wpc[w] \in {"none", "local"}
    <3>1. CASE w <= MinThreads
      BY <2>1, <2>2, <3>1, Finite
    <3>2. CASE ~(w <= MinThreads)
      BY <2>1, <2>2, <3>2, Finite
    <3> QED
      BY <3>1, <3>2
  <2> QED
    BY <2>3
<1>6. \A w \in Workers : Len(local[w]) <= Capacity
  BY Finite DEF Init
<1>7. SlotInv
  BY <1>5, <1>6 DEF Init, SlotInv, Walk
<1> QED
  BY <1>4, <1>7 DEF Typed

(* The calling thread. *)
LEMMA TypedClient ==
    ASSUME Typed, Client
    PROVE  Typed'
<1> USE DEF Typed
<1>1. ASSUME NEW t \in Tasks, submit(t)
      PROVE  Typed'
  <2>1. TypeOK'
    BY <1>1 DEF TypeOK, submit, workerVars, queueVars, slotVars, monitorVars, history
  <2>2. SlotInv'
    BY <1>1 DEF TypeOK, SlotInv, submit, workerVars, queueVars, slotVars, monitorVars, history
  <2> QED
    BY <2>1, <2>2
<1>2. ASSUME NEW t \in Tasks, dep_submit(t)
      PROVE  Typed'
  <2>1. TypeOK'
    BY <1>2 DEF TypeOK, dep_submit, workerVars, queueVars, slotVars, clientVars, monitorVars, history
  <2>2. SlotInv'
    BY <1>2 DEF TypeOK, SlotInv, dep_submit, workerVars, queueVars, slotVars, clientVars, monitorVars, history
  <2> QED
    BY <2>1, <2>2
<1>3. ASSUME NEW t \in DepTasks, NEW p \in Tasks, AddDependency(t, p)
      PROVE  Typed'
  <2>0. t \in Tasks /\ depCalls + 1 \in 0..DepCalls
    BY <1>3, PoolAssumption DEF Tasks, TypeOK, AddDependency
  <2>1. TypeOK'
    <3>1. carg' \in Seq(Tasks)
      <4>1. <<t, p>> \in Seq(Tasks)
        BY <2>0
      <4> QED
        BY <1>3, <4>1 DEF TypeOK, AddDependency
    <3>2. unresolved' \in [Tasks -> Int] /\ awaits' \in [Tasks -> SUBSET Tasks] /\ late' \subseteq Tasks
      <4>1. unresolved' = [unresolved EXCEPT ![t] = unresolved[t] + 1] \/ unresolved' = unresolved
        BY <1>3 DEF AddDependency
      <4>2. awaits' = [awaits EXCEPT ![t] = awaits[t] \cup {p}] \/ awaits' = awaits
        BY <1>3 DEF AddDependency
      <4>3. late' = late \cup {t} \/ late' = late
        BY <1>3 DEF AddDependency
      <4>4. unresolved' \in [Tasks -> Int]
        <5>1. unresolved \in [Tasks -> Int] /\ unresolved[t] + 1 \in Int
          BY <2>0 DEF TypeOK
        <5> QED
          BY <4>1, <5>1
      <4>5. awaits' \in [Tasks -> SUBSET Tasks]
        <5>1. awaits \in [Tasks -> SUBSET Tasks] /\ awaits[t] \cup {p} \in SUBSET Tasks
          BY <2>0 DEF TypeOK
        <5> QED
          BY <4>2, <5>1
      <4>6. late' \subseteq Tasks
        BY <2>0, <4>3 DEF TypeOK
      <4> QED
        BY <4>4, <4>5, <4>6
    <3> QED
      BY <1>3, <2>0, <3>1, <3>2 DEF TypeOK, AddDependency, workerVars, queueVars, slotVars, monitorVars
  <2>2. SlotInv'
    BY <1>3, <2>0 DEF TypeOK, SlotInv, AddDependency, workerVars, queueVars, slotVars, monitorVars
  <2> QED
    BY <2>1, <2>2
<1>4. ASSUME InsertDependent
      PROVE  Typed'
  <2>1. PICK t \in Tasks, p \in Tasks : carg = <<t, p>>
    BY <1>4 DEF InsertDependent, SlotInv
  <2>2. todo' \in [Workers -> SUBSET Tasks] /\ dependents' \in [Tasks -> SUBSET Tasks]
    BY <1>4, <2>1 DEF InsertDependent, TypeOK
  <2>3. TypeOK'
    <3>1. carg' \in Seq(Tasks) /\ cpc' = "idle"
      BY <1>4 DEF InsertDependent
    <3>2. UNCHANGED <<wpc, task, dep, queueVars, slotVars, all_tasks, status,
                      unresolved, depCalls, monitorVars, spc, aborted, history>>
      BY <1>4 DEF InsertDependent
    <3> QED
      BY <2>2, <3>1, <3>2 DEF TypeOK, queueVars, slotVars, monitorVars, history
  <2>4. SlotInv'
    BY <1>4 DEF TypeOK, SlotInv, InsertDependent, queueVars, slotVars, monitorVars, history
  <2> QED
    BY <2>3, <2>4
<1>5. ASSUME AddTask
      PROVE  Typed'
  <2>1. PICK t \in Tasks : carg = <<t>>
    BY <1>5 DEF AddTask, SlotInv
  <2>2. local' \in Queues /\ Short(local') /\ global' \in [Tasks -> Nat]
    <3>1. CASE Roomy = {}
      <4>1. global' = [global EXCEPT ![t] = global[t] + 1] /\ local' = local
        BY <1>5, <2>1, <3>1 DEF AddTask, enqueue_task
      <4>2. global' \in [Tasks -> Nat]
        BY <4>1 DEF TypeOK
      <4> QED
        BY <4>1, <4>2, QueueFacts
    <3>2. CASE Roomy # {}
      <4>1. PICK w : w = CHOOSE x \in Roomy : \A y \in Roomy : x <= y
        OBVIOUS
      <4>2. Roomy \subseteq Nat
        BY DEF Roomy, TypeOK
      <4>3. w \in Roomy
        BY <3>2, <4>1, <4>2, Least
      <4>4. w \in Workers /\ Len(local[w]) < Capacity
        BY <4>3, Finite DEF Roomy, Workers, TypeOK
      <4>5. local' = [local EXCEPT ![w] = Append(local[w], t)] /\ global' = global
        BY <1>5, <2>1, <3>2, <4>1 DEF AddTask
      <4> QED
        BY <4>4, <4>5, Appended, QueueFacts DEF TypeOK
    <3> QED
      BY <3>1, <3>2
  <2>3. TypeOK'
    <3>1. carg' \in Seq(Tasks) /\ cpc' = "idle"
      BY <1>5 DEF AddTask
    <3>2. UNCHANGED <<workerVars, slotVars, taskVars, depCalls, monitorVars, spc, aborted, history>>
      BY <1>5 DEF AddTask
    <3> QED
      BY <2>2, <3>1, <3>2 DEF TypeOK, Queues, workerVars, slotVars, taskVars, monitorVars, history
  <2>4. SlotInv'
    BY <1>5, <2>2 DEF TypeOK, SlotInv, Short, AddTask, workerVars, slotVars, taskVars, monitorVars, history
  <2> QED
    BY <2>3, <2>4
<1> QED
  BY <1>1, <1>2, <1>3, <1>4, <1>5 DEF Client

(* Worker::run. *)
LEMMA TypedWorker ==
    ASSUME Typed, NEW w \in Workers, WorkerStep(w)
    PROVE  Typed'
<1> USE DEF Typed
<1>0. wpc \in [Workers -> Places] /\ task \in [Workers -> Tasks \cup {None}]
  BY DEF TypeOK
<1>1. ASSUME PopLocal(w)
      PROVE  Typed'
  <2>1. local' \in Queues /\ Short(local') /\ task' \in [Workers -> Tasks \cup {None}]
        /\ wpc' \in [Workers -> Places]
    <3>1. CASE local' = local /\ task' = task /\ (Goto(w, "exit") \/ Goto(w, "global"))
      BY <1>0, <3>1, QueueFacts DEF Goto, Places, Walk
    <3>2. CASE /\ local[w] # <<>> /\ Take(w, Head(local[w]))
               /\ local' = [local EXCEPT ![w] = Tail(local[w])]
      BY <1>0, <3>2, QueueFacts, Popped DEF Take, Goto, Places, Walk
    <3> QED
      BY <1>1, <3>1, <3>2 DEF PopLocal
  <2>2. TypeOK'
    BY <1>1, <2>1 DEF TypeOK, Queues, PopLocal, slotVars, taskVars, clientVars, monitorVars, history
  <2>3. \A v \in Workers : /\ v # w => wpc'[v] = wpc[v] /\ task'[v] = task[v]
                           /\ wpc'[w] \in {"exec", "exit", "global"}
                           /\ wpc'[w] = "exec" => task'[w] \in Tasks
    BY <1>0, <1>1, QueueFacts, Popped DEF PopLocal, Take, Goto
  <2>4. wpc[w] = "local"
    BY <1>1 DEF PopLocal
  <2>5. SlotInv'
    BY <1>1, <2>1, <2>3, <2>4 DEF SlotInv, Walk, Short, PopLocal, slotVars, taskVars, clientVars, monitorVars, history
  <2> QED
    BY <2>2, <2>5
<1>2. ASSUME dequeue_task(w)
      PROVE  Typed'
  <2>1. global' \in [Tasks -> Nat] /\ task' \in [Workers -> Tasks \cup {None}]
        /\ wpc' \in [Workers -> Places]
    <3>1. CASE global' = global /\ task' = task /\ Goto(w, "steal")
      BY <1>0, <3>1 DEF Goto, Places, Walk, TypeOK
    <3>2. ASSUME NEW t \in Top, Take(w, t), global' = [global EXCEPT ![t] = global[t] - 1]
          PROVE  global' \in [Tasks -> Nat] /\ task' \in [Workers -> Tasks \cup {None}]
                 /\ wpc' \in [Workers -> Places]
      <4>1. t \in Tasks /\ global[t] \in Nat /\ global[t] > 0 /\ global \in [Tasks -> Nat]
        BY DEF Top, TypeOK
      <4>2. global[t] - 1 \in Nat
        BY <4>1
      <4> QED
        BY <1>0, <3>2, <4>1, <4>2 DEF Take, Goto, Places, Walk
    <3> QED
      BY <1>2, <3>1, <3>2 DEF dequeue_task
  <2>2. TypeOK'
    BY <1>2, <2>1 DEF TypeOK, dequeue_task, slotVars, taskVars, clientVars, monitorVars, history
  <2>3. \A v \in Workers : /\ v # w => wpc'[v] = wpc[v] /\ task'[v] = task[v]
                           /\ wpc'[w] \in {"exec", "steal"}
                           /\ wpc'[w] = "exec" => task'[w] \in Tasks
    BY <1>0, <1>2 DEF dequeue_task, Take, Goto, Top
  <2>4. wpc[w] = "global"
    BY <1>2 DEF dequeue_task
  <2>5. SlotInv'
    BY <1>2, <2>3, <2>4 DEF SlotInv, Walk, dequeue_task, slotVars, taskVars, clientVars, monitorVars, history
  <2> QED
    BY <2>2, <2>5
<1>3. ASSUME try_steal_task(w)
      PROVE  Typed'
  <2>1. /\ local' \in Queues /\ Short(local') /\ task' \in [Workers -> Tasks \cup {None}]
        /\ wpc' \in [Workers -> Places]
        /\ \A v \in Workers : v # w => wpc'[v] = wpc[v] /\ task'[v] = task[v]
        /\ wpc'[w] \in {"exec", "local"}
        /\ wpc'[w] = "exec" => task'[w] \in Tasks
    <3>1. CASE local' = local /\ task' = task /\ Goto(w, "local")
      BY <1>0, <3>1, QueueFacts DEF Goto, Places, Walk
    <3>2. ASSUME NEW v \in Victims(w), Take(w, local[v][Len(local[v])]),
                 local' = [local EXCEPT ![v] = SubSeq(local[v], 1, Len(local[v]) - 1)]
          PROVE  <2>1!1 /\ <2>1!2 /\ <2>1!3 /\ <2>1!4 /\ <2>1!5
      <4>1. v \in Workers /\ local[v] # <<>>
        BY Finite DEF Victims, Workers, TypeOK
      <4>2. local' \in Queues /\ Short(local') /\ local[v][Len(local[v])] \in Tasks
        BY <3>2, <4>1, QueueFacts, Stolen
      <4> QED
        BY <1>0, <3>2, <4>2 DEF Take, Goto, Places, Walk
    <3> QED
      BY <1>3, <3>1, <3>2 DEF try_steal_task
  <2>2. TypeOK'
    BY <1>3, <2>1 DEF TypeOK, Queues, try_steal_task, slotVars, taskVars, clientVars, monitorVars, history
  <2>3. wpc[w] = "steal"
    BY <1>3 DEF try_steal_task
  <2>4. SlotInv'
    BY <1>3, <2>1, <2>3 DEF SlotInv, Walk, Short, try_steal_task, slotVars, taskVars, clientVars, monitorVars, history
  <2> QED
    BY <2>2, <2>4
<1>4. ASSUME Execute(w)
      PROVE  Typed'
  <2>1. PICK t \in Tasks : t = task[w]
    BY <1>4 DEF Execute, SlotInv, Walk
  <2>2. ran' \in [Tasks -> Nat]
    <3>1. ran' = [ran EXCEPT ![t] = ran[t] + 1]
      BY <1>4, <2>1 DEF Execute
    <3> QED
      BY <3>1 DEF TypeOK
  <2>3. /\ wpc' \in [Workers -> Places] /\ task' \in [Workers -> Tasks \cup {None}]
        /\ todo' \in [Workers -> SUBSET Tasks]
    BY <1>0, <1>4, <2>1 DEF Execute, Goto, Places, Walk, TypeOK
  <2>4. TypeOK'
    BY <1>4, <2>2, <2>3 DEF TypeOK, Execute, queueVars, slotVars, taskVars, clientVars, monitorVars
  <2>5. /\ wpc[w] = "exec" /\ wpc'[w] \in {"deps", "exit"}
        /\ wpc'[w] = "deps" => task'[w] = t
        /\ \A v \in Workers : v # w => wpc'[v] = wpc[v] /\ task'[v] = task[v]
    BY <1>0, <1>4, <2>1 DEF Execute, Goto
  <2>6. SlotInv'
    BY <1>4, <2>5 DEF SlotInv, Walk, Execute, queueVars, slotVars, taskVars, clientVars, monitorVars
  <2> QED
    BY <2>4, <2>6
<1>v. ASSUME Visit(w)
      PROVE  Typed'
  <2>1. PICK d \in todo[w] :
          /\ dep' = [dep EXCEPT ![w] = d]
          /\ aborted' = (Debug /\ status[d] # "DEPENDENCY")
    BY <1>v DEF Visit
  <2>2. d \in Tasks
    BY <2>1 DEF TypeOK
  <2>3. dep' \in [Workers -> Tasks \cup {None}]
    BY <2>1, <2>2 DEF TypeOK
  <2>4. aborted' \in BOOLEAN
    BY <2>1, PoolAssumption
  <2>5. wpc[w] = "deps" /\ wpc' = [wpc EXCEPT ![w] = "dec"]
    BY <1>v DEF Visit, Goto
  <2>6. wpc' \in [Workers -> Places]
    BY <1>0, <2>5 DEF Places, Walk
  <2>7. TypeOK'
    BY <1>v, <2>3, <2>4, <2>6 DEF TypeOK, Visit, queueVars, slotVars, taskVars, clientVars, monitorVars, history
  <2>8. /\ wpc'[w] = "dec" /\ dep'[w] = d
        /\ \A v \in Workers : v # w => wpc'[v] = wpc[v] /\ dep'[v] = dep[v]
    BY <1>0, <2>1, <2>5 DEF TypeOK
  <2>9. SlotInv'
    BY <1>v, <2>2, <2>5, <2>8 DEF SlotInv, Walk, Visit, queueVars, slotVars, taskVars, clientVars, monitorVars, history
  <2> QED
    BY <2>7, <2>9
<1>5. ASSUME Decrement(w)
      PROVE  Typed'
  <2>1. PICK d \in Tasks : d = dep[w]
    BY <1>5 DEF Decrement, SlotInv, Walk
  <2>2. todo' = [todo EXCEPT ![w] = todo[w] \ {d}] /\ unresolved' = [unresolved EXCEPT ![d] = unresolved[d] - 1]
    BY <1>5, <2>1 DEF Decrement
  <2>3. unresolved' \in [Tasks -> Int] /\ todo' \in [Workers -> SUBSET Tasks]
    BY <2>1, <2>2 DEF TypeOK
  <2>4. wpc[w] = "dec" /\ wpc' = [wpc EXCEPT ![w] = "test"]
    BY <1>5 DEF Decrement, Goto
  <2>5. wpc' \in [Workers -> Places]
    BY <1>0, <2>4 DEF Places, Walk
  <2>6. TypeOK'
    BY <1>5, <2>3, <2>5 DEF TypeOK, Decrement, queueVars, slotVars, clientVars, monitorVars, history
  <2>7. wpc'[w] = "test" /\ \A v \in Workers : v # w => wpc'[v] = wpc[v]
    BY <1>0, <2>4
  <2>8. SlotInv'
    BY <1>5, <2>4, <2>7 DEF SlotInv, Walk, Decrement, queueVars, slotVars, clientVars, monitorVars, history
  <2> QED
    BY <2>6, <2>8
<1>t. ASSUME Test(w)
      PROVE  Typed'
  <2>1. /\ wpc[w] = "test" /\ wpc' \in [Workers -> Places] /\ dep' \in [Workers -> Tasks \cup {None}]
        /\ wpc'[w] \in {"store", "deps"} /\ (wpc'[w] = "store" => dep'[w] = dep[w])
        /\ \A v \in Workers : v # w => wpc'[v] = wpc[v] /\ dep'[v] = dep[v]
    BY <1>0, <1>t DEF Test, Goto, Places, Walk, TypeOK
  <2>2. TypeOK'
    BY <1>t, <2>1 DEF TypeOK, Test, queueVars, slotVars, taskVars, clientVars, monitorVars, history
  <2>3. SlotInv'
    BY <1>t, <2>1 DEF SlotInv, Walk, Test, queueVars, slotVars, taskVars, clientVars, monitorVars, history
  <2> QED
    BY <2>2, <2>3
<1>6. ASSUME Release(w)
      PROVE  Typed'
  <2>1. /\ wpc[w] = "store" /\ wpc' \in [Workers -> Places] /\ wpc'[w] = "enqueue"
        /\ status' \in [Tasks -> {"none", "DEPENDENCY", "PENDING"}]
        /\ \A v \in Workers : v # w => wpc'[v] = wpc[v]
    BY <1>0, <1>6 DEF Release, Goto, Places, Walk, TypeOK
  <2>2. TypeOK'
    BY <1>6, <2>1 DEF TypeOK, Release, queueVars, slotVars, clientVars, monitorVars, history
  <2>3. SlotInv'
    BY <1>6, <2>1 DEF SlotInv, Walk, Release, queueVars, slotVars, clientVars, monitorVars, history
  <2> QED
    BY <2>2, <2>3
<1>e. ASSUME Enqueue(w)
      PROVE  Typed'
  <2>1. PICK d \in Tasks : d = dep[w]
    BY <1>e DEF Enqueue, SlotInv, Walk
  <2>2. global' \in [Tasks -> Nat]
    <3>1. global' = [global EXCEPT ![d] = global[d] + 1]
      BY <1>e, <2>1 DEF Enqueue, enqueue_task
    <3>2. global[d] + 1 \in Nat /\ global \in [Tasks -> Nat]
      BY DEF TypeOK
    <3> QED
      BY <3>1, <3>2
  <2>3. /\ wpc[w] = "enqueue" /\ wpc' \in [Workers -> Places] /\ dep' \in [Workers -> Tasks \cup {None}]
        /\ wpc'[w] = "deps" /\ \A v \in Workers : v # w => wpc'[v] = wpc[v] /\ dep'[v] = dep[v]
    BY <1>0, <1>e DEF Enqueue, Goto, Places, Walk, TypeOK
  <2>4. TypeOK'
    BY <1>e, <2>2, <2>3 DEF TypeOK, Enqueue, slotVars, taskVars, clientVars, monitorVars, history
  <2>5. SlotInv'
    BY <1>e, <2>3 DEF SlotInv, Walk, Enqueue, slotVars, taskVars, clientVars, monitorVars, history
  <2> QED
    BY <2>4, <2>5
<1>7. ASSUME deregister_task(w)
      PROVE  Typed'
  <2>1. wpc[w] = "deps" /\ wpc' = [wpc EXCEPT ![w] = "local"] /\ task' = [task EXCEPT ![w] = None]
    BY <1>7 DEF deregister_task, Goto
  <2>2. wpc' \in [Workers -> Places] /\ task' \in [Workers -> Tasks \cup {None}] /\ all_tasks' \subseteq Tasks
    BY <1>0, <1>7, <2>1 DEF deregister_task, Places, Walk, TypeOK
  <2>3. TypeOK'
    BY <1>7, <2>2 DEF TypeOK, deregister_task, queueVars, slotVars, clientVars, monitorVars, history
  <2>4. /\ wpc'[w] = "local"
        /\ \A v \in Workers : v # w => wpc'[v] = wpc[v] /\ task'[v] = task[v]
    BY <1>0, <2>1
  <2>5. SlotInv'
    BY <1>7, <2>1, <2>4 DEF SlotInv, Walk, deregister_task, queueVars, slotVars, clientVars, monitorVars, history
  <2> QED
    BY <2>3, <2>5
<1> QED
  BY <1>1, <1>2, <1>3, <1>4, <1>v, <1>5, <1>t, <1>6, <1>e, <1>7 DEF WorkerStep

(* The monitor and the owner. *)
LEMMA TypedOwner ==
    ASSUME Typed, MonitorStep \/ Owner
    PROVE  Typed'
<1> USE DEF Typed
<1>1. CASE monitorRun
  BY <1>1 DEF TypeOK, SlotInv, Walk, monitorRun, workerVars, queueVars, slotVars, taskVars, clientVars, history
<1>2. CASE MonitorTop
  BY <1>2, Finite DEF TypeOK, SlotInv, Walk, MonitorTop, workerVars, queueVars, slotVars, taskVars, clientVars, history
<1>3. CASE shutdown
  BY <1>3 DEF TypeOK, SlotInv, Walk, shutdown, workerVars, queueVars, slotVars, taskVars, clientVars, history
<1>4. CASE StopWorkers
  BY <1>4 DEF TypeOK, SlotInv, Walk, StopWorkers, workerVars, queueVars, taskVars, clientVars, monitorVars, history
<1>5. CASE JoinWorkers
  BY <1>5 DEF TypeOK, SlotInv, Walk, JoinWorkers, workerVars, queueVars, slotVars, taskVars, clientVars, monitorVars, history
<1>6. CASE Scan
  <2>1. mpc = "scan" /\ worker_count = size /\ size \in 0..MaxThreads /\ mi \in 1..MaxThreads + 1
    BY <1>6 DEF Scan, SlotInv, TypeOK
  <2>2. CASE mpc' = "grow" /\ UNCHANGED <<slot, Stoping, mi>>
    BY <1>6, <2>1, <2>2 DEF TypeOK, SlotInv, Walk, Scan, workerVars, queueVars, taskVars, clientVars, history
  <2>3. ASSUME NEW i \in mi..worker_count, slot' = [slot EXCEPT ![i] = FALSE],
               Stoping' = [Stoping EXCEPT ![i] = TRUE], mi' = i /\ mpc' = "join"
        PROVE  Typed'
    <3>1. i \in 1..size /\ i \in Workers /\ i \in 1..MaxThreads + 1
      BY <2>1, Finite DEF Workers
    <3>2. slot' \in [Workers -> BOOLEAN] /\ Stoping' \in [Workers -> BOOLEAN]
      BY <2>3, <3>1 DEF TypeOK
    <3>3. TypeOK'
      BY <1>6, <2>3, <3>1, <3>2 DEF TypeOK, Scan, workerVars, queueVars, taskVars, clientVars, history
    <3>4. ~slot'[i] /\ \A v \in Workers : v # i => slot'[v] = slot[v]
      BY <2>3, <3>1 DEF TypeOK
    <3>5. SlotInv'
      BY <1>6, <2>1, <2>3, <3>1, <3>4 DEF SlotInv, Walk, Scan, workerVars, queueVars, taskVars, clientVars, history
    <3> QED
      BY <3>3, <3>5
  <2> QED
    BY <1>6, <2>2, <2>3 DEF Scan
<1>7. CASE remove_worker
  <2>1. mi \in 1..size /\ mi \in Workers /\ mi + 1 \in 1..MaxThreads + 1 /\ mpc = "join" /\ worker_count = size
    BY <1>7, Finite DEF remove_worker, SlotInv, TypeOK, Workers
  <2>2. local' \in Queues /\ Short(local') /\ global' \in [Tasks -> Nat]
    <3>1. local' = [local EXCEPT ![mi] = <<>>] /\ global' = [t \in Tasks |-> global[t] + Occurrences(local[mi], t)]
      BY <1>7 DEF remove_worker
    <3>2. \A t \in Tasks : Occurrences(local[mi], t) \in Nat
      BY <2>1, QueueFacts, LocalClear
    <3>3. \A t \in Tasks : global[t] + Occurrences(local[mi], t) \in Nat
      BY <3>2 DEF TypeOK
    <3> QED
      BY <2>1, <3>1, <3>3, QueueFacts, Emptied
  <2>3. wpc' = [wpc EXCEPT ![mi] = "none"] /\ Stoping' = [Stoping EXCEPT ![mi] = FALSE]
    BY <1>7 DEF remove_worker, Goto
  <2>4. wpc' \in [Workers -> Places] /\ Stoping' \in [Workers -> BOOLEAN]
    BY <2>1, <2>3 DEF TypeOK, Places, Walk
  <2>5. mpc' = "scan" /\ mi' = mi + 1
    BY <1>7 DEF remove_worker
  <2>6. TypeOK'
    BY <1>7, <2>1, <2>2, <2>4, <2>5 DEF TypeOK, Queues, remove_worker, taskVars, clientVars, history
  <2>7. wpc'[mi] = "none" /\ \A v \in Workers : v # mi => wpc'[v] = wpc[v]
    BY <2>1, <2>3 DEF TypeOK
  <2>8. SlotInv'
    BY <1>7, <2>1, <2>2, <2>5, <2>7 DEF SlotInv, Walk, Short, remove_worker, taskVars, clientVars, history
  <2> QED
    BY <2>6, <2>8
<1>8. CASE Grow
  <2>1. mpc = "grow" /\ worker_count = size /\ size \in 0..MaxThreads /\ mpc' = "top"
    BY <1>8 DEF Grow, SlotInv, TypeOK
  <2>2. CASE UNCHANGED <<slot, size, wpc>>
    BY <1>8, <2>1, <2>2 DEF TypeOK, SlotInv, Walk, Grow, queueVars, taskVars, clientVars, history
  <2>3. CASE add_worker /\ worker_count < MaxThreads
    <3> DEFINE free == {i \in 1..size : ~slot[i]} \cup {size + 1}
    <3>1. PICK v : v = CHOOSE i \in free : \A j \in free : i <= j
      OBVIOUS
    <3>2. free \subseteq Nat /\ free # {}
      BY <2>1
    <3>3. v \in free
      BY <3>1, <3>2, Least
    <3>4. v \in 1..(size + 1) /\ v \in Workers
      BY <2>1, <2>3, <3>3, Finite DEF Workers
    <3>5. /\ slot' = [slot EXCEPT ![v] = TRUE] /\ size' = IF v > size THEN v ELSE size
          /\ wpc' = [wpc EXCEPT ![v] = "local"]
      BY <2>3, <3>1 DEF add_worker, Goto
    <3>6. size' \in 0..MaxThreads /\ size' >= size /\ v <= size'
      BY <2>1, <2>3, <3>4, <3>5, Finite
    <3>7. slot' \in [Workers -> BOOLEAN] /\ wpc' \in [Workers -> Places]
      BY <3>4, <3>5 DEF TypeOK, Places, Walk
    <3>8. TypeOK'
      BY <1>8, <3>6, <3>7 DEF TypeOK, Grow, queueVars, taskVars, clientVars, history
    <3>9. /\ slot'[v] /\ wpc'[v] = "local"
          /\ \A x \in Workers : x # v => slot'[x] = slot[x] /\ wpc'[x] = wpc[x]
      BY <3>4, <3>5 DEF TypeOK
    <3>10. \A x \in Workers : x > size' => x > size /\ x # v
      BY <2>1, <3>4, <3>6 DEF Workers
    <3>11. SlotInv'
      BY <1>8, <2>1, <3>4, <3>9, <3>10 DEF SlotInv, Walk, Grow, queueVars, taskVars, clientVars, history
    <3> QED
      BY <3>8, <3>11
  <2> QED
    BY <1>8, <2>2, <2>3 DEF Grow
<1> QED
  BY <1>1, <1>2, <1>3, <1>4, <1>5, <1>6, <1>7, <1>8 DEF MonitorStep, Owner, ShutdownStep

LEMMA TypedStep ==
    ASSUME Typed, Next
    PROVE  Typed'
BY TypedClient, TypedWorker, TypedOwner DEF Next

-----------------------------------------------------------------------------
(* How often a task exists.                                                *)

Holding(place, pc, tk, t) == {w \in Workers : pc[w] = place /\ tk[w] = t}
Adding(pc, arg, t) == IF pc = "add" /\ arg = <<t>> THEN 1 ELSE 0

LEMMA HoldingFinite ==
    ASSUME NEW place, NEW pc, NEW tk, NEW t
    PROVE  IsFiniteSet(Holding(place, pc, tk, t)) /\ Cardinality(Holding(place, pc, tk, t)) \in Nat
BY Finite, SubsetCardinality DEF Holding

LEMMA HoldingTaken ==
    ASSUME NEW place, NEW w \in Workers, NEW pc, NEW tk, NEW pc2, NEW tk2, NEW u, NEW t,
           pc[w] # place, pc2[w] = place, tk2[w] = u,
           \A v \in Workers : v # w => pc2[v] = pc[v] /\ tk2[v] = tk[v]
    PROVE  Cardinality(Holding(place, pc2, tk2, t)) = Cardinality(Holding(place, pc, tk, t)) + Is(t, u)
<1>1. w \notin Holding(place, pc, tk, t)
  BY DEF Holding
<1>2. CASE t = u
  <2>1. Holding(place, pc2, tk2, t) = Holding(place, pc, tk, t) \cup {w}
    BY <1>2 DEF Holding
  <2>2. PICK A : A = Holding(place, pc, tk, t)
    OBVIOUS
  <2>3. IsFiniteSet(A) /\ w \notin A
    BY <1>1, <2>2, HoldingFinite
  <2>4. Cardinality(A \cup {w}) = Cardinality(A) + 1
    BY <2>3, FS_AddElement
  <2> QED
    BY <1>2, <2>1, <2>2, <2>4 DEF Is
<1>3. CASE t # u
  <2>1. Holding(place, pc2, tk2, t) = Holding(place, pc, tk, t)
    BY <1>3 DEF Holding
  <2> QED
    BY <1>3, <2>1, HoldingFinite DEF Is
<1> QED
  BY <1>2, <1>3

LEMMA HoldingSame ==
    ASSUME NEW place, NEW pc, NEW tk, NEW pc2, NEW tk2, NEW t,
           \A v \in Workers : /\ pc2[v] = place <=> pc[v] = place
                              /\ pc[v] = place => tk2[v] = tk[v]
    PROVE  Holding(place, pc2, tk2, t) = Holding(place, pc, tk, t)
BY DEF Holding

LEMMA TotalNow ==
    \A t : Total(t) = global[t] + Cardinality(LocalIn(local, t)) + Cardinality(Holding("exec", wpc, task, t))
                      + Cardinality(Holding("enqueue", wpc, dep, t)) + Adding(cpc, carg, t) + ran[t]
BY DEF Total, Copies, LocalCopies, LocalIn, Holding, Adding

LEMMA TotalNext ==
    \A t : Total(t)' = global'[t] + Cardinality(LocalIn(local', t)) + Cardinality(Holding("exec", wpc', task', t))
                       + Cardinality(Holding("enqueue", wpc', dep', t)) + Adding(cpc', carg', t) + ran'[t]
BY DEF Total, Copies, LocalCopies, LocalIn, Holding, Adding

LEMMA Numbers ==
    ASSUME Typed, NEW t \in Tasks
    PROVE  /\ global[t] \in Nat /\ Cardinality(LocalIn(local, t)) \in Nat
           /\ Cardinality(Holding("exec", wpc, task, t)) \in Nat /\ Adding(cpc, carg, t) \in Nat
           /\ Cardinality(Holding("enqueue", wpc, dep, t)) \in Nat
           /\ ran[t] \in Nat /\ Total(t) \in Nat
<1>1. global[t] \in Nat /\ ran[t] \in Nat
  BY DEF Typed, TypeOK
<1>2. Cardinality(LocalIn(local, t)) \in Nat
  BY QueueFacts, LocalFinite
<1>3. Cardinality(Holding("exec", wpc, task, t)) \in Nat /\ Cardinality(Holding("enqueue", wpc, dep, t)) \in Nat
  BY HoldingFinite
<1>4. Adding(cpc, carg, t) \in Nat
  BY DEF Adding
<1> QED
  BY <1>1, <1>2, <1>3, <1>4, TotalNow

(* A step that moves a copy from one place to another, or makes or ends    *)
(* one, by the differences it makes at each of them.                       *)
Differences(t, g, l, h, a, r) ==
    /\ global'[t] = global[t] + g
    /\ Cardinality(LocalIn(local', t)) = Cardinality(LocalIn(local, t)) + l
    /\ Cardinality(Holding("exec", wpc', task', t)) = Cardinality(Holding("exec", wpc, task, t)) + h
    /\ Adding(cpc', carg', t) = Adding(cpc, carg, t) + a
    /\ ran'[t] = ran[t] + r
    /\ Cardinality(Holding("enqueue", wpc', dep', t)) = Cardinality(Holding("enqueue", wpc, dep, t))

LEMMA TotalMoved ==
    ASSUME Typed, NEW t \in Tasks,
           NEW g \in Int, NEW l \in Int, NEW h \in Int, NEW a \in Int, NEW r \in Int,
           Differences(t, g, l, h, a, r)
    PROVE  Total(t)' = Total(t) + (g + l + h + a + r)
BY Numbers, TotalNow, TotalNext DEF Differences

LEMMA SameQueues ==
    ASSUME Typed, UNCHANGED local, NEW t \in Tasks
    PROVE  Cardinality(LocalIn(local', t)) = Cardinality(LocalIn(local, t)) + 0
BY Numbers

LEMMA SameHands ==
    ASSUME Typed, NEW t \in Tasks,
           \A v \in Workers : /\ wpc'[v] = "exec" <=> wpc[v] = "exec"
                              /\ wpc[v] = "exec" => task'[v] = task[v]
    PROVE  Cardinality(Holding("exec", wpc', task', t)) = Cardinality(Holding("exec", wpc, task, t)) + 0
<1>1. Holding("exec", wpc', task', t) = Holding("exec", wpc, task, t)
  BY HoldingSame
<1> QED
  BY <1>1, Numbers

(* No worker begins or ends the enqueue_task of a dependent. *)
SamePassing ==
    \A v \in Workers : /\ wpc'[v] = "enqueue" <=> wpc[v] = "enqueue"
                       /\ wpc[v] = "enqueue" => dep'[v] = dep[v]

LEMMA SamePassed ==
    ASSUME SamePassing, NEW t
    PROVE  Cardinality(Holding("enqueue", wpc', dep', t)) = Cardinality(Holding("enqueue", wpc, dep, t))
<1>1. Holding("enqueue", wpc', dep', t) = Holding("enqueue", wpc, dep, t)
  BY HoldingSame DEF SamePassing
<1> QED
  BY <1>1

LEMMA SameCall ==
    ASSUME Typed, UNCHANGED <<cpc, carg>>, NEW t \in Tasks
    PROVE  Adding(cpc', carg', t) = Adding(cpc, carg, t) + 0
BY Numbers

LEMMA SameRest ==
    ASSUME Typed, NEW t \in Tasks
    PROVE  /\ UNCHANGED global => global'[t] = global[t] + 0
           /\ UNCHANGED ran => ran'[t] = ran[t] + 0
BY Numbers

(* Nobody touches a copy. *)
LEMMA TotalKept ==
    ASSUME Typed, UNCHANGED <<local, global, ran>>, NEW t \in Tasks,
           Adding(cpc', carg', t) = Adding(cpc, carg, t), SamePassing,
           \A v \in Workers : /\ wpc'[v] = "exec" <=> wpc[v] = "exec"
                              /\ wpc[v] = "exec" => task'[v] = task[v]
    PROVE  Total(t)' = Total(t)
<1>1. Adding(cpc', carg', t) = Adding(cpc, carg, t) + 0
  BY Numbers
<1>2. Total(t)' = Total(t) + (0 + 0 + 0 + 0 + 0)
  <2>1. Differences(t, 0, 0, 0, 0, 0)
    <3>1. Cardinality(Holding("exec", wpc', task', t)) = Cardinality(Holding("exec", wpc, task, t)) + 0
      BY SameHands
    <3>2. Cardinality(LocalIn(local', t)) = Cardinality(LocalIn(local, t)) + 0
      BY SameQueues
    <3> QED
      BY <1>1, <3>1, <3>2, SameRest, SamePassed DEF Differences
  <2> QED
    BY <2>1, Numbers, TotalNow, TotalNext DEF Differences
<1> QED
  BY <1>2, Numbers

(* try_add_task puts the caller's task into a queue. *)
LEMMA TotalAddTask ==
    ASSUME Typed, AddTask, NEW t \in Tasks
    PROVE  Total(t)' = Total(t)
<1>1. PICK u \in Tasks : carg = <<u>>
  BY DEF AddTask, Typed, SlotInv
<1>2. PICK i \in {0, 1} : i = Is(t, u)
  BY IsNumber
<1>3. Adding(cpc', carg', t) = Adding(cpc, carg, t) + (-i)
  <2>1. cpc = "add" /\ cpc' = "idle"
    BY DEF AddTask
  <2>2. carg = <<t>> <=> t = u
    BY <1>1
  <2> QED
    BY <1>2, <2>1, <2>2 DEF Adding, Is
<1>4. Cardinality(Holding("exec", wpc', task', t)) = Cardinality(Holding("exec", wpc, task, t)) + 0
  BY SameHands DEF AddTask, workerVars
<1>5. ran'[t] = ran[t] + 0 /\ SamePassing
  BY SameRest DEF AddTask, history, workerVars, SamePassing
<1>6. i \in Int /\ -i \in Int
  BY <1>2
<1>7. CASE Roomy = {}
  <2>1. global' = [global EXCEPT ![u] = global[u] + 1] /\ local' = local
    BY <1>1, <1>7 DEF AddTask, enqueue_task
  <2>2. global'[t] = global[t] + i
    BY <1>2, <2>1, Numbers DEF Typed, TypeOK, Is
  <2>3. Total(t)' = Total(t) + (i + 0 + 0 + (-i) + 0)
    <3>1. Cardinality(LocalIn(local', t)) = Cardinality(LocalIn(local, t)) + 0
      BY <2>1, SameQueues
    <3>2. Differences(t, i, 0, 0, -i, 0)
      BY <1>3, <1>4, <1>5, <2>2, <3>1, SamePassed DEF Differences
    <3> QED
      BY <1>6, <3>2, TotalMoved
  <2> QED
    BY <1>6, <2>3, Numbers
<1>8. CASE Roomy # {}
  <2>1. PICK w : w = CHOOSE x \in Roomy : \A y \in Roomy : x <= y
    OBVIOUS
  <2>2. Roomy \subseteq Nat
    BY DEF Roomy, Typed, TypeOK
  <2>3. w \in Roomy
    BY <1>8, <2>1, <2>2, Least
  <2>4. w \in Workers
    BY <2>3, Finite DEF Roomy, Workers, Typed, TypeOK
  <2>5. local' = [local EXCEPT ![w] = Append(local[w], u)] /\ global' = global
    BY <1>1, <1>8, <2>1 DEF AddTask
  <2>6. Cardinality(LocalIn(local', t)) = Cardinality(LocalIn(local, t)) + i
    <3>1. PICK q \in Queues : q = local /\ Short(q)
      BY QueueFacts
    <3>2. PICK p : p = local'
      OBVIOUS
    <3>3. Pushed(q, p, w, u)
      BY <2>5, <3>1, <3>2 DEF Pushed
    <3>4. Cardinality(LocalIn(p, t)) = Cardinality(LocalIn(q, t)) + Is(t, u)
      BY <2>4, <3>1, <3>3, LocalAppend
    <3> QED
      BY <1>2, <3>1, <3>2, <3>4
  <2>7. Total(t)' = Total(t) + (0 + i + 0 + (-i) + 0)
    <3>1. global'[t] = global[t] + 0
      BY <2>5, SameRest
    <3>2. Differences(t, 0, i, 0, -i, 0)
      BY <1>3, <1>4, <1>5, <2>6, <3>1, SamePassed DEF Differences
    <3> QED
      BY <1>6, <3>2, TotalMoved
  <2> QED
    BY <1>6, <2>7, Numbers
<1> QED
  BY <1>7, <1>8

(* A worker's next task comes from its queue, the global queue or another  *)
(* worker's queue.                                                         *)
LEMMA Taken ==
    ASSUME Typed, NEW w \in Workers, wpc[w] \notin {"exec", "enqueue"}, NEW u, Take(w, u),
           UNCHANGED dep, NEW t \in Tasks
    PROVE  /\ Cardinality(Holding("exec", wpc', task', t)) = Cardinality(Holding("exec", wpc, task, t)) + Is(t, u)
           /\ SamePassing
<1>1. /\ wpc'[w] = "exec" /\ task'[w] = u
      /\ \A v \in Workers : v # w => wpc'[v] = wpc[v] /\ task'[v] = task[v]
  BY DEF Take, Goto, Typed, TypeOK
<1>2. SamePassing
  BY <1>1 DEF SamePassing
<1> QED
  BY <1>1, <1>2, HoldingTaken

LEMMA Moved ==
    ASSUME Typed, NEW w \in Workers, wpc[w] \notin {"exec", "enqueue"},
           NEW place, place \notin {"exec", "enqueue"}, Goto(w, place),
           UNCHANGED <<task, dep, local, global, ran, cpc, carg>>, NEW t \in Tasks
    PROVE  Total(t)' = Total(t)
<1>1. (\A v \in Workers : wpc'[v] = "exec" <=> wpc[v] = "exec") /\ SamePassing
  BY DEF Goto, Typed, TypeOK, SamePassing
<1> QED
  BY <1>1, TotalKept

LEMMA TotalPopLocal ==
    ASSUME Typed, NEW w \in Workers, PopLocal(w), NEW t \in Tasks
    PROVE  Total(t)' = Total(t)
<1>1. wpc[w] = "local" /\ UNCHANGED <<global, dep, ran, cpc, carg>>
  BY DEF PopLocal, clientVars, history
<1>2. CASE UNCHANGED <<task, local>> /\ (Goto(w, "exit") \/ Goto(w, "global"))
  BY <1>1, <1>2, Moved
<1>3. CASE /\ local[w] # <<>> /\ Take(w, Head(local[w]))
           /\ local' = [local EXCEPT ![w] = Tail(local[w])]
  <2>1. PICK u : u = Head(local[w])
    OBVIOUS
  <2>2. PICK i \in {0, 1} : i = Is(t, u)
    BY IsNumber
  <2>3. Cardinality(LocalIn(local', t)) = Cardinality(LocalIn(local, t)) + (-i)
    <3>1. Cardinality(LocalIn(local', t)) = Cardinality(LocalIn(local, t)) - i
      <4>1. PICK q \in Queues : q = local /\ Short(q)
        BY QueueFacts
      <4>2. PICK p : p = local'
        OBVIOUS
      <4>3. PoppedAt(q, p, w, u)
        BY <1>3, <2>1, <4>1, <4>2 DEF PoppedAt
      <4>4. Cardinality(LocalIn(p, t)) = Cardinality(LocalIn(q, t)) - Is(t, u)
        BY <4>1, <4>3, LocalTail
      <4> QED
        BY <2>2, <4>1, <4>2, <4>4
    <3> QED
      BY <2>2, <3>1, Numbers
  <2>4. /\ Cardinality(Holding("exec", wpc', task', t)) = Cardinality(Holding("exec", wpc, task, t)) + i
        /\ SamePassing
    BY <1>1, <1>3, <2>1, <2>2, Taken
  <2>5. i \in Int /\ -i \in Int
    BY <2>2
  <2>6. Total(t)' = Total(t) + (0 + (-i) + i + 0 + 0)
    <3>1. Differences(t, 0, -i, i, 0, 0)
      BY <1>1, <2>3, <2>4, SameCall, SameRest, SamePassed DEF Differences
    <3> QED
      BY <2>5, <3>1, TotalMoved
  <2> QED
    BY <2>5, <2>6, Numbers
<1> QED
  BY <1>2, <1>3 DEF PopLocal

LEMMA TotalDequeue ==
    ASSUME Typed, NEW w \in Workers, dequeue_task(w), NEW t \in Tasks
    PROVE  Total(t)' = Total(t)
<1>1. wpc[w] = "global" /\ UNCHANGED <<local, dep, ran, cpc, carg>>
  BY DEF dequeue_task, clientVars, history
<1>2. CASE UNCHANGED <<task, global>> /\ Goto(w, "steal")
  BY <1>1, <1>2, Moved
<1>3. ASSUME NEW u \in Top, Take(w, u), global' = [global EXCEPT ![u] = global[u] - 1]
      PROVE  Total(t)' = Total(t)
  <2>1. PICK i \in {0, 1} : i = Is(t, u)
    BY IsNumber
  <2>2. global'[t] = global[t] + (-i)
    <3>1. u \in Tasks /\ global \in [Tasks -> Nat]
      BY DEF Top, Typed, TypeOK
    <3>2. CASE t = u
      BY <1>3, <2>1, <3>1, <3>2 DEF Is
    <3>3. CASE t # u
      BY <1>3, <2>1, <3>1, <3>3 DEF Is
    <3> QED
      BY <3>2, <3>3
  <2>3. /\ Cardinality(Holding("exec", wpc', task', t)) = Cardinality(Holding("exec", wpc, task, t)) + i
        /\ SamePassing
    BY <1>1, <1>3, <2>1, Taken
  <2>4. i \in Int /\ -i \in Int
    BY <2>1
  <2>5. Total(t)' = Total(t) + ((-i) + 0 + i + 0 + 0)
    <3>1. /\ Cardinality(LocalIn(local', t)) = Cardinality(LocalIn(local, t)) + 0
          /\ Adding(cpc', carg', t) = Adding(cpc, carg, t) + 0 /\ ran'[t] = ran[t] + 0
      BY <1>1, SameQueues, SameCall, SameRest
    <3>2. Differences(t, -i, 0, i, 0, 0)
      BY <2>2, <2>3, <3>1, SamePassed DEF Differences
    <3> QED
      BY <2>4, <3>2, TotalMoved
  <2> QED
    BY <2>4, <2>5, Numbers
<1> QED
  BY <1>2, <1>3 DEF dequeue_task

LEMMA TotalSteal ==
    ASSUME Typed, NEW w \in Workers, try_steal_task(w), NEW t \in Tasks
    PROVE  Total(t)' = Total(t)
<1>1. wpc[w] = "steal" /\ UNCHANGED <<global, dep, ran, cpc, carg>>
  BY DEF try_steal_task, clientVars, history
<1>2. CASE UNCHANGED <<task, local>> /\ Goto(w, "local")
  BY <1>1, <1>2, Moved
<1>3. ASSUME NEW v \in Victims(w), Take(w, local[v][Len(local[v])]),
             local' = [local EXCEPT ![v] = SubSeq(local[v], 1, Len(local[v]) - 1)]
      PROVE  Total(t)' = Total(t)
  <2>1. v \in Workers /\ local[v] # <<>>
    BY Finite DEF Victims, Workers, Typed, TypeOK
  <2>2. PICK u : u = local[v][Len(local[v])]
    OBVIOUS
  <2>3. PICK i \in {0, 1} : i = Is(t, u)
    BY IsNumber
  <2>4. Cardinality(LocalIn(local', t)) = Cardinality(LocalIn(local, t)) + (-i)
    <3>1. Cardinality(LocalIn(local', t)) = Cardinality(LocalIn(local, t)) - i
      <4>1. PICK q \in Queues : q = local /\ Short(q)
        BY QueueFacts
      <4>2. PICK p : p = local'
        OBVIOUS
      <4>3. StolenAt(q, p, v, u)
        BY <1>3, <2>1, <2>2, <4>1, <4>2 DEF StolenAt
      <4>4. Cardinality(LocalIn(p, t)) = Cardinality(LocalIn(q, t)) - Is(t, u)
        BY <2>1, <4>1, <4>3, LocalDropLast
      <4> QED
        BY <2>3, <4>1, <4>2, <4>4
    <3> QED
      BY <2>3, <3>1, Numbers
  <2>5. /\ Cardinality(Holding("exec", wpc', task', t)) = Cardinality(Holding("exec", wpc, task, t)) + i
        /\ SamePassing
    BY <1>1, <1>3, <2>2, <2>3, Taken
  <2>6. i \in Int /\ -i \in Int
    BY <2>3
  <2>7. Total(t)' = Total(t) + (0 + (-i) + i + 0 + 0)
    <3>1. Differences(t, 0, -i, i, 0, 0)
      BY <1>1, <2>4, <2>5, SameCall, SameRest, SamePassed DEF Differences
    <3> QED
      BY <2>6, <3>1, TotalMoved
  <2> QED
    BY <2>6, <2>7, Numbers
<1> QED
  BY <1>2, <1>3 DEF try_steal_task

(* The function is called: a copy becomes a run. *)
LEMMA TotalExecute ==
    ASSUME Typed, NEW w \in Workers, Execute(w), NEW t \in Tasks
    PROVE  Total(t)' = Total(t)
<1>1. wpc[w] = "exec" /\ UNCHANGED <<local, global, dep, cpc, carg>>
  BY DEF Execute, queueVars, clientVars
<1>2. PICK u \in Tasks : u = task[w]
  BY <1>1 DEF Typed, SlotInv
<1>3. PICK i \in {0, 1} : i = Is(t, u)
  BY IsNumber
<1>4. ran'[t] = ran[t] + i
  <2>1. ran' = [ran EXCEPT ![u] = ran[u] + 1]
    BY <1>2 DEF Execute
  <2> QED
    BY <1>2, <1>3, <2>1, Numbers DEF Typed, TypeOK, Is
<1>5. /\ wpc'[w] \notin {"exec", "enqueue"}
      /\ \A v \in Workers : v # w => wpc'[v] = wpc[v] /\ task'[v] = task[v]
  BY DEF Execute, Goto, Typed, TypeOK
<1>6. Cardinality(Holding("exec", wpc', task', t)) = Cardinality(Holding("exec", wpc, task, t)) + (-i)
  <2>1. /\ wpc'[w] # "exec" /\ wpc[w] = "exec" /\ task[w] = u
        /\ \A v \in Workers : v # w => wpc[v] = wpc'[v] /\ task[v] = task'[v]
    BY <1>1, <1>2, <1>5
  <2>2. Cardinality(Holding("exec", wpc, task, t)) = Cardinality(Holding("exec", wpc', task', t)) + i
    <3>1. PICK place, pc, tk, pc2, tk2 : /\ place = "exec" /\ pc = wpc' /\ tk = task'
                                         /\ pc2 = wpc /\ tk2 = task
      OBVIOUS
    <3>2. /\ pc[w] # place /\ pc2[w] = place /\ tk2[w] = u
          /\ \A v \in Workers : v # w => pc2[v] = pc[v] /\ tk2[v] = tk[v]
      BY <2>1, <3>1
    <3>3. Cardinality(Holding(place, pc2, tk2, t)) = Cardinality(Holding(place, pc, tk, t)) + Is(t, u)
      BY <3>2, HoldingTaken
    <3> QED
      BY <1>3, <3>1, <3>3
  <2>3. Cardinality(Holding("exec", wpc', task', t)) \in Nat
    BY HoldingFinite
  <2> QED
    BY <1>3, <2>2, <2>3, Numbers
<1>7. i \in Int /\ -i \in Int
  BY <1>3
<1>8. Total(t)' = Total(t) + (0 + 0 + (-i) + 0 + i)
  <2>1. SamePassing
    BY <1>1, <1>5 DEF SamePassing
  <2>2. Differences(t, 0, 0, -i, 0, i)
    BY <1>1, <1>4, <1>6, <2>1, SameQueues, SameCall, SameRest, SamePassed DEF Differences
  <2> QED
    BY <1>7, <2>2, TotalMoved
<1> QED
  BY <1>7, <1>8, Numbers

(* remove_worker: the queue becomes global. *)
LEMMA TotalRemove ==
    ASSUME Typed, remove_worker, NEW t \in Tasks
    PROVE  Total(t)' = Total(t)
<1>1. mi \in Workers
  BY Finite DEF remove_worker, Typed, SlotInv, TypeOK, Workers
<1>2. /\ local' = [local EXCEPT ![mi] = <<>>] /\ global'[t] = global[t] + Occurrences(local[mi], t)
      /\ Goto(mi, "none") /\ wpc[mi] = "exit" /\ UNCHANGED <<task, dep, ran, cpc, carg>>
  BY DEF remove_worker, clientVars, history
<1>3. PICK o : o = Occurrences(local[mi], t)
  OBVIOUS
<1>4. o \in Nat /\ Cardinality(LocalIn(local', t)) + o = Cardinality(LocalIn(local, t))
  BY <1>1, <1>2, <1>3, QueueFacts, LocalClear
<1>5. Cardinality(LocalIn(local', t)) \in Nat
  <2>1. local' \in Queues /\ Short(local')
    BY <1>1, <1>2, QueueFacts, Emptied
  <2> QED
    BY <2>1, LocalFinite
<1>6. Cardinality(LocalIn(local', t)) = Cardinality(LocalIn(local, t)) + (-o)
  BY <1>4, <1>5, Numbers
<1>7. (\A v \in Workers : wpc'[v] = "exec" <=> wpc[v] = "exec") /\ SamePassing
  BY <1>1, <1>2 DEF Goto, Typed, TypeOK, SamePassing
<1>8. o \in Int /\ -o \in Int
  BY <1>4
<1>9. Cardinality(Holding("exec", wpc', task', t)) = Cardinality(Holding("exec", wpc, task, t)) + 0
  BY <1>2, <1>7, SameHands
<1>10. Total(t)' = Total(t) + (o + (-o) + 0 + 0 + 0)
  <2>1. /\ Adding(cpc', carg', t) = Adding(cpc, carg, t) + 0 /\ ran'[t] = ran[t] + 0
        /\ global'[t] = global[t] + o
    BY <1>2, <1>3, SameCall, SameRest
  <2>2. Differences(t, o, -o, 0, 0, 0)
    BY <1>6, <1>7, <1>9, <2>1, SamePassed DEF Differences
  <2> QED
    BY <1>8, <2>2, TotalMoved
<1> QED
  BY <1>8, <1>10, Numbers

-----------------------------------------------------------------------------
(* The walks, the counters and the copies.                                 *)

TaskInv == WalkInv /\ \A t \in Tasks : CounterInv(t) /\ CopyInv(t)

(* The same call of add_dependency, or none. *)
SameInsert == (cpc' = "insert" <=> cpc = "insert") /\ (cpc = "insert" => carg' = carg)

LEMMA PredsFinite == \A t : IsFiniteSet(Preds(t)) /\ Cardinality(Preds(t)) \in Nat
BY Finite, SubsetCardinality DEF Preds

LEMMA TwoMembers ==
    ASSUME NEW S, IsFiniteSet(S), NEW x \in S, NEW y \in S, x # y
    PROVE  Cardinality(S) > 1
<1>1. IsFiniteSet({x}) /\ Cardinality({x}) = 1
  BY FS_Singleton
<1>2. Cardinality({x} \cup {y}) = 2
  <2>1. y \notin {x}
    OBVIOUS
  <2>2. Cardinality({x} \cup {y}) = Cardinality({x}) + 1
    BY <1>1, <2>1, FS_AddElement
  <2> QED
    BY <1>1, <2>2
<1>3. {x} \cup {y} \subseteq S
  OBVIOUS
<1>4. Cardinality({x} \cup {y}) <= Cardinality(S) /\ Cardinality(S) \in Nat
  BY <1>3, SubsetCardinality
<1> QED
  BY <1>2, <1>4

(* Nobody finds t's counter at 0, and nobody comes near to it. *)
NoNewRelease(t) == \A w \in Workers : Releases(w, t)' => wpc'[w] = wpc[w] /\ dep[w] = t

LEMMA ReleasedKept ==
    ASSUME NEW t, NoNewRelease(t), status'[t] = status[t]
    PROVE  /\ Released(t)' => Released(t)
           /\ \A w \in Workers : Releases(w, t)' => Releases(w, t)
<1>1. \A w \in Workers : wpc'[w] = "store" /\ dep'[w] = t => wpc[w] = "store" /\ dep[w] = t
  BY DEF NoNewRelease, Releases
<1> QED
  BY <1>1 DEF Released, Releases, NoNewRelease

LEMMA CounterKept ==
    ASSUME Typed, NEW t \in Tasks, CounterInv(t), SameInsert, NoNewRelease(t),
           Due(t)' = Due(t), unresolved'[t] = unresolved[t], awaits'[t] = awaits[t],
           status'[t] = status[t], dependents' = dependents,
           \A p \in Tasks : ran[p] > 0 => ran'[p] > 0
    PROVE  CounterInv(t)'
<1>1. Inserting(t)' <=> Inserting(t)
  BY DEF SameInsert, Inserting
<1>2. awaits[t] \subseteq Tasks
  BY DEF Typed, TypeOK
<1>3. (unresolved[t] >= Cardinality(Due(t)) + (IF Inserting(t) THEN 1 ELSE 0))'
  BY <1>1 DEF CounterInv
<1>4. \A p \in awaits'[t] : t \in dependents'[p] \/ (cpc' = "insert" /\ carg' = <<t, p>>)
  BY DEF CounterInv, SameInsert
<1>5. status'[t] = "none" => awaits'[t] = {} /\ ~Inserting(t)' /\ \A p \in Tasks : t \notin dependents'[p]
  BY <1>1 DEF CounterInv
<1>6. Released(t)' => \A p \in awaits'[t] : ran'[p] > 0
  BY <1>2, ReleasedKept DEF CounterInv
<1> QED
  BY <1>3, <1>4, <1>5, <1>6 DEF CounterInv

LEMMA CopyKept ==
    ASSUME Typed, NEW t \in Tasks, CopyInv(t), SameInsert,
           Due(t)' = Due(t), Total(t)' = Total(t), status'[t] = status[t],
           dependents' = dependents, late' = late, NoNewRelease(t)
    PROVE  CopyInv(t)'
<1>1. Inserting(t)' <=> Inserting(t)
  BY DEF SameInsert, Inserting
<1>2. Preds(t)' = Preds(t)
  BY DEF Preds
<1> QED
  BY <1>1, <1>2, ReleasedKept DEF CopyInv

LEMMA DueKept ==
    ASSUME dependents' = dependents, todo' = todo,
           \A p \in Tasks : ran'[p] = 0 <=> ran[p] = 0,
           \A w \in Workers : /\ Walks(w)' <=> Walks(w)
                              /\ Walks(w) => task'[w] = task[w]
    PROVE  \A t : Due(t)' = Due(t)
BY DEF Due

(* A step that walks nowhere, counts nothing and moves copies at most. *)
LEMMA MoveStep ==
    ASSUME Typed, TaskInv, SameInsert,
           UNCHANGED <<todo, dep, status, unresolved, dependents, ran, awaits, late>>,
           \A w \in Workers : /\ Walks(w)' <=> Walks(w)
                              /\ Walks(w) => wpc'[w] = wpc[w] /\ task'[w] = task[w],
           \A t \in Tasks : Total(t)' = Total(t)
    PROVE  TaskInv'
<1>1. WalkInv'
  BY DEF TaskInv, WalkInv, Walks
<1>2. \A t : Due(t)' = Due(t)
  BY DueKept
<1>3. \A t \in Tasks : NoNewRelease(t)
  BY DEF Walks, Walk, Releases, NoNewRelease
<1>4. ASSUME NEW t \in Tasks
      PROVE  CounterInv(t)' /\ CopyInv(t)'
  <2>1. CounterInv(t)'
    BY <1>2, <1>3, CounterKept DEF TaskInv
  <2>2. CopyInv(t)'
    BY <1>2, <1>3, CopyKept DEF TaskInv
  <2> QED
    BY <2>1, <2>2
<1> QED
  BY <1>1, <1>4 DEF TaskInv

LEMMA SameWorkersMove ==
    ASSUME Typed, TaskInv, SameInsert, UNCHANGED <<workerVars, status, unresolved, dependents, history>>,
           \A t \in Tasks : Total(t)' = Total(t)
    PROVE  TaskInv'
<1>1. \A w \in Workers : /\ Walks(w)' <=> Walks(w)
                         /\ Walks(w) => wpc'[w] = wpc[w] /\ task'[w] = task[w]
  BY DEF Walks, workerVars
<1> QED
  BY <1>1, MoveStep DEF workerVars, history

LEMMA OneWorkerMove ==
    ASSUME Typed, TaskInv, NEW w \in Workers, ~Walks(w), ~Walks(w)',
           \A v \in Workers : v # w => wpc'[v] = wpc[v] /\ task'[v] = task[v],
           UNCHANGED <<todo, dep, taskVars, clientVars, history>>,
           \A t \in Tasks : Total(t)' = Total(t)
    PROVE  TaskInv'
<1>1. \A v \in Workers : /\ Walks(v)' <=> Walks(v)
                         /\ Walks(v) => wpc'[v] = wpc[v] /\ task'[v] = task[v]
  BY DEF Walks
<1> QED
  BY <1>1, MoveStep DEF SameInsert, taskVars, clientVars, history

(* Everybody but the caller and the walkers. *)
LEMMA TaskInvOwner ==
    ASSUME Typed, TaskInv, MonitorStep \/ Owner
    PROVE  TaskInv'
<1>1. CASE /\ UNCHANGED <<workerVars, queueVars, taskVars, clientVars, history>>
  <2>1. \A t \in Tasks : Total(t)' = Total(t)
    BY <1>1, TotalKept DEF workerVars, queueVars, clientVars, history, SamePassing
  <2> QED
    BY <1>1, <2>1, SameWorkersMove DEF taskVars, clientVars, SameInsert
<1>2. CASE monitorRun \/ MonitorTop \/ shutdown \/ StopWorkers \/ JoinWorkers \/ Scan
  BY <1>1, <1>2 DEF monitorRun, MonitorTop, shutdown, StopWorkers, JoinWorkers, Scan
<1>3. CASE remove_worker
  <2>1. mi \in Workers
    BY <1>3, Finite DEF remove_worker, Typed, SlotInv, TypeOK, Workers
  <2>2. /\ wpc[mi] = "exit" /\ wpc' = [wpc EXCEPT ![mi] = "none"] /\ task' = task
        /\ UNCHANGED <<todo, dep, taskVars, clientVars, history>>
    BY <1>3 DEF remove_worker, Goto
  <2>3. /\ ~Walks(mi)
        /\ \A v \in Workers : v # mi => wpc'[v] = wpc[v] /\ task'[v] = task[v]
    BY <2>1, <2>2 DEF Walks, Walk, Typed, TypeOK
  <2>4. PICK m \in Workers : m = mi
    BY <2>1
  <2>5. ~Walks(m) /\ ~Walks(m)' /\ \A v \in Workers : v # m => wpc'[v] = wpc[v] /\ task'[v] = task[v]
    BY <2>2, <2>3, <2>4 DEF Walks, Walk, Typed, TypeOK
  <2> QED
    BY <1>3, <2>2, <2>5, TotalRemove, OneWorkerMove
<1>4. CASE Grow
  <2>1. CASE UNCHANGED wpc
    BY <1>1, <1>4, <2>1 DEF Grow, workerVars
  <2>2. CASE add_worker /\ worker_count < MaxThreads
    <3>1. mpc = "grow" /\ worker_count = size /\ size \in 0..MaxThreads
      BY <1>4 DEF Grow, Typed, SlotInv, TypeOK
    <3> DEFINE free == {i \in 1..size : ~slot[i]} \cup {size + 1}
    <3>2. PICK v : v = CHOOSE i \in free : \A j \in free : i <= j
      OBVIOUS
    <3>3. free \subseteq Nat /\ free # {}
      BY <3>1
    <3>4. v \in free
      BY <3>2, <3>3, Least
    <3>5. v \in Workers
      BY <2>2, <3>1, <3>4, Finite DEF Workers
    <3>6. wpc' = [wpc EXCEPT ![v] = "local"]
      BY <2>2, <3>2 DEF add_worker, Goto
    <3>7. ~slot[v]
      BY <3>1, <3>4, <3>5 DEF Typed, SlotInv
    <3>8. wpc[v] = "none"
      BY <3>1, <3>5, <3>7 DEF Typed, SlotInv
    <3>9. UNCHANGED <<task, todo, dep, queueVars, taskVars, clientVars, history>>
      BY <1>4 DEF Grow
    <3>10. Goto(v, "local")
      BY <3>6 DEF Goto
    <3>11. \A t \in Tasks : Total(t)' = Total(t)
      BY <3>5, <3>8, <3>9, <3>10, Moved DEF queueVars, clientVars, history
    <3>12. ~Walks(v) /\ ~Walks(v)' /\ \A x \in Workers : x # v => wpc'[x] = wpc[x] /\ task'[x] = task[x]
      BY <3>5, <3>6, <3>8, <3>9 DEF Walks, Walk, Typed, TypeOK
    <3> QED
      BY <3>5, <3>9, <3>11, <3>12, OneWorkerMove
  <2> QED
    BY <1>4, <2>1, <2>2 DEF Grow
<1> QED
  BY <1>2, <1>3, <1>4 DEF MonitorStep, Owner, ShutdownStep

(* A worker looks for a task. *)
LEMMA TaskInvSearch ==
    ASSUME Typed, TaskInv, NEW w \in Workers, PopLocal(w) \/ dequeue_task(w) \/ try_steal_task(w)
    PROVE  TaskInv'
<1>1. \A t \in Tasks : Total(t)' = Total(t)
  BY TotalPopLocal, TotalDequeue, TotalSteal
<1>2. wpc[w] \in {"local", "global", "steal"} /\ UNCHANGED <<todo, dep, taskVars, clientVars, history>>
  BY DEF PopLocal, dequeue_task, try_steal_task
<1>3. /\ wpc'[w] \in {"exec", "exit", "global", "steal", "local"}
      /\ \A v \in Workers : v # w => wpc'[v] = wpc[v] /\ task'[v] = task[v]
  BY DEF PopLocal, dequeue_task, try_steal_task, Take, Goto, Typed, TypeOK
<1>4. ~Walks(w) /\ ~Walks(w)'
  BY <1>2, <1>3 DEF Walks, Walk
<1> QED
  BY <1>1, <1>2, <1>3, <1>4, OneWorkerMove

(* The function was called: the walk begins, and every dependent the task  *)
(* had is still due.                                                       *)
LEMMA TaskInvExecute ==
    ASSUME Typed, TaskInv, NEW w \in Workers, Execute(w)
    PROVE  TaskInv'
<1>1. PICK u \in Tasks : u = task[w]
  BY DEF Execute, Typed, SlotInv
<1>2. /\ wpc[w] = "exec" /\ ran'[u] > 0
      /\ \A p \in Tasks : p # u => ran'[p] = ran[p]
      /\ \A p \in Tasks : ran[p] > 0 => ran'[p] > 0
  <2>1. wpc[w] = "exec" /\ ran' = [ran EXCEPT ![u] = ran[u] + 1]
    BY <1>1 DEF Execute
  <2>2. ran \in [Tasks -> Nat]
    BY DEF Typed, TypeOK
  <2> QED
    BY <2>1, <2>2
<1>3. UNCHANGED <<dep, taskVars, clientVars, awaits, late>>
  BY DEF Execute
<1>4. SameInsert
  BY <1>3 DEF SameInsert, clientVars
<1>5. \A v \in Workers : v # w => wpc'[v] = wpc[v] /\ task'[v] = task[v] /\ todo'[v] = todo[v]
  BY DEF Execute, Goto, Typed, TypeOK
<1>6. WalkInv' /\ \A t : Due(t)' = Due(t)
  <2>1. CASE ran[u] = 0
    <3>1. /\ wpc'[w] = "deps" /\ task'[w] = u /\ todo'[w] = dependents[u]
      BY <1>1, <2>1 DEF Execute, Goto, Typed, TypeOK
    <3>2. ASSUME NEW v \in Workers, Walks(v) PROVE task[v] # u /\ v # w
      BY <1>2, <2>1, <3>2 DEF TaskInv, WalkInv, Walks, Walk
    <3>3. ASSUME NEW v \in Workers
          PROVE  Walks(v)' <=> Walks(v) \/ v = w
      BY <1>2, <1>5, <3>1 DEF Walks, Walk
    <3>4. ASSUME NEW v \in Workers, Walks(v)
          PROVE  task[v] \in Tasks /\ v # w
      BY <1>2, <3>4 DEF Walks, Walk, Typed, SlotInv
    <3>5. WalkInv'
      <4>1. ASSUME NEW v \in Workers, Walks(v)'
            PROVE  /\ ran'[task'[v]] > 0 /\ todo'[v] \subseteq dependents'[task'[v]]
                   /\ wpc'[v] # "deps" => dep'[v] \in dependents'[task'[v]]
                   /\ wpc'[v] = "dec" => dep'[v] \in todo'[v]
                   /\ \A x \in Workers : Walks(x)' /\ task'[x] = task'[v] => x = v
        <5>1. CASE v = w
          BY <1>2, <1>3, <1>5, <3>1, <3>2, <3>3, <5>1 DEF taskVars
        <5>2. CASE v # w
          <6>1. Walks(v) /\ task'[v] = task[v] /\ wpc'[v] = wpc[v] /\ todo'[v] = todo[v]
            BY <1>5, <3>3, <4>1, <5>2
          <6>2. task[v] \in Tasks /\ task[v] # u
            BY <3>2, <3>4, <6>1
          <6>3. \A x \in Workers : Walks(x)' /\ task'[x] = task'[v] => x = v
            BY <1>5, <3>1, <3>3, <6>1, <6>2 DEF TaskInv, WalkInv
          <6> QED
            BY <1>2, <1>3, <6>1, <6>2, <6>3 DEF TaskInv, WalkInv, taskVars
        <5> QED
          BY <5>1, <5>2
      <4> QED
        BY <4>1 DEF WalkInv
    <3>6. ASSUME NEW t, NEW p \in Tasks
          PROVE  p \in Due(t)' <=> p \in Due(t)
      <4>1. CASE p = u
        <5>1. ran[p] = 0 /\ ran'[p] # 0 /\ dependents' = dependents
          BY <1>2, <1>3, <2>1, <4>1 DEF taskVars
        <5>2. p \in Due(t) <=> t \in dependents[p]
          BY <3>2, <4>1, <5>1 DEF Due
        <5>3. p \in Due(t)' <=> \E v \in Workers : Walks(v)' /\ task'[v] = p /\ t \in todo'[v]
          BY <5>1 DEF Due
        <5>4. \A v \in Workers : Walks(v)' /\ task'[v] = p <=> v = w
          BY <1>5, <3>1, <3>2, <3>3, <4>1
        <5> QED
          BY <3>1, <4>1, <5>2, <5>3, <5>4
      <4>2. CASE p # u
        BY <1>2, <1>3, <1>5, <3>1, <3>2, <3>3, <4>2 DEF Due, taskVars
      <4> QED
        BY <4>1, <4>2
    <3> QED
      BY <3>5, <3>6 DEF Due
  <2>2. CASE ran[u] # 0
    <3>1. wpc'[w] = "exit" /\ todo' = todo
      BY <1>1, <2>2 DEF Execute, Goto, Typed, TypeOK
    <3>2. \A v \in Workers : /\ Walks(v)' <=> Walks(v)
                             /\ Walks(v) => wpc'[v] = wpc[v] /\ task'[v] = task[v] /\ v # w
      BY <1>2, <1>5, <3>1 DEF Walks, Walk
    <3>3. \A p \in Tasks : ran'[p] = 0 <=> ran[p] = 0
      BY <1>2, <2>2
    <3>4. \A v \in Workers : Walks(v) => task[v] \in Tasks
      BY DEF Walks, Typed, SlotInv
    <3>5. WalkInv'
      BY <1>2, <1>3, <3>1, <3>2, <3>4 DEF TaskInv, WalkInv, taskVars
    <3>6. \A t : Due(t)' = Due(t)
      BY <1>3, <3>1, <3>2, <3>3, DueKept DEF taskVars
    <3> QED
      BY <3>5, <3>6
  <2> QED
    BY <2>1, <2>2
<1>7. wpc'[w] \notin {"test", "store"}
  BY DEF Execute, Goto, Typed, TypeOK
<1>8. ASSUME NEW t \in Tasks
      PROVE  CounterInv(t)' /\ CopyInv(t)'
  <2>0. NoNewRelease(t)
    BY <1>3, <1>5, <1>7 DEF NoNewRelease, Releases
  <2>1. CounterInv(t)'
    BY <1>2, <1>3, <1>4, <1>6, <2>0, CounterKept DEF TaskInv, taskVars
  <2>2. CopyInv(t)'
    BY <1>3, <1>4, <1>6, <2>0, TotalExecute, CopyKept DEF TaskInv, taskVars
  <2> QED
    BY <2>1, <2>2
<1> QED
  BY <1>6, <1>8 DEF TaskInv

(* The walk ends. *)
LEMMA TaskInvDeregister ==
    ASSUME Typed, TaskInv, NEW w \in Workers, deregister_task(w)
    PROVE  TaskInv'
<1>1. /\ wpc[w] = "deps" /\ wpc'[w] = "local" /\ todo[w] = {}
      /\ \A v \in Workers : v # w => wpc'[v] = wpc[v] /\ task'[v] = task[v]
  BY DEF deregister_task, Goto, Typed, TypeOK
<1>2. UNCHANGED <<todo, dep, queueVars, status, unresolved, dependents, clientVars, history>>
  BY DEF deregister_task
<1>3. SameInsert
  BY <1>2 DEF SameInsert, clientVars
<1>4. \A v \in Workers : Walks(v)' <=> Walks(v) /\ v # w
  BY <1>1 DEF Walks, Walk
<1>5. WalkInv'
  BY <1>1, <1>2, <1>4 DEF TaskInv, WalkInv, history
<1>6. \A t : Due(t)' = Due(t)
  BY <1>1, <1>2, <1>4 DEF Due, history
<1>7. ASSUME NEW t \in Tasks
      PROVE  CounterInv(t)' /\ CopyInv(t)'
  <2>1. Total(t)' = Total(t)
    BY <1>1, <1>2, TotalKept DEF queueVars, clientVars, history, SamePassing
  <2>2. NoNewRelease(t)
    BY <1>1, <1>2 DEF NoNewRelease, Releases
  <2>3. CounterInv(t)'
    BY <1>2, <1>3, <1>6, <2>2, CounterKept DEF TaskInv, history
  <2>4. CopyInv(t)'
    BY <1>2, <1>3, <1>6, <2>1, <2>2, CopyKept DEF TaskInv, history
  <2> QED
    BY <2>3, <2>4
<1> QED
  BY <1>5, <1>7 DEF TaskInv

(* A walker goes on and leaves what is due as it is. *)
LEMMA WalkStep ==
    ASSUME Typed, TaskInv, NEW w \in Workers, Walks(w), Walks(w)',
           \A v \in Workers : v # w => wpc'[v] = wpc[v] /\ dep'[v] = dep[v],
           UNCHANGED <<task, todo, dependents, ran, cpc, carg>>,
           wpc'[w] # "deps" => dep'[w] \in dependents[task[w]],
           wpc'[w] = "dec" => dep'[w] \in todo[w]
    PROVE  WalkInv' /\ (\A t : Due(t)' = Due(t)) /\ SameInsert
<1>1. \A v \in Workers : Walks(v)' <=> Walks(v)
  BY DEF Walks
<1>2. WalkInv'
  BY <1>1 DEF TaskInv, WalkInv
<1>3. \A t : Due(t)' = Due(t)
  BY <1>1, DueKept
<1>4. SameInsert
  BY DEF SameInsert
<1> QED
  BY <1>2, <1>3, <1>4

(* The dependent a walker is at. *)
LEMMA WalkerAt ==
    ASSUME Typed, TaskInv, NEW w \in Workers, wpc[w] \in Walk \ {"deps"}
    PROVE  /\ Walks(w) /\ dep[w] \in Tasks /\ task[w] \in Tasks
           /\ dep[w] \in dependents[task[w]] /\ status[dep[w]] # "none"
<1>1. Walks(w) /\ dep[w] \in Tasks /\ task[w] \in Tasks
  BY DEF Walks, Walk, Typed, SlotInv
<1>2. dep[w] \in dependents[task[w]]
  BY <1>1 DEF TaskInv, WalkInv
<1>3. status[dep[w]] # "none"
  BY <1>1, <1>2 DEF TaskInv, CounterInv
<1> QED
  BY <1>1, <1>2, <1>3

(* The next dependent. *)
LEMMA TaskInvVisit ==
    ASSUME Typed, TaskInv, NEW w \in Workers, Visit(w)
    PROVE  TaskInv'
<1>1. PICK d \in todo[w] : dep' = [dep EXCEPT ![w] = d]
  BY DEF Visit
<1>2. wpc[w] = "deps" /\ wpc' = [wpc EXCEPT ![w] = "dec"]
  BY DEF Visit, Goto
<1>3. UNCHANGED <<task, todo, queueVars, taskVars, clientVars, history>>
  BY DEF Visit
<1>4. /\ wpc'[w] = "dec" /\ dep'[w] = d
      /\ \A v \in Workers : v # w => wpc'[v] = wpc[v] /\ dep'[v] = dep[v]
  BY <1>1, <1>2 DEF Typed, TypeOK
<1>5. Walks(w) /\ Walks(w)' /\ d \in dependents[task[w]]
  BY <1>1, <1>2, <1>4 DEF Walks, Walk, TaskInv, WalkInv
<1>6. WalkInv' /\ (\A t : Due(t)' = Due(t)) /\ SameInsert
  BY <1>1, <1>3, <1>4, <1>5, WalkStep DEF taskVars, clientVars, history
<1>7. SamePassing /\ \A v \in Workers : wpc'[v] = "exec" <=> wpc[v] = "exec"
  BY <1>2, <1>4 DEF SamePassing
<1>8. ASSUME NEW t \in Tasks
      PROVE  CounterInv(t)' /\ CopyInv(t)'
  <2>1. Total(t)' = Total(t)
    BY <1>3, <1>7, TotalKept DEF queueVars, clientVars, history
  <2>2. NoNewRelease(t)
    BY <1>4 DEF NoNewRelease, Releases
  <2>3. CounterInv(t)'
    BY <1>3, <1>6, <2>2, CounterKept DEF TaskInv, taskVars, history
  <2>4. CopyInv(t)'
    BY <1>3, <1>6, <2>1, <2>2, CopyKept DEF TaskInv, taskVars, history
  <2> QED
    BY <2>3, <2>4
<1> QED
  BY <1>6, <1>8 DEF TaskInv

(* Its counter is decremented: it is no longer due here. *)
LEMMA TaskInvDecrement ==
    ASSUME Typed, TaskInv, NEW w \in Workers, Decrement(w)
    PROVE  TaskInv'
<1>1. PICK d \in Tasks : d = dep[w]
  BY WalkerAt DEF Decrement, Walk
<1>2. /\ wpc[w] = "dec" /\ wpc' = [wpc EXCEPT ![w] = "test"]
      /\ todo' = [todo EXCEPT ![w] = todo[w] \ {d}]
      /\ unresolved' = [unresolved EXCEPT ![d] = unresolved[d] - 1]
  BY <1>1 DEF Decrement, Goto
<1>3. UNCHANGED <<task, dep, queueVars, status, dependents, clientVars, history>>
  BY DEF Decrement
<1>4. PICK p \in Tasks : p = task[w]
  BY <1>2, WalkerAt DEF Walk
<1>5. d \in todo[w]
  BY <1>1, <1>2 DEF TaskInv, WalkInv, Walks, Walk
<1>6. /\ Walks(w) /\ d \in dependents[p] /\ ran[p] > 0 /\ todo[w] \subseteq dependents[p]
      /\ \A v \in Workers : Walks(v) /\ task[v] = p => v = w
  BY <1>1, <1>2, <1>4, <1>5 DEF TaskInv, WalkInv, Walks, Walk
<1>7. /\ wpc'[w] = "test" /\ dep'[w] = d /\ todo'[w] = todo[w] \ {d}
      /\ \A v \in Workers : v # w => wpc'[v] = wpc[v] /\ dep'[v] = dep[v] /\ todo'[v] = todo[v]
  BY <1>1, <1>2, <1>3 DEF Typed, TypeOK
<1>8. \A v \in Workers : Walks(v)' <=> Walks(v)
  BY <1>2, <1>7 DEF Walks, Walk
<1>9. WalkInv'
  <2>1. ASSUME NEW v \in Workers, Walks(v)'
        PROVE  /\ ran'[task'[v]] > 0 /\ todo'[v] \subseteq dependents'[task'[v]]
               /\ wpc'[v] # "deps" => dep'[v] \in dependents'[task'[v]]
               /\ wpc'[v] = "dec" => dep'[v] \in todo'[v]
               /\ \A x \in Workers : Walks(x)' /\ task'[x] = task'[v] => x = v
    <3>1. CASE v = w
      BY <1>3, <1>4, <1>6, <1>7, <1>8, <3>1 DEF history
    <3>2. CASE v # w
      BY <1>3, <1>7, <1>8, <2>1, <3>2 DEF TaskInv, WalkInv, history
    <3> QED
      BY <3>1, <3>2
  <2> QED
    BY <2>1 DEF WalkInv
<1>10. SameInsert
  BY <1>3 DEF SameInsert, clientVars
<1>11. \A t \in Tasks : Total(t)' = Total(t)
  <2>1. SamePassing /\ \A v \in Workers : wpc'[v] = "exec" <=> wpc[v] = "exec"
    BY <1>2, <1>7 DEF SamePassing
  <2> QED
    BY <1>3, <2>1, TotalKept DEF queueVars, clientVars, history
<1>12. ASSUME NEW t \in Tasks, t # d
       PROVE  CounterInv(t)' /\ CopyInv(t)'
  <2>1. Due(t)' = Due(t)
    <3>1. \A v \in Workers : t \in todo'[v] <=> t \in todo[v]
      BY <1>7, <1>12
    <3> QED
      BY <1>3, <1>8, <3>1 DEF Due, history
  <2>2. unresolved'[t] = unresolved[t]
    BY <1>2, <1>12 DEF Typed, TypeOK
  <2>3. NoNewRelease(t)
    BY <1>7, <1>12 DEF NoNewRelease, Releases
  <2>4. CounterInv(t)'
    BY <1>3, <1>10, <2>1, <2>2, <2>3, CounterKept DEF TaskInv, history
  <2>5. CopyInv(t)'
    BY <1>3, <1>10, <1>11, <2>1, <2>3, CopyKept DEF TaskInv, history
  <2> QED
    BY <2>4, <2>5
<1>13. p \in Due(d)
  BY <1>4, <1>5, <1>6 DEF Due
<1>14. Due(d)' = Due(d) \ {p}
  <2>1. ASSUME NEW x \in Tasks
        PROVE  x \in Due(d)' <=> x \in Due(d) /\ x # p
    <3>1. CASE x = p
      BY <1>3, <1>6, <1>7, <1>8, <3>1 DEF Due, history
    <3>2. CASE x # p
      BY <1>3, <1>4, <1>7, <1>8, <3>2 DEF Due, history
    <3> QED
      BY <3>1, <3>2
  <2> QED
    BY <2>1 DEF Due
<1>15. Released(d)' <=> Released(d)
  BY <1>2, <1>3, <1>7 DEF Released
<1>16. CounterInv(d)'
  <2>1. PICK D : D = Due(d) /\ IsFiniteSet(D) /\ Cardinality(D) \in Nat
    BY DueFinite
  <2>2. Cardinality(D \ {p}) = Cardinality(D) - 1
    BY <1>13, <2>1, FS_RemoveElement
  <2>3. unresolved[d] \in Int /\ unresolved'[d] = unresolved[d] - 1
    BY <1>2 DEF Typed, TypeOK
  <2>4. Inserting(d)' <=> Inserting(d)
    BY <1>3 DEF Inserting, clientVars
  <2>5. unresolved[d] >= Cardinality(D) + (IF Inserting(d) THEN 1 ELSE 0)
    BY <2>1 DEF TaskInv, CounterInv
  <2>6. Cardinality(Due(d)') = Cardinality(D) - 1
    BY <1>14, <2>1, <2>2
  <2>7. unresolved'[d] >= Cardinality(Due(d)') + (IF Inserting(d)' THEN 1 ELSE 0)
    BY <2>1, <2>3, <2>4, <2>5, <2>6
  <2>8. UNCHANGED <<awaits, dependents, cpc, carg, status, ran>>
    BY <1>3 DEF clientVars, history
  <2>9. CounterInv(d)
    BY DEF TaskInv
  <2> QED
    BY <1>15, <2>4, <2>7, <2>8, <2>9 DEF CounterInv
<1>17. CopyInv(d)'
  <2>1. CopyInv(d) /\ ~(Released(d) /\ d \notin late)
    BY <1>13 DEF TaskInv, CopyInv
  <2>2. Preds(d)' = Preds(d) /\ UNCHANGED <<status, late>> /\ Total(d)' = Total(d)
    BY <1>3, <1>11 DEF Preds, history
  <2>3. status'[d] = "PENDING" => Released(d)'
    BY DEF Released
  <2> QED
    BY <1>15, <2>1, <2>2, <2>3 DEF CopyInv
<1> QED
  BY <1>9, <1>12, <1>16, <1>17 DEF TaskInv

(* At 0 nobody has to decrement the counter any more, and whoever was      *)
(* declared by then has run.                                               *)
LEMMA AtZero ==
    ASSUME Typed, TaskInv, NEW d \in Tasks, unresolved[d] = 0
    PROVE  /\ Due(d) = {} /\ ~Inserting(d)
           /\ \A p \in awaits[d] : p \in Tasks /\ ran[p] > 0
<1>1. CounterInv(d)
  BY DEF TaskInv
<1>2. Due(d) = {} /\ ~Inserting(d)
  <2>1. PICK D : D = Due(d) /\ IsFiniteSet(D) /\ Cardinality(D) \in Nat
    BY DueFinite
  <2>2. 0 >= Cardinality(D) + (IF Inserting(d) THEN 1 ELSE 0)
    BY <1>1, <2>1 DEF CounterInv
  <2>3. Cardinality(D) = 0 /\ ~Inserting(d)
    BY <2>1, <2>2
  <2> QED
    BY <2>1, <2>3, FS_EmptySet
<1>3. ASSUME NEW p \in awaits[d]
      PROVE  p \in Tasks /\ ran[p] > 0
  <2>1. p \in Tasks /\ ran[p] \in Nat
    BY DEF Typed, TypeOK
  <2>2. ~(cpc = "insert" /\ carg = <<d, p>>)
    BY <1>2 DEF Inserting
  <2>3. d \in dependents[p]
    BY <1>1, <2>2 DEF CounterInv
  <2>4. ran[p] # 0
    BY <1>2, <2>1, <2>3 DEF Due
  <2> QED
    BY <2>1, <2>4
<1> QED
  BY <1>2, <1>3

(* The counter is read: at 0 the release begins. *)
LEMMA TaskInvTest ==
    ASSUME Typed, TaskInv, NEW w \in Workers, Test(w)
    PROVE  TaskInv'
<1>1. PICK d \in Tasks : d = dep[w] /\ d \in dependents[task[w]] /\ Walks(w)
  BY WalkerAt DEF Test, Walk
<1>2. /\ wpc[w] = "test"
      /\ \/ unresolved[d] = 0 /\ wpc' = [wpc EXCEPT ![w] = "store"] /\ dep' = dep
         \/ unresolved[d] # 0 /\ wpc' = [wpc EXCEPT ![w] = "deps"] /\ dep' = [dep EXCEPT ![w] = None]
  BY <1>1 DEF Test, Goto
<1>3. UNCHANGED <<task, todo, queueVars, taskVars, clientVars, history>>
  BY DEF Test
<1>4. /\ \/ unresolved[d] = 0 /\ wpc'[w] = "store" /\ dep'[w] = d
         \/ unresolved[d] # 0 /\ wpc'[w] = "deps"
      /\ \A v \in Workers : v # w => wpc'[v] = wpc[v] /\ dep'[v] = dep[v]
  BY <1>1, <1>2 DEF Typed, TypeOK
<1>5. Walks(w)'
  BY <1>4 DEF Walks, Walk
<1>6. WalkInv' /\ (\A t : Due(t)' = Due(t)) /\ SameInsert
  BY <1>1, <1>3, <1>4, <1>5, WalkStep DEF taskVars, clientVars, history
<1>7. SamePassing /\ \A v \in Workers : wpc'[v] = "exec" <=> wpc[v] = "exec"
  BY <1>2, <1>4 DEF SamePassing
<1>8. \A t \in Tasks : Total(t)' = Total(t)
  BY <1>3, <1>7, TotalKept DEF queueVars, clientVars, history
<1>9. ASSUME NEW t \in Tasks, t # d \/ unresolved[d] # 0
      PROVE  CounterInv(t)' /\ CopyInv(t)'
  <2>1. NoNewRelease(t)
    BY <1>4, <1>9 DEF NoNewRelease, Releases
  <2>2. CounterInv(t)'
    BY <1>3, <1>6, <2>1, CounterKept DEF TaskInv, taskVars, history
  <2>3. CopyInv(t)'
    BY <1>3, <1>6, <1>8, <2>1, CopyKept DEF TaskInv, taskVars, history
  <2> QED
    BY <2>2, <2>3
<1>10. CASE unresolved[d] = 0
  <2>1. /\ Due(d) = {} /\ ~Inserting(d)
        /\ \A p \in awaits[d] : p \in Tasks /\ ran[p] > 0
    BY <1>10, AtZero
  <2>2. Due(d)' = {} /\ ~Inserting(d)' /\ Preds(d)' = Preds(d) /\ UNCHANGED <<status, late>>
    BY <1>3, <1>6, <2>1 DEF Inserting, Preds, clientVars, taskVars, history
  <2>3. CounterInv(d) /\ CopyInv(d)
    BY DEF TaskInv
  <2>4. CounterInv(d)'
    <3>1. UNCHANGED <<awaits, dependents, cpc, carg, ran, unresolved>>
      BY <1>3 DEF clientVars, taskVars, history
    <3>2. unresolved'[d] >= Cardinality(Due(d)') + (IF Inserting(d)' THEN 1 ELSE 0)
      BY <1>10, <2>2, <3>1, FS_EmptySet
    <3>3. \A p \in awaits'[d] : d \in dependents'[p] \/ (cpc' = "insert" /\ carg' = <<d, p>>)
      BY <2>3, <3>1 DEF CounterInv
    <3> QED
      BY <2>1, <2>2, <2>3, <3>1, <3>2, <3>3 DEF CounterInv
  <2>5. \A v \in Workers : Releases(v, d)' => Releases(v, d)
    BY <1>1, <1>2, <1>4 DEF Releases
  <2>6. CopyInv(d)'
    BY <1>8, <2>2, <2>3, <2>5 DEF CopyInv
  <2> QED
    BY <1>6, <1>9, <2>4, <2>6 DEF TaskInv
<1> QED
  BY <1>6, <1>9, <1>10 DEF TaskInv

(* The status says so now, and the worker holds a copy.  Two workers that  *)
(* read the same 0 make two.                                               *)
LEMMA TaskInvRelease ==
    ASSUME Typed, TaskInv, NEW w \in Workers, Release(w)
    PROVE  TaskInv'
<1>1. PICK d \in Tasks : d = dep[w] /\ d \in dependents[task[w]] /\ task[w] \in Tasks /\ Walks(w)
                         /\ status[d] # "none"
  BY WalkerAt DEF Release, Walk
<1>2. /\ wpc[w] = "store" /\ wpc' = [wpc EXCEPT ![w] = "enqueue"]
      /\ status' = [status EXCEPT ![d] = "PENDING"]
  BY <1>1 DEF Release, Goto
<1>3. UNCHANGED <<task, todo, dep, queueVars, unresolved, dependents, clientVars, history>>
  BY DEF Release
<1>4. /\ wpc'[w] = "enqueue" /\ dep'[w] = d
      /\ \A v \in Workers : v # w => wpc'[v] = wpc[v] /\ dep'[v] = dep[v]
  BY <1>1, <1>2, <1>3 DEF Typed, TypeOK
<1>5. Walks(w)'
  BY <1>4 DEF Walks, Walk
<1>6. WalkInv' /\ (\A t : Due(t)' = Due(t)) /\ SameInsert
  BY <1>1, <1>3, <1>4, <1>5, WalkStep DEF clientVars, history
<1>7. status'[d] = "PENDING" /\ \A t \in Tasks : t # d => status'[t] = status[t]
  BY <1>2 DEF Typed, TypeOK
<1>8. ASSUME NEW t \in Tasks
      PROVE  Total(t)' = Total(t) + Is(t, d)
  <2>1. Cardinality(Holding("enqueue", wpc', dep', t)) = Cardinality(Holding("enqueue", wpc, dep, t)) + Is(t, d)
    <3>1. /\ wpc[w] # "enqueue" /\ wpc'[w] = "enqueue" /\ dep'[w] = d
          /\ \A v \in Workers : v # w => wpc'[v] = wpc[v] /\ dep'[v] = dep[v]
      BY <1>2, <1>4
    <3>2. PICK place, pc, tk, pc2, tk2 : /\ place = "enqueue" /\ pc = wpc /\ tk = dep
                                         /\ pc2 = wpc' /\ tk2 = dep'
      OBVIOUS
    <3>3. /\ pc[w] # place /\ pc2[w] = place /\ tk2[w] = d
          /\ \A v \in Workers : v # w => pc2[v] = pc[v] /\ tk2[v] = tk[v]
      BY <3>1, <3>2
    <3>4. Cardinality(Holding(place, pc2, tk2, t)) = Cardinality(Holding(place, pc, tk, t)) + Is(t, d)
      BY <3>3, HoldingTaken
    <3> QED
      BY <3>2, <3>4
  <2>2. \A v \in Workers : wpc'[v] = "exec" <=> wpc[v] = "exec"
    BY <1>2, <1>4
  <2>3. Holding("exec", wpc', task', t) = Holding("exec", wpc, task, t)
    BY <1>3, <2>2, HoldingSame
  <2>4. PICK i \in {0, 1} : i = Is(t, d)
    BY IsNumber
  <2> QED
    BY <1>3, <2>1, <2>3, <2>4, Numbers, TotalNow, TotalNext DEF queueVars, clientVars, history
<1>9. ASSUME NEW t \in Tasks, t # d
      PROVE  CounterInv(t)' /\ CopyInv(t)'
  <2>1. NoNewRelease(t)
    BY <1>4 DEF NoNewRelease, Releases
  <2>2. Total(t)' = Total(t)
    BY <1>8, <1>9, Numbers DEF Is
  <2>3. CounterInv(t)'
    BY <1>3, <1>6, <1>7, <1>9, <2>1, CounterKept DEF TaskInv, history
  <2>4. CopyInv(t)'
    BY <1>3, <1>6, <1>7, <1>9, <2>1, <2>2, CopyKept DEF TaskInv, history
  <2> QED
    BY <2>3, <2>4
<1>10. CounterInv(d) /\ CopyInv(d) /\ Released(d)
  BY <1>1, <1>2 DEF TaskInv, Released
<1>11. (Inserting(d)' <=> Inserting(d)) /\ Preds(d)' = Preds(d) /\ UNCHANGED <<awaits, late, ran, cpc, carg>>
  BY <1>3 DEF Inserting, Preds, clientVars, history
<1>12. CounterInv(d)'
  <2>1. (unresolved[d] >= Cardinality(Due(d)) + (IF Inserting(d) THEN 1 ELSE 0))'
    BY <1>3, <1>6, <1>10, <1>11 DEF CounterInv
  <2>2. \A p \in awaits'[d] : ran'[p] > 0
    BY <1>10, <1>11 DEF CounterInv
  <2> QED
    BY <1>3, <1>7, <1>10, <1>11, <2>1, <2>2 DEF CounterInv
<1>13. CopyInv(d)'
  <2>1. Total(d) \in Nat /\ Total(d)' = Total(d) + 1
    BY <1>8, Numbers DEF Is
  <2>2. status[d] = "PENDING" => Cardinality(Preds(d)) > 1 \/ d \in late
    BY <1>1, <1>2, <1>10 DEF CopyInv, Releases
  <2>3. status[d] # "PENDING" => Total(d) = 0
    BY <1>10 DEF CopyInv
  <2>4. Total(d)' > 1 => Cardinality(Preds(d)') > 1 \/ d \in late'
    BY <1>11, <2>1, <2>2, <2>3
  <2>5. ASSUME NEW v \in Workers, Releases(v, d)'
        PROVE  Cardinality(Preds(d)) > 1
    <3>1. v # w /\ wpc[v] \in {"test", "store"} /\ dep[v] = d
      BY <1>4, <2>5 DEF Releases
    <3>2. Walks(v) /\ task[v] \in Tasks /\ d \in dependents[task[v]]
      BY <3>1, WalkerAt DEF Walk
    <3>3. task[v] # task[w]
      BY <1>1, <3>1, <3>2 DEF TaskInv, WalkInv
    <3>4. task[v] \in Preds(d) /\ task[w] \in Preds(d)
      BY <1>1, <3>2 DEF Preds
    <3> QED
      BY <3>3, <3>4, PredsFinite, TwoMembers
  <2>6. d \notin late => Due(d)' = {} /\ ~Inserting(d)'
    BY <1>6, <1>10, <1>11 DEF CopyInv
  <2> QED
    BY <1>7, <1>11, <2>1, <2>4, <2>5, <2>6 DEF CopyInv
<1> QED
  BY <1>6, <1>9, <1>12, <1>13 DEF TaskInv

(* The copy goes from the worker's hand into the global queue. *)
LEMMA TaskInvEnqueue ==
    ASSUME Typed, TaskInv, NEW w \in Workers, Enqueue(w)
    PROVE  TaskInv'
<1>1. PICK d \in Tasks : d = dep[w] /\ Walks(w)
  BY WalkerAt DEF Enqueue, Walk
<1>2. /\ wpc[w] = "enqueue" /\ wpc' = [wpc EXCEPT ![w] = "deps"] /\ dep' = [dep EXCEPT ![w] = None]
      /\ global' = [global EXCEPT ![d] = global[d] + 1]
  BY <1>1 DEF Enqueue, Goto, enqueue_task
<1>3. UNCHANGED <<task, todo, local, taskVars, clientVars, history>>
  BY DEF Enqueue
<1>4. /\ wpc'[w] = "deps"
      /\ \A v \in Workers : v # w => wpc'[v] = wpc[v] /\ dep'[v] = dep[v]
  BY <1>2 DEF Typed, TypeOK
<1>5. Walks(w)'
  BY <1>4 DEF Walks, Walk
<1>6. WalkInv' /\ (\A t : Due(t)' = Due(t)) /\ SameInsert
  BY <1>1, <1>3, <1>4, <1>5, WalkStep DEF taskVars, clientVars, history
<1>7. ASSUME NEW t \in Tasks
      PROVE  Total(t)' = Total(t)
  <2>1. PICK i \in {0, 1} : i = Is(t, d)
    BY IsNumber
  <2>2. global'[t] = global[t] + i
    BY <1>2, <2>1, Numbers DEF Typed, TypeOK, Is
  <2>3. Cardinality(Holding("enqueue", wpc, dep, t)) = Cardinality(Holding("enqueue", wpc', dep', t)) + i
    <3>1. /\ wpc'[w] # "enqueue" /\ wpc[w] = "enqueue" /\ dep[w] = d
          /\ \A v \in Workers : v # w => wpc[v] = wpc'[v] /\ dep[v] = dep'[v]
      BY <1>1, <1>2, <1>4
    <3>2. PICK place, pc, tk, pc2, tk2 : /\ place = "enqueue" /\ pc = wpc' /\ tk = dep'
                                         /\ pc2 = wpc /\ tk2 = dep
      OBVIOUS
    <3>3. /\ pc[w] # place /\ pc2[w] = place /\ tk2[w] = d
          /\ \A v \in Workers : v # w => pc2[v] = pc[v] /\ tk2[v] = tk[v]
      BY <3>1, <3>2
    <3>4. Cardinality(Holding(place, pc2, tk2, t)) = Cardinality(Holding(place, pc, tk, t)) + Is(t, d)
      BY <3>3, HoldingTaken
    <3> QED
      BY <2>1, <3>2, <3>4
  <2>4. \A v \in Workers : wpc'[v] = "exec" <=> wpc[v] = "exec"
    BY <1>2, <1>4
  <2>5. Holding("exec", wpc', task', t) = Holding("exec", wpc, task, t)
    BY <1>3, <2>4, HoldingSame
  <2>6. Cardinality(Holding("enqueue", wpc', dep', t)) \in Nat
    BY HoldingFinite
  <2> QED
    BY <1>3, <2>1, <2>2, <2>3, <2>5, <2>6, Numbers, TotalNow, TotalNext DEF clientVars, history
<1>8. ASSUME NEW t \in Tasks
      PROVE  CounterInv(t)' /\ CopyInv(t)'
  <2>1. NoNewRelease(t)
    BY <1>4 DEF NoNewRelease, Releases
  <2>2. CounterInv(t)'
    BY <1>3, <1>6, <2>1, CounterKept DEF TaskInv, taskVars, history
  <2>3. CopyInv(t)'
    BY <1>3, <1>6, <1>7, <2>1, CopyKept DEF TaskInv, taskVars, history
  <2> QED
    BY <2>2, <2>3
<1> QED
  BY <1>6, <1>8 DEF TaskInv

LEMMA TaskInvWorker ==
    ASSUME Typed, TaskInv, NEW w \in Workers, WorkerStep(w)
    PROVE  TaskInv'
BY TaskInvSearch, TaskInvExecute, TaskInvDeregister, TaskInvVisit, TaskInvDecrement, TaskInvTest,
   TaskInvRelease, TaskInvEnqueue DEF WorkerStep

-----------------------------------------------------------------------------
(* The calling thread.                                                     *)

(* A task nobody submitted is known to nobody. *)
LEMMA Unknown ==
    ASSUME Typed, TaskInv, NEW t \in Tasks, status[t] = "none"
    PROVE  /\ Due(t) = {} /\ ~Inserting(t) /\ Total(t) = 0
           /\ \A w \in Workers : ~Releases(w, t)
<1>1. CounterInv(t) /\ CopyInv(t)
  BY DEF TaskInv
<1>2. \A p \in Tasks : t \notin dependents[p]
  BY <1>1 DEF CounterInv
<1>3. \A w \in Workers : Walks(w) => task[w] \in Tasks
  BY DEF Walks, Typed, SlotInv
<1>4. Due(t) = {}
  BY <1>2, <1>3 DEF Due, TaskInv, WalkInv
<1>5. \A w \in Workers : ~Releases(w, t)
  BY <1>2, <1>3 DEF TaskInv, WalkInv, Walks, Walk, Releases
<1> QED
  BY <1>1, <1>4, <1>5 DEF CounterInv, CopyInv

(* submit and dep_submit change the status of one task. *)
LEMMA TaskInvSubmit ==
    ASSUME Typed, TaskInv, NEW u \in Tasks, submit(u) \/ dep_submit(u)
    PROVE  TaskInv'
<1>1. cpc = "idle" /\ cpc' # "insert" /\ status[u] = "none"
  BY DEF submit, dep_submit, clientVars
<1>2. UNCHANGED <<workerVars, queueVars, unresolved, dependents, history>>
  BY DEF submit, dep_submit
<1>3. SameInsert
  BY <1>1 DEF SameInsert
<1>4. \A w \in Workers : Walks(w)' <=> Walks(w)
  BY <1>2 DEF Walks, workerVars
<1>5. WalkInv'
  BY <1>2, <1>4 DEF TaskInv, WalkInv, workerVars, history
<1>6. \A t : Due(t)' = Due(t)
  BY <1>2, <1>4, DueKept DEF workerVars, history
<1>7. /\ \A t \in Tasks : /\ Holding("exec", wpc', task', t) = Holding("exec", wpc, task, t)
                           /\ Holding("enqueue", wpc', dep', t) = Holding("enqueue", wpc, dep, t)
      /\ \A t : NoNewRelease(t)
  BY <1>2 DEF workerVars, NoNewRelease, Releases
<1>8. ASSUME NEW t \in Tasks, Adding(cpc', carg', t) = Adding(cpc, carg, t)
      PROVE  Total(t)' = Total(t)
  BY <1>2, <1>7, <1>8, TotalNow, TotalNext DEF queueVars, history
<1>9. ASSUME NEW t \in Tasks, t # u
      PROVE  CounterInv(t)' /\ CopyInv(t)'
  <2>1. status'[t] = status[t]
    BY <1>9 DEF submit, dep_submit, Typed, TypeOK
  <2>2. Adding(cpc', carg', t) = Adding(cpc, carg, t)
    <3>1. CASE submit(u)
      <4>1. carg' = <<u>> /\ <<u>> # <<t>>
        BY <1>9, <3>1 DEF submit
      <4> QED
        BY <1>1, <4>1 DEF Adding
    <3>2. CASE dep_submit(u)
      BY <3>2 DEF dep_submit, clientVars
    <3> QED
      BY <3>1, <3>2
  <2>3. CounterInv(t)'
    BY <1>2, <1>3, <1>6, <1>7, <2>1, CounterKept DEF TaskInv, history
  <2>4. CopyInv(t)'
    BY <1>2, <1>3, <1>6, <1>7, <1>8, <2>1, <2>2, CopyKept DEF TaskInv, workerVars, history
  <2> QED
    BY <2>3, <2>4
<1>10. /\ Due(u)' = {} /\ ~Inserting(u)' /\ Total(u) = 0
       /\ \A w \in Workers : ~Releases(w, u)'
  BY <1>1, <1>2, <1>6, Unknown DEF Inserting, workerVars, Releases
<1>11. status'[u] \in {"PENDING", "DEPENDENCY"} /\ (status'[u] = "PENDING" <=> submit(u))
  BY DEF submit, dep_submit, Typed, TypeOK
<1>12. CounterInv(u)'
  <2>1. CounterInv(u) /\ UNCHANGED <<awaits, dependents, ran>> /\ unresolved'[u] = unresolved[u] /\ ~Inserting(u)
    BY <1>1, <1>2 DEF TaskInv, history, Inserting
  <2>2. awaits'[u] = {}
    BY <1>1, <2>1 DEF CounterInv
  <2>3. unresolved'[u] >= Cardinality(Due(u)') + (IF Inserting(u)' THEN 1 ELSE 0)
    BY <1>6, <1>10, <2>1 DEF CounterInv
  <2> QED
    BY <1>11, <2>2, <2>3 DEF CounterInv
<1>13. Total(u)' = IF status'[u] = "PENDING" THEN 1 ELSE 0
  <2>1. CASE submit(u)
    <3>1. Adding(cpc, carg, u) = 0 /\ Adding(cpc', carg', u) = 1
      BY <2>1 DEF submit, Adding
    <3>2. Total(u)' = Total(u) + 1
      BY <1>2, <1>7, <3>1, Numbers, TotalNow, TotalNext DEF queueVars, history
    <3> QED
      BY <1>10, <1>11, <2>1, <3>2
  <2>2. CASE dep_submit(u)
    <3>1. Adding(cpc', carg', u) = Adding(cpc, carg, u)
      BY <2>2 DEF dep_submit, clientVars
    <3>2. status'[u] # "PENDING"
      BY <2>2 DEF dep_submit, Typed, TypeOK
    <3> QED
      BY <1>8, <1>10, <3>1, <3>2
  <2> QED
    BY <2>1, <2>2
<1>14. CopyInv(u)'
  BY <1>10, <1>13 DEF CopyInv
<1> QED
  BY <1>5, <1>9, <1>12, <1>14 DEF TaskInv

(* The first half of add_dependency: the counter is ahead of the set. *)
LEMMA TaskInvAddDependency ==
    ASSUME Typed, TaskInv, NEW u \in DepTasks, NEW p \in Tasks, AddDependency(u, p)
    PROVE  TaskInv'
<1>1. u \in Tasks /\ cpc = "idle" /\ status[u] # "none"
  BY DEF AddDependency, Tasks
<1>2. UNCHANGED <<workerVars, queueVars, status, dependents, ran>>
  BY DEF AddDependency
<1>3. \A w \in Workers : Walks(w)' <=> Walks(w)
  BY <1>2 DEF Walks, workerVars
<1>4. WalkInv'
  BY <1>2, <1>3 DEF TaskInv, WalkInv, workerVars
<1>5. \A t : Due(t)' = Due(t)
  BY <1>2, <1>3, DueKept DEF workerVars
<1>6. \A t \in Tasks : Total(t)' = Total(t)
  <2>1. \A t \in Tasks : Adding(cpc', carg', t) = Adding(cpc, carg, t)
    BY <1>1 DEF AddDependency, Adding
  <2> QED
    BY <1>2, <2>1, TotalKept DEF workerVars, queueVars, SamePassing
<1>7. CASE UNCHANGED <<unresolved, cpc, carg, awaits, late>>
  BY <1>2, <1>6, <1>7, SameWorkersMove DEF SameInsert, history
<1>8. CASE /\ unresolved' = [unresolved EXCEPT ![u] = unresolved[u] + 1]
           /\ cpc' = "insert" /\ carg' = <<u, p>>
  <2>0. \A t : /\ Released(t)' <=> Released(t)
              /\ \A w \in Workers : Releases(w, t)' <=> Releases(w, t)
    BY <1>2 DEF Released, Releases, workerVars
  <2>1. \/ /\ ~Released(u) /\ late' = late
           /\ awaits' = [awaits EXCEPT ![u] = awaits[u] \cup {p}]
        \/ Released(u) /\ late' = late \cup {u} /\ awaits' = awaits
    BY <1>1, <1>8 DEF AddDependency
  <2>2. \A t : Inserting(t)' <=> t = u
    BY <1>8 DEF Inserting
  <2>3. \A t : ~Inserting(t)
    BY <1>1 DEF Inserting
  <2>4. ASSUME NEW t \in Tasks, t # u
        PROVE  CounterInv(t)' /\ CopyInv(t)'
    <3>1. unresolved'[t] = unresolved[t] /\ awaits'[t] = awaits[t] /\ (t \in late' <=> t \in late)
      BY <1>8, <2>1, <2>4 DEF Typed, TypeOK
    <3>2. ~Inserting(t) /\ ~Inserting(t)' /\ Preds(t)' = Preds(t)
      BY <1>2, <2>2, <2>3, <2>4 DEF Preds
    <3>3. CounterInv(t) /\ CopyInv(t)
      BY DEF TaskInv
    <3>4. CounterInv(t)'
      BY <1>1, <1>2, <1>5, <2>0, <3>1, <3>2, <3>3 DEF CounterInv
    <3>5. CopyInv(t)'
      BY <1>2, <1>5, <1>6, <2>0, <3>1, <3>2, <3>3 DEF CopyInv
    <3> QED
      BY <3>4, <3>5
  <2>5. CounterInv(u) /\ CopyInv(u) /\ Preds(u)' = Preds(u)
    BY <1>1, <1>2 DEF TaskInv, Preds
  <2>6. CounterInv(u)'
    <3>1. unresolved[u] \in Int /\ unresolved'[u] = unresolved[u] + 1
      BY <1>1, <1>8 DEF Typed, TypeOK
    <3>2. Cardinality(Due(u)) \in Nat /\ unresolved[u] >= Cardinality(Due(u))
      BY <2>3, <2>5, DueFinite DEF CounterInv
    <3>3. unresolved'[u] >= Cardinality(Due(u)') + (IF Inserting(u)' THEN 1 ELSE 0)
      BY <1>5, <2>2, <3>1, <3>2
    <3>4. \A x \in awaits'[u] : u \in dependents'[x] \/ (cpc' = "insert" /\ carg' = <<u, x>>)
      <4>1. \A x \in awaits'[u] : x \in awaits[u] \/ x = p
        BY <1>1, <2>1 DEF Typed, TypeOK
      <4>2. \A x \in awaits[u] : u \in dependents[x]
        BY <1>1, <2>5 DEF CounterInv
      <4> QED
        BY <1>2, <1>8, <4>1, <4>2
    <3>5. Released(u) => awaits' = awaits
      BY <2>1
    <3>6. Released(u)' => \A x \in awaits'[u] : ran'[x] > 0
      BY <1>2, <2>5, <2>0, <3>5 DEF CounterInv
    <3> QED
      BY <1>1, <1>2, <3>3, <3>4, <3>6 DEF CounterInv
  <2>7. CopyInv(u)'
    <3>1. u \in late => u \in late'
      BY <2>1
    <3>2. /\ Released(u)' => u \in late'
          /\ status[u] = "PENDING" => Released(u)'
      BY <1>2, <2>1, <2>0 DEF Released
    <3> QED
      BY <1>1, <1>2, <1>6, <2>5, <3>1, <3>2 DEF CopyInv
  <2> QED
    BY <1>4, <2>4, <2>6, <2>7 DEF TaskInv
<1> QED
  BY <1>7, <1>8 DEF AddDependency

(* The second half: the predecessor is told, before or after it ran. *)
LEMMA TaskInvInsert ==
    ASSUME Typed, TaskInv, InsertDependent
    PROVE  TaskInv'
<1>1. PICK t \in Tasks, p \in Tasks : carg = <<t, p>>
  BY DEF InsertDependent, Typed, SlotInv
<1>2. cpc = "insert" /\ cpc' = "idle" /\ dependents' = [dependents EXCEPT ![p] = dependents[p] \cup {t}]
  BY <1>1 DEF InsertDependent
<1>3. UNCHANGED <<wpc, task, dep, queueVars, status, unresolved, history>>
  BY DEF InsertDependent
<1>4. PICK met \in SUBSET {w \in Workers : /\ t \notin dependents[p]
                                           /\ task[w] = p /\ wpc[w] \in Walk} :
          todo' = [w \in Workers |-> IF w \in met THEN todo[w] \cup {t} ELSE todo[w]]
  BY <1>1 DEF InsertDependent
<1>5. \A w \in Workers : w \in met => Walks(w) /\ task[w] = p
  BY <1>4 DEF Walks
<1>6. /\ dependents'[p] = dependents[p] \cup {t}
      /\ \A x \in Tasks : x # p => dependents'[x] = dependents[x]
  BY <1>2 DEF Typed, TypeOK
<1>7. \A w \in Workers : todo'[w] = IF w \in met THEN todo[w] \cup {t} ELSE todo[w]
  BY <1>4
<1>8. \A w \in Workers : Walks(w)' <=> Walks(w)
  BY <1>3 DEF Walks
<1>9. \A w \in Workers : Walks(w) => task[w] \in Tasks
  BY DEF Walks, Typed, SlotInv
<1>10. WalkInv'
  <2>1. ASSUME NEW v \in Workers, Walks(v)'
        PROVE  /\ ran'[task'[v]] > 0 /\ todo'[v] \subseteq dependents'[task'[v]]
               /\ wpc'[v] # "deps" => dep'[v] \in dependents'[task'[v]]
               /\ wpc'[v] = "dec" => dep'[v] \in todo'[v]
               /\ \A x \in Workers : Walks(x)' /\ task'[x] = task'[v] => x = v
    <3>1. Walks(v) /\ task[v] \in Tasks
      BY <1>8, <1>9, <2>1
    <3>2. dependents[task[v]] \subseteq dependents'[task[v]]
      BY <1>6, <3>1
    <3>3. todo'[v] \subseteq dependents'[task[v]]
      BY <1>5, <1>6, <1>7, <3>1, <3>2 DEF TaskInv, WalkInv
    <3> QED
      BY <1>3, <1>7, <1>8, <3>1, <3>2, <3>3 DEF TaskInv, WalkInv, history
  <2> QED
    BY <2>1 DEF WalkInv
<1>11. \A u \in Tasks : Total(u)' = Total(u)
  <2>1. \A u \in Tasks : Adding(cpc', carg', u) = Adding(cpc, carg, u)
    BY <1>2 DEF Adding
  <2> QED
    BY <1>3, <2>1, TotalKept DEF queueVars, history, SamePassing
<1>0. \A u : /\ Released(u)' <=> Released(u)
            /\ \A w \in Workers : Releases(w, u)' <=> Releases(w, u)
  BY <1>3 DEF Released, Releases
<1>12. \A u : ~Inserting(u)' /\ (Inserting(u) <=> u = t)
  BY <1>1, <1>2 DEF Inserting
<1>13. ASSUME NEW u \in Tasks, u # t
       PROVE  CounterInv(u)' /\ CopyInv(u)'
  <2>1. /\ \A x \in Tasks : u \in dependents'[x] <=> u \in dependents[x]
        /\ \A v \in Workers : u \in todo'[v] <=> u \in todo[v]
    <3>1. \A x \in Tasks : u \in dependents'[x] <=> u \in dependents[x]
      BY <1>6, <1>13
    <3>2. \A v \in Workers : u \in todo'[v] <=> u \in todo[v]
      BY <1>7, <1>13
    <3> QED
      BY <3>1, <3>2
  <2>2. Due(u)' = Due(u) /\ Preds(u)' = Preds(u)
    BY <1>3, <1>8, <2>1 DEF Due, Preds, history
  <2>3. CounterInv(u) /\ CopyInv(u) /\ awaits[u] \subseteq Tasks
    BY DEF TaskInv, Typed, TypeOK
  <2>4. ~Inserting(u) /\ ~Inserting(u)' /\ \A x : carg # <<u, x>>
    BY <1>1, <1>12, <1>13
  <2>5. UNCHANGED <<awaits, late, ran>>
    BY <1>3 DEF history
  <2>6. CounterInv(u)'
    BY <1>0, <1>3, <2>1, <2>2, <2>3, <2>4, <2>5 DEF CounterInv
  <2>7. CopyInv(u)'
    BY <1>0, <1>3, <1>11, <2>2, <2>3, <2>4, <2>5 DEF CopyInv
  <2> QED
    BY <2>6, <2>7
<1>14. CounterInv(t) /\ CopyInv(t) /\ Inserting(t) /\ awaits[t] \subseteq Tasks /\ UNCHANGED <<awaits, late, ran>>
  BY <1>3, <1>12 DEF TaskInv, history, Typed, TypeOK
<1>15. CounterInv(t)'
  <2>1. PICK D : D = Due(t) /\ IsFiniteSet(D) /\ Cardinality(D) \in Nat
    BY DueFinite
  <2>2. Due(t)' \subseteq D \cup {p}
    <3>1. ASSUME NEW x \in Tasks, x # p
          PROVE  x \in Due(t)' => x \in Due(t)
      BY <1>3, <1>5, <1>6, <1>7, <1>8, <3>1 DEF Due, history
    <3> QED
      BY <2>1, <3>1 DEF Due
  <2>3. IsFiniteSet(D \cup {p}) /\ Cardinality(D \cup {p}) <= Cardinality(D) + 1
        /\ Cardinality(D \cup {p}) \in Nat
    <3>1. CASE p \in D
      <4>1. PICK S : S = D \cup {p}
        OBVIOUS
      <4>2. S = D
        BY <3>1, <4>1
      <4>3. IsFiniteSet(S) /\ Cardinality(S) \in Nat /\ Cardinality(S) <= Cardinality(D) + 1
        BY <2>1, <4>2
      <4> QED
        BY <4>1, <4>3
    <3>2. CASE p \notin D
      BY <2>1, <3>2, FS_AddElement
    <3> QED
      BY <3>1, <3>2
  <2>4. PICK E : E = Due(t)'
    OBVIOUS
  <2>5. Cardinality(E) <= Cardinality(D \cup {p}) /\ Cardinality(E) \in Nat
    BY <2>2, <2>3, <2>4, SubsetCardinality
  <2>6. unresolved[t] \in Int /\ unresolved[t] >= Cardinality(D) + 1
    BY <1>14, <2>1 DEF CounterInv, Typed, TypeOK
  <2>7. unresolved'[t] >= Cardinality(Due(t)') + (IF Inserting(t)' THEN 1 ELSE 0)
    BY <1>3, <1>12, <2>1, <2>3, <2>4, <2>5, <2>6
  <2>8. \A x \in awaits'[t] : t \in dependents'[x]
    <3>1. ASSUME NEW x \in awaits[t]
          PROVE  t \in dependents'[x]
      <4>1. t \in dependents[x] \/ x = p
        BY <1>1, <1>14 DEF CounterInv
      <4>2. x \in Tasks
        BY <1>14
      <4> QED
        BY <1>6, <4>1, <4>2
    <3> QED
      BY <1>14, <3>1
  <2>9. status[t] # "none"
    BY <1>14 DEF CounterInv
  <2> QED
    BY <1>0, <1>3, <1>14, <2>7, <2>8, <2>9 DEF CounterInv
<1>16. CopyInv(t)'
  <2>1. /\ ~(Released(t)' /\ t \notin late)
        /\ status[t] = "PENDING" => Released(t)'
    BY <1>0, <1>3, <1>14 DEF CopyInv, Released
  <2>2. Preds(t) \subseteq Preds(t)'
    BY <1>6 DEF Preds
  <2>3. PICK P, Q : P = Preds(t) /\ Q = Preds(t)' /\ P \subseteq Q
    BY <2>2
  <2>4. IsFiniteSet(Q)
    <3>1. Q \subseteq Tasks
      BY <2>3 DEF Preds
    <3> QED
      BY <3>1, Finite, SubsetCardinality
  <2>5. Cardinality(P) \in Nat /\ Cardinality(Q) \in Nat /\ Cardinality(P) <= Cardinality(Q)
    BY <2>3, <2>4, SubsetCardinality
  <2>6. Cardinality(Preds(t)) > 1 => Cardinality(Preds(t)') > 1
    BY <2>3, <2>5
  <2> QED
    BY <1>3, <1>11, <1>14, <2>1, <2>6 DEF CopyInv
<1> QED
  BY <1>10, <1>13, <1>15, <1>16 DEF TaskInv

LEMMA TaskInvClient ==
    ASSUME Typed, TaskInv, Client
    PROVE  TaskInv'
<1>1. CASE AddTask
  <2>1. SameInsert
    BY <1>1 DEF AddTask, SameInsert
  <2> QED
    BY <1>1, <2>1, TotalAddTask, SameWorkersMove DEF AddTask, taskVars
<1> QED
  BY <1>1, TaskInvSubmit, TaskInvAddDependency, TaskInvInsert DEF Client

-----------------------------------------------------------------------------
(* The invariant.                                                          *)

LEMMA PoolInit == Init => PoolInv
<1> SUFFICES ASSUME Init PROVE PoolInv
  OBVIOUS
<1>1. Typed
  BY TypedInit
<1>2. \A w \in Workers : wpc[w] \in {"local", "none"}
  BY DEF Init
<1>3. WalkInv
  BY <1>2 DEF WalkInv, Walks, Walk
<1>4. ASSUME NEW t \in Tasks
      PROVE  /\ status[t] = "none" /\ unresolved[t] = 0 /\ awaits[t] = {} /\ global[t] = 0 /\ ran[t] = 0
             /\ \A p \in Tasks : t \notin dependents[p]
  BY DEF Init
<1>5. ASSUME NEW t \in Tasks
      PROVE  Due(t) = {} /\ ~Inserting(t) /\ ~Released(t)
  BY <1>2, <1>4 DEF Due, Walks, Walk, Inserting, Init, Released
<1>6. ASSUME NEW t \in Tasks
      PROVE  Total(t) = 0
  <2>1. LocalIn(local, t) = {}
    BY DEF Init, LocalIn, Positions
  <2>2. Holding("exec", wpc, task, t) = {} /\ Holding("enqueue", wpc, dep, t) = {}
    BY <1>2 DEF Holding
  <2>3. Adding(cpc, carg, t) = 0
    BY DEF Init, Adding
  <2>4. Cardinality(LocalIn(local, t)) = 0 /\ Cardinality(Holding("exec", wpc, task, t)) = 0
        /\ Cardinality(Holding("enqueue", wpc, dep, t)) = 0
    BY <2>1, <2>2, FS_EmptySet
  <2>5. global[t] = 0 /\ ran[t] = 0
    BY <1>4
  <2> QED
    BY <2>3, <2>4, <2>5, TotalNow
<1>7. ASSUME NEW t \in Tasks
      PROVE  CounterInv(t) /\ CopyInv(t)
  <2>1. CounterInv(t)
    <3>1. Cardinality(Due(t)) = 0
      BY <1>5, FS_EmptySet
    <3> QED
      BY <1>4, <1>5, <3>1 DEF CounterInv
  <2>2. CopyInv(t)
    BY <1>4, <1>5, <1>6 DEF CopyInv
  <2> QED
    BY <2>1, <2>2
<1> QED
  BY <1>1, <1>3, <1>7 DEF PoolInv, Typed

LEMMA PoolStep == PoolInv /\ [Next]_vars => PoolInv'
<1> SUFFICES ASSUME PoolInv, [Next]_vars PROVE PoolInv'
  OBVIOUS
<1>1. Typed /\ TaskInv
  BY DEF PoolInv, Typed, TaskInv
<1>2. CASE Next
  <2>1. Typed'
    BY <1>1, <1>2, TypedStep
  <2>2. TaskInv'
    BY <1>1, <1>2, TaskInvClient, TaskInvWorker, TaskInvOwner DEF Next
  <2> QED
    BY <2>1, <2>2 DEF PoolInv, Typed, TaskInv
<1>3. CASE UNCHANGED vars
  <2>1. /\ UNCHANGED <<workerVars, queueVars, slotVars, taskVars, clientVars, monitorVars, spc, aborted, history>>
    BY <1>3 DEF vars
  <2>2. TypeOK'
    BY <1>1, <2>1 DEF Typed, TypeOK, workerVars, queueVars, slotVars, taskVars, clientVars, monitorVars, history
  <2>3. SlotInv'
    BY <1>1, <2>1 DEF Typed, SlotInv, workerVars, queueVars, slotVars, taskVars, clientVars, monitorVars, history
  <2>4. \A t \in Tasks : Total(t)' = Total(t)
    BY <1>1, <2>1, TotalKept DEF workerVars, queueVars, clientVars, history, SamePassing
  <2>5. TaskInv'
    BY <1>1, <2>1, <2>4, SameWorkersMove DEF taskVars, clientVars, SameInsert
  <2> QED
    BY <2>2, <2>3, <2>5 DEF PoolInv, TaskInv
<1> QED
  BY <1>2, <1>3

(* The invariant holds of every state of the pool. *)
THEOREM PoolInvariance == Spec => []PoolInv
<1>1. Init => PoolInv
  BY PoolInit
<1>2. PoolInv /\ [Next]_vars => PoolInv'
  BY PoolStep
<1> QED
  BY <1>1, <1>2, PTL DEF Spec

(* The types of the pool's variables, whatever the threads of              *)
(* ThreadPool.tpp do.                                                      *)
THEOREM TypeCorrect == Spec => []TypeOK
<1>1. PoolInv => TypeOK
  BY DEF PoolInv
<1> QED
  BY <1>1, PoolInvariance, PTL

(* No task is lost between the caller, the queues, a thief and             *)
(* remove_worker, and a second copy has one of the two causes: the race of *)
(* two predecessors on the counter, or a late add_dependency.              *)
THEOREM NoTaskLostOrDuplicatedCorrect == Spec => []NoTaskLostOrDuplicated
<1>1. PoolInv => NoTaskLostOrDuplicated
  BY DEF PoolInv, CopyInv, Total, Preds, NoTaskLostOrDuplicated
<1> QED
  BY <1>1, PoolInvariance, PTL

(* A task that runs was released by a worker that found its counter at 0,  *)
(* and at that load nobody it waits for is still due: execute() of every   *)
(* predecessor add_dependency had named by then is over.  The load, the    *)
(* store of PENDING and enqueue_task are three steps here, as they are in  *)
(* ThreadPool.tpp:14-16.                                                   *)
THEOREM DependenciesRespectedCorrect == Spec => []DependenciesRespected
<1>1. PoolInv => DependenciesRespected
  <2> SUFFICES ASSUME PoolInv, NEW t \in Tasks, ran[t] > 0, NEW p \in awaits[t]
               PROVE  ran[p] > 0
    BY DEF DependenciesRespected
  <2>1. Typed /\ CounterInv(t) /\ CopyInv(t)
    BY DEF PoolInv, Typed
  <2>2. Total(t) > 0
    BY <2>1, Numbers, TotalNow
  <2>3. Released(t)
    BY <2>1, <2>2 DEF CopyInv, Released
  <2> QED
    BY <2>1, <2>3 DEF CounterInv
<1> QED
  BY <1>1, PoolInvariance, PTL
=============================================================================
