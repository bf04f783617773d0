---------------------------- MODULE TimerProofs -----------------------------
(***************************************************************************)
(* Proofs about TimerQueue and TimerWheel for any set of timers, any       *)
(* intervals and counts, and a wheel of any size.                          *)
(***************************************************************************)
EXTENDS TimerQueue, TimerWheel, TLAPS

-----------------------------------------------------------------------------
(* Sequences of timers. *)

In(s, t) == \E i \in 1..Len(s) : s[i] = t

LEMMA SubSeqFacts ==
    ASSUME NEW S, NEW s \in Seq(S), NEW m \in Nat \ {0}, NEW n \in Nat, n <= Len(s)
    PROVE  /\ SubSeq(s, m, n) \in Seq(S)
           /\ Len(SubSeq(s, m, n)) = IF m <= n THEN n - m + 1 ELSE 0
           /\ \A i \in 1..Len(SubSeq(s, m, n)) :
                 m + i - 1 \in 1..Len(s) /\ SubSeq(s, m, n)[i] = s[m + i - 1]
  OBVIOUS

LEMMA ConcatFacts ==
    ASSUME NEW S, NEW s \in Seq(S), NEW u \in Seq(S)
    PROVE  /\ s \o u \in Seq(S)
           /\ Len(s \o u) = Len(s) + Len(u)
           /\ \A i \in 1..Len(s) : (s \o u)[i] = s[i]
           /\ \A i \in 1..Len(u) : (s \o u)[Len(s) + i] = u[i]
           /\ \A i \in 1..(Len(s) + Len(u)) :
                 IF i <= Len(s) THEN (s \o u)[i] = s[i] ELSE (s \o u)[i] = u[i - Len(s)]
  OBVIOUS

LEMMA ConcatIn ==
    ASSUME NEW S, NEW s \in Seq(S), NEW u \in Seq(S), NEW t, In(s \o u, t)
    PROVE  In(s, t) \/ In(u, t)
<1>1. PICK i \in 1..Len(s \o u) : (s \o u)[i] = t
  BY DEF In
<1>2. Len(s \o u) = Len(s) + Len(u) /\ Len(s) \in Nat /\ Len(u) \in Nat
  OBVIOUS
<1>3. CASE i <= Len(s)
  <2>1. (s \o u)[i] = s[i] /\ i \in 1..Len(s)
    BY <1>2, <1>3, ConcatFacts
  <2> QED
    BY <1>1, <2>1 DEF In
<1>4. CASE i > Len(s)
  <2>1. (s \o u)[i] = u[i - Len(s)] /\ i - Len(s) \in 1..Len(u)
    BY <1>2, <1>4, ConcatFacts
  <2> QED
    BY <1>1, <2>1 DEF In
<1> QED
  BY <1>2, <1>3, <1>4

LEMMA InConcat ==
    ASSUME NEW S, NEW s \in Seq(S), NEW u \in Seq(S), NEW t, ~In(s \o u, t)
    PROVE  ~In(s, t) /\ ~In(u, t)
<1>1. Len(s \o u) = Len(s) + Len(u) /\ Len(s) \in Nat /\ Len(u) \in Nat
  OBVIOUS
<1>2. ASSUME In(s, t) PROVE FALSE
  <2>1. PICK i \in 1..Len(s) : s[i] = t
    BY <1>2 DEF In
  <2>2. i \in 1..Len(s \o u) /\ (s \o u)[i] = t
    BY <1>1, <2>1, ConcatFacts
  <2> QED
    BY <2>2 DEF In
<1>3. ASSUME In(u, t) PROVE FALSE
  <2>1. PICK i \in 1..Len(u) : u[i] = t
    BY <1>3 DEF In
  <2>2. Len(s) + i \in 1..Len(s \o u) /\ (s \o u)[Len(s) + i] = t
    BY <1>1, <2>1, ConcatFacts
  <2> QED
    BY <2>2 DEF In
<1> QED
  BY <1>2, <1>3

LEMMA SubSeqIn ==
    ASSUME NEW S, NEW s \in Seq(S), NEW m \in Nat \ {0}, NEW n \in Nat, n <= Len(s),
           NEW t, In(SubSeq(s, m, n), t)
    PROVE  In(s, t)
  BY SubSeqFacts DEF In

LEMMA InsertAtFacts ==
    ASSUME NEW S, NEW s \in Seq(S), NEW k \in 1..(Len(s) + 1), NEW t \in S
    PROVE  /\ InsertAt(s, k, t) \in Seq(S)
           /\ InsertAt(s, k, t) # <<>>
           /\ \A u : In(InsertAt(s, k, t), u) => In(s, u) \/ u = t
<1> DEFINE a == SubSeq(s, 1, k - 1)
           b == SubSeq(s, k, Len(s))
<1>0. Len(s) \in Nat /\ k \in Nat \ {0} /\ k - 1 \in Nat /\ k - 1 <= Len(s)
  OBVIOUS
<1>1. a \in Seq(S) /\ b \in Seq(S) /\ <<t>> \in Seq(S)
  BY <1>0, SubSeqFacts
<1>2. InsertAt(s, k, t) = (a \o <<t>>) \o b
  BY DEF InsertAt
<1>3. \A u : In(a, u) => In(s, u)
  BY <1>0, SubSeqIn
<1>4. \A u : In(b, u) => In(s, u)
  BY <1>0, SubSeqIn
<1> HIDE DEF a, b
<1>5. a \o <<t>> \in Seq(S) /\ (a \o <<t>>) \o b \in Seq(S)
  BY <1>1
<1>6. ASSUME NEW u, In((a \o <<t>>) \o b, u) PROVE In(s, u) \/ u = t
  <2>1. In(a \o <<t>>, u) \/ In(b, u)
    BY <1>1, <1>5, <1>6, ConcatIn
  <2>2. ASSUME In(a \o <<t>>, u) PROVE In(a, u) \/ In(<<t>>, u)
    BY <1>1, <2>2, ConcatIn
  <2>3. In(<<t>>, u) => u = t
    BY DEF In
  <2> QED
    BY <1>3, <1>4, <2>1, <2>2, <2>3
<1>7. (a \o <<t>>) \o b # <<>>
  <2>1. Len((a \o <<t>>) \o b) # 0
    BY <1>1, <1>5
  <2> QED
    BY <2>1
<1> QED
  BY <1>2, <1>5, <1>6, <1>7

LEMMA RemoveAtFacts ==
    ASSUME NEW S, NEW s \in Seq(S), NEW k \in 1..Len(s)
    PROVE  /\ RemoveAt(s, k) \in Seq(S)
           /\ \A u : In(RemoveAt(s, k), u) => In(s, u)
<1> DEFINE a == SubSeq(s, 1, k - 1)
           b == SubSeq(s, k + 1, Len(s))
<1>0. Len(s) \in Nat /\ k + 1 \in Nat \ {0} /\ k - 1 \in Nat /\ k - 1 <= Len(s)
  OBVIOUS
<1>1. a \in Seq(S) /\ b \in Seq(S)
  BY <1>0, SubSeqFacts
<1>2. \A u : In(a, u) => In(s, u)
  BY <1>0, SubSeqIn
<1>3. \A u : In(b, u) => In(s, u)
  BY <1>0, SubSeqIn
<1>4. RemoveAt(s, k) = a \o b
  BY DEF RemoveAt
<1> HIDE DEF a, b
<1> QED
  BY <1>1, <1>2, <1>3, <1>4, ConcatIn

LEMMA TailIn ==
    ASSUME NEW S, NEW s \in Seq(S), s # <<>>
    PROVE  /\ Tail(s) \in Seq(S) /\ Head(s) \in S /\ In(s, Head(s))
           /\ \A u : In(Tail(s), u) => In(s, u)
<1>1. Tail(s) \in Seq(S) /\ Head(s) \in S /\ Head(s) = s[1] /\ Len(s) \in Nat \ {0}
  OBVIOUS
<1>2. Len(Tail(s)) = Len(s) - 1 /\ \A i \in 1..(Len(s) - 1) : Tail(s)[i] = s[i + 1]
  OBVIOUS
<1> QED
  BY <1>1, <1>2 DEF In

LEMMA AppendIn ==
    ASSUME NEW S, NEW s \in Seq(S), NEW t \in S
    PROVE  /\ Append(s, t) \in Seq(S)
           /\ \A u : In(Append(s, t), u) => In(s, u) \/ u = t
<1>1. Append(s, t) \in Seq(S) /\ Len(s) \in Nat /\ Len(Append(s, t)) = Len(s) + 1
  OBVIOUS
<1>2. /\ \A i \in 1..Len(s) : Append(s, t)[i] = s[i]
      /\ Append(s, t)[Len(s) + 1] = t
  OBVIOUS
<1> QED
  BY <1>1, <1>2 DEF In

-----------------------------------------------------------------------------
(* TimerQueue.  Where the loop keeps an entry, its timer has been inserted; *)
(* an entry that is not under an old key counts down while its timer's age  *)
(* grows, and what getDueTasks has taken is due.                            *)

TimerTypes ==
    /\ left \in [Timers -> Nat] /\ age \in [Timers -> Nat]
    /\ \A t \in Timers : left[t] <= Interval[t] + 1

EntryInv ==
    \A t \in Timers : In(timers, t) \/ In(expired, t) \/ In(NewTasks, t)
                         => where[t] \in {"loop", "erased"}

KeyInv ==
    /\ \A t \in Timers : In(expired, t) => left[t] = 0
    /\ \A t \in Timers \ stale : age[t] + left[t] >= Interval[t]

FiredInv ==
    /\ stale \subseteq fired
    /\ lpc \in {"execute", "callback"} => expired # <<>>
    /\ lpc = "callback" => Head(expired) \in fired

QueueInv == TypeOK /\ TimerTypes /\ EntryInv /\ KeyInv /\ FiredInv /\ QueueArmed

LEMMA ConstantTypes ==
    /\ Interval \in [Timers -> Nat] /\ \A t \in Timers : Interval[t] \in Nat
    /\ Count \in [Timers -> Int] /\ Debug \in BOOLEAN
<1>1. Interval \in [Timers -> Nat] /\ Debug \in BOOLEAN
  BY TimerAssumption
<1>2. \A t \in Timers : Count[t] \in Int
  BY TimerAssumption DEF FOREVER
<1>3. Count = [t \in Timers |-> Count[t]]
  BY TimerAssumption
<1>4. [t \in Timers |-> Count[t]] \in [Timers -> Int]
  BY <1>2
<1>5. Count \in [Timers -> Int]
  BY <1>3, <1>4
<1> QED
  BY <1>1, <1>5

LEMMA QueueInit == Init => QueueInv
<1> SUFFICES ASSUME Init PROVE QueueInv
  OBVIOUS
<1>a. /\ where = [t \in Timers |-> "new"] /\ timers = <<>> /\ stale = {}
      /\ left = [t \in Timers |-> Interval[t] + 1]
      /\ fd = Off /\ lpc = "idle" /\ expired = <<>> /\ NewTasks = <<>>
      /\ execute_count = Count /\ aborted = FALSE /\ age = [t \in Timers |-> 0] /\ fired = {}
  BY DEF Init, TimerInit
<1>b. /\ <<>> \in Seq(Timers) /\ ~(\E t : In(<<>>, t))
  BY DEF In
<1>1. TypeOK
  <2>1. where \in [Timers -> {"new", "submitted", "loop", "erased"}]
    BY <1>a
  <2>2. timers \in Seq(Timers) /\ expired \in Seq(Timers) /\ NewTasks \in Seq(Timers)
    BY <1>a, <1>b
  <2>3. ASSUME NEW t \in Timers PROVE left[t] \in 0..(Interval[t] + 1) /\ age[t] \in Nat
    <3>1. left[t] = Interval[t] + 1 /\ age[t] = 0
      BY <1>a
    <3>2. Interval[t] \in Nat
      BY ConstantTypes
    <3> QED
      BY <3>1, <3>2
  <2>4. execute_count \in [Timers -> Int] /\ fd \in Nat \cup {Off, Disarmed}
    BY <1>a, ConstantTypes
  <2>5. aborted \in BOOLEAN
    BY <1>a
  <2>6. /\ stale \subseteq Timers /\ fired \subseteq Timers
        /\ lpc \in {"idle", "check", "execute", "callback"}
    BY <1>a
  <2> QED
    BY <2>1, <2>2, <2>3, <2>4, <2>5, <2>6 DEF TypeOK
<1>2. TimerTypes
  BY <1>a, ConstantTypes DEF TimerTypes
<1>3. EntryInv
  BY <1>a, <1>b DEF EntryInv
<1>4. KeyInv
  BY <1>a, <1>b, ConstantTypes DEF KeyInv
<1>5. FiredInv /\ QueueArmed
  BY <1>a DEF FiredInv, QueueArmed
<1> QED
  BY <1>1, <1>2, <1>3, <1>4, <1>5 DEF QueueInv

(* modifyTimerfd sets the timerfd for a set that is not empty. *)
LEMMA ModifyArms ==
    ASSUME timers' \in Seq(Timers), timers' # <<>>, modifyTimerfd
    PROVE  fd' \in Nat \cup {Off, Disarmed} /\ fd' # Off
<1> DEFINE h == timers'[1]
<1>1. h \in Timers /\ Interval[h] \in Nat
  BY ConstantTypes
<1>2. fd' = IF Interval[h] = 0 THEN Disarmed ELSE Interval[h]
  BY DEF modifyTimerfd
<1>3. Off \notin Nat /\ Off # Disarmed
  BY OffAssumption
<1> QED
  BY <1>1, <1>2, <1>3

LEMMA ModifyKeepsType ==
    ASSUME timers' \in Seq(Timers), fd \in Nat \cup {Off, Disarmed}, modifyTimerfd
    PROVE  fd' \in Nat \cup {Off, Disarmed}
<1>1. CASE timers' = <<>>
  BY <1>1 DEF modifyTimerfd
<1>2. CASE timers' # <<>>
  <2>1. timers'[1] \in Timers /\ Interval[timers'[1]] \in Nat
    BY <1>2, ConstantTypes
  <2> QED
    BY <1>2, <2>1 DEF modifyTimerfd
<1> QED
  BY <1>1, <1>2

(* What an insertion does, whoever runs it. *)
LEMMA InsertKeeps ==
    ASSUME QueueInv, NEW t \in Timers, insertInLoop(t),
           UNCHANGED <<left, stale, handlerVars, timerVars>>
    PROVE  QueueInv'
<1>0. /\ TypeOK /\ TimerTypes /\ EntryInv /\ KeyInv /\ FiredInv
      /\ timers \in Seq(Timers) /\ fd \in Nat \cup {Off, Disarmed}
      /\ where \in [Timers -> {"new", "submitted", "loop", "erased"}]
  BY DEF QueueInv, TypeOK
<1>a. /\ left' = left /\ stale' = stale /\ lpc' = lpc /\ expired' = expired
      /\ NewTasks' = NewTasks /\ execute_count' = execute_count /\ aborted' = aborted
      /\ age' = age /\ fired' = fired
  BY DEF handlerVars, timerVars
<1>1. PICK k \in Positions(t) : timers' = InsertAt(timers, k, t)
  BY DEF insertInLoop
<1>2. k \in 1..(Len(timers) + 1)
  BY DEF Positions
<1>3. /\ timers' \in Seq(Timers) /\ timers' # <<>>
      /\ \A u : In(timers', u) => In(timers, u) \/ u = t
  BY <1>0, <1>1, <1>2, InsertAtFacts
<1>4. where' = [where EXCEPT ![t] = "loop"] /\ modifyTimerfd
  BY DEF insertInLoop
<1>5. where' \in [Timers -> {"new", "submitted", "loop", "erased"}]
  BY <1>0, <1>4
<1>6. EntryInv'
  BY <1>0, <1>3, <1>4, <1>a DEF EntryInv
<1>7. fd' \in Nat \cup {Off, Disarmed} /\ fd' # Off
  BY <1>3, <1>4, ModifyArms
<1>8. TypeOK'
  BY <1>0, <1>3, <1>5, <1>7, <1>a DEF TypeOK
<1>9. TimerTypes' /\ KeyInv' /\ FiredInv'
  BY <1>0, <1>a DEF TimerTypes, KeyInv, FiredInv
<1> QED
  BY <1>6, <1>7, <1>8, <1>9 DEF QueueInv, QueueArmed

LEMMA TickKeeps ==
    ASSUME QueueInv, Tick
    PROVE  QueueInv'
<1>0. /\ TypeOK /\ TimerTypes /\ EntryInv /\ KeyInv /\ FiredInv /\ QueueArmed
  BY DEF QueueInv
<1>a. /\ where' = where /\ timers' = timers /\ stale' = stale /\ execute_count' = execute_count
      /\ lpc' = lpc /\ expired' = expired /\ NewTasks' = NewTasks /\ aborted' = aborted
      /\ fired' = fired
  BY DEF Tick, handlerVars
<1>1. ASSUME NEW t \in Timers
      PROVE  /\ left[t] \in Nat /\ age[t] \in Nat /\ Interval[t] \in Nat /\ left[t] <= Interval[t] + 1
             /\ left'[t] \in Nat /\ age'[t] \in Nat
             /\ left'[t] <= left[t]
             /\ age[t] + left[t] >= Interval[t] => age'[t] + left'[t] >= Interval[t]
  <2>1. left[t] \in Nat /\ age[t] \in Nat /\ Interval[t] \in Nat /\ left[t] <= Interval[t] + 1
    BY <1>0, ConstantTypes DEF TimerTypes
  <2>2. left'[t] = IF where[t] = "new" THEN left[t] ELSE IF left[t] = 0 THEN 0 ELSE left[t] - 1
    BY <2>1 DEF Tick, Countdown
  <2>3. age'[t] = IF where[t] # "new" /\ age[t] < Interval[t] THEN age[t] + 1 ELSE age[t]
    BY DEF Tick
  <2>4. CASE where[t] = "new"
    BY <2>1, <2>2, <2>3, <2>4
  <2>5. CASE where[t] # "new"
    BY <2>1, <2>2, <2>3, <2>5
  <2> QED
    BY <2>4, <2>5
<1>2. left' \in [Timers -> Nat] /\ age' \in [Timers -> Nat]
  <2>1. DOMAIN left' = Timers /\ left' = [t \in Timers |-> left'[t]]
    BY DEF Tick
  <2>2. DOMAIN age' = Timers /\ age' = [t \in Timers |-> age'[t]]
    BY DEF Tick
  <2> QED
    BY <1>1, <2>1, <2>2
<1>3. TimerTypes'
  BY <1>1, <1>2 DEF TimerTypes
<1>4. fd' \in Nat \cup {Off, Disarmed} /\ (fd # Off => fd' # Off)
  <2>1. fd \in Nat \cup {Off, Disarmed} /\ Off \notin Nat
    BY <1>0, OffAssumption DEF TypeOK
  <2>2. CASE fd \notin Nat
    BY <2>1, <2>2 DEF Tick, Countdown
  <2>3. CASE fd \in Nat
    <3>1. fd \in Nat /\ fd' = IF fd = 0 THEN 0 ELSE fd - 1
      BY <2>1, <2>3 DEF Tick, Countdown
    <3> QED
      BY <2>1, <3>1
  <2> QED
    BY <2>2, <2>3
<1>5. \A t \in Timers : left'[t] \in 0..(Interval[t] + 1) /\ age'[t] \in Nat
  BY <1>1
<1>6. TypeOK'
  BY <1>0, <1>a, <1>4, <1>5 DEF TypeOK
<1>7. EntryInv' /\ FiredInv'
  BY <1>0, <1>a DEF EntryInv, FiredInv
<1>8. KeyInv'
  <2>1. ASSUME NEW t \in Timers, In(expired', t) PROVE left'[t] = 0
    <3>1. left[t] = 0
      BY <1>0, <1>a, <2>1 DEF KeyInv
    <3> QED
      BY <3>1, <1>1
  <2>2. ASSUME NEW t \in Timers \ stale' PROVE age'[t] + left'[t] >= Interval[t]
    <3>1. age[t] + left[t] >= Interval[t]
      BY <1>0, <1>a DEF KeyInv
    <3> QED
      BY <3>1, <1>1
  <2> QED
    BY <2>1, <2>2 DEF KeyInv
<1>9. QueueArmed'
  BY <1>0, <1>a, <1>4 DEF QueueArmed
<1> QED
  BY <1>3, <1>6, <1>7, <1>8, <1>9 DEF QueueInv

(* The steps of handlerRead. *)
LEMMA LoopKeeps ==
    ASSUME QueueInv, handlerRead \/ Check \/ execute \/ AfterCallback \/ Reinsert
    PROVE  QueueInv'
<1>0. /\ TypeOK /\ TimerTypes /\ EntryInv /\ KeyInv /\ FiredInv
      /\ timers \in Seq(Timers) /\ expired \in Seq(Timers) /\ NewTasks \in Seq(Timers)
  BY DEF QueueInv, TypeOK
<1>1. CASE handlerRead
  <2>a. /\ where' = where /\ left' = left /\ stale' = stale /\ NewTasks' = NewTasks /\ lpc' = "check"
        /\ fd' = Off /\ execute_count' = execute_count /\ age' = age /\ fired' = fired
    BY <1>1 DEF handlerRead
  <2>b. aborted' \in BOOLEAN
    BY <1>1, TimerAssumption DEF handlerRead
  <2>1. PICK n \in 0..Len(timers) :
           /\ \A i \in 1..Len(timers) : left[timers[i]] = 0 <=> i <= n
           /\ expired' = SubSeq(timers, 1, n)
           /\ timers' = SubSeq(timers, n + 1, Len(timers))
    BY <1>1 DEF handlerRead
  <2>2. Len(timers) \in Nat /\ n \in Nat /\ n <= Len(timers) /\ n + 1 \in Nat \ {0}
    BY <1>0
  <2>3. /\ expired' \in Seq(Timers) /\ timers' \in Seq(Timers)
        /\ \A u : In(expired', u) => In(timers, u)
        /\ \A u : In(timers', u) => In(timers, u)
    BY <1>0, <2>1, <2>2, SubSeqFacts, SubSeqIn
  <2>4. ASSUME NEW t \in Timers, In(expired', t) PROVE left'[t] = 0
    <3>1. PICK i \in 1..Len(expired') : expired'[i] = t
      BY <2>4 DEF In
    <3>2. Len(expired') = n /\ expired'[i] = timers[1 + i - 1]
      BY <1>0, <2>1, <2>2, SubSeqFacts
    <3>3. i \in 1..Len(timers) /\ i <= n /\ timers[i] = t
      BY <2>2, <3>1, <3>2
    <3> QED
      BY <2>1, <2>a, <3>3
  <2>5. TypeOK'
    BY <1>0, <2>3, <2>a, <2>b DEF TypeOK
  <2>6. TimerTypes' /\ EntryInv'
    BY <1>0, <2>3, <2>a DEF TimerTypes, EntryInv
  <2>7. KeyInv'
    BY <1>0, <2>4, <2>a DEF KeyInv
  <2>8. FiredInv' /\ QueueArmed'
    BY <1>0, <2>a DEF FiredInv, QueueArmed
  <2> QED
    BY <2>5, <2>6, <2>7, <2>8 DEF QueueInv
<1>2. CASE Check
  <2>a. /\ where' = where /\ timers' = timers /\ left' = left /\ stale' = stale /\ fd' = fd
        /\ NewTasks' = NewTasks /\ execute_count' = execute_count /\ aborted' = aborted
        /\ age' = age /\ fired' = fired
    BY <1>2 DEF Check, timerVars, queueVars
  <2>1. expired # <<>> /\ \/ expired' = Tail(expired) /\ lpc' = "check"
                          \/ expired' = expired /\ lpc' = "execute"
    BY <1>2 DEF Check
  <2>2. expired' \in Seq(Timers) /\ \A u : In(expired', u) => In(expired, u)
    BY <1>0, <2>1, TailIn
  <2>5. TypeOK'
    BY <1>0, <2>1, <2>2, <2>a DEF TypeOK
  <2>6. TimerTypes' /\ EntryInv' /\ KeyInv'
    BY <1>0, <2>2, <2>a DEF TimerTypes, EntryInv, KeyInv
  <2>7. FiredInv' /\ QueueArmed'
    BY <1>0, <2>1, <2>a DEF FiredInv, QueueArmed
  <2> QED
    BY <2>5, <2>6, <2>7 DEF QueueInv
<1>3. CASE execute
  <2>a. /\ where' = where /\ timers' = timers /\ left' = left /\ stale' = stale /\ fd' = fd
        /\ NewTasks' = NewTasks /\ expired' = expired /\ age' = age
        /\ fired' = fired \cup {Head(expired)} /\ lpc' = "callback" /\ lpc = "execute"
    BY <1>3 DEF execute, Execute, queueVars
  <2>1. expired # <<>> /\ Head(expired) \in Timers
    BY <1>0, <2>a DEF FiredInv
  <2>2. aborted' \in BOOLEAN
    BY <1>3 DEF execute, Execute
  <2>3. execute_count' \in [Timers -> Int]
    <3>1. execute_count \in [Timers -> Int]
      BY <1>0 DEF TypeOK
    <3>2. execute_count' = [execute_count EXCEPT ![Head(expired)] =
                               IF execute_count[Head(expired)] = FOREVER
                               THEN execute_count[Head(expired)]
                               ELSE execute_count[Head(expired)] - 1]
      BY <1>3 DEF execute, Execute
    <3> QED
      BY <2>1, <3>1, <3>2
  <2>5. TypeOK'
    BY <1>0, <2>1, <2>2, <2>3, <2>a DEF TypeOK
  <2>6. TimerTypes' /\ EntryInv' /\ KeyInv'
    BY <1>0, <2>a DEF TimerTypes, EntryInv, KeyInv
  <2>7. FiredInv' /\ QueueArmed'
    BY <1>0, <2>1, <2>a DEF FiredInv, QueueArmed
  <2> QED
    BY <2>5, <2>6, <2>7 DEF QueueInv
<1>4. CASE AfterCallback
  <2> DEFINE t == Head(expired)
  <2>a. /\ where' = where /\ timers' = timers /\ left' = left /\ stale' = stale \cup {t} /\ fd' = fd
        /\ expired' = Tail(expired) /\ age' = [age EXCEPT ![t] = 0] /\ aborted' = aborted
        /\ fired' = fired /\ lpc' = "check" /\ lpc = "callback" /\ execute_count' = execute_count
        /\ NewTasks' = Append(NewTasks, t) \/ NewTasks' = NewTasks
    BY <1>4 DEF AfterCallback, Renew
  <2>1. expired # <<>> /\ t \in Timers /\ In(expired, t) /\ t \in fired
    BY <1>0, <2>a, TailIn DEF FiredInv
  <2>2. expired' \in Seq(Timers) /\ \A u : In(expired', u) => In(expired, u)
    BY <1>0, <2>1, <2>a, TailIn
  <2>3. NewTasks' \in Seq(Timers) /\ \A u : In(NewTasks', u) => In(NewTasks, u) \/ u = t
    <3>1. CASE NewTasks' = Append(NewTasks, t)
      BY <1>0, <2>1, <3>1, AppendIn
    <3>2. CASE NewTasks' = NewTasks
      BY <1>0, <3>2
    <3> QED
      BY <2>a, <3>1, <3>2
  <2>4. TimerTypes' /\ \A u \in Timers \ {t} : age'[u] = age[u]
    BY <1>0, <2>1, <2>a DEF TimerTypes
  <2> HIDE DEF t
  <2>5. \A u \in Timers : left'[u] \in 0..(Interval[u] + 1) /\ age'[u] \in Nat
    BY <2>4, ConstantTypes DEF TimerTypes
  <2>6. TypeOK'
    BY <1>0, <2>1, <2>2, <2>3, <2>5, <2>a DEF TypeOK
  <2>7. EntryInv'
    BY <1>0, <2>1, <2>2, <2>3, <2>a DEF EntryInv
  <2>8. KeyInv'
    BY <1>0, <2>2, <2>4, <2>a DEF KeyInv
  <2>9. FiredInv' /\ QueueArmed'
    BY <1>0, <2>1, <2>a DEF FiredInv, QueueArmed
  <2> QED
    BY <2>4, <2>6, <2>7, <2>8, <2>9 DEF QueueInv
<1>5. CASE Reinsert
  <2>a. /\ where' = where /\ timers' = NewTasks \o timers /\ left' = left /\ stale' = stale
        /\ expired' = expired /\ age' = age /\ aborted' = aborted /\ NewTasks' = <<>>
        /\ fired' = fired /\ lpc' = "idle" /\ execute_count' = execute_count /\ modifyTimerfd
    BY <1>5 DEF Reinsert, timerVars
  <2>1. timers' \in Seq(Timers) /\ \A u : In(timers', u) => In(NewTasks, u) \/ In(timers, u)
    BY <1>0, <2>a, ConcatIn
  <2>2. NewTasks' \in Seq(Timers) /\ ~(\E u : In(NewTasks', u))
    BY <2>a DEF In
  <2>3. EntryInv'
    BY <1>0, <2>1, <2>2, <2>a DEF EntryInv
  <2>4. fd' \in Nat \cup {Off, Disarmed}
    BY <1>0, <2>1, <2>a, ModifyKeepsType DEF TypeOK
  <2>5. QueueArmed'
    <3>1. CASE timers' = <<>>
      BY <3>1 DEF QueueArmed
    <3>2. CASE timers' # <<>>
      <4>1. fd' # Off
        BY <2>1, <2>a, <3>2, ModifyArms
      <4> QED
        BY <4>1 DEF QueueArmed
    <3> QED
      BY <3>1, <3>2
  <2>6. TypeOK'
    BY <1>0, <2>1, <2>2, <2>4, <2>a DEF TypeOK
  <2>7. TimerTypes' /\ KeyInv' /\ FiredInv'
    BY <1>0, <2>a DEF TimerTypes, KeyInv, FiredInv
  <2> QED
    BY <2>3, <2>5, <2>6, <2>7 DEF QueueInv
<1> QED
  BY <1>1, <1>2, <1>3, <1>4, <1>5

(* runTimer, Timer::cancel and cancelTimer. *)
LEMMA ApplicationKeeps ==
    ASSUME QueueInv, NEW t \in Timers, runTimer(t) \/ Another(t) \/ cancel(t) \/ cancelTimer(t)
    PROVE  QueueInv'
<1>0. /\ TypeOK /\ TimerTypes /\ EntryInv /\ KeyInv /\ FiredInv /\ QueueArmed
      /\ timers \in Seq(Timers)
      /\ where \in [Timers -> {"new", "submitted", "loop", "erased"}]
  BY DEF QueueInv, TypeOK
<1>1. CASE runTimer(t)
  <2>a. /\ where[t] = "new" /\ where' = [where EXCEPT ![t] = "submitted"]
        /\ UNCHANGED <<timers, left, stale, fd, lpc, expired, NewTasks,
                       execute_count, aborted, age, fired>>
    BY <1>1 DEF runTimer, queueVars, handlerVars, timerVars
  <2>1. /\ where' \in [Timers -> {"new", "submitted", "loop", "erased"}]
        /\ \A u \in Timers : where[u] \in {"loop", "erased"} => where'[u] = where[u]
    BY <1>0, <2>a
  <2>2. TypeOK'
    BY <1>0, <2>1, <2>a DEF TypeOK
  <2>3. TimerTypes' /\ EntryInv' /\ KeyInv' /\ FiredInv'
    BY <1>0, <2>1, <2>a DEF TimerTypes, EntryInv, KeyInv, FiredInv
  <2>4. QueueArmed'
    BY <1>0, <2>1, <2>a DEF QueueArmed
  <2> QED
    BY <2>2, <2>3, <2>4 DEF QueueInv
<1>2. CASE cancel(t)
  <2>a. /\ execute_count' = [execute_count EXCEPT ![t] = 0]
        /\ UNCHANGED <<where, timers, left, stale, fd, lpc, expired, NewTasks,
                       aborted, age, fired>>
    BY <1>2 DEF cancel, Cancel, queueVars, handlerVars
  <2>1. execute_count' \in [Timers -> Int]
    BY <1>0, <2>a DEF TypeOK
  <2>2. TypeOK'
    BY <1>0, <2>1, <2>a DEF TypeOK
  <2>3. TimerTypes' /\ EntryInv' /\ KeyInv' /\ FiredInv' /\ QueueArmed'
    BY <1>0, <2>a DEF TimerTypes, EntryInv, KeyInv, FiredInv, QueueArmed
  <2> QED
    BY <2>2, <2>3 DEF QueueInv
<1>3. CASE cancelTimer(t)
  <2>a. UNCHANGED <<left, stale, fd, execute_count, lpc, expired, NewTasks, age, fired>>
    BY <1>3 DEF cancelTimer, handlerVars
  <2>b. aborted' \in BOOLEAN
    BY <1>0, <1>3, TimerAssumption DEF cancelTimer, TypeOK
  <2>1. /\ timers' \in Seq(Timers) /\ \A u : In(timers', u) => In(timers, u)
        /\ timers' # <<>> => timers # <<>>
    <3>1. CASE timers' = timers
      BY <1>0, <3>1
    <3>2. CASE \E k \in 1..Len(timers) : timers' = RemoveAt(timers, k)
      <4>1. PICK k \in 1..Len(timers) : timers' = RemoveAt(timers, k)
        BY <3>2
      <4>2. timers # <<>>
        BY <4>1, <1>0
      <4> QED
        BY <1>0, <4>1, <4>2, RemoveAtFacts
    <3> QED
      BY <1>3, <3>1, <3>2 DEF cancelTimer
  <2>2. /\ where' \in [Timers -> {"new", "submitted", "loop", "erased"}]
        /\ \A u \in Timers : where[u] \in {"loop", "erased"} => where'[u] \in {"loop", "erased"}
    BY <1>0, <1>3 DEF cancelTimer
  <2>3. TypeOK'
    BY <1>0, <2>1, <2>2, <2>a, <2>b DEF TypeOK
  <2>4. EntryInv'
    BY <1>0, <2>1, <2>2, <2>a DEF EntryInv
  <2>5. TimerTypes' /\ KeyInv' /\ FiredInv'
    BY <1>0, <2>a DEF TimerTypes, KeyInv, FiredInv
  <2>6. QueueArmed'
    BY <1>0, <2>1, <2>2, <2>a DEF QueueArmed
  <2> QED
    BY <2>3, <2>4, <2>5, <2>6 DEF QueueInv
<1>4. CASE Another(t)
  <2>a. /\ ~Contains(timers \o expired \o NewTasks, t)
        /\ where' = [where EXCEPT ![t] = "new"]
        /\ left' = [left EXCEPT ![t] = Interval[t] + 1]
        /\ stale' = stale \ {t} /\ fired' = fired \ {t}
        /\ execute_count' = [execute_count EXCEPT ![t] = Count[t]]
        /\ age' = [age EXCEPT ![t] = 0]
        /\ UNCHANGED <<timers, fd, lpc, expired, NewTasks, aborted>>
    BY <1>4 DEF Another, handlerVars
  <2>b. /\ expired \in Seq(Timers) /\ NewTasks \in Seq(Timers)
        /\ left \in [Timers -> Nat] /\ age \in [Timers -> Nat]
        /\ execute_count \in [Timers -> Int]
        /\ Interval[t] \in Nat /\ Count[t] \in Int
    BY <1>0, ConstantTypes DEF TypeOK, TimerTypes
  <2>1. ~In(timers, t) /\ ~In(expired, t) /\ ~In(NewTasks, t)
    <3>1. ~In((timers \o expired) \o NewTasks, t)
      BY <2>a DEF Contains, In
    <3> DEFINE a == timers \o expired
    <3>2. a \in Seq(Timers)
      BY <1>0, <2>b
    <3>3. ~In(a, t) /\ ~In(NewTasks, t)
      <4>1. ~In(a \o NewTasks, t)
        BY <3>1
      <4> HIDE DEF a
      <4> QED
        BY <2>b, <3>2, <4>1, InConcat
    <3> QED
      BY <1>0, <2>b, <3>3, InConcat
  <2>2. /\ where' \in [Timers -> {"new", "submitted", "loop", "erased"}]
        /\ \A u \in Timers \ {t} : where'[u] = where[u]
    BY <1>0, <2>a
  <2>3. TimerTypes'
    BY <1>0, <2>a, <2>b DEF TimerTypes
  <2>4. execute_count' \in [Timers -> Int]
    BY <2>a, <2>b
  <2>5. \A u \in Timers : left'[u] \in 0..(Interval[u] + 1) /\ age'[u] \in Nat
    BY <2>3, ConstantTypes DEF TimerTypes
  <2>6. TypeOK'
    BY <1>0, <2>2, <2>4, <2>5, <2>a DEF TypeOK
  <2>7. EntryInv'
    BY <1>0, <2>1, <2>2, <2>a DEF EntryInv
  <2>8. KeyInv'
    <3>1. ASSUME NEW u \in Timers, In(expired', u) PROVE left'[u] = 0
      <4>1. u # t /\ left[u] = 0
        BY <1>0, <2>1, <2>a, <3>1 DEF KeyInv
      <4> QED
        BY <2>a, <2>b, <4>1
    <3>2. ASSUME NEW u \in Timers \ stale' PROVE age'[u] + left'[u] >= Interval[u]
      <4>1. CASE u = t
        BY <2>a, <2>b, <4>1
      <4>2. CASE u # t
        <5>1. u \notin stale
          BY <2>a, <3>2, <4>2
        <5>2. age'[u] = age[u] /\ left'[u] = left[u]
          BY <2>a, <2>b, <4>2
        <5> QED
          BY <1>0, <5>1, <5>2 DEF KeyInv
      <4> QED
        BY <4>1, <4>2
    <3> QED
      BY <3>1, <3>2 DEF KeyInv
  <2>9. FiredInv'
    <3>1. stale' \subseteq fired'
      BY <1>0, <2>a DEF FiredInv
    <3>2. lpc' \in {"execute", "callback"} => expired' # <<>>
      BY <1>0, <2>a DEF FiredInv
    <3>3. ASSUME lpc' = "callback" PROVE Head(expired') \in fired'
      <4>1. expired # <<>> /\ Head(expired) \in fired
        BY <1>0, <2>a, <3>3 DEF FiredInv
      <4>2. In(expired, Head(expired))
        BY <2>b, <4>1, TailIn
      <4> QED
        BY <2>1, <2>a, <4>1, <4>2
    <3> QED
      BY <3>1, <3>2, <3>3 DEF FiredInv
  <2>10. QueueArmed'
    BY <1>0, <2>a DEF QueueArmed
  <2> QED
    BY <2>3, <2>6, <2>7, <2>8, <2>9, <2>10 DEF QueueInv
<1> QED
  BY <1>1, <1>2, <1>3, <1>4

LEMMA QueueInvariant == Spec => []QueueInv
<1>1. QueueInv /\ [Next]_vars => QueueInv'
  <2> SUFFICES ASSUME QueueInv, [Next]_vars PROVE QueueInv'
    OBVIOUS
  <2>1. CASE Tick
    BY <2>1, TickKeeps
  <2>2. CASE handlerRead \/ Check \/ execute \/ AfterCallback \/ Reinsert
    BY <2>2, LoopKeeps
  <2>3. CASE \E t \in Timers : RunInsert(t) \/ CallbackInsert(t)
    BY <2>3, InsertKeeps DEF RunInsert, CallbackInsert
  <2>4. CASE \E t \in Timers : runTimer(t) \/ Another(t) \/ cancel(t) \/ cancelTimer(t)
    BY <2>4, ApplicationKeeps
  <2>5. CASE UNCHANGED vars
    <3>1. UNCHANGED <<where, timers, left, stale, fd, lpc, expired, NewTasks,
                      execute_count, aborted, age, fired>>
      BY <2>5 DEF vars, queueVars, handlerVars, timerVars
    <3>2. TypeOK'
      BY <3>1 DEF QueueInv, TypeOK
    <3>3. TimerTypes' /\ EntryInv' /\ KeyInv' /\ FiredInv' /\ QueueArmed'
      BY <3>1 DEF QueueInv, TimerTypes, EntryInv, KeyInv, FiredInv, QueueArmed
    <3> QED
      BY <3>2, <3>3 DEF QueueInv
  <2> QED
    BY <2>1, <2>2, <2>3, <2>4, <2>5 DEF Next, LoopStep, Application
<1> QED
  BY QueueInit, <1>1, PTL DEF Spec

(* The types of the variables of TimerQueue. *)
THEOREM QueueTypeCorrect == Spec => []TypeOK
  BY QueueInvariant, PTL DEF QueueInv

(* Whenever the loop is back in poll with a timer in timers_, modifyTimerfd *)
(* has left the timerfd set: armed, or disarmed by a timer of interval 0    *)
(* that was first.                                                          *)
THEOREM QueueArmedCorrect == Spec => []QueueArmed
  BY QueueInvariant, PTL DEF QueueInv

(* handlerRead executes a timer before its interval has passed only if it   *)
(* has executed before and its entry was put back under the expired key.    *)
THEOREM NeverEarlyTheFirstTime == Spec => EarlyOnlyUnderOldKey
<1> DEFINE Late == \A t \in Timers :
              lpc = "check" /\ lpc' = "execute" /\ t = Head(expired) /\ age[t] < Interval[t]
                  => t \in stale /\ t \in fired
<1>1. QueueInv /\ [Next]_vars => [Late]_vars
  <2> SUFFICES ASSUME QueueInv, Next, NEW t \in Timers,
                      lpc = "check", lpc' = "execute", t = Head(expired), age[t] < Interval[t]
               PROVE  t \in stale /\ t \in fired
    OBVIOUS
  <2>1. expired # <<>>
    BY DEF Next, Tick, LoopStep, Application, handlerRead, Check, execute, AfterCallback,
           Reinsert, RunInsert, CallbackInsert, Another, runTimer, cancel, cancelTimer, handlerVars
  <2>2. expired \in Seq(Timers) /\ KeyInv /\ FiredInv /\ TimerTypes
    BY DEF QueueInv, TypeOK
  <2>3. left[t] = 0
    BY <2>1, <2>2, TailIn DEF KeyInv
  <2>4. age[t] \in Nat /\ Interval[t] \in Nat
    BY <2>2, ConstantTypes DEF TimerTypes
  <2>5. ~(age[t] + left[t] >= Interval[t])
    BY <2>3, <2>4
  <2>6. t \in stale
    BY <2>2, <2>5 DEF KeyInv
  <2> QED
    BY <2>2, <2>6 DEF FiredInv
<1> QED
  BY QueueInvariant, <1>1, PTL DEF Spec, EarlyOnlyUnderOldKey

-----------------------------------------------------------------------------
(* TimerWheel.  In a walk the wheel is seen from the slot that comes next,  *)
(* where EndTick will put cur_slot_; the nodes the walk has not visited yet *)
(* wait for the rotations they have left, every other node for the way to   *)
(* its slot as well.  A timer has one node, so that renewing its age when   *)
(* it executes changes the waiting time of no other.                        *)

Slots == 0..(maxSlots - 1)
Nodes == [timer : Timers, time_slot : Slots, rotation : Nat]

NextSlot(c) == (c + 1) % maxSlots
Dist(s, c)  == (s - c) % maxSlots
Turns(node) == node.rotation * maxSlots

Cursor == IF wpc = "poll" THEN cur_slot ELSE NextSlot(cur_slot)
Walked == IF wpc = "poll" THEN -1 ELSE cur_slot

(* A node of slot s is linked where insert() wants it, and has no more      *)
(* rotations left than its ticks stand for.                                 *)
Placed(s, node) == node.time_slot = s /\ Turns(node) <= Ticks(node.timer)

(* With ages a and the wheel seen from slot c, the node waits until its     *)
(* ticks have passed.                                                       *)
Waits(a, c, s, node, unvisited) ==
    a[node.timer] + Turns(node) + (IF unvisited THEN 0 ELSE Dist(s, c) + 1)
        >= Ticks(node.timer)

(* The same of all nodes of the wheel sl; the last td of slot w are not     *)
(* visited yet.                                                             *)
Fits(sl, a, c, w, td) ==
    \A s \in Slots : \A k \in 1..Len(sl[s]) :
        /\ Placed(s, sl[s][k])
        /\ Waits(a, c, s, sl[s][k], s = w /\ k > Len(sl[s]) - td)

OneIn(sl) ==
    \A s, r \in Slots : \A j \in 1..Len(sl[s]), k \in 1..Len(sl[r]) :
        sl[s][j].timer = sl[r][k].timer => s = r /\ j = k
Absent(sl, t) == \A s \in Slots : \A k \in 1..Len(sl[s]) : sl[s][k].timer # t

WheelTypes ==
    /\ cur_slot \in Slots /\ slots \in [Slots -> Seq(Nodes)]
    /\ handed \subseteq Timers /\ pending \subseteq Nodes
    /\ wpc \in {"poll", "walk", "callback"} /\ todo \in Nat
    /\ age \in [Timers -> Nat]

WalkInv ==
    /\ wpc # "poll" => todo <= Len(slots[cur_slot])
    /\ wpc = "callback" => todo > 0

OneNode ==
    /\ OneIn(slots)
    /\ \A n, m \in pending : n.timer = m.timer => n = m
    /\ \A n \in pending : Absent(slots, n.timer)

HandedInv ==
    \A t \in Timers \ handed :
        age[t] = 0 /\ Absent(slots, t) /\ \A n \in pending : n.timer # t

SlotsInv ==
    /\ Fits(slots, age, Cursor, Walked, todo)
    /\ \A n \in pending : Placed(n.time_slot, n) /\ Waits(age, Cursor, n.time_slot, n, FALSE)

WheelInv == WheelTypes /\ WalkInv /\ OneNode /\ HandedInv /\ SlotsInv

(* Going round the wheel. *)

LEMMA WheelSize == maxSlots \in Nat \ {0} /\ SI \in Nat \ {0}
  BY WheelAssumption

LEMMA TicksType == ASSUME NEW t \in Timers PROVE Ticks(t) \in Nat
<1>1. Interval[t] \in Nat
  BY ConstantTypes
<1>2. Interval[t] \div SI \in Int
  BY <1>1, WheelSize
<1>3. Interval[t] \div SI >= 0
  BY <1>1, WheelSize
<1> QED
  BY <1>2, <1>3 DEF Ticks

LEMMA TurnsType ==
    ASSUME NEW n \in Nodes
    PROVE  /\ Turns(n) \in Nat
           /\ n.timer \in Timers /\ n.time_slot \in Slots /\ n.rotation \in Nat
<1>1. n.timer \in Timers /\ n.time_slot \in Slots /\ n.rotation \in Nat
  BY DEF Nodes
<1> QED
  BY <1>1, WheelSize DEF Turns

LEMMA DistType ==
    ASSUME NEW s \in Int, NEW c \in Int
    PROVE  Dist(s, c) \in Nat /\ Dist(s, c) + 1 <= maxSlots
<1>1. s - c \in Int
  OBVIOUS
<1>2. (s - c) % maxSlots \in 0..(maxSlots - 1)
  BY <1>1, WheelSize
<1> QED
  BY <1>2, WheelSize DEF Dist

LEMMA NextSlotIs ==
    ASSUME NEW c \in Slots
    PROVE  /\ NextSlot(c) \in Slots
           /\ NextSlot(c) = IF c = maxSlots - 1 THEN 0 ELSE c + 1
<1> DEFINE M == maxSlots
<1>0. M \in Nat \ {0} /\ c \in Nat /\ c < M
  BY WheelSize DEF Slots
<1> HIDE DEF M
<1>1. CASE c + 1 < M
  <2>1. (c + 1) % M = c + 1
    BY <1>0, <1>1
  <2> QED
    BY <1>0, <1>1, <2>1 DEF NextSlot, Slots, M
<1>2. CASE c + 1 = M
  <2>1. (c + 1) % M = c + 1 - M
    BY <1>0, <1>2
  <2> QED
    BY <1>0, <1>2, <2>1 DEF NextSlot, Slots, M
<1> QED
  BY <1>0, <1>1, <1>2

LEMMA DistIs ==
    ASSUME NEW s \in Slots, NEW c \in Slots
    PROVE  Dist(s, c) = IF s >= c THEN s - c ELSE s - c + maxSlots
<1> DEFINE M == maxSlots
           a == s - c
<1>0. M \in Nat \ {0} /\ a \in Int /\ a < M /\ a >= -M /\ s \in Int /\ c \in Int
  BY WheelSize DEF Slots
<1>1. Dist(s, c) = a % M
  BY DEF Dist
<1>a. a >= 0 <=> s >= c
  BY <1>0
<1> HIDE DEF M, a
<1>2. CASE a >= 0
  <2>1. a % M = a
    BY <1>0, <1>2
  <2> QED
    BY <1>1, <1>2, <1>a, <2>1 DEF a
<1>3. CASE a < 0
  <2>1. a % M = a + M
    BY <1>0, <1>3
  <2>2. ~(s >= c)
    BY <1>0, <1>3, <1>a
  <2> QED
    BY <1>1, <2>2, <2>1 DEF a, M
<1> QED
  BY <1>0, <1>2, <1>3

(* A tick brings every slot nearer by one, and the current one a rotation   *)
(* away.                                                                    *)
LEMMA DistNext ==
    ASSUME NEW s \in Slots, NEW c \in Slots
    PROVE  /\ s # c => Dist(s, NextSlot(c)) + 1 = Dist(s, c)
           /\ s = c => Dist(s, NextSlot(c)) + 1 = maxSlots /\ Dist(s, c) = 0
<1>1. /\ maxSlots \in Nat \ {0} /\ s \in Nat /\ c \in Nat /\ s < maxSlots /\ c < maxSlots
  BY WheelSize DEF Slots
<1>2. Dist(s, c) = IF s >= c THEN s - c ELSE s - c + maxSlots
  BY DistIs
<1>3. /\ NextSlot(c) \in Slots
      /\ NextSlot(c) = IF c = maxSlots - 1 THEN 0 ELSE c + 1
  BY NextSlotIs
<1>4. Dist(s, NextSlot(c)) = IF s >= NextSlot(c) THEN s - NextSlot(c)
                                                 ELSE s - NextSlot(c) + maxSlots
  BY <1>3, DistIs
<1>5. CASE c = maxSlots - 1
  BY <1>1, <1>2, <1>3, <1>4, <1>5
<1>6. CASE c # maxSlots - 1
  BY <1>1, <1>2, <1>3, <1>4, <1>6
<1> QED
  BY <1>5, <1>6

(* The slot that lies r slots ahead. *)
LEMMA SlotAhead ==
    ASSUME NEW c \in Slots, NEW r \in Slots
    PROVE  /\ (c + r) % maxSlots \in Slots
           /\ Dist((c + r) % maxSlots, c) = r
<1> DEFINE M == maxSlots
           a == c + r
<1>0. M \in Nat \ {0} /\ a \in Int /\ a >= 0 /\ a < 2 * M /\ c \in Nat /\ r \in Nat /\ c < M /\ r < M
  BY WheelSize DEF Slots
<1>1. a % M = IF a < M THEN a ELSE a - M
  <2> HIDE DEF M, a
  <2>1. CASE a < M
    BY <1>0, <2>1
  <2>2. CASE a >= M
    BY <1>0, <2>2
  <2> QED
    BY <1>0, <2>1, <2>2
<1>2. a % M \in Slots
  BY <1>0, <1>1 DEF Slots
<1>3. Dist(a % M, c) = IF a % M >= c THEN (a % M) - c ELSE (a % M) - c + M
  BY <1>2, DistIs
<1>4. Dist(a % M, c) = r
  BY <1>0, <1>1, <1>3
<1> QED
  BY <1>2, <1>4

LEMMA NodeForFacts ==
    ASSUME cur_slot \in Slots, wpc \in {"poll", "walk", "callback"}, NEW t \in Timers
    PROVE  /\ NodeFor(t) \in Nodes /\ NodeFor(t).timer = t
           /\ Placed(NodeFor(t).time_slot, NodeFor(t))
           /\ Turns(NodeFor(t)) + Dist(NodeFor(t).time_slot, Cursor) + 1 >= Ticks(t)
<1> DEFINE M == maxSlots
           T == Ticks(t)
           r == T % M
           q == T \div M
           s == (cur_slot + r) % M
<1>0. M \in Nat \ {0} /\ T \in Nat
  BY WheelSize, TicksType
<1>1. NodeFor(t) = [timer |-> t, time_slot |-> s, rotation |-> q]
  BY DEF NodeFor
<1>2. r \in 0..(M - 1) /\ q \in Int /\ q >= 0 /\ T - M * q = r
  <2> HIDE DEF M, T
  <2>1. r \in 0..(M - 1)
    BY <1>0
  <2>2. q \in Int
    BY <1>0
  <2>3. q >= 0
    BY <1>0
  <2>4. PICK x \in Int : x = T \div M
    BY <2>2
  <2>5. T - M * x = T % M
    BY <1>0, <2>4
  <2> QED
    BY <2>1, <2>2, <2>3, <2>4, <2>5
<1>3. r \in Slots
  BY <1>2 DEF Slots
<1>4. s \in Slots /\ Dist(s, cur_slot) = r
  BY <1>3, SlotAhead
<1>5. NodeFor(t) \in Nodes /\ NodeFor(t).timer = t /\ NodeFor(t).time_slot = s
  BY <1>1, <1>2, <1>4 DEF Nodes
<1>6. Turns(NodeFor(t)) = q * M
  BY <1>1 DEF Turns
<1>7. q * M = T - r
  <2> HIDE DEF M, T, q, r
  <2>1. q * M = M * q /\ q * M \in Int
    BY <1>0, <1>2
  <2> QED
    BY <1>0, <1>2, <2>1
<1>8. Dist(s, Cursor) + 1 >= r
  <2>1. CASE wpc = "poll"
    BY <2>1, <1>2, <1>4 DEF Cursor
  <2>2. CASE wpc # "poll"
    <3>1. Cursor = NextSlot(cur_slot)
      BY <2>2 DEF Cursor
    <3>2. CASE s = cur_slot
      BY <1>0, <1>2, <1>4, <3>1, <3>2, DistNext
    <3>3. CASE s # cur_slot
      BY <1>0, <1>2, <1>4, <3>1, <3>3, DistNext
    <3> QED
      BY <3>2, <3>3
  <2> QED
    BY <2>1, <2>2
<1>9. Dist(s, Cursor) \in Nat
  <2>1. Cursor \in Slots
    BY NextSlotIs DEF Cursor
  <2>2. Cursor \in Int /\ s \in Int
    BY <2>1, <1>4 DEF Slots
  <2> QED
    BY <2>2, DistType
<1>10. Turns(NodeFor(t)) <= T
  BY <1>0, <1>2, <1>6, <1>7
<1>11. Turns(NodeFor(t)) + Dist(s, Cursor) + 1 >= T
  <2> HIDE DEF M, T, q, r, s
  <2> QED
    BY <1>0, <1>2, <1>6, <1>7, <1>8, <1>9 DEF Slots
<1> QED
  BY <1>5, <1>10, <1>11 DEF Placed

(* Linking a node at the head and unlinking one. *)

LEMMA ConsFacts ==
    ASSUME NEW S, NEW q \in Seq(S), NEW n \in S
    PROVE  /\ <<n>> \o q \in Seq(S)
           /\ Len(<<n>> \o q) = Len(q) + 1
           /\ (<<n>> \o q)[1] = n
           /\ \A k \in 2..(Len(q) + 1) : k - 1 \in 1..Len(q) /\ (<<n>> \o q)[k] = q[k - 1]
<1>1. <<n>> \in Seq(S) /\ Len(<<n>>) = 1 /\ <<n>>[1] = n /\ Len(q) \in Nat
  OBVIOUS
<1>2. ASSUME NEW k \in 2..(Len(q) + 1)
      PROVE  k - 1 \in 1..Len(q) /\ (<<n>> \o q)[k] = q[k - 1]
  BY <1>1
<1> QED
  BY <1>1, <1>2

LEMMA UnlinkFacts ==
    ASSUME NEW S, NEW q \in Seq(S), NEW i \in 1..Len(q)
    PROVE  /\ RemoveAt(q, i) \in Seq(S)
           /\ Len(RemoveAt(q, i)) = Len(q) - 1
           /\ \A k \in 1..(Len(q) - 1) :
                 /\ (IF k < i THEN k ELSE k + 1) \in 1..Len(q)
                 /\ RemoveAt(q, i)[k] = q[IF k < i THEN k ELSE k + 1]
<1> DEFINE a == SubSeq(q, 1, i - 1)
           b == SubSeq(q, i + 1, Len(q))
<1>0. Len(q) \in Nat /\ i \in Nat \ {0} /\ i <= Len(q) /\ i - 1 \in Nat /\ i + 1 \in Nat \ {0}
  OBVIOUS
<1>1. /\ a \in Seq(S) /\ Len(a) = i - 1
      /\ \A k \in 1..(i - 1) : a[k] = q[k]
  OBVIOUS
<1>2. /\ b \in Seq(S) /\ Len(b) = Len(q) - i
      /\ \A k \in 1..(Len(q) - i) : b[k] = q[i + k]
  OBVIOUS
<1>3. RemoveAt(q, i) = a \o b
  BY DEF RemoveAt
<1> HIDE DEF a, b
<1>4. /\ a \o b \in Seq(S) /\ Len(a \o b) = Len(q) - 1
      /\ \A k \in 1..(i - 1) : (a \o b)[k] = a[k]
      /\ \A k \in 1..(Len(q) - i) : (a \o b)[(i - 1) + k] = b[k]
  <2>1. /\ a \o b \in Seq(S) /\ Len(a \o b) = Len(a) + Len(b)
        /\ \A k \in 1..Len(a) : (a \o b)[k] = a[k]
        /\ \A k \in 1..Len(b) : (a \o b)[Len(a) + k] = b[k]
    <3>1. a \in Seq(S) /\ b \in Seq(S)
      BY <1>1, <1>2
    <3> QED
      BY <3>1
  <2>2. Len(a) = i - 1 /\ Len(b) = Len(q) - i
    BY <1>1, <1>2
  <2>3. (i - 1) + (Len(q) - i) = Len(q) - 1
    BY <1>0
  <2> QED
    BY <2>1, <2>2, <2>3
<1>5. ASSUME NEW k \in 1..(Len(q) - 1)
      PROVE  /\ (IF k < i THEN k ELSE k + 1) \in 1..Len(q)
             /\ (a \o b)[k] = q[IF k < i THEN k ELSE k + 1]
  <2>1. CASE k < i
    BY <1>0, <1>1, <1>4, <2>1
  <2>2. CASE ~(k < i)
    <3>1. k - (i - 1) \in 1..(Len(q) - i) /\ k = (i - 1) + (k - (i - 1))
      BY <1>0, <2>2
    <3>2. (a \o b)[k] = b[k - (i - 1)]
      BY <1>4, <3>1
    <3>3. b[k - (i - 1)] = q[i + (k - (i - 1))] /\ i + (k - (i - 1)) = k + 1
      BY <1>0, <1>2, <3>1
    <3> QED
      BY <1>0, <2>2, <3>2, <3>3
  <2> QED
    BY <2>1, <2>2
<1> QED
  BY <1>3, <1>4, <1>5

(* A timer that is handed in once more or for the first time. *)
LEMMA NodeForWaits ==
    ASSUME WheelTypes, NEW t \in Timers, NEW a \in [Timers -> Nat], a[t] = 0
    PROVE  Waits(a, Cursor, NodeFor(t).time_slot, NodeFor(t), FALSE)
<1> DEFINE n == NodeFor(t)
<1>1. /\ n \in Nodes /\ n.timer = t
      /\ Turns(n) + Dist(n.time_slot, Cursor) + 1 >= Ticks(t)
  BY NodeForFacts DEF WheelTypes
<1>2. Turns(n) \in Nat /\ n.time_slot \in Slots
  BY <1>1, TurnsType
<1>3. Cursor \in Slots
  BY NextSlotIs DEF Cursor, WheelTypes
<1>4. Dist(n.time_slot, Cursor) \in Nat
  <2>1. n.time_slot \in Int /\ Cursor \in Int
    BY <1>2, <1>3 DEF Slots
  <2> QED
    BY <2>1, DistType
<1> HIDE DEF n
<1>5. 0 + Turns(n) + (Dist(n.time_slot, Cursor) + 1) >= Ticks(t)
  BY <1>1, <1>2, <1>4
<1>6. Waits(a, Cursor, n.time_slot, n, FALSE)
  BY <1>1, <1>5 DEF Waits
<1> QED
  BY <1>6 DEF n

Link(sl, n) == [sl EXCEPT ![n.time_slot] = <<n>> \o sl[n.time_slot]]
Unlink(sl, w, i) == [sl EXCEPT ![w] = RemoveAt(sl[w], i)]

(* What linking a node at the head of its slot does. *)
LEMMA LinkFacts ==
    ASSUME NEW sl \in [Slots -> Seq(Nodes)], NEW n \in Nodes
    PROVE  /\ Link(sl, n) \in [Slots -> Seq(Nodes)]
           /\ \A s \in Slots \ {n.time_slot} : Link(sl, n)[s] = sl[s]
           /\ Len(Link(sl, n)[n.time_slot]) = Len(sl[n.time_slot]) + 1
           /\ Link(sl, n)[n.time_slot][1] = n
           /\ \A k \in 2..(Len(sl[n.time_slot]) + 1) :
                 /\ k - 1 \in 1..Len(sl[n.time_slot])
                 /\ Link(sl, n)[n.time_slot][k] = sl[n.time_slot][k - 1]
<1> DEFINE q == sl[n.time_slot]
<1>1. n.time_slot \in Slots /\ q \in Seq(Nodes)
  BY TurnsType
<1>2. Link(sl, n) = [sl EXCEPT ![n.time_slot] = <<n>> \o q]
  BY DEF Link
<1>3. /\ Link(sl, n)[n.time_slot] = <<n>> \o q
      /\ \A s \in Slots \ {n.time_slot} : Link(sl, n)[s] = sl[s]
  BY <1>1, <1>2
<1>4. /\ <<n>> \o q \in Seq(Nodes) /\ Len(<<n>> \o q) = Len(q) + 1 /\ (<<n>> \o q)[1] = n
      /\ \A k \in 2..(Len(q) + 1) : k - 1 \in 1..Len(q) /\ (<<n>> \o q)[k] = q[k - 1]
  BY <1>1, ConsFacts
<1>5. Link(sl, n) \in [Slots -> Seq(Nodes)]
  BY <1>1, <1>2, <1>4
<1> QED
  BY <1>3, <1>4, <1>5

(* Every place of the linked wheel: the new head, or a place of before. *)
LEMMA LinkPlaces ==
    ASSUME NEW sl \in [Slots -> Seq(Nodes)], NEW n \in Nodes,
           NEW s \in Slots, NEW k \in 1..Len(Link(sl, n)[s])
    PROVE  \/ s = n.time_slot /\ k = 1 /\ Link(sl, n)[s][k] = n
           \/ /\ s = n.time_slot /\ k - 1 \in 1..Len(sl[s])
              /\ Link(sl, n)[s][k] = sl[s][k - 1] /\ Len(Link(sl, n)[s]) = Len(sl[s]) + 1
           \/ s # n.time_slot /\ Link(sl, n)[s] = sl[s]
<1>1. Len(sl[n.time_slot]) \in Nat
  BY TurnsType
<1>2. CASE s = n.time_slot
  <2>1. k \in 1..(Len(sl[s]) + 1)
    BY <1>2, LinkFacts
  <2>2. k = 1 \/ k \in 2..(Len(sl[s]) + 1)
    BY <1>1, <1>2, <2>1
  <2> QED
    BY <1>2, <2>2, LinkFacts
<1>3. CASE s # n.time_slot
  BY <1>3, LinkFacts
<1> QED
  BY <1>2, <1>3

LEMMA LinkAbsent ==
    ASSUME NEW sl \in [Slots -> Seq(Nodes)], NEW n \in Nodes, NEW t, Absent(sl, t), t # n.timer
    PROVE  Absent(Link(sl, n), t)
<1> SUFFICES ASSUME NEW s \in Slots, NEW k \in 1..Len(Link(sl, n)[s])
             PROVE  Link(sl, n)[s][k].timer # t
  BY DEF Absent
<1>1. \A i \in 1..Len(sl[s]) : sl[s][i].timer # t
  BY DEF Absent
<1>2. \/ Link(sl, n)[s][k] = n
      \/ k - 1 \in 1..Len(sl[s]) /\ Link(sl, n)[s][k] = sl[s][k - 1]
      \/ Link(sl, n)[s] = sl[s]
  BY LinkPlaces
<1> QED
  BY <1>1, <1>2

LEMMA LinkOne ==
    ASSUME NEW sl \in [Slots -> Seq(Nodes)], NEW n \in Nodes, OneIn(sl), Absent(sl, n.timer)
    PROVE  OneIn(Link(sl, n))
<1> DEFINE L == Link(sl, n)
<1> SUFFICES ASSUME NEW s \in Slots, NEW r \in Slots,
                    NEW j \in 1..Len(L[s]), NEW k \in 1..Len(L[r]), L[s][j].timer = L[r][k].timer
             PROVE  s = r /\ j = k
  BY DEF OneIn
<1>0. \A x \in Slots : \A i \in 1..Len(sl[x]) : sl[x][i].timer # n.timer
  BY DEF Absent
<1>a. \A x, y \in Slots : \A g \in 1..Len(sl[x]), h \in 1..Len(sl[y]) :
         sl[x][g].timer = sl[y][h].timer => x = y /\ g = h
  BY DEF OneIn
<1>b. j \in Nat /\ k \in Nat
  BY LinkFacts
<1>1. \/ s = n.time_slot /\ j = 1 /\ L[s][j] = n
      \/ /\ s = n.time_slot /\ j - 1 \in 1..Len(sl[s])
         /\ L[s][j] = sl[s][j - 1] /\ Len(L[s]) = Len(sl[s]) + 1
      \/ s # n.time_slot /\ L[s] = sl[s]
  BY LinkPlaces
<1>2. \/ r = n.time_slot /\ k = 1 /\ L[r][k] = n
      \/ /\ r = n.time_slot /\ k - 1 \in 1..Len(sl[r])
         /\ L[r][k] = sl[r][k - 1] /\ Len(L[r]) = Len(sl[r]) + 1
      \/ r # n.time_slot /\ L[r] = sl[r]
  BY LinkPlaces
<1> HIDE DEF L
<1>3. CASE s = n.time_slot /\ j = 1 /\ L[s][j] = n
  BY <1>0, <1>2, <1>3
<1>4. CASE r = n.time_slot /\ k = 1 /\ L[r][k] = n
  BY <1>0, <1>1, <1>4
<1>5. CASE /\ s = n.time_slot /\ j - 1 \in 1..Len(sl[s]) /\ L[s][j] = sl[s][j - 1]
  <2>1. CASE /\ r = n.time_slot /\ k - 1 \in 1..Len(sl[r]) /\ L[r][k] = sl[r][k - 1]
    <3>1. j - 1 = k - 1
      BY <1>a, <1>5, <2>1
    <3> QED
      BY <1>b, <3>1, <1>5, <2>1
  <2>2. CASE r # n.time_slot /\ L[r] = sl[r]
    BY <1>a, <1>5, <2>2
  <2> QED
    BY <1>2, <1>4, <2>1, <2>2
<1>6. CASE s # n.time_slot /\ L[s] = sl[s]
  <2>0. j \in 1..Len(sl[s]) /\ L[s][j] = sl[s][j]
    BY <1>6
  <2>1. CASE /\ r = n.time_slot /\ k - 1 \in 1..Len(sl[r]) /\ L[r][k] = sl[r][k - 1]
    <3>1. sl[s][j].timer = sl[r][k - 1].timer
      BY <2>0, <2>1
    <3> QED
      BY <1>a, <1>6, <2>0, <2>1, <3>1
  <2>2. CASE r # n.time_slot /\ L[r] = sl[r]
    BY <1>a, <1>6, <2>2
  <2> QED
    BY <1>2, <1>4, <2>1, <2>2
<1> QED
  BY <1>1, <1>3, <1>5, <1>6

LEMMA LinkFits ==
    ASSUME NEW sl \in [Slots -> Seq(Nodes)], NEW n \in Nodes, NEW a, NEW c, NEW w, NEW td \in Nat,
           Fits(sl, a, c, w, td), Placed(n.time_slot, n), Waits(a, c, n.time_slot, n, FALSE),
           w \in Slots => td <= Len(sl[w])
    PROVE  Fits(Link(sl, n), a, c, w, td)
<1> DEFINE L == Link(sl, n)
<1> SUFFICES ASSUME NEW s \in Slots, NEW k \in 1..Len(L[s])
             PROVE  /\ Placed(s, L[s][k])
                    /\ Waits(a, c, s, L[s][k], s = w /\ k > Len(L[s]) - td)
  BY DEF Fits
<1>0. /\ Len(sl[s]) \in Nat /\ k \in Int
      /\ s = n.time_slot => Len(L[s]) = Len(sl[s]) + 1
  BY LinkFacts
<1>a. \A i \in 1..Len(sl[s]) : /\ Placed(s, sl[s][i])
                               /\ Waits(a, c, s, sl[s][i], s = w /\ i > Len(sl[s]) - td)
  BY DEF Fits
<1>1. \/ s = n.time_slot /\ k = 1 /\ L[s][k] = n
      \/ /\ s = n.time_slot /\ k - 1 \in 1..Len(sl[s])
         /\ L[s][k] = sl[s][k - 1] /\ Len(L[s]) = Len(sl[s]) + 1
      \/ s # n.time_slot /\ L[s] = sl[s]
  BY LinkPlaces
<1> HIDE DEF L
<1>2. CASE s = n.time_slot /\ k = 1 /\ L[s][k] = n
  <2>1. ~(s = w /\ k > Len(L[s]) - td)
    BY <1>0, <1>2
  <2>2. Waits(a, c, s, n, s = w /\ k > Len(L[s]) - td)
    BY <1>2, <2>1 DEF Waits
  <2> QED
    BY <1>2, <2>2
<1>3. CASE /\ s = n.time_slot /\ k - 1 \in 1..Len(sl[s])
           /\ L[s][k] = sl[s][k - 1] /\ Len(L[s]) = Len(sl[s]) + 1
  <2>1. k > Len(L[s]) - td <=> k - 1 > Len(sl[s]) - td
    BY <1>0, <1>3
  <2>2. /\ Placed(s, sl[s][k - 1])
        /\ Waits(a, c, s, sl[s][k - 1], s = w /\ k - 1 > Len(sl[s]) - td)
    BY <1>a, <1>3
  <2>3. Waits(a, c, s, sl[s][k - 1], s = w /\ k > Len(L[s]) - td)
    BY <2>1, <2>2 DEF Waits
  <2> QED
    BY <1>3, <2>2, <2>3
<1>4. CASE s # n.time_slot /\ L[s] = sl[s]
  BY <1>a, <1>4
<1> QED
  BY <1>1, <1>2, <1>3, <1>4

(* What unlinking the node at the walk's place does. *)
LEMMA UnlinkPlaces ==
    ASSUME NEW sl \in [Slots -> Seq(Nodes)], NEW w \in Slots, NEW i \in 1..Len(sl[w])
    PROVE  /\ Unlink(sl, w, i) \in [Slots -> Seq(Nodes)]
           /\ Len(Unlink(sl, w, i)[w]) = Len(sl[w]) - 1
           /\ \A s \in Slots \ {w} : Unlink(sl, w, i)[s] = sl[s]
           /\ \A k \in 1..(Len(sl[w]) - 1) :
                 /\ (IF k < i THEN k ELSE k + 1) \in 1..Len(sl[w])
                 /\ Unlink(sl, w, i)[w][k] = sl[w][IF k < i THEN k ELSE k + 1]
<1> DEFINE q == sl[w]
<1>1. q \in Seq(Nodes)
  OBVIOUS
<1>2. /\ RemoveAt(q, i) \in Seq(Nodes) /\ Len(RemoveAt(q, i)) = Len(q) - 1
      /\ \A k \in 1..(Len(q) - 1) :
            /\ (IF k < i THEN k ELSE k + 1) \in 1..Len(q)
            /\ RemoveAt(q, i)[k] = q[IF k < i THEN k ELSE k + 1]
  BY <1>1, UnlinkFacts
<1>3. Unlink(sl, w, i) = [sl EXCEPT ![w] = RemoveAt(q, i)]
  BY DEF Unlink
<1> HIDE DEF q
<1>4. /\ Unlink(sl, w, i) \in [Slots -> Seq(Nodes)] /\ Unlink(sl, w, i)[w] = RemoveAt(q, i)
      /\ \A s \in Slots \ {w} : Unlink(sl, w, i)[s] = sl[s]
  BY <1>2, <1>3
<1> QED
  BY <1>2, <1>4 DEF q

LEMMA UnlinkOne ==
    ASSUME NEW sl \in [Slots -> Seq(Nodes)], NEW w \in Slots, NEW i \in 1..Len(sl[w]), OneIn(sl)
    PROVE  /\ OneIn(Unlink(sl, w, i)) /\ Absent(Unlink(sl, w, i), sl[w][i].timer)
           /\ \A t : Absent(sl, t) => Absent(Unlink(sl, w, i), t)
<1> DEFINE U == Unlink(sl, w, i)
           O(s, k) == IF s = w /\ ~(k < i) THEN k + 1 ELSE k
<1>a. \A x, y \in Slots : \A g \in 1..Len(sl[x]), h \in 1..Len(sl[y]) :
         sl[x][g].timer = sl[y][h].timer => x = y /\ g = h
  BY DEF OneIn
<1>b. Len(sl[w]) \in Nat /\ i \in Int
  OBVIOUS
<1>1. ASSUME NEW s \in Slots, NEW k \in 1..Len(U[s])
      PROVE  O(s, k) \in 1..Len(sl[s]) /\ U[s][k] = sl[s][O(s, k)] /\ k \in Int
  <2>1. CASE s = w
    <3>1. k \in 1..(Len(sl[w]) - 1)
      BY <2>1, UnlinkPlaces
    <3>2. /\ (IF k < i THEN k ELSE k + 1) \in 1..Len(sl[w])
          /\ U[w][k] = sl[w][IF k < i THEN k ELSE k + 1]
      BY <3>1, UnlinkPlaces
    <3> QED
      BY <2>1, <3>1, <3>2
  <2>2. CASE s # w
    <3>1. U[s] = sl[s]
      BY <2>2, UnlinkPlaces
    <3> QED
      BY <2>2, <3>1
  <2> QED
    BY <2>1, <2>2
<1>2. ASSUME NEW s \in Slots, NEW j \in Int, NEW k \in Int, O(s, j) = O(s, k) PROVE j = k
  BY <1>2, <1>b
<1>3. ASSUME NEW k \in Int PROVE O(w, k) # i
  BY <1>b
<1> HIDE DEF U, O
<1>4. OneIn(U)
  <2> SUFFICES ASSUME NEW s \in Slots, NEW r \in Slots, NEW j \in 1..Len(U[s]),
                      NEW k \in 1..Len(U[r]), U[s][j].timer = U[r][k].timer
               PROVE  s = r /\ j = k
    BY DEF OneIn
  <2>1. /\ O(s, j) \in 1..Len(sl[s]) /\ U[s][j] = sl[s][O(s, j)] /\ j \in Int
        /\ O(r, k) \in 1..Len(sl[r]) /\ U[r][k] = sl[r][O(r, k)] /\ k \in Int
    BY <1>1
  <2>2. s = r /\ O(s, j) = O(r, k)
    BY <1>a, <2>1
  <2>3. j = k
    BY <1>2, <2>1, <2>2
  <2> QED
    BY <2>2, <2>3
<1>5. Absent(U, sl[w][i].timer)
  <2> SUFFICES ASSUME NEW s \in Slots, NEW k \in 1..Len(U[s]), U[s][k].timer = sl[w][i].timer
               PROVE  FALSE
    BY DEF Absent
  <2>1. O(s, k) \in 1..Len(sl[s]) /\ U[s][k] = sl[s][O(s, k)] /\ k \in Int
    BY <1>1
  <2>2. s = w /\ O(s, k) = i
    BY <1>a, <2>1
  <2> QED
    BY <1>3, <2>1, <2>2
<1>6. \A t : Absent(sl, t) => Absent(U, t)
  BY <1>1 DEF Absent
<1> QED
  BY <1>4, <1>5, <1>6 DEF U

LEMMA UnlinkFits ==
    ASSUME NEW sl \in [Slots -> Seq(Nodes)], NEW w \in Slots, NEW td \in Nat,
           td > 0, td <= Len(sl[w]), NEW a, NEW c, Fits(sl, a, c, w, td)
    PROVE  Fits(Unlink(sl, w, Len(sl[w]) - td + 1), a, c, w, td - 1)
<1> DEFINE i == Len(sl[w]) - td + 1
           U == Unlink(sl, w, i)
<1>0. Len(sl[w]) \in Nat /\ i \in 1..Len(sl[w]) /\ i \in Int
  OBVIOUS
<1>p. /\ Len(U[w]) = Len(sl[w]) - 1
      /\ \A s \in Slots \ {w} : U[s] = sl[s]
      /\ \A k \in 1..(Len(sl[w]) - 1) :
            /\ (IF k < i THEN k ELSE k + 1) \in 1..Len(sl[w])
            /\ U[w][k] = sl[w][IF k < i THEN k ELSE k + 1]
  <2> HIDE DEF i
  <2> QED
    BY <1>0, UnlinkPlaces
<1> SUFFICES ASSUME NEW s \in Slots, NEW k \in 1..Len(U[s])
             PROVE  /\ Placed(s, U[s][k])
                    /\ Waits(a, c, s, U[s][k], s = w /\ k > Len(U[s]) - (td - 1))
  BY DEF Fits
<1>a. \A j \in 1..Len(sl[s]) : /\ Placed(s, sl[s][j])
                               /\ Waits(a, c, s, sl[s][j], s = w /\ j > Len(sl[s]) - td)
  BY DEF Fits
<1>1. CASE s = w
  <2> DEFINE o == IF k < i THEN k ELSE k + 1
  <2>1. k \in 1..(Len(sl[w]) - 1)
    BY <1>1, <1>p
  <2>2. o \in 1..Len(sl[w]) /\ U[w][k] = sl[w][o]
    BY <2>1, <1>p
  <2>3. k > Len(U[w]) - (td - 1) <=> o > Len(sl[w]) - td
    <3>1. Len(U[w]) = Len(sl[w]) - 1
      BY <1>p
    <3> HIDE DEF U
    <3> QED
      BY <1>0, <2>1, <3>1
  <2> HIDE DEF o, U
  <2>4. /\ Placed(w, sl[w][o])
        /\ Waits(a, c, w, sl[w][o], w = w /\ o > Len(sl[w]) - td)
    BY <1>a, <1>1, <2>2
  <2>5. Waits(a, c, w, sl[w][o], w = w /\ k > Len(U[w]) - (td - 1))
    BY <2>3, <2>4 DEF Waits
  <2> QED
    BY <1>1, <2>2, <2>4, <2>5
<1>2. CASE s # w
  <2>1. U[s] = sl[s]
    BY <1>2, <1>p
  <2> HIDE DEF U
  <2>2. Waits(a, c, s, sl[s][k], FALSE) /\ Placed(s, sl[s][k])
    BY <1>2, <1>a, <2>1 DEF Waits
  <2> QED
    BY <1>2, <2>1, <2>2 DEF Waits
<1> QED
  BY <1>1, <1>2

(* Renewing the age of a timer that has no node. *)
LEMMA RenewFits ==
    ASSUME NEW sl \in [Slots -> Seq(Nodes)], NEW a \in [Timers -> Nat], NEW t \in Timers,
           NEW c, NEW w, NEW td, Fits(sl, a, c, w, td), Absent(sl, t)
    PROVE  Fits(sl, [a EXCEPT ![t] = 0], c, w, td)
<1> DEFINE b == [a EXCEPT ![t] = 0]
<1> SUFFICES ASSUME NEW s \in Slots, NEW k \in 1..Len(sl[s])
             PROVE  /\ Placed(s, sl[s][k])
                    /\ Waits(b, c, s, sl[s][k], s = w /\ k > Len(sl[s]) - td)
  BY DEF Fits
<1>1. sl[s][k].timer \in Timers /\ sl[s][k].timer # t
  BY TurnsType DEF Absent
<1>2. b[sl[s][k].timer] = a[sl[s][k].timer]
  BY <1>1
<1>3. /\ Placed(s, sl[s][k])
      /\ Waits(a, c, s, sl[s][k], s = w /\ k > Len(sl[s]) - td)
  BY DEF Fits
<1> QED
  BY <1>2, <1>3 DEF Waits

LEMMA SeqEqual ==
    ASSUME NEW a \in Seq(Nodes), NEW b \in Seq(Nodes), Len(a) = Len(b),
           \A k \in 1..Len(b) : a[k] = b[k]
    PROVE  a = b
  OBVIOUS

LEMMA ExceptsCommute ==
    ASSUME NEW sl \in [Slots -> Seq(Nodes)], NEW v \in Slots, NEW w \in Slots, v # w, NEW x, NEW y
    PROVE  [[sl EXCEPT ![v] = x] EXCEPT ![w] = y] = [[sl EXCEPT ![w] = y] EXCEPT ![v] = x]
  OBVIOUS

(* Linking before unlinking, as tick() does, or after it: the same wheel. *)
LEMMA LinkUnlink ==
    ASSUME NEW sl \in [Slots -> Seq(Nodes)], NEW n \in Nodes, NEW w \in Slots,
           NEW td \in Nat, td > 0, td <= Len(sl[w])
    PROVE  Unlink(Link(sl, n), w, Len(Link(sl, n)[w]) - td + 1)
             = Link(Unlink(sl, w, Len(sl[w]) - td + 1), n)
<1> DEFINE i == Len(sl[w]) - td + 1
           q == sl[w]
<1>0. q \in Seq(Nodes) /\ Len(q) \in Nat /\ i \in 1..Len(q) /\ n.time_slot \in Slots
  BY TurnsType
<1>1. CASE n.time_slot # w
  <2>1. Link(sl, n)[w] = q
    BY <1>0, <1>1 DEF Link
  <2>2. Unlink(sl, w, i)[n.time_slot] = sl[n.time_slot]
    BY <1>0, <1>1 DEF Unlink
  <2>3. Unlink(Link(sl, n), w, i) = [Link(sl, n) EXCEPT ![w] = RemoveAt(q, i)]
    BY <2>1 DEF Unlink
  <2>4. Link(Unlink(sl, w, i), n) = [Unlink(sl, w, i) EXCEPT ![n.time_slot] = <<n>> \o sl[n.time_slot]]
    BY <2>2 DEF Link
  <2>5. Link(sl, n) = [sl EXCEPT ![n.time_slot] = <<n>> \o sl[n.time_slot]]
    BY DEF Link
  <2>6. Unlink(sl, w, i) = [sl EXCEPT ![w] = RemoveAt(q, i)]
    BY DEF Unlink
  <2> HIDE DEF q, i
  <2>7. Unlink(Link(sl, n), w, i) = Link(Unlink(sl, w, i), n)
    <3>1. PICK x : x = <<n>> \o sl[n.time_slot]
      OBVIOUS
    <3>2. PICK y : y = RemoveAt(q, i)
      OBVIOUS
    <3>3. PICK v \in Slots : v = n.time_slot
      BY <1>0
    <3>4. [[sl EXCEPT ![v] = x] EXCEPT ![w] = y] = [[sl EXCEPT ![w] = y] EXCEPT ![v] = x]
      BY <1>1, <3>3, ExceptsCommute
    <3>5. Unlink(Link(sl, n), w, i) = [[sl EXCEPT ![v] = x] EXCEPT ![w] = y]
      BY <2>3, <2>5, <3>1, <3>2, <3>3
    <3>6. Link(Unlink(sl, w, i), n) = [[sl EXCEPT ![w] = y] EXCEPT ![v] = x]
      BY <2>4, <2>6, <3>1, <3>2, <3>3
    <3> QED
      BY <3>4, <3>5, <3>6
  <2> QED
    BY <2>1, <2>7 DEF i, q
<1>2. CASE n.time_slot = w
  <2> DEFINE p == <<n>> \o q
  <2>1. /\ p \in Seq(Nodes) /\ Len(p) = Len(q) + 1 /\ p[1] = n
        /\ \A k \in 2..(Len(q) + 1) : k - 1 \in 1..Len(q) /\ p[k] = q[k - 1]
    BY <1>0, ConsFacts
  <2>2. Link(sl, n)[w] = p /\ Link(sl, n) = [sl EXCEPT ![w] = p]
    BY <1>0, <1>2 DEF Link
  <2>3. Len(p) - td + 1 = i + 1 /\ i + 1 \in 1..Len(p)
    BY <1>0, <2>1
  <2>4. /\ RemoveAt(p, i + 1) \in Seq(Nodes) /\ Len(RemoveAt(p, i + 1)) = Len(q)
        /\ \A k \in 1..Len(q) :
              /\ (IF k < i + 1 THEN k ELSE k + 1) \in 1..Len(p)
              /\ RemoveAt(p, i + 1)[k] = p[IF k < i + 1 THEN k ELSE k + 1]
    <3>1. Len(p) - 1 = Len(q)
      BY <1>0, <2>1
    <3> HIDE DEF p, q, i
    <3>2. PICK j : j = i + 1
      OBVIOUS
    <3>3. /\ RemoveAt(p, j) \in Seq(Nodes) /\ Len(RemoveAt(p, j)) = Len(p) - 1
          /\ \A k \in 1..(Len(p) - 1) :
                /\ (IF k < j THEN k ELSE k + 1) \in 1..Len(p)
                /\ RemoveAt(p, j)[k] = p[IF k < j THEN k ELSE k + 1]
      <4>1. p \in Seq(Nodes) /\ j \in 1..Len(p)
        BY <2>1, <2>3, <3>2
      <4> QED
        BY <4>1, UnlinkFacts
    <3> QED
      BY <3>1, <3>2, <3>3
  <2>5. /\ RemoveAt(q, i) \in Seq(Nodes) /\ Len(RemoveAt(q, i)) = Len(q) - 1
        /\ \A k \in 1..(Len(q) - 1) : RemoveAt(q, i)[k] = q[IF k < i THEN k ELSE k + 1]
    <3> HIDE DEF q, i
    <3> QED
      BY <1>0, UnlinkFacts
  <2>6. /\ <<n>> \o RemoveAt(q, i) \in Seq(Nodes)
        /\ Len(<<n>> \o RemoveAt(q, i)) = Len(RemoveAt(q, i)) + 1
        /\ (<<n>> \o RemoveAt(q, i))[1] = n
        /\ \A k \in 2..(Len(RemoveAt(q, i)) + 1) :
              (<<n>> \o RemoveAt(q, i))[k] = RemoveAt(q, i)[k - 1]
    <3> HIDE DEF q, i
    <3> QED
      BY <2>5, ConsFacts
  <2> HIDE DEF p, q, i
  <2>7. ASSUME NEW k \in 1..Len(q)
        PROVE  RemoveAt(p, i + 1)[k] = (<<n>> \o RemoveAt(q, i))[k]
    <3>1. CASE k = 1
      <4>1. RemoveAt(p, i + 1)[1] = p[1]
        BY <1>0, <2>4, <3>1
      <4> QED
        BY <2>1, <2>6, <3>1, <4>1
    <3>2. CASE k # 1
      <4>1. k - 1 \in 1..(Len(q) - 1) /\ k \in 2..(Len(RemoveAt(q, i)) + 1)
        BY <1>0, <2>5, <3>2
      <4>2. (<<n>> \o RemoveAt(q, i))[k] = q[IF k - 1 < i THEN k - 1 ELSE k - 1 + 1]
        BY <2>5, <2>6, <4>1
      <4>3. RemoveAt(p, i + 1)[k] = p[IF k < i + 1 THEN k ELSE k + 1]
        BY <2>4
      <4>4. CASE k < i + 1
        <5>1. k - 1 < i /\ k \in 2..(Len(q) + 1)
          BY <1>0, <3>2, <4>4
        <5> QED
          BY <2>1, <4>2, <4>3, <4>4, <5>1
      <4>5. CASE ~(k < i + 1)
        <5>1. ~(k - 1 < i) /\ k + 1 \in 2..(Len(q) + 1) /\ k - 1 + 1 = k /\ (k + 1) - 1 = k
          BY <1>0, <3>2, <4>5
        <5> QED
          BY <2>1, <4>2, <4>3, <4>5, <5>1
      <4> QED
        BY <4>4, <4>5
    <3> QED
      BY <3>1, <3>2
  <2>8. RemoveAt(p, i + 1) = <<n>> \o RemoveAt(q, i)
    <3>1. Len(<<n>> \o RemoveAt(q, i)) = Len(q)
      BY <1>0, <2>5, <2>6
    <3> QED
      BY <2>4, <2>6, <2>7, <3>1, SeqEqual
  <2>9. Unlink(Link(sl, n), w, i + 1) = [sl EXCEPT ![w] = RemoveAt(p, i + 1)]
    BY <1>0, <2>2 DEF Unlink
  <2>10. Unlink(sl, w, i)[w] = RemoveAt(q, i) /\ Unlink(sl, w, i) = [sl EXCEPT ![w] = RemoveAt(q, i)]
    BY <1>0 DEF Unlink, q
  <2>11. Link(Unlink(sl, w, i), n) = [sl EXCEPT ![w] = <<n>> \o RemoveAt(q, i)]
    BY <1>0, <1>2, <2>10 DEF Link
  <2> QED
    BY <2>2, <2>3, <2>8, <2>9, <2>11 DEF i, q
<1> QED
  BY <1>1, <1>2

-----------------------------------------------------------------------------
(* The steps of the wheel. *)

LEMMA WheelInitially == WheelInit => WheelInv
<1> SUFFICES ASSUME WheelInit PROVE WheelInv
  OBVIOUS
<1>a. /\ cur_slot = 0 /\ slots = [s \in 0..maxSlots - 1 |-> <<>>] /\ handed = {} /\ pending = {}
      /\ wpc = "poll" /\ todo = 0 /\ age = [t \in Timers |-> 0]
  BY DEF WheelInit, TimerInit
<1>b. \A s \in Slots : slots[s] = <<>> /\ Len(slots[s]) = 0
  BY <1>a DEF Slots
<1>c. \A s \in Slots : \A k \in 1..Len(slots[s]) : FALSE
  BY <1>b
<1>1. WheelTypes
  <2>1. cur_slot \in Slots
    BY <1>a, WheelSize DEF Slots
  <2>2. slots \in [Slots -> Seq(Nodes)]
    BY <1>a DEF Slots
  <2> QED
    BY <1>a, <2>1, <2>2 DEF WheelTypes
<1>2. WalkInv /\ HandedInv
  BY <1>a, <1>c DEF WalkInv, HandedInv, Absent
<1>3. OneNode /\ SlotsInv
  BY <1>a, <1>c DEF OneNode, OneIn, SlotsInv, Fits
<1> QED
  BY <1>1, <1>2, <1>3 DEF WheelInv

(* insert() on another thread. *)
LEMMA InsertWheel ==
    ASSUME WheelInv, NEW t \in Timers, insert(t)
    PROVE  WheelInv'
<1>0. WheelTypes /\ WalkInv /\ OneNode /\ HandedInv /\ SlotsInv
  BY DEF WheelInv
<1>a. /\ t \notin handed /\ handed' = handed \cup {t} /\ pending' = pending \cup {NodeFor(t)}
      /\ cur_slot' = cur_slot /\ slots' = slots /\ wpc' = wpc /\ todo' = todo /\ age' = age
  BY DEF insert, timerVars
<1>b. Cursor' = Cursor /\ Walked' = Walked
  BY <1>a DEF Cursor, Walked
<1>2. age[t] = 0 /\ Absent(slots, t) /\ \A m \in pending : m.timer # t
  BY <1>0, <1>a DEF HandedInv
<1>3. PICK n : n = NodeFor(t)
  OBVIOUS
<1>4. n \in Nodes /\ n.timer = t /\ Placed(n.time_slot, n)
  BY <1>0, <1>3, NodeForFacts DEF WheelTypes
<1>5. Waits(age, Cursor, n.time_slot, n, FALSE)
  BY <1>0, <1>2, <1>3, NodeForWaits DEF WheelTypes
<1>6. WheelTypes'
  BY <1>0, <1>3, <1>4, <1>a DEF WheelTypes
<1>7. WalkInv' /\ HandedInv'
  BY <1>0, <1>3, <1>4, <1>a DEF WalkInv, HandedInv
<1>8. OneNode'
  BY <1>0, <1>2, <1>3, <1>4, <1>a DEF OneNode
<1>9. SlotsInv'
  BY <1>0, <1>3, <1>4, <1>5, <1>a, <1>b DEF SlotsInv
<1> QED
  BY <1>6, <1>7, <1>8, <1>9 DEF WheelInv

(* The closure of insert(). *)
LEMMA RunPutWheel ==
    ASSUME WheelInv, RunPut
    PROVE  WheelInv'
<1>0. WheelTypes /\ WalkInv /\ OneNode /\ HandedInv /\ SlotsInv
  BY DEF WheelInv
<1>1. PICK n \in pending : slots' = Link(slots, n) /\ pending' = pending \ {n}
  BY DEF RunPut, Put, Link
<1>a. /\ wpc = "poll" /\ handed' = handed /\ cur_slot' = cur_slot /\ wpc' = wpc
      /\ todo' = todo /\ age' = age
  BY DEF RunPut, timerVars
<1>b. Cursor' = Cursor /\ Walked' = Walked /\ Walked = -1
  BY <1>a DEF Cursor, Walked
<1>2. n \in Nodes /\ slots \in [Slots -> Seq(Nodes)] /\ n.timer \in Timers /\ todo \in Nat
  BY <1>0, TurnsType DEF WheelTypes
<1>3. slots' \in [Slots -> Seq(Nodes)]
  BY <1>1, <1>2, LinkFacts
<1>4. WheelTypes'
  BY <1>0, <1>1, <1>3, <1>a DEF WheelTypes
<1>5. WalkInv'
  BY <1>a DEF WalkInv
<1>6. \A t : Absent(slots, t) /\ t # n.timer => Absent(slots', t)
  BY <1>1, <1>2, LinkAbsent
<1>7. HandedInv'
  BY <1>0, <1>1, <1>6, <1>a DEF HandedInv
<1>8. OneNode'
  <2>1. OneIn(slots')
    BY <1>0, <1>1, <1>2, LinkOne DEF OneNode
  <2>2. ASSUME NEW m \in pending' PROVE Absent(slots', m.timer)
    <3>1. m \in pending /\ m.timer # n.timer
      BY <1>0, <1>1 DEF OneNode
    <3> QED
      BY <1>0, <1>6, <3>1 DEF OneNode
  <2> QED
    BY <1>0, <1>1, <2>1, <2>2 DEF OneNode
<1>9. SlotsInv'
  <2>1. -1 \notin Slots
    BY WheelSize DEF Slots
  <2>2. /\ Fits(slots, age, Cursor, -1, todo) /\ Placed(n.time_slot, n)
        /\ Waits(age, Cursor, n.time_slot, n, FALSE)
    BY <1>0, <1>b DEF SlotsInv
  <2>3. Fits(Link(slots, n), age, Cursor, -1, todo)
    BY <1>2, <2>1, <2>2, LinkFits
  <2> QED
    BY <1>0, <1>1, <1>a, <1>b, <2>3 DEF SlotsInv
<1> QED
  BY <1>4, <1>5, <1>7, <1>8, <1>9 DEF WheelInv

(* insert() from a callback. *)
LEMMA CallbackPutWheel ==
    ASSUME WheelInv, NEW t \in Timers, CallbackPut(t)
    PROVE  WheelInv'
<1>0. WheelTypes /\ WalkInv /\ OneNode /\ HandedInv /\ SlotsInv
  BY DEF WheelInv
<1>1. PICK n : n = NodeFor(t)
  OBVIOUS
<1>a. /\ wpc = "callback" /\ t \notin handed /\ handed' = handed \cup {t}
      /\ cur_slot' = cur_slot /\ wpc' = wpc /\ pending' = pending
      /\ todo' = todo /\ age' = age /\ slots' = Link(slots, n)
  BY <1>1 DEF CallbackPut, timerVars, Put, Link
<1>b. Cursor' = Cursor /\ Walked' = Walked /\ Walked = cur_slot
  BY <1>a DEF Cursor, Walked
<1>2. n \in Nodes /\ n.timer = t /\ Placed(n.time_slot, n)
  BY <1>0, <1>1, NodeForFacts DEF WheelTypes
<1>3. age[t] = 0 /\ Absent(slots, t) /\ \A m \in pending : m.timer # t
  BY <1>0, <1>a DEF HandedInv
<1>4. Waits(age, Cursor, n.time_slot, n, FALSE)
  BY <1>0, <1>1, <1>3, NodeForWaits DEF WheelTypes
<1>5. slots \in [Slots -> Seq(Nodes)] /\ todo \in Nat /\ cur_slot \in Slots
  BY <1>0 DEF WheelTypes
<1>6. slots' \in [Slots -> Seq(Nodes)] /\ Len(slots'[cur_slot]) >= Len(slots[cur_slot])
  <2>1. CASE cur_slot = n.time_slot
    <3>1. Len(slots'[cur_slot]) = Len(slots[cur_slot]) + 1 /\ slots' \in [Slots -> Seq(Nodes)]
      BY <1>2, <1>5, <1>a, <2>1, LinkFacts
    <3>2. Len(slots[cur_slot]) \in Nat
      BY <1>5
    <3> QED
      BY <3>1, <3>2
  <2>2. CASE cur_slot # n.time_slot
    <3>1. slots'[cur_slot] = slots[cur_slot] /\ slots' \in [Slots -> Seq(Nodes)]
      BY <1>2, <1>5, <1>a, <2>2, LinkFacts
    <3>2. Len(slots[cur_slot]) \in Nat
      BY <1>5
    <3> QED
      BY <3>1, <3>2
  <2> QED
    BY <2>1, <2>2
<1>7. WheelTypes'
  BY <1>0, <1>6, <1>a DEF WheelTypes
<1>8. WalkInv'
  <2>1. Len(slots[cur_slot]) \in Nat /\ Len(slots'[cur_slot]) \in Nat
    BY <1>5, <1>6
  <2>2. todo <= Len(slots[cur_slot]) /\ todo > 0
    BY <1>0, <1>a DEF WalkInv
  <2>3. todo <= Len(slots'[cur_slot])
    BY <1>5, <1>6, <2>1, <2>2
  <2> QED
    BY <1>a, <2>2, <2>3 DEF WalkInv
<1>9. \A u : Absent(slots, u) /\ u # t => Absent(slots', u)
  BY <1>2, <1>5, <1>a, LinkAbsent
<1>10. HandedInv'
  BY <1>0, <1>9, <1>a DEF HandedInv
<1>11. OneNode'
  <2>1. OneIn(slots')
    BY <1>0, <1>2, <1>3, <1>5, <1>a, LinkOne DEF OneNode
  <2> QED
    BY <1>0, <1>3, <1>9, <1>a, <2>1 DEF OneNode
<1>12. SlotsInv'
  <2>1. Fits(slots, age, Cursor, cur_slot, todo) /\ todo <= Len(slots[cur_slot])
    BY <1>0, <1>a, <1>b DEF SlotsInv, WalkInv
  <2>2. Fits(Link(slots, n), age, Cursor, cur_slot, todo)
    BY <1>2, <1>4, <1>5, <2>1, LinkFits
  <2> QED
    BY <1>0, <1>a, <1>b, <2>2 DEF SlotsInv
<1> QED
  BY <1>7, <1>8, <1>10, <1>11, <1>12 DEF WheelInv

(* The start of tick(): every timer that was handed in is one tick older,   *)
(* and every slot one tick nearer.                                          *)
LEMMA StartTickWheel ==
    ASSUME WheelInv, StartTick
    PROVE  WheelInv'
<1>0. WheelTypes /\ WalkInv /\ OneNode /\ HandedInv /\ SlotsInv
  BY DEF WheelInv
<1>a. /\ wpc = "poll" /\ wpc' = "walk" /\ todo' = Len(slots[cur_slot])
      /\ age' = [t \in Timers |-> IF t \in handed /\ age[t] < Ticks(t) THEN age[t] + 1 ELSE age[t]]
      /\ cur_slot' = cur_slot /\ slots' = slots /\ handed' = handed /\ pending' = pending
  BY DEF StartTick
<1>b. /\ Cursor = cur_slot /\ Cursor' = NextSlot(cur_slot)
      /\ Walked = -1 /\ Walked' = cur_slot
  BY <1>a DEF Cursor, Walked
<1>c. /\ cur_slot \in Slots /\ slots \in [Slots -> Seq(Nodes)] /\ pending \subseteq Nodes
      /\ age \in [Timers -> Nat] /\ handed \subseteq Timers
  BY <1>0 DEF WheelTypes
<1>1. ASSUME NEW t \in Timers
      PROVE  /\ age[t] \in Nat /\ Ticks(t) \in Nat /\ age'[t] \in Nat
             /\ t \in handed => age'[t] >= Ticks(t) \/ age'[t] = age[t] + 1
             /\ t \notin handed => age'[t] = age[t]
  BY <1>a, <1>c, TicksType
<1>2. age' \in [Timers -> Nat]
  BY <1>1, <1>a
<1>3. Len(slots[cur_slot]) \in Nat
  BY <1>c
<1>4. WheelTypes'
  BY <1>0, <1>2, <1>3, <1>a DEF WheelTypes
<1>5. WalkInv'
  BY <1>3, <1>a DEF WalkInv
<1>6. OneNode'
  BY <1>0, <1>a DEF OneNode
<1>7. HandedInv'
  BY <1>0, <1>1, <1>a DEF HandedInv
<1>8. ASSUME NEW n \in Nodes, n.timer \in handed, NEW s \in Slots,
             Waits(age, cur_slot, s, n, FALSE)
      PROVE  /\ Waits(age', NextSlot(cur_slot), s, n, FALSE)
             /\ s = cur_slot => Waits(age', NextSlot(cur_slot), s, n, TRUE)
  <2> DEFINE t == n.timer
             T == Ticks(t)
             x == Turns(n)
             d == Dist(s, cur_slot)
             e == Dist(s, NextSlot(cur_slot))
  <2>1. t \in Timers /\ x \in Nat
    BY TurnsType
  <2>2. /\ age[t] \in Nat /\ T \in Nat /\ age'[t] \in Nat
        /\ age'[t] >= T \/ age'[t] = age[t] + 1
    BY <1>1, <1>8, <2>1
  <2>3. d \in Nat /\ e \in Nat
    <3>1. s \in Int /\ cur_slot \in Int /\ NextSlot(cur_slot) \in Int
      BY <1>c, NextSlotIs DEF Slots
    <3> QED
      BY <3>1, DistType
  <2>4. /\ s # cur_slot => e + 1 = d
        /\ s = cur_slot => e + 1 = maxSlots /\ d = 0
    BY <1>c, DistNext
  <2>5. age[t] + x + (d + 1) >= T
    BY <1>8 DEF Waits
  <2>6. maxSlots \in Nat \ {0}
    BY WheelSize
  <2> HIDE DEF t, T, x, d, e
  <2>7. age'[t] + x + (e + 1) >= T
    BY <2>1, <2>2, <2>3, <2>4, <2>5, <2>6
  <2>8. s = cur_slot => age'[t] + x + 0 >= T
    BY <2>1, <2>2, <2>3, <2>4, <2>5
  <2> QED
    BY <2>7, <2>8 DEF Waits, t, T, x, d, e
<1>9. SlotsInv'
  <2>1. ASSUME NEW s \in Slots, NEW k \in 1..Len(slots[s])
        PROVE  /\ Placed(s, slots[s][k])
               /\ Waits(age', NextSlot(cur_slot), s, slots[s][k],
                        s = cur_slot /\ k > Len(slots[s]) - todo')
    <3>1. slots[s][k] \in Nodes /\ Len(slots[s]) \in Nat /\ k \in Int
      BY <1>c
    <3>2. slots[s][k].timer \in handed
      <4>1. slots[s][k].timer \in Timers
        BY <3>1, TurnsType
      <4> QED
        BY <1>0, <4>1 DEF HandedInv, Absent
    <3>3. /\ Placed(s, slots[s][k])
          /\ Waits(age, cur_slot, s, slots[s][k], s = -1 /\ k > Len(slots[s]) - todo)
      BY <1>0, <1>b DEF SlotsInv, Fits
    <3>4. s # -1
      BY WheelSize DEF Slots
    <3>5. Waits(age, cur_slot, s, slots[s][k], FALSE)
      BY <3>3, <3>4 DEF Waits
    <3>6. /\ Waits(age', NextSlot(cur_slot), s, slots[s][k], FALSE)
          /\ s = cur_slot => Waits(age', NextSlot(cur_slot), s, slots[s][k], TRUE)
      BY <1>8, <3>1, <3>2, <3>5
    <3>7. s = cur_slot => k > Len(slots[s]) - todo'
      BY <1>a, <3>1
    <3>8. Waits(age', NextSlot(cur_slot), s, slots[s][k],
                s = cur_slot /\ k > Len(slots[s]) - todo')
      BY <3>6, <3>7 DEF Waits
    <3> QED
      BY <3>3, <3>8
  <2>2. Fits(slots, age', NextSlot(cur_slot), cur_slot, todo')
    BY <2>1 DEF Fits
  <2>3. ASSUME NEW n \in pending
        PROVE  Placed(n.time_slot, n) /\ Waits(age', NextSlot(cur_slot), n.time_slot, n, FALSE)
    <3>1. n \in Nodes /\ n.time_slot \in Slots /\ n.timer \in Timers
      BY <1>c, TurnsType
    <3>2. n.timer \in handed
      BY <1>0, <3>1 DEF HandedInv
    <3>3. Placed(n.time_slot, n) /\ Waits(age, cur_slot, n.time_slot, n, FALSE)
      BY <1>0, <1>b DEF SlotsInv
    <3> QED
      BY <1>8, <3>1, <3>2, <3>3
  <2> QED
    BY <1>a, <1>b, <2>2, <2>3 DEF SlotsInv
<1> QED
  BY <1>4, <1>5, <1>6, <1>7, <1>9 DEF WheelInv

(* tick() passes over a node: it has one rotation less to wait, and waits   *)
(* for the whole way round the wheel.                                       *)
LEMMA PassOverWheel ==
    ASSUME WheelInv, PassOver
    PROVE  WheelInv'
<1>0. WheelTypes /\ WalkInv /\ OneNode /\ HandedInv /\ SlotsInv
  BY DEF WheelInv
<1> DEFINE q == slots[cur_slot]
           i == Len(q) - todo + 1
           m == [q[i] EXCEPT !.rotation = q[i].rotation - 1]
<1>a. /\ wpc = "walk" /\ wpc' = wpc /\ todo > 0 /\ q[i].rotation > 0 /\ todo' = todo - 1
      /\ cur_slot' = cur_slot /\ handed' = handed /\ pending' = pending /\ age' = age
  BY DEF PassOver, Node, At, timerVars
<1>b. slots' = [slots EXCEPT ![cur_slot] = [q EXCEPT ![i] = m]]
  BY DEF PassOver, At
<1>c. /\ cur_slot \in Slots /\ slots \in [Slots -> Seq(Nodes)] /\ todo \in Nat
      /\ age \in [Timers -> Nat] /\ pending \subseteq Nodes
  BY <1>0 DEF WheelTypes
<1>d. /\ Cursor = NextSlot(cur_slot) /\ Cursor' = Cursor
      /\ Walked = cur_slot /\ Walked' = cur_slot
  BY <1>a DEF Cursor, Walked
<1>1. q \in Seq(Nodes) /\ Len(q) \in Nat /\ i \in 1..Len(q) /\ i \in Int
  <2>1. todo <= Len(q)
    BY <1>0, <1>a DEF WalkInv
  <2>2. q \in Seq(Nodes) /\ Len(q) \in Nat
    BY <1>c
  <2> HIDE DEF q
  <2> QED
    BY <1>a, <1>c, <2>1, <2>2
<1>2. q[i] \in Nodes
  BY <1>1
<1>3. /\ m \in Nodes /\ m.timer = q[i].timer /\ m.time_slot = q[i].time_slot
      /\ m.rotation = q[i].rotation - 1
  <2> HIDE DEF q, i
  <2> QED
    BY <1>2, <1>a DEF Nodes
<1>4. Turns(m) = Turns(q[i]) - maxSlots /\ Turns(m) \in Nat /\ Turns(q[i]) \in Nat
  <2>1. q[i].rotation \in Nat
    BY <1>2, TurnsType
  <2>2. Turns(m) \in Nat /\ Turns(q[i]) \in Nat
    BY <1>2, <1>3, TurnsType
  <2>3. ASSUME NEW x \in Nat, NEW y \in Nat PROVE (x - 1) * y = x * y - y
    OBVIOUS
  <2> HIDE DEF q, i, m
  <2>4. (q[i].rotation - 1) * maxSlots = q[i].rotation * maxSlots - maxSlots
    BY <2>1, <2>3, WheelSize
  <2> QED
    BY <1>3, <2>2, <2>4 DEF Turns
<1> DEFINE p == [q EXCEPT ![i] = m]
<1>5. /\ p \in Seq(Nodes) /\ Len(p) = Len(q) /\ p[i] = m
      /\ \A k \in 1..Len(q) : k # i => p[k] = q[k]
  <2> HIDE DEF q, i, m
  <2> QED
    BY <1>1, <1>3
<1>6. /\ slots' \in [Slots -> Seq(Nodes)] /\ slots'[cur_slot] = p
      /\ \A s \in Slots \ {cur_slot} : slots'[s] = slots[s]
  <2> HIDE DEF p
  <2> QED
    BY <1>b, <1>c, <1>5 DEF p
<1>7. ASSUME NEW s \in Slots
      PROVE  /\ Len(slots'[s]) = Len(slots[s])
             /\ \A k \in 1..Len(slots[s]) : slots'[s][k].timer = slots[s][k].timer
  <2> HIDE DEF p, i, m
  <2>1. CASE s = cur_slot
    BY <1>3, <1>5, <1>6, <2>1
  <2>2. CASE s # cur_slot
    BY <1>6, <2>2
  <2> QED
    BY <2>1, <2>2
<1> HIDE DEF p, i, m, q
<1>8. WheelTypes'
  BY <1>0, <1>6, <1>a, <1>c DEF WheelTypes
<1>9. WalkInv'
  <2>1. todo <= Len(q)
    BY <1>0, <1>a DEF WalkInv, q
  <2>2. Len(slots'[cur_slot]) = Len(q)
    BY <1>5, <1>6
  <2>3. todo' <= Len(slots'[cur_slot])
    BY <1>1, <1>a, <1>c, <2>1, <2>2
  <2> QED
    BY <1>a, <2>3 DEF WalkInv
<1>10. \A t : Absent(slots, t) => Absent(slots', t)
  BY <1>7 DEF Absent
<1>11. HandedInv'
  BY <1>0, <1>10, <1>a DEF HandedInv
<1>12. OneNode'
  <2>1. OneIn(slots')
    BY <1>0, <1>7 DEF OneNode, OneIn
  <2> QED
    BY <1>0, <1>10, <1>a, <2>1 DEF OneNode
<1>13. SlotsInv'
  <2>1. ASSUME NEW s \in Slots, NEW k \in 1..Len(slots'[s])
        PROVE  /\ Placed(s, slots'[s][k])
               /\ Waits(age, Cursor, s, slots'[s][k],
                        s = cur_slot /\ k > Len(slots'[s]) - todo')
    <3>0. /\ k \in 1..Len(slots[s]) /\ Len(slots'[s]) = Len(slots[s]) /\ Len(slots[s]) \in Nat
          /\ k \in Int
      BY <1>7, <1>c
    <3>1. /\ Placed(s, slots[s][k])
          /\ Waits(age, Cursor, s, slots[s][k], s = cur_slot /\ k > Len(slots[s]) - todo)
      BY <1>0, <1>d, <3>0 DEF SlotsInv, Fits
    <3>2. CASE s = cur_slot /\ k = i
      <4>1. slots'[s][k] = m /\ slots[s][k] = q[i]
        BY <1>5, <1>6, <3>2 DEF q
      <4>2. ~(k > Len(slots'[s]) - todo') /\ k > Len(slots[s]) - todo
        BY <3>0, <3>2, <1>a, <1>c DEF i, q
      <4>3. age[q[i].timer] + Turns(q[i]) + 0 >= Ticks(q[i].timer)
        BY <3>1, <3>2, <4>1, <4>2 DEF Waits
      <4>4. Placed(s, q[i])
        BY <3>1, <4>1
      <4>5. Dist(s, Cursor) + 1 = maxSlots
        BY <1>c, <1>d, <3>2, DistNext
      <4>6. q[i].timer \in Timers
        BY <1>2, TurnsType
      <4>7. age[q[i].timer] \in Nat /\ Ticks(q[i].timer) \in Nat /\ maxSlots \in Nat \ {0}
        BY <1>c, <4>6, TicksType, WheelSize
      <4>8. age[q[i].timer] + Turns(m) + (Dist(s, Cursor) + 1) >= Ticks(q[i].timer)
        BY <1>4, <4>3, <4>5, <4>7
      <4>9. Waits(age, Cursor, s, m, s = cur_slot /\ k > Len(slots'[s]) - todo')
        BY <1>3, <4>2, <4>8 DEF Waits
      <4>10. Placed(s, m)
        <5>1. Turns(m) <= Ticks(q[i].timer)
          BY <1>4, <4>4, <4>7 DEF Placed
        <5> QED
          BY <1>3, <4>4, <5>1 DEF Placed
      <4> QED
        BY <4>1, <4>9, <4>10
    <3>3. CASE ~(s = cur_slot /\ k = i)
      <4>1. slots'[s][k] = slots[s][k]
        <5>1. CASE s = cur_slot
          BY <1>5, <1>6, <3>0, <3>3, <5>1 DEF q
        <5>2. CASE s # cur_slot
          BY <1>6, <5>2
        <5> QED
          BY <5>1, <5>2
      <4>2. (s = cur_slot /\ k > Len(slots'[s]) - todo') <=> (s = cur_slot /\ k > Len(slots[s]) - todo)
        <5>1. CASE s = cur_slot
          <6>1. k # Len(slots[s]) - todo + 1
            BY <3>3, <5>1 DEF i, q
          <6>2. Len(slots[s]) \in Nat /\ Len(slots'[s]) = Len(slots[s]) /\ k \in Int
            BY <1>c, <3>0
          <6>3. PICK l : l = Len(slots[s])
            OBVIOUS
          <6>4. l \in Int /\ k \in Int /\ todo \in Int /\ todo' = todo - 1 /\ k # l - todo + 1
            BY <1>a, <1>c, <6>1, <6>2, <6>3
          <6>5. k > l - todo' <=> k > l - todo
            BY <6>4
          <6>6. k > Len(slots'[s]) - todo' <=> k > Len(slots[s]) - todo
            BY <6>2, <6>3, <6>5
          <6> QED
            BY <6>6
        <5> QED
          BY <5>1
      <4> QED
        BY <3>1, <4>1, <4>2 DEF Waits
    <3> QED
      BY <3>2, <3>3
  <2>2. Fits(slots', age, Cursor, cur_slot, todo')
    BY <2>1 DEF Fits
  <2> QED
    BY <1>0, <1>a, <1>d, <2>2 DEF SlotsInv
<1> QED
  BY <1>8, <1>9, <1>11, <1>12, <1>13 DEF WheelInv

(* A timer's callback starts, or Timer::cancel comes: the wheel does not    *)
(* move.                                                                    *)
LEMMA StillWheel ==
    ASSUME WheelInv, ExecuteNode \/ (\E t \in Timers : WheelCancel(t)) \/ UNCHANGED <<wheelVars, age>>
    PROVE  WheelInv'
<1>0. WheelTypes /\ WalkInv /\ OneNode /\ HandedInv /\ SlotsInv
  BY DEF WheelInv
<1>1. /\ cur_slot' = cur_slot /\ slots' = slots /\ handed' = handed /\ pending' = pending
      /\ todo' = todo /\ age' = age
      /\ wpc' = wpc \/ (wpc = "walk" /\ wpc' = "callback" /\ todo > 0)
  BY DEF ExecuteNode, WheelCancel, wheelVars
<1>2. Cursor' = Cursor /\ Walked' = Walked
  BY <1>1 DEF Cursor, Walked
<1>3. WheelTypes' /\ WalkInv'
  BY <1>0, <1>1 DEF WheelTypes, WalkInv
<1>4. OneNode' /\ HandedInv'
  BY <1>0, <1>1 DEF OneNode, HandedInv
<1>5. SlotsInv'
  BY <1>0, <1>1, <1>2 DEF SlotsInv
<1> QED
  BY <1>3, <1>4, <1>5 DEF WheelInv

LEMMA EndTickWheel ==
    ASSUME WheelInv, EndTick
    PROVE  WheelInv'
<1>0. WheelTypes /\ WalkInv /\ OneNode /\ HandedInv /\ SlotsInv
  BY DEF WheelInv
<1>1. /\ cur_slot' = NextSlot(cur_slot) /\ slots' = slots /\ handed' = handed /\ pending' = pending
      /\ todo' = todo /\ age' = age /\ wpc = "walk" /\ wpc' = "poll" /\ todo = 0
  BY DEF EndTick, NextSlot, timerVars
<1>2. Cursor' = Cursor /\ Walked' = -1 /\ Walked = cur_slot
  BY <1>1 DEF Cursor, Walked
<1>3. cur_slot' \in Slots /\ slots \in [Slots -> Seq(Nodes)]
  BY <1>0, <1>1, NextSlotIs DEF WheelTypes
<1>4. WheelTypes' /\ WalkInv'
  BY <1>0, <1>1, <1>3 DEF WheelTypes, WalkInv
<1>5. OneNode' /\ HandedInv'
  BY <1>0, <1>1 DEF OneNode, HandedInv
<1>6. Fits(slots, age, Cursor, -1, 0)
  <2> SUFFICES ASSUME NEW s \in Slots, NEW k \in 1..Len(slots[s])
               PROVE  /\ Placed(s, slots[s][k])
                      /\ Waits(age, Cursor, s, slots[s][k], s = -1 /\ k > Len(slots[s]) - 0)
    BY DEF Fits
  <2>1. /\ Placed(s, slots[s][k])
        /\ Waits(age, Cursor, s, slots[s][k], s = cur_slot /\ k > Len(slots[s]) - 0)
    BY <1>0, <1>1, <1>2 DEF SlotsInv, Fits
  <2>2. ~(k > Len(slots[s]) - 0)
    BY <1>3
  <2> QED
    BY <2>1, <2>2 DEF Waits
<1>7. SlotsInv'
  BY <1>0, <1>1, <1>2, <1>6 DEF SlotsInv
<1> QED
  BY <1>4, <1>5, <1>7 DEF WheelInv

(* The callback has returned. *)
LEMMA AfterExecuteWheel ==
    ASSUME WheelInv, AfterExecute
    PROVE  WheelInv'
<1>0. WheelTypes /\ WalkInv /\ OneNode /\ HandedInv /\ SlotsInv
  BY DEF WheelInv
<1> DEFINE w == cur_slot
           i == Len(slots[w]) - todo + 1
           t == slots[w][i].timer
           U == Unlink(slots, w, i)
           b == [age EXCEPT ![t] = 0]
<1>a. /\ wpc = "callback" /\ wpc' = "walk" /\ todo' = todo - 1
      /\ cur_slot' = cur_slot /\ handed' = handed /\ pending' = pending /\ age' = b
  BY DEF AfterExecute, Renew, Node, At
<1>b. /\ w \in Slots /\ slots \in [Slots -> Seq(Nodes)] /\ todo \in Nat
      /\ age \in [Timers -> Nat] /\ pending \subseteq Nodes
      /\ todo > 0 /\ todo <= Len(slots[w])
  BY <1>0, <1>a DEF WheelTypes, WalkInv
<1>c. /\ Cursor = NextSlot(cur_slot) /\ Cursor' = Cursor
      /\ Walked = cur_slot /\ Walked' = cur_slot
  BY <1>a DEF Cursor, Walked
<1>1. Len(slots[w]) \in Nat /\ i \in 1..Len(slots[w])
  BY <1>b
<1>2. slots[w][i] \in Nodes /\ t \in Timers
  <2>1. slots[w][i] \in Nodes
    BY <1>1, <1>b
  <2> QED
    BY <2>1, TurnsType
<1>3. /\ U \in [Slots -> Seq(Nodes)] /\ Len(U[w]) = Len(slots[w]) - 1
      /\ OneIn(U) /\ Absent(U, t) /\ \A u : Absent(slots, u) => Absent(U, u)
  <2> HIDE DEF i, w
  <2> QED
    BY <1>0, <1>1, <1>b, UnlinkPlaces, UnlinkOne DEF OneNode
<1>4. Fits(U, age, Cursor, w, todo - 1)
  BY <1>0, <1>b, <1>c, UnlinkFits DEF SlotsInv
<1>5. Fits(U, b, Cursor, w, todo - 1) /\ b \in [Timers -> Nat] /\ b[t] = 0
  <2> HIDE DEF U, t, w
  <2> QED
    BY <1>2, <1>3, <1>4, <1>b, RenewFits
<1>6. PICK n : n = NodeFor(t)
  OBVIOUS
<1>7. n \in Nodes /\ n.timer = t /\ Placed(n.time_slot, n) /\ Waits(b, Cursor, n.time_slot, n, FALSE)
  <2> HIDE DEF t, b
  <2> QED
    BY <1>0, <1>2, <1>5, <1>6, NodeForFacts, NodeForWaits DEF WheelTypes
<1>8. slots' = U \/ slots' = Link(U, n)
  <2>1. CASE execute_count[t] > 0
    <3>1. slots' = [Link(slots, n) EXCEPT ![cur_slot]
                       = RemoveAt(Link(slots, n)[cur_slot], Len(Link(slots, n)[cur_slot]) - todo + 1)]
      BY <1>6, <2>1 DEF AfterExecute, Node, At, Put, Link
    <3>2. slots' = Unlink(Link(slots, n), w, Len(Link(slots, n)[w]) - todo + 1)
      BY <3>1 DEF Unlink
    <3>3. Unlink(Link(slots, n), w, Len(Link(slots, n)[w]) - todo + 1) = Link(U, n)
      BY <1>7, <1>b, LinkUnlink
    <3> QED
      BY <3>2, <3>3
  <2>2. CASE ~(execute_count[t] > 0)
    BY <2>2 DEF AfterExecute, Node, At, Unlink
  <2> QED
    BY <2>1, <2>2
<1> HIDE DEF U, t, b, i
<1>9. Len(U[w]) \in Nat /\ todo - 1 \in Nat /\ todo - 1 <= Len(U[w])
  BY <1>1, <1>3, <1>b
<1>10. /\ slots' \in [Slots -> Seq(Nodes)] /\ OneIn(slots')
       /\ \A u : Absent(slots, u) /\ u # t => Absent(slots', u)
       /\ Fits(slots', b, Cursor, w, todo - 1)
       /\ todo - 1 <= Len(slots'[w])
  <2>1. CASE slots' = U
    BY <1>3, <1>5, <1>9, <2>1
  <2>2. CASE slots' = Link(U, n)
    <3>1. slots' \in [Slots -> Seq(Nodes)] /\ OneIn(slots')
      BY <1>3, <1>7, <2>2, LinkFacts, LinkOne
    <3>2. \A u : Absent(slots, u) /\ u # t => Absent(slots', u)
      BY <1>3, <1>7, <2>2, LinkAbsent
    <3>3. Fits(slots', b, Cursor, w, todo - 1)
      BY <1>3, <1>5, <1>7, <1>9, <2>2, LinkFits
    <3>4. Len(slots'[w]) = Len(U[w]) + 1 \/ Len(slots'[w]) = Len(U[w])
      <4>1. CASE w = n.time_slot
        BY <1>3, <1>7, <2>2, <4>1, LinkFacts
      <4>2. CASE w # n.time_slot
        <5>1. w \in Slots \ {n.time_slot}
          BY <1>b, <4>2
        <5>2. slots'[w] = U[w]
          BY <1>3, <1>7, <2>2, <5>1, LinkFacts
        <5> QED
          BY <5>2
      <4> QED
        BY <4>1, <4>2
    <3>5. todo - 1 <= Len(slots'[w])
      BY <1>9, <3>4
    <3> QED
      BY <3>1, <3>2, <3>3, <3>5
  <2> QED
    BY <1>8, <2>1, <2>2
<1>11. t \in handed /\ \A m \in pending : m.timer # t
  <2>1. ~Absent(slots, t)
    BY <1>1, <1>b DEF Absent, t
  <2> QED
    BY <1>0, <1>2, <2>1 DEF HandedInv, OneNode
<1>12. WheelTypes'
  BY <1>0, <1>5, <1>9, <1>10, <1>a DEF WheelTypes
<1>13. WalkInv'
  BY <1>10, <1>a DEF WalkInv
<1>14. OneNode'
  BY <1>0, <1>10, <1>11, <1>a DEF OneNode
<1>15. \A u \in Timers : u # t => b[u] = age[u]
  BY <1>2, <1>b DEF b
<1>16. HandedInv'
  BY <1>0, <1>10, <1>11, <1>15, <1>a DEF HandedInv
<1>17. SlotsInv'
  <2>1. ASSUME NEW m \in pending PROVE Placed(m.time_slot, m) /\ Waits(b, Cursor, m.time_slot, m, FALSE)
    <3>1. m.timer \in Timers /\ m.timer # t
      BY <1>11, <1>b, TurnsType
    <3>2. b[m.timer] = age[m.timer]
      BY <1>15, <3>1
    <3>3. Placed(m.time_slot, m) /\ Waits(age, Cursor, m.time_slot, m, FALSE)
      BY <1>0 DEF SlotsInv
    <3> QED
      BY <3>2, <3>3 DEF Waits
  <2> QED
    BY <1>10, <1>a, <1>c, <2>1 DEF SlotsInv
<1> QED
  BY <1>12, <1>13, <1>14, <1>16, <1>17 DEF WheelInv

(* All steps together. *)
LEMMA WheelStep ==
    ASSUME WheelInv, [WheelNext]_<<wheelVars, timerVars>>
    PROVE  WheelInv'
<1>1. CASE UNCHANGED <<wheelVars, timerVars>>
  BY <1>1, StillWheel DEF timerVars
<1>2. CASE WheelNext
  BY <1>2, InsertWheel, RunPutWheel, CallbackPutWheel, StartTickWheel, PassOverWheel, StillWheel,
     AfterExecuteWheel, EndTickWheel DEF WheelNext, TickStep
<1> QED
  BY <1>1, <1>2

(* Between two ticks a node of the wheel executes neither before its ticks  *)
(* have passed nor later than one rotation after that, whatever insert()    *)
(* on other threads, callbacks and re-insertions did: for any wheel size,   *)
(* slot length and intervals.                                               *)
THEOREM WheelOnTimeCorrect == WheelSpec => []WheelOnTime
<1>1. WheelInv /\ [WheelNext]_<<wheelVars, timerVars>> => WheelInv'
  BY WheelStep
<1>2. WheelInv => WheelOnTime
  <2> SUFFICES ASSUME WheelInv, wpc = "poll", NEW s \in DOMAIN slots, NEW k \in DOMAIN slots[s]
               PROVE  /\ slots[s][k].time_slot = s
                      /\ age[slots[s][k].timer] + Remaining(s, slots[s][k]) >= Ticks(slots[s][k].timer)
                      /\ Remaining(s, slots[s][k]) <= Ticks(slots[s][k].timer) + maxSlots
    BY DEF WheelOnTime
  <2>1. WheelTypes /\ SlotsInv
    BY DEF WheelInv
  <2>2. /\ s \in Slots /\ k \in 1..Len(slots[s]) /\ slots[s][k] \in Nodes
        /\ cur_slot \in Slots /\ age \in [Timers -> Nat]
    BY <2>1 DEF WheelTypes
  <2>3. PICK n \in Nodes : n = slots[s][k]
    BY <2>2
  <2>4. Cursor = cur_slot /\ Walked = -1
    BY DEF Cursor, Walked
  <2>5. Placed(s, n) /\ Waits(age, cur_slot, s, n, s = -1 /\ k > Len(slots[s]) - todo)
    BY <2>1, <2>2, <2>3, <2>4 DEF SlotsInv, Fits
  <2>6. s # -1
    BY <2>2, WheelSize DEF Slots
  <2>7. Remaining(s, n) = Dist(s, cur_slot) + 1 + Turns(n)
    BY DEF Remaining, Dist, Turns
  <2>8. age[n.timer] + Turns(n) + (Dist(s, cur_slot) + 1) >= Ticks(n.timer)
    BY <2>5, <2>6 DEF Waits
  <2>9. Turns(n) \in Nat /\ n.timer \in Timers
    BY TurnsType
  <2>10. age[n.timer] \in Nat /\ Ticks(n.timer) \in Nat
    BY <2>2, <2>9, TicksType
  <2>11. Dist(s, cur_slot) \in Nat /\ Dist(s, cur_slot) + 1 <= maxSlots
    <3>1. s \in Int /\ cur_slot \in Int
      BY <2>2 DEF Slots
    <3> QED
      BY <3>1, DistType
  <2>12. n.time_slot = s /\ Turns(n) <= Ticks(n.timer)
    BY <2>5 DEF Placed
  <2>13. /\ age[n.timer] + Remaining(s, n) >= Ticks(n.timer)
         /\ Remaining(s, n) <= Ticks(n.timer) + maxSlots
    BY <2>7, <2>8, <2>9, <2>10, <2>11, <2>12, WheelSize
  <2> QED
    BY <2>3, <2>12, <2>13
<1> QED
  BY WheelInitially, <1>1, <1>2, PTL DEF WheelSpec
-----------------------------------------------------------------------------
(* No node is lost.  A timer that was handed to the wheel and has           *)
(* executions left is in a slot or in a closure of insert() on its way.     *)

Has(sl, t) == \E s \in Slots : \E k \in 1..Len(sl[s]) : sl[s][k].timer = t

NodesKept ==
    \A t \in handed :
        execute_count[t] > 0 => Has(slots, t) \/ \E n \in pending : n.timer = t

KeptInv == execute_count \in [Timers -> Int] /\ NodesKept

(* Linking loses nothing and adds its node.                                 *)
LEMMA LinkHas ==
    ASSUME NEW sl \in [Slots -> Seq(Nodes)], NEW n \in Nodes
    PROVE  Has(Link(sl, n), n.timer) /\ \A t : Has(sl, t) => Has(Link(sl, n), t)
<1> DEFINE L == Link(sl, n)
           v == n.time_slot
<1>1. /\ \A s \in Slots \ {v} : L[s] = sl[s]
      /\ Len(L[v]) = Len(sl[v]) + 1 /\ L[v][1] = n
      /\ \A k \in 2..(Len(sl[v]) + 1) : L[v][k] = sl[v][k - 1]
  BY LinkFacts
<1>2. v \in Slots /\ Len(sl[v]) \in Nat
  BY TurnsType
<1> HIDE DEF L, v
<1>3. 1 \in 1..Len(L[v])
  BY <1>1, <1>2
<1>4. Has(L, n.timer)
  BY <1>1, <1>2, <1>3 DEF Has
<1>5. ASSUME NEW t, Has(sl, t) PROVE Has(L, t)
  <2>1. PICK s \in Slots : \E k \in 1..Len(sl[s]) : sl[s][k].timer = t
    BY <1>5 DEF Has
  <2>2. PICK k \in 1..Len(sl[s]) : sl[s][k].timer = t
    BY <2>1
  <2>3. CASE s = v
    <3>1. k + 1 \in 2..(Len(sl[v]) + 1) /\ k + 1 \in 1..Len(L[v]) /\ (k + 1) - 1 = k
      BY <1>1, <1>2, <2>3
    <3>2. L[v][k + 1] = sl[v][k]
      BY <1>1, <3>1
    <3> QED
      BY <1>2, <2>2, <2>3, <3>1, <3>2 DEF Has
  <2>4. CASE s # v
    BY <1>1, <2>2, <2>4 DEF Has
  <2> QED
    BY <2>3, <2>4
<1> QED
  BY <1>4, <1>5 DEF L

(* Unlinking a node loses that node only.                                   *)
LEMMA UnlinkHas ==
    ASSUME NEW sl \in [Slots -> Seq(Nodes)], NEW w \in Slots, NEW i \in 1..Len(sl[w]),
           NEW t, Has(sl, t), t # sl[w][i].timer
    PROVE  Has(Unlink(sl, w, i), t)
<1> DEFINE U == Unlink(sl, w, i)
<1>1. /\ Len(U[w]) = Len(sl[w]) - 1 /\ \A s \in Slots \ {w} : U[s] = sl[s]
      /\ \A k \in 1..(Len(sl[w]) - 1) : U[w][k] = sl[w][IF k < i THEN k ELSE k + 1]
  BY UnlinkPlaces
<1>2. Len(sl[w]) \in Nat
  OBVIOUS
<1> HIDE DEF U
<1>3. PICK s \in Slots : \E k \in 1..Len(sl[s]) : sl[s][k].timer = t
  BY DEF Has
<1>4. PICK k \in 1..Len(sl[s]) : sl[s][k].timer = t
  BY <1>3
<1>5. CASE s # w
  <2>1. U[s] = sl[s]
    BY <1>1, <1>5
  <2>2. k \in 1..Len(U[s]) /\ U[s][k].timer = t
    BY <1>4, <2>1
  <2> QED
    BY <2>2, Zenon DEF Has, U
<1>6. CASE s = w
  <2>1. k # i
    BY <1>4, <1>6
  <2> DEFINE j == IF k < i THEN k ELSE k - 1
  <2>2. j \in 1..(Len(sl[w]) - 1) /\ (IF j < i THEN j ELSE j + 1) = k
    BY <1>2, <1>6, <2>1
  <2> HIDE DEF j
  <2>3. U[w][j] = sl[w][k] /\ j \in 1..Len(U[w])
    BY <1>1, <2>2
  <2>4. U[w][j].timer = t
    BY <1>4, <1>6, <2>3
  <2> QED
    BY <2>3, <2>4, Zenon DEF Has, U
<1> QED
  BY <1>5, <1>6 DEF U

LEMMA KeptInitially == WheelInit => KeptInv
  BY TimerAssumption DEF WheelInit, TimerInit, KeptInv, NodesKept, FOREVER

(* Steps that leave the nodes and their timers alone.                       *)
LEMMA KeptUnmoved ==
    ASSUME WheelInv, KeptInv,
           \/ StartTick \/ ExecuteNode \/ EndTick \/ UNCHANGED <<wheelVars, timerVars>>
           \/ \E t \in Timers : WheelCancel(t)
    PROVE  KeptInv'
<1>1. slots' = slots /\ pending' = pending /\ handed' = handed
  BY DEF StartTick, ExecuteNode, EndTick, WheelCancel, wheelVars
<1>2. handed \subseteq Timers /\ execute_count \in [Timers -> Int]
  BY DEF WheelInv, WheelTypes, KeptInv
<1>3. CASE execute_count' = execute_count
  BY <1>1, <1>3 DEF KeptInv, NodesKept
<1>4. ASSUME NEW t \in Timers, WheelCancel(t) PROVE KeptInv'
  <2>1. execute_count' = [execute_count EXCEPT ![t] = 0]
    BY <1>4 DEF WheelCancel, Cancel
  <2>2. \A u \in Timers : execute_count'[u] > 0 => execute_count[u] > 0
    BY <1>2, <2>1
  <2> QED
    BY <1>1, <1>2, <2>1, <2>2 DEF KeptInv, NodesKept
<1>5. CASE ExecuteNode
  <2> DEFINE t == Node.timer
  <2>1. /\ wpc = "walk" /\ todo > 0
        /\ execute_count' = [execute_count EXCEPT ![t] = IF @ = FOREVER THEN @ ELSE @ - 1]
    BY <1>5 DEF ExecuteNode, Execute
  <2>2. /\ cur_slot \in Slots /\ slots[cur_slot] \in Seq(Nodes) /\ todo \in Nat
        /\ todo <= Len(slots[cur_slot])
    BY <2>1 DEF WheelInv, WheelTypes, WalkInv
  <2>3. At(slots[cur_slot]) \in 1..Len(slots[cur_slot])
    BY <2>1, <2>2 DEF At
  <2>4. Has(slots, t)
    BY <2>2, <2>3 DEF Has, Node
  <2>5. t \in Timers
    <3>1. Node \in Nodes
      BY <2>2, <2>3 DEF Node
    <3> QED
      BY <3>1, TurnsType
  <2> HIDE DEF t
  <2>6. execute_count' \in [Timers -> Int] /\ \A u \in Timers \ {t} : execute_count'[u] = execute_count[u]
    BY <1>2, <2>1, <2>5 DEF FOREVER
  <2> QED
    BY <1>1, <1>2, <2>4, <2>6 DEF KeptInv, NodesKept
<1>6. execute_count' = execute_count \/ ExecuteNode \/ \E t \in Timers : WheelCancel(t)
  BY DEF StartTick, EndTick, timerVars
<1> QED
  BY <1>3, <1>4, <1>5, <1>6

(* insert() and the closures that link a node.                              *)
LEMMA KeptLinked ==
    ASSUME WheelInv, KeptInv, RunPut \/ \E t \in Timers : insert(t) \/ CallbackPut(t)
    PROVE  KeptInv'
<1>0. /\ slots \in [Slots -> Seq(Nodes)] /\ pending \subseteq Nodes
      /\ cur_slot \in Slots /\ WheelTypes
  BY DEF WheelInv, WheelTypes
<1>a. execute_count' = execute_count
  BY DEF RunPut, insert, CallbackPut, timerVars
<1>1. CASE RunPut
  <2>1. PICK n \in pending : slots' = Link(slots, n) /\ pending' = pending \ {n}
    BY <1>1 DEF RunPut, Put, Link
  <2>2. Has(slots', n.timer) /\ \A t : Has(slots, t) => Has(slots', t)
    BY <1>0, <2>1, LinkHas
  <2>3. handed' = handed
    BY <1>1 DEF RunPut
  <2> QED
    BY <1>a, <2>1, <2>2, <2>3 DEF KeptInv, NodesKept
<1>2. ASSUME NEW t \in Timers, insert(t) PROVE KeptInv'
  <2>1. handed' = handed \cup {t} /\ pending' = pending \cup {NodeFor(t)} /\ slots' = slots
    BY <1>2 DEF insert
  <2>2. NodeFor(t).timer = t
    BY <1>0, NodeForFacts DEF WheelTypes
  <2> QED
    BY <1>a, <2>1, <2>2 DEF KeptInv, NodesKept
<1>3. ASSUME NEW t \in Timers, CallbackPut(t) PROVE KeptInv'
  <2>1. PICK n : n = NodeFor(t)
    OBVIOUS
  <2>2. handed' = handed \cup {t} /\ pending' = pending /\ slots' = Link(slots, n)
    BY <1>3, <2>1 DEF CallbackPut, Put, Link
  <2>3. n \in Nodes /\ n.timer = t
    BY <1>0, <2>1, NodeForFacts DEF WheelTypes
  <2>4. Has(slots', t) /\ \A u : Has(slots, u) => Has(slots', u)
    BY <1>0, <2>2, <2>3, LinkHas
  <2> QED
    BY <1>a, <2>2, <2>4 DEF KeptInv, NodesKept
<1> QED
  BY <1>1, <1>2, <1>3

(* A rotation less is still the node of its timer.                          *)
LEMMA KeptPassedOver ==
    ASSUME WheelInv, KeptInv, PassOver
    PROVE  KeptInv'
<1> DEFINE q == slots[cur_slot]
           i == At(q)
           m == [q[i] EXCEPT !.rotation = q[i].rotation - 1]
           p == [q EXCEPT ![i] = m]
<1>1. /\ slots' = [slots EXCEPT ![cur_slot] = p]
      /\ handed' = handed /\ pending' = pending /\ execute_count' = execute_count
  BY DEF PassOver, timerVars
<1>2. /\ cur_slot \in Slots /\ slots \in [Slots -> Seq(Nodes)] /\ q \in Seq(Nodes)
  BY DEF WheelInv, WheelTypes
<1>3. \A k \in 1..Len(q) : k \in 1..Len(p) /\ p[k].timer = q[k].timer
  <2>1. \A k \in 1..Len(q) : q[k] \in Nodes
    BY <1>2
  <2> HIDE DEF q, i
  <2>2. \A k \in 1..Len(q) : q[k] \in Nodes /\ k \in 1..Len(p)
        /\ p[k] = IF k = i THEN m ELSE q[k]
    BY <1>2, <2>1
  <2>3. q[i] \in Nodes => m.timer = q[i].timer
    BY DEF Nodes
  <2> HIDE DEF p, m
  <2> QED
    BY <2>2, <2>3
<1> HIDE DEF q, p, m, i
<1>4. slots'[cur_slot] = p /\ \A s \in Slots \ {cur_slot} : slots'[s] = slots[s]
  BY <1>1, <1>2
<1>5. \A t : Has(slots, t) => Has(slots', t)
  BY <1>2, <1>3, <1>4 DEF Has, q
<1> QED
  BY <1>1, <1>5 DEF KeptInv, NodesKept

(* The node of the timer that executed goes, and a new one comes if it has  *)
(* executions left.                                                         *)
LEMMA KeptExecuted ==
    ASSUME WheelInv, KeptInv, AfterExecute
    PROVE  KeptInv'
<1> DEFINE w == cur_slot
           i == Len(slots[w]) - todo + 1
           t == slots[w][i].timer
           U == Unlink(slots, w, i)
           n == NodeFor(t)
<1>1. /\ wpc = "callback" /\ handed' = handed /\ pending' = pending
      /\ execute_count' = execute_count
  BY DEF AfterExecute
<1>2. /\ w \in Slots /\ slots \in [Slots -> Seq(Nodes)] /\ todo \in Nat /\ WheelTypes
      /\ todo > 0 /\ todo <= Len(slots[w])
  BY <1>1 DEF WheelInv, WheelTypes, WalkInv
<1>3. Len(slots[w]) \in Nat /\ i \in 1..Len(slots[w])
  BY <1>2
<1>4. t \in Timers
  <2>1. slots[w][i] \in Nodes
    BY <1>2, <1>3
  <2> QED
    BY <2>1, TurnsType
<1>5. n \in Nodes /\ n.timer = t
  <2> HIDE DEF t
  <2> QED
    BY <1>2, <1>4, NodeForFacts DEF WheelTypes
<1>6. U \in [Slots -> Seq(Nodes)] /\ \A u : Has(slots, u) /\ u # t => Has(U, u)
  <2> HIDE DEF w, i
  <2> QED
    BY <1>2, <1>3, UnlinkPlaces, UnlinkHas
<1>7. CASE execute_count[t] > 0
  <2>1. slots' = [Link(slots, n) EXCEPT ![cur_slot]
                     = RemoveAt(Link(slots, n)[cur_slot], Len(Link(slots, n)[cur_slot]) - todo + 1)]
    BY <1>7 DEF AfterExecute, Node, At, Put, Link
  <2>2. slots' = Unlink(Link(slots, n), w, Len(Link(slots, n)[w]) - todo + 1)
    BY <2>1 DEF Unlink
  <2>3. Unlink(Link(slots, n), w, Len(Link(slots, n)[w]) - todo + 1) = Link(U, n)
    <3> HIDE DEF n
    <3> QED
      BY <1>2, <1>5, LinkUnlink
  <2> HIDE DEF U, n, t, i, w
  <2>4. Has(slots', t) /\ \A u : Has(U, u) => Has(slots', u)
    BY <1>5, <1>6, <2>2, <2>3, LinkHas
  <2> QED
    BY <1>1, <1>6, <2>4 DEF KeptInv, NodesKept
<1>8. CASE ~(execute_count[t] > 0)
  <2>1. slots' = U
    BY <1>8 DEF AfterExecute, Node, At, Unlink
  <2> HIDE DEF U, t
  <2> QED
    BY <1>1, <1>6, <1>8, <2>1 DEF KeptInv, NodesKept
<1> QED
  BY <1>7, <1>8

(* TimerWheel::insert and tick(): a timer that was handed to the wheel and  *)
(* has executions left always has exactly one node, in a slot or in a       *)
(* closure on its way, although nodes are linked while their slot is being  *)
(* walked and unlinked after their successor was put in.                    *)
THEOREM OneNodeEach == WheelSpec => [](NodesKept /\ OneNode)
<1>1. WheelInit => WheelInv /\ KeptInv
  BY WheelInitially, KeptInitially
<1>2. WheelInv /\ KeptInv /\ [WheelNext]_<<wheelVars, timerVars>> => WheelInv' /\ KeptInv'
  <2> SUFFICES ASSUME WheelInv, KeptInv, [WheelNext]_<<wheelVars, timerVars>>
               PROVE  WheelInv' /\ KeptInv'
    OBVIOUS
  <2>1. WheelInv'
    BY WheelStep
  <2>2. KeptInv'
    BY KeptUnmoved, KeptLinked, KeptPassedOver, KeptExecuted DEF WheelNext, TickStep
  <2> QED
    BY <2>1, <2>2
<1>3. WheelInv /\ KeptInv => NodesKept /\ OneNode
  BY DEF WheelInv, KeptInv
<1> QED
  BY <1>1, <1>2, <1>3, PTL DEF WheelSpec
=============================================================================
