----------------------------- MODULE TimerQueue -----------------------------
(***************************************************************************)
(* One TimerQueue on its loop: timers that other threads or callbacks hand *)
(* in with runTimer, the set ordered by expiration, the timerfd, expiry    *)
(* with callbacks, Timer::cancel from any thread and cancelTimer.          *)
(*                                                                         *)
(* Time is counted down, so that it never ends: left[t] is what is left    *)
(* until the key under which t is stored has passed, 1 while the key is    *)
(* now, 0 from then on; fd what is left until the timerfd expires, 0 when  *)
(* it is readable.  A key that is not the timer's expiration_ any more is  *)
(* marked stale.  The timerfd is armed relative to now and once, as        *)
(* sockets::timerfd_settime does; a zero interval disarms it.  Intervals   *)
(* are not negative, so that settime does not fail.  The closure of        *)
(* runTimer reaches the loop (see TaskExecutor) and is not the one task    *)
(* that a full batch drops.                                                *)
(*                                                                         *)
(* A timer the queue is done with makes room for a new one with the same   *)
(* interval and count, so that runTimer may be called for ever.            *)
(***************************************************************************)
EXTENDS Timer, Sequences, SequencesExt

CONSTANTS Off,       \* the timerfd was never armed, or was read since
          Disarmed   \* the timerfd was disarmed by a zero interval
ASSUME OffAssumption == Off \notin Nat /\ Disarmed \notin Nat /\ Off # Disarmed

VARIABLES
    where,          \* "new", "submitted" (a task of the loop), "loop" or "erased"
    timers,         \* timers_, in the order of the keys
    left,           \* time left until each timer's key has passed
    stale,          \* timers whose key is not their expiration_
    fd,             \* the timerfd
    lpc,            \* where the loop thread is
    expired,        \* expired and
    NewTasks        \* NewTasks of handlerRead

queueVars   == <<timers, left, stale, fd>>
handlerVars == <<lpc, expired, NewTasks>>
vars == <<where, queueVars, handlerVars, timerVars>>

Init ==
    /\ where = [t \in Timers |-> "new"]
    /\ timers = <<>>
    /\ left = [t \in Timers |-> Interval[t] + 1]
    /\ stale = {}
    /\ fd = Off
    /\ lpc = "idle" /\ expired = <<>> /\ NewTasks = <<>>
    /\ TimerInit

Countdown(n) == IF n \in Nat /\ n > 0 THEN n - 1 ELSE n

(* The clock, of the timers that exist and of an armed timerfd. *)
Tick ==
    /\ left' = [t \in Timers |-> IF where[t] = "new" THEN left[t] ELSE Countdown(left[t])]
    /\ age' = [t \in Timers |-> IF where[t] # "new" /\ age[t] < Interval[t]
                                THEN age[t] + 1 ELSE age[t]]
    /\ fd' = Countdown(fd)
    /\ UNCHANGED <<where, timers, stale, execute_count, handlerVars, aborted, fired>>

(* Mutant of modifyTimerfd: only an insertion into an empty set arms. *)
modifyTimerfdWhenEmpty == fd' = IF timers = <<>> /\ timers' # <<>> /\ Interval[timers'[1]] # 0
                                THEN Interval[timers'[1]] ELSE fd

(* modifyTimerfd: the interval, not the expiration, of the first timer. *)
modifyTimerfd ==
    IF timers' = <<>> THEN fd' = fd
    ELSE fd' = IF Interval[timers'[1]] = 0 THEN Disarmed ELSE Interval[timers'[1]]

(* Where t may stand in the set; the order of equal keys is any. *)
Positions(t) ==
    {k \in 1..Len(timers) + 1 :
        /\ \A j \in 1..k - 1 : left[timers[j]] <= left[t]
        /\ \A j \in k..Len(timers) : left[t] <= left[timers[j]]}

insertInLoop(t) ==
    /\ \E k \in Positions(t) : timers' = InsertAt(timers, k, t)
    /\ modifyTimerfd
    /\ where' = [where EXCEPT ![t] = "loop"]

-----------------------------------------------------------------------------
(* runTimer on another thread: the timer's time starts here. *)
runTimer(t) ==
    /\ where[t] = "new"
    /\ where' = [where EXCEPT ![t] = "submitted"]
    /\ UNCHANGED <<queueVars, handlerVars, timerVars>>

(* The closure of runTimer, run by the loop ... *)
RunInsert(t) ==
    /\ lpc = "idle" /\ where[t] = "submitted" /\ insertInLoop(t)
    /\ UNCHANGED <<left, stale, handlerVars, timerVars>>

(* ... or at once, when a timer's callback calls runTimer. *)
CallbackInsert(t) ==
    /\ lpc = "callback" /\ where[t] = "new" /\ insertInLoop(t)
    /\ UNCHANGED <<left, stale, handlerVars, timerVars>>

(* The timer is over, and the application makes another one like it. *)
Another(t) ==
    /\ where[t] \in {"loop", "erased"}
    /\ ~Contains(timers \o expired \o NewTasks, t)
    /\ where' = [where EXCEPT ![t] = "new"]
    /\ left' = [left EXCEPT ![t] = Interval[t] + 1]
    /\ stale' = stale \ {t}
    /\ execute_count' = [execute_count EXCEPT ![t] = Count[t]]
    /\ age' = [age EXCEPT ![t] = 0]
    /\ fired' = fired \ {t}
    /\ UNCHANGED <<timers, fd, handlerVars, aborted>>

(* Timer::cancel, from any thread. *)
cancel(t) ==
    /\ where[t] # "new" /\ Cancel(t)
    /\ UNCHANGED <<where, queueVars, handlerVars, aborted, age, fired>>

(* cancelTimerInLoop looks for the entry under the timer's expiration_. *)
cancelTimer(t) ==
    /\ lpc \in {"idle", "callback"} /\ where[t] = "loop"
    /\ \/ /\ t \notin stale
          /\ \E k \in 1..Len(timers) : timers[k] = t /\ timers' = RemoveAt(timers, k)
          /\ where' = [where EXCEPT ![t] = "erased"]
          /\ UNCHANGED aborted
       \/ /\ t \in stale \/ ~Contains(timers, t)
          /\ aborted' = Debug
          /\ UNCHANGED <<timers, where>>
    /\ UNCHANGED <<left, stale, fd, execute_count, handlerVars, age, fired>>

(* Mutant of handlerRead: every timer counts as due. *)
handlerReadAll ==
    /\ lpc = "idle" /\ fd = 0
    /\ fd' = Off
    /\ expired' = timers
    /\ timers' = <<>>
    /\ lpc' = "check"
    /\ UNCHANGED <<where, left, stale, NewTasks, timerVars>>

(* handlerRead: reads the timerfd; getDueTasks takes the n entries in front *)
(* of the upper bound of (now, null), that is those whose key has passed.   *)
(* Its assert() does not stand an entry whose key is now.                   *)
handlerRead ==
    /\ lpc = "idle" /\ fd = 0
    /\ fd' = Off
    /\ \E n \in 0..Len(timers) :
          /\ \A i \in 1..Len(timers) : left[timers[i]] = 0 <=> i <= n
          /\ expired' = SubSeq(timers, 1, n)
          /\ timers' = SubSeq(timers, n + 1, Len(timers))
          /\ aborted' = (Debug /\ n < Len(timers) /\ left[timers[n + 1]] = 1)
    /\ lpc' = "check"
    /\ UNCHANGED <<where, left, stale, NewTasks, execute_count, age, fired>>

(* The next expired timer: without executions left it is dropped. *)
Check ==
    /\ lpc = "check" /\ expired # <<>>
    /\ \/ execute_count[Head(expired)] <= 0 /\ expired' = Tail(expired) /\ UNCHANGED lpc
       \/ execute_count[Head(expired)] > 0 /\ lpc' = "execute" /\ UNCHANGED expired
    /\ UNCHANGED <<where, queueVars, NewTasks, timerVars>>

execute ==
    /\ lpc = "execute" /\ Execute(Head(expired))
    /\ lpc' = "callback"
    /\ UNCHANGED <<where, queueVars, expired, NewTasks, age>>

(* The callback has returned: expiration_ is renewed, and the entry, under *)
(* its old key, is kept if executions are left.                            *)
AfterCallback ==
    /\ lpc = "callback"
    /\ LET t == Head(expired)
       IN /\ stale' = stale \cup {t}
          /\ Renew(t)
          /\ NewTasks' = IF execute_count[t] # 0 THEN Append(NewTasks, t) ELSE NewTasks
    /\ expired' = Tail(expired)
    /\ lpc' = "check"
    /\ UNCHANGED <<where, timers, left, fd, execute_count, aborted, fired>>

(* Mutant of Reinsert: what fired is not put back. *)
ReinsertNothing ==
    /\ lpc = "check" /\ expired = <<>>
    /\ timers' = timers
    /\ modifyTimerfd
    /\ NewTasks' = <<>>
    /\ lpc' = "idle"
    /\ UNCHANGED <<where, left, stale, expired, timerVars>>

(* The end of handlerRead: the old keys come before every other. *)
Reinsert ==
    /\ lpc = "check" /\ expired = <<>>
    /\ timers' = NewTasks \o timers
    /\ modifyTimerfd
    /\ NewTasks' = <<>>
    /\ lpc' = "idle"
    /\ UNCHANGED <<where, left, stale, expired, timerVars>>

-----------------------------------------------------------------------------
LoopStep == \/ handlerRead \/ Check \/ execute \/ AfterCallback \/ Reinsert
            \/ \E t \in Timers : RunInsert(t)
Application == \E t \in Timers : \/ runTimer(t) \/ CallbackInsert(t) \/ Another(t)
                                 \/ cancel(t) \/ cancelTimer(t)

Next == ~aborted /\ (Tick \/ LoopStep \/ Application)

Spec == Init /\ [][Next]_vars

(* Time goes on, and the loop thread is never stopped: callbacks return. *)
FairSpec == Spec /\ WF_vars(~aborted /\ Tick) /\ WF_vars(~aborted /\ LoopStep)

-----------------------------------------------------------------------------
(* The types of the variables. *)
TypeOK ==
    /\ where \in [Timers -> {"new", "submitted", "loop", "erased"}]
    /\ timers \in Seq(Timers) /\ expired \in Seq(Timers) /\ NewTasks \in Seq(Timers)
    /\ \A t \in Timers : left[t] \in 0..(Interval[t] + 1) /\ age[t] \in Nat
    /\ stale \subseteq Timers /\ fired \subseteq Timers
    /\ execute_count \in [Timers -> Int]
    /\ fd \in Nat \cup {Off, Disarmed}
    /\ lpc \in {"idle", "check", "execute", "callback"}
    /\ aborted \in BOOLEAN

(* Whenever the loop is back in poll, a set that is not empty has an armed *)
(* timerfd, whatever was inserted, cancelled or executed before, unless    *)
(* the timer that was first when it was set last has interval 0            *)
(* (sockets.h:418).                                                        *)
QueueArmed == lpc = "idle" /\ timers # <<>> => fd # Off

(* A timer never executes before its interval has passed since it was      *)
(* created or executed last, unless its entry was put back under the key   *)
(* that had expired (TimerQueue.tpp:96): a first execution is never early. *)
EarlyOnlyUnderOldKey ==
    [][\A t \in Timers :
          lpc = "check" /\ lpc' = "execute" /\ t = Head(expired) /\ age[t] < Interval[t]
              => t \in stale /\ t \in fired]_vars

(* Every insertion sets the timerfd anew, to the whole interval of the     *)
(* timer that is first, and so postpones what was waiting: with insertions *)
(* often enough and without end no timer executes.  That is the only way   *)
(* to starve one: when insertions end, a timer that was handed to the loop *)
(* with executions left executes, unless it is cancelled or a timer with   *)
(* interval 0 has disarmed the timerfd.  (A FOREVER timer has no           *)
(* executions left in this sense: handlerRead drops it, see Check.)        *)
Insertion == \E t \in Timers : RunInsert(t) \/ CallbackInsert(t)
TimerFires ==
    \/ []<><<Insertion>>_vars
    \/ \A t \in Timers :
          where[t] # "new" /\ execute_count[t] > 0 ~>
              \/ lpc = "callback" /\ Head(expired) = t
              \/ execute_count[t] = 0 \/ aborted
              \/ where[t] = "erased"
              \/ fd = Disarmed
=============================================================================
