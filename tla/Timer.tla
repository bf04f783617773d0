------------------------------- MODULE Timer --------------------------------
(***************************************************************************)
(* Timer<PrecisionTag>: what TimerQueue and TimerWheel share.  A timer has *)
(* an interval and a number of executions left, which cancel() sets to 0   *)
(* from any thread while the loop may be executing it.                     *)
(***************************************************************************)
EXTENDS Integers

CONSTANTS Timers,    \* the timers
          Interval,  \* interval_
          Count,     \* execute_count given to the constructor
          Debug      \* TRUE: assert() is compiled in

FOREVER == -1

ASSUME TimerAssumption ==
    /\ Interval \in [Timers -> Nat]
    /\ Count \in [Timers -> Nat \cup {FOREVER}]
    /\ Debug \in BOOLEAN

VARIABLES
    execute_count,  \* execute_count_
    aborted,        \* an assert failed
    \* history
    age,            \* time since the timer was created or executed last
    fired           \* timers that have executed

timerVars == <<execute_count, aborted, age, fired>>

TimerInit ==
    /\ execute_count = Count
    /\ aborted = FALSE
    /\ age = [t \in Timers |-> 0]
    /\ fired = {}

(* Timer::execute up to its callback: cancel may have come just before. *)
Execute(t) ==
    /\ aborted' = (Debug /\ execute_count[t] = 0)
    /\ execute_count' = [execute_count EXCEPT ![t] = IF @ = FOREVER THEN @ ELSE @ - 1]
    /\ fired' = fired \cup {t}

(* The end of execute: expiration_ is renewed. *)
Renew(t) == age' = [age EXCEPT ![t] = 0]

(* Timer::cancel. *)
Cancel(t) == execute_count[t] # 0 /\ execute_count' = [execute_count EXCEPT ![t] = 0]
=============================================================================
