------------------------------ MODULE FairMutex ------------------------------
(***************************************************************************)
(* FairMutex (Common/locker.h): a mutex that hands itself over to the      *)
(* thread that has waited longest.  Every waiting thread has a condition   *)
(* variable of its own in the queue waiters_, and lock() waits on it once, *)
(* without a predicate: the wait may also end spuriously.                  *)
(*                                                                         *)
(* lock() and unlock() run under the inner mutex mtx_, so each is one      *)
(* step; a wait ends in a step of its own.                                 *)
(***************************************************************************)
EXTENDS Integers, Sequences, FiniteSets

CONSTANTS
    Threads,        \* the threads that use the mutex
    Nobody          \* a condition variable that no thread waits on any more

ASSUME MutexAssumption == IsFiniteSet(Threads) /\ Nobody \notin Threads

VARIABLES
    locked_,        \* FairMutex::locked_
    waiters_,       \* FairMutex::waiters_: for each condition variable its waiter
    at              \* where each thread is: out, wait, woken or in

mutexVars == <<locked_, waiters_, at>>

MutexTypeOK ==
    /\ locked_ \in BOOLEAN
    /\ waiters_ \in Seq(Threads \cup {Nobody})
    /\ at \in [Threads -> {"out", "wait", "woken", "in"}]

MutexInit ==
    /\ locked_ = FALSE
    /\ waiters_ = <<>>
    /\ at = [t \in Threads |-> "out"]

-----------------------------------------------------------------------------
(* lock() on a free mutex, and behind a locked one.                        *)
lock(t) ==
    /\ at[t] = "out"
    /\ \/ /\ ~locked_
          /\ locked_' = TRUE
          /\ at' = [at EXCEPT ![t] = "in"]
          /\ UNCHANGED waiters_
       \/ /\ locked_
          /\ waiters_' = Append(waiters_, t)
          /\ at' = [at EXCEPT ![t] = "wait"]
          /\ UNCHANGED locked_

(* The wait of a notified thread ends: the mutex has stayed locked for it. *)
WaitEnds(t) ==
    /\ at[t] = "woken"
    /\ at' = [at EXCEPT ![t] = "in"]
    /\ UNCHANGED <<locked_, waiters_>>

(* The wait ends without a notification: lock() returns all the same and   *)
(* leaves the condition variable in the queue.                             *)
WaitEndsSpuriously(t) ==
    /\ at[t] = "wait"
    /\ at' = [at EXCEPT ![t] = "in"]
    /\ waiters_' = [i \in DOMAIN waiters_ |->
                       IF waiters_[i] = t THEN Nobody ELSE waiters_[i]]
    /\ UNCHANGED locked_

(* Mutant of unlock: it frees the mutex although it wakes a waiter.        *)
unlockAndWake(t) ==
    /\ at[t] = "in"
    /\ locked_' = FALSE
    /\ waiters_' = IF waiters_ = <<>> THEN <<>> ELSE Tail(waiters_)
    /\ at' = [u \in Threads |->
                 CASE u = t -> "out"
                   [] u # t /\ waiters_ # <<>> /\ u = Head(waiters_) -> "woken"
                   [] OTHER -> at[u]]

(* unlock(): free the mutex when nobody waits, otherwise notify the oldest *)
(* condition variable and drop it.  The notification of one that nobody    *)
(* waits on is lost.                                                       *)
unlock(t) ==
    /\ at[t] = "in"
    /\ \/ /\ waiters_ = <<>>
          /\ locked_' = FALSE
          /\ at' = [at EXCEPT ![t] = "out"]
          /\ UNCHANGED waiters_
       \/ /\ waiters_ # <<>>
          /\ waiters_' = Tail(waiters_)
          /\ at' = [u \in Threads |-> CASE u = t -> "out"
                                        [] u # t /\ u = Head(waiters_) -> "woken"
                                        [] OTHER -> at[u]]
          /\ UNCHANGED locked_

-----------------------------------------------------------------------------
(* The threads that own the mutex, and the condition variables that a      *)
(* spurious wakeup has left behind.                                        *)
Owners == {t \in Threads : at[t] \in {"in", "woken"}}
Strays == {i \in DOMAIN waiters_ : waiters_[i] = Nobody}

(* Every waiter is in the queue once, and the number of owners is one (when *)
(* the mutex is locked) plus the number of condition variables left behind: *)
(* without spurious wakeups lock() gives exclusion and never loses a        *)
(* hand-over, and after one exclusion is back as soon as its condition      *)
(* variable has left the queue.                                             *)
HandOver ==
    /\ Cardinality(Owners) = Cardinality(Strays) + (IF locked_ THEN 1 ELSE 0)
    /\ \A t \in Threads :
          Cardinality({i \in DOMAIN waiters_ : waiters_[i] = t})
             = IF at[t] = "wait" THEN 1 ELSE 0
    /\ waiters_ # <<>> => locked_
=============================================================================
