---------------------------- MODULE TaskExecutor ----------------------------
(***************************************************************************)
(* What one event loop promises to the threads that hand it work, with no  *)
(* mention of status flags, eventfd or batches.  Every producer has its    *)
(* own first-in first-out line of tasks; the executor takes tasks from the *)
(* head of any line and either runs them or loses them, and it may stop    *)
(* only when it was told to quit and every line is empty.                  *)
(***************************************************************************)
EXTENDS Naturals, Sequences

CONSTANTS Producers,   \* the threads that hand over work, the loop included
          Task,        \* the tasks
          QuitTasks    \* those of them that tell the executor to quit

VARIABLES pending,     \* pending[p]: the tasks p handed over, oldest first
          ran,         \* ran[p]: the tasks of p that were run, in that order
          lost,        \* <<p, task>>: taken from p's line and never run
          quitting,    \* the executor was told to quit
          stopped      \* the executor has returned

absVars == <<pending, ran, lost, quitting, stopped>>

AbsInit ==
    /\ pending = [p \in Producers |-> <<>>]
    /\ ran = [p \in Producers |-> <<>>]
    /\ lost = {}
    /\ quitting = FALSE
    /\ stopped = FALSE

(* Handing work over is always possible, before the start and after the end. *)
HandOver(p, task) ==
    /\ pending' = [pending EXCEPT ![p] = Append(@, task)]
    /\ UNCHANGED <<ran, lost, quitting, stopped>>

Run(p) ==
    /\ ~stopped
    /\ pending[p] # <<>>
    /\ pending' = [pending EXCEPT ![p] = Tail(@)]
    /\ ran' = [ran EXCEPT ![p] = Append(@, Head(pending[p]))]
    /\ quitting' = (quitting \/ Head(pending[p]) \in QuitTasks)
    /\ UNCHANGED <<lost, stopped>>

Lose(p) ==
    /\ ~stopped
    /\ pending[p] # <<>>
    /\ pending' = [pending EXCEPT ![p] = Tail(@)]
    /\ lost' = lost \cup {<<p, Head(pending[p])>>}
    /\ UNCHANGED <<ran, quitting, stopped>>

(* A callback that runs inside the executor tells it to quit. *)
TellQuit ==
    /\ ~stopped
    /\ quitting' = TRUE
    /\ UNCHANGED <<pending, ran, lost, stopped>>

Stop ==
    /\ quitting
    /\ \A p \in Producers : pending[p] = <<>>
    /\ stopped' = TRUE
    /\ UNCHANGED <<pending, ran, lost, quitting>>

AbsNext ==
    \/ \E p \in Producers, task \in Task : HandOver(p, task)
    \/ \E p \in Producers : Run(p) \/ Lose(p)
    \/ TellQuit
    \/ Stop

AbsSpec == AbsInit /\ [][AbsNext]_absVars
=============================================================================
