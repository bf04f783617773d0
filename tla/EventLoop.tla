----------------------------- MODULE EventLoop ------------------------------
(***************************************************************************)
(* One EventLoop: the thread inside EventLoop::loop and the other threads  *)
(* that call submit, DelayedExecution and quit on it.                      *)
(*                                                                         *)
(* status_ is a plain int that only the loop thread writes and every       *)
(* thread reads without a lock, so each read and each write of it is a     *)
(* step of its own.  FunctionList_ is moodycamel's concurrent queue, which *)
(* keeps the order of one producer's tasks and nothing else: one sequence  *)
(* per producer, and the loop takes the head of any of them.  The eventfd  *)
(* is registered with Read|Edge, but Event::value() is handed to epoll_ctl *)
(* as it is and LogicEvent::Edge (1<<7) is not EPOLLET: the descriptor is  *)
(* level-triggered, reported as long as its counter is not zero.           *)
(***************************************************************************)
EXTENDS Naturals, Sequences, FiniteSets

CONSTANTS Threads,      \* the threads other than the loop's own
          LoopThread,   \* the thread that constructed the EventLoop
          Quota,        \* bound: how many tasks each producer enqueues
          BatchLimit,   \* 100 in doPendingFunctions
          Debug         \* TRUE: assert() is compiled in (no -DNDEBUG)

ASSUME LoopAssumption ==
    /\ LoopThread \notin Threads
    /\ Quota \in [Threads \cup {LoopThread} -> Nat]
    /\ BatchLimit \in Nat
    /\ Debug \in BOOLEAN

Producers == Threads \cup {LoopThread}

Flags == {"Init", "Looping", "EventHandling", "PendingFunctions", "Quited"}

(* A task: the id-th its producer enqueued.  "plain" does nothing to the   *)
(* loop, "delay" calls DelayedExecution, "quit" is the closure of quit().  *)
Kinds == {"plain", "delay", "quit"}
Ids   == UNION {1..Quota[p] : p \in Producers}
Task  == [id : Ids, kind : Kinds]

VARIABLES
    status,         \* status_, as the set of its flags
    FunctionList,   \* FunctionList_, one sequence per producer
    counter,        \* the eventfd's counter is not zero
    activeHandlers, \* what the last poll reported and is not handled yet
    FinishNum,      \* doPendingFunctions' count; zero outside of it
    lpc,            \* where the loop thread is
    tpc,            \* where each other thread is
    inQuit,         \* threads whose current call is quit()
    made,           \* tasks each producer has enqueued so far
    ran,            \* history: the tasks run, per producer, in order
    lost,           \* history: <<p, task>> dequeued and never run
    skipped         \* history: what made each thread's last wakeup() not write

vars == <<status, FunctionList, counter, activeHandlers, FinishNum, lpc, tpc,
          inQuit, made, ran, lost, skipped>>
queueVars == <<FunctionList, made, ran, lost>>
threadVars == <<tpc, inQuit, skipped>>

LoopPlaces == {"enter", "start", "while", "poll", "polled", "handle",
               "pending", "dequeue", "callback", "endPending", "drain", "done",
               "abort"}
ThreadPlaces == {"idle", "checkEH", "checkPF", "checkInit", "checkOnly", "enqueue",
                 "wakeEH", "wakePF", "write", "quitWrite", "abort"}

Init ==
    /\ status = {"Init"}
    /\ FunctionList = [p \in Producers |-> <<>>]
    /\ counter = FALSE
    /\ activeHandlers = {}
    /\ FinishNum = 0
    /\ lpc = "enter"
    /\ tpc = [t \in Threads |-> "idle"]
    /\ inQuit = {}
    /\ made = [p \in Producers |-> 0]
    /\ ran = [p \in Producers |-> <<>>]
    /\ lost = {}
    /\ skipped = [t \in Threads |-> "none"]

-----------------------------------------------------------------------------
(* The process is alive: a failed assert() has not aborted it. *)
Running == lpc # "abort" /\ \A t \in Threads : tpc[t] # "abort"

QueueEmpty == \A p \in Producers : FunctionList[p] = <<>>

(* FunctionList_.enqueue by producer p. *)
Enqueue(p, kind) ==
    /\ made[p] < Quota[p]
    /\ made' = [made EXCEPT ![p] = @ + 1]
    /\ FunctionList' = [FunctionList EXCEPT
                          ![p] = Append(@, [id |-> made[p] + 1, kind |-> kind])]
    /\ UNCHANGED <<ran, lost>>

(* CheckeEventLoopStatus, evaluated by the loop thread itself. *)
CheckeEventLoopStatus ==
    /\ ~({"EventHandling", "PendingFunctions"} \subseteq status)
    /\ "Init" \in status => status = {"Init"}

(* wakeup() called on the loop thread: no other thread writes status_. *)
WakeupInLoop ==
    counter' = (counter \/ status \cap {"EventHandling", "PendingFunctions"} = {})

-----------------------------------------------------------------------------
(* The loop thread. *)

(* loop(): status_ &= ~Init *)
LoopEnter ==
    /\ lpc = "enter"
    /\ status' = status \ {"Init"}
    /\ lpc' = "start"
    /\ UNCHANGED <<counter, activeHandlers, FinishNum, queueVars, threadVars>>

(* loop(): status_ |= Looping, and the assert behind it *)
LoopStart ==
    /\ lpc = "start"
    /\ status' = status \cup {"Looping"}
    /\ lpc' = IF Debug /\ ~CheckeEventLoopStatus' THEN "abort" ELSE "while"
    /\ UNCHANGED <<counter, activeHandlers, FinishNum, queueVars, threadVars>>

(* Mutant of WhileLooping: the loop condition tests Quited. *)
WhileNotQuited ==
    /\ lpc = "while"
    /\ lpc' = IF "Quited" \notin status THEN "poll" ELSE "drain"
    /\ activeHandlers' = {}
    /\ UNCHANGED <<status, counter, FinishNum, queueVars, threadVars>>

(* while(status_ & Looping): poll again, or leave for the drain loop *)
WhileLooping ==
    /\ lpc = "while"
    /\ lpc' = IF "Looping" \in status THEN "poll" ELSE "drain"
    /\ activeHandlers' = {}
    /\ UNCHANGED <<status, counter, FinishNum, queueVars, threadVars>>

(* Mutant of PollReturn: no timeout, and no other descriptor ever reports. *)
PollWithoutTimeout(io) ==
    /\ lpc = "poll"
    /\ counter
    /\ activeHandlers' = {"wake"}
    /\ lpc' = "polled"
    /\ UNCHANGED <<status, counter, FinishNum, queueVars, threadVars>>

(* epoll_wait returns: the wake handler when the counter is not zero, with *)
(* or without another descriptor, or nothing when PollTimeMs have passed.  *)
PollReturn(io) ==
    /\ lpc = "poll"
    /\ activeHandlers' = (IF counter THEN {"wake"} ELSE {}) \cup
                         (IF io THEN {"io"} ELSE {})
    /\ lpc' = "polled"
    /\ UNCHANGED <<status, counter, FinishNum, queueVars, threadVars>>

SetEventHandling ==
    /\ lpc = "polled"
    /\ status' = status \cup {"EventHandling"}
    /\ lpc' = IF Debug /\ ~CheckeEventLoopStatus' THEN "abort" ELSE "handle"
    /\ UNCHANGED <<counter, activeHandlers, FinishNum, queueVars, threadVars>>

(* wakeHandler_'s read callback: read() empties the counter, and fails on  *)
(* an empty one.                                                           *)
HandleWake ==
    /\ lpc = "handle"
    /\ "wake" \in activeHandlers
    /\ counter' = FALSE
    /\ activeHandlers' = activeHandlers \ {"wake"}
    /\ lpc' = IF Debug /\ ~counter THEN "abort" ELSE "handle"
    /\ UNCHANGED <<status, FinishNum, queueVars, threadVars>>

(* Another handler's callback: it does nothing to the loop, or ... *)
HandleIo ==
    /\ lpc = "handle"
    /\ "io" \in activeHandlers
    /\ activeHandlers' = activeHandlers \ {"io"}
    /\ UNCHANGED <<status, counter, FinishNum, lpc, queueVars, threadVars>>

(* ... it calls DelayedExecution, or ... *)
HandleIoDelays ==
    /\ lpc = "handle"
    /\ "io" \in activeHandlers
    /\ activeHandlers' = activeHandlers \ {"io"}
    /\ Enqueue(LoopThread, "plain")
    /\ WakeupInLoop
    /\ UNCHANGED <<status, FinishNum, lpc, threadVars>>

(* ... it calls quit(): submit runs the closure at once on this thread,    *)
(* then the eventfd is written.                                            *)
HandleIoQuits ==
    /\ lpc = "handle"
    /\ "io" \in activeHandlers
    /\ activeHandlers' = activeHandlers \ {"io"}
    /\ IF Debug /\ ~CheckeEventLoopStatus
         THEN lpc' = "abort" /\ UNCHANGED <<status, counter>>
         ELSE /\ status' = status \ {"Looping"}
              /\ counter' = TRUE
              /\ UNCHANGED lpc
    /\ UNCHANGED <<FinishNum, queueVars, threadVars>>

ClearEventHandling ==
    /\ lpc = "handle"
    /\ activeHandlers = {}
    /\ status' = status \ {"EventHandling"}
    /\ lpc' = IF Debug /\ "EventHandling" \notin status THEN "abort" ELSE "pending"
    /\ UNCHANGED <<counter, activeHandlers, FinishNum, queueVars, threadVars>>

SetPendingFunctions ==
    /\ lpc = "pending"
    /\ status' = status \cup {"PendingFunctions"}
    /\ lpc' = "dequeue"
    /\ UNCHANGED <<counter, activeHandlers, FinishNum, queueVars, threadVars>>

(* try_dequeue finds nothing. *)
DequeueNothing ==
    /\ lpc = "dequeue"
    /\ QueueEmpty
    /\ lpc' = "endPending"
    /\ UNCHANGED <<status, counter, activeHandlers, FinishNum, queueVars, threadVars>>

(* try_dequeue takes a task and FinishNum is below the limit: run it. *)
DequeueAndRun(p) ==
    /\ lpc = "dequeue"
    /\ FunctionList[p] # <<>>
    /\ FinishNum < BatchLimit
    /\ FinishNum' = FinishNum + 1
    /\ FunctionList' = [FunctionList EXCEPT ![p] = Tail(@)]
    /\ ran' = [ran EXCEPT ![p] = Append(@, Head(FunctionList[p]))]
    /\ LET kind == Head(FunctionList[p]).kind
       IN /\ status' = IF kind = "quit" THEN status \ {"Looping"} ELSE status
          /\ lpc' = IF kind = "delay" THEN "callback" ELSE lpc
    /\ UNCHANGED <<counter, activeHandlers, made, lost, threadVars>>

(* The task that runs calls DelayedExecution. *)
CallbackDelays ==
    /\ lpc = "callback"
    /\ \/ Enqueue(LoopThread, "plain") /\ WakeupInLoop
       \/ made[LoopThread] = Quota[LoopThread] /\ UNCHANGED <<queueVars, counter>>
    /\ lpc' = "dequeue"
    /\ UNCHANGED <<status, activeHandlers, FinishNum, threadVars>>

(* try_dequeue takes a task, then FinishNum<100 fails: cb is destroyed     *)
(* without having been called.                                             *)
DequeueAndLose(p) ==
    /\ lpc = "dequeue"
    /\ FunctionList[p] # <<>>
    /\ FinishNum >= BatchLimit
    /\ FunctionList' = [FunctionList EXCEPT ![p] = Tail(@)]
    /\ lost' = lost \cup {<<p, Head(FunctionList[p])>>}
    /\ lpc' = "endPending"
    /\ UNCHANGED <<status, counter, activeHandlers, FinishNum, made, ran, threadVars>>

(* Mutant of ClearPendingFunctions: the flag is not reset. *)
KeepPendingFunctions ==
    /\ lpc = "endPending"
    /\ FinishNum' = 0
    /\ lpc' = "while"
    /\ UNCHANGED <<status, counter, activeHandlers, queueVars, threadVars>>

(* Back to the loop it was called from.  Looping is never set again, so    *)
(* from the drain loop the test of WhileLooping only passes through.       *)
ClearPendingFunctions ==
    /\ lpc = "endPending"
    /\ status' = status \ {"PendingFunctions"}
    /\ FinishNum' = 0
    /\ lpc' = "while"
    /\ UNCHANGED <<counter, activeHandlers, queueVars, threadVars>>

(* Mutant of Drain: loop() returns without draining the queue. *)
ReturnUndrained ==
    /\ lpc = "drain"
    /\ status' = {"Quited"}
    /\ lpc' = "done"
    /\ UNCHANGED <<counter, activeHandlers, FinishNum, queueVars, threadVars>>

(* while(FunctionList_.size_approx()!=0) doPendingFunctions(); Quited *)
Drain ==
    /\ lpc = "drain"
    /\ IF QueueEmpty
         THEN status' = {"Quited"} /\ lpc' = "done"
         ELSE lpc' = "pending" /\ UNCHANGED status
    /\ UNCHANGED <<counter, activeHandlers, FinishNum, queueVars, threadVars>>

LoopStep ==
    \/ LoopEnter \/ LoopStart \/ WhileLooping
    \/ \E io \in BOOLEAN : PollReturn(io)
    \/ SetEventHandling \/ HandleWake \/ HandleIo \/ HandleIoDelays \/ HandleIoQuits
    \/ ClearEventHandling \/ SetPendingFunctions \/ DequeueNothing
    \/ \E p \in Producers : DequeueAndRun(p) \/ DequeueAndLose(p)
    \/ CallbackDelays \/ ClearPendingFunctions \/ Drain

-----------------------------------------------------------------------------
(* The other threads. *)
loopVars == <<status, activeHandlers, FinishNum, lpc>>

Goto(t, place) == tpc' = [tpc EXCEPT ![t] = place]

(* submit() or DelayedExecution() from another thread: the enqueue *)
Submit(t, kind) ==
    /\ tpc[t] = "idle"
    /\ Enqueue(t, kind)
    /\ skipped' = [skipped EXCEPT ![t] = "none"]
    /\ Goto(t, "wakeEH")
    /\ UNCHANGED <<loopVars, counter, inQuit>>

(* quit(): assert(CheckeEventLoopStatus()) reads status_ up to four times *)
Quit(t) ==
    /\ tpc[t] = "idle"
    /\ made[t] < Quota[t]
    /\ inQuit' = inQuit \cup {t}
    /\ Goto(t, IF Debug THEN "checkEH" ELSE "enqueue")
    /\ UNCHANGED <<loopVars, counter, queueVars, skipped>>

CheckEventHandling(t) ==
    /\ tpc[t] = "checkEH"
    /\ Goto(t, IF "EventHandling" \in status THEN "checkPF" ELSE "checkInit")
    /\ UNCHANGED <<loopVars, counter, queueVars, inQuit, skipped>>

CheckPendingFunctions(t) ==
    /\ tpc[t] = "checkPF"
    /\ Goto(t, IF "PendingFunctions" \in status THEN "abort" ELSE "checkInit")
    /\ UNCHANGED <<loopVars, counter, queueVars, inQuit, skipped>>

CheckInit(t) ==
    /\ tpc[t] = "checkInit"
    /\ Goto(t, IF "Init" \in status THEN "checkOnly" ELSE "enqueue")
    /\ UNCHANGED <<loopVars, counter, queueVars, inQuit, skipped>>

CheckOnlyInit(t) ==
    /\ tpc[t] = "checkOnly"
    /\ Goto(t, IF status # {"Init"} THEN "abort" ELSE "enqueue")
    /\ UNCHANGED <<loopVars, counter, queueVars, inQuit, skipped>>

EnqueueQuit(t) ==
    /\ tpc[t] = "enqueue"
    /\ Enqueue(t, "quit")
    /\ skipped' = [skipped EXCEPT ![t] = "none"]
    /\ Goto(t, "wakeEH")
    /\ UNCHANGED <<loopVars, counter, inQuit>>

(* Where wakeup() returns to: quit() goes on, submit() is over. *)
AfterWakeup(t) == IF t \in inQuit THEN "quitWrite" ELSE "idle"

(* Mutant of WakeupEventHandling: it tests Looping instead. *)
WakeupTestsLooping(t) ==
    /\ tpc[t] = "wakeEH"
    /\ IF "Looping" \in status
         THEN /\ skipped' = [skipped EXCEPT ![t] = "EventHandling"]
              /\ Goto(t, AfterWakeup(t))
         ELSE Goto(t, "wakePF") /\ UNCHANGED skipped
    /\ UNCHANGED <<loopVars, counter, queueVars, inQuit>>

(* wakeup() reads status_ & EventHandling ... *)
WakeupEventHandling(t) ==
    /\ tpc[t] = "wakeEH"
    /\ IF "EventHandling" \in status
         THEN /\ skipped' = [skipped EXCEPT ![t] = "EventHandling"]
              /\ Goto(t, AfterWakeup(t))
         ELSE Goto(t, "wakePF") /\ UNCHANGED skipped
    /\ UNCHANGED <<loopVars, counter, queueVars, inQuit>>

(* ... then status_ & PendingFunctions ... *)
WakeupPendingFunctions(t) ==
    /\ tpc[t] = "wakePF"
    /\ IF "PendingFunctions" \in status
         THEN /\ skipped' = [skipped EXCEPT ![t] = "PendingFunctions"]
              /\ Goto(t, AfterWakeup(t))
         ELSE Goto(t, "write") /\ UNCHANGED skipped
    /\ UNCHANGED <<loopVars, counter, queueVars, inQuit>>

(* ... and writes the eventfd. *)
WakeupWrite(t) ==
    /\ tpc[t] = "write"
    /\ counter' = TRUE
    /\ Goto(t, AfterWakeup(t))
    /\ UNCHANGED <<loopVars, queueVars, inQuit, skipped>>

(* Mutant of QuitWrite: quit() trusts the wakeup() inside submit(). *)
QuitWithoutWrite(t) ==
    /\ tpc[t] = "quitWrite"
    /\ inQuit' = inQuit \ {t}
    /\ Goto(t, "idle")
    /\ UNCHANGED <<loopVars, counter, queueVars, skipped>>

(* quit() writes the eventfd whatever wakeup() did. *)
QuitWrite(t) ==
    /\ tpc[t] = "quitWrite"
    /\ counter' = TRUE
    /\ inQuit' = inQuit \ {t}
    /\ Goto(t, "idle")
    /\ UNCHANGED <<loopVars, queueVars, skipped>>

InCall(t) ==
    \/ CheckEventHandling(t) \/ CheckPendingFunctions(t)
    \/ CheckInit(t) \/ CheckOnlyInit(t) \/ EnqueueQuit(t)
    \/ WakeupEventHandling(t) \/ WakeupPendingFunctions(t)
    \/ WakeupWrite(t) \/ QuitWrite(t)

ThreadStep(t) ==
    \/ \E kind \in {"plain", "delay"} : Submit(t, kind)
    \/ Quit(t)
    \/ InCall(t)

Next == Running /\ (LoopStep \/ \E t \in Threads : ThreadStep(t))

Spec == Init /\ [][Next]_vars

(* The loop thread keeps running: every step of it is computation or an    *)
(* epoll_wait that PollTimeMs bounds.  A thread inside a call finishes it. *)
(* Nobody has to call anything.                                            *)
Fairness ==
    /\ WF_vars(Running /\ LoopStep)
    /\ \A t \in Threads : WF_vars(Running /\ InCall(t))

FairSpec == Spec /\ Fairness

-----------------------------------------------------------------------------
(* Properties. *)

(* Type correctness. *)
TypeOK ==
    /\ status \subseteq Flags
    /\ FunctionList \in [Producers -> Seq(Task)]
    /\ counter \in BOOLEAN
    /\ activeHandlers \subseteq {"wake", "io"}
    /\ FinishNum \in Nat
    /\ lpc \in LoopPlaces
    /\ tpc \in [Threads -> ThreadPlaces]
    /\ inQuit \subseteq Threads
    /\ made \in [Producers -> Nat] /\ \A p \in Producers : made[p] <= Quota[p]
    /\ ran \in [Producers -> Seq(Task)]
    /\ lost \subseteq Producers \X Task
    /\ skipped \in [Threads -> {"none", "EventHandling", "PendingFunctions"}]

(* No assert() that the loop thread evaluates ever fails: the flags it     *)
(* sets and clears around poll, handlers and pending functions never       *)
(* contradict each other, and whenever the wake handler runs its read()    *)
(* finds the counter not zero, although other threads write the eventfd    *)
(* at any moment and quit() may come before loop() or inside a handler.    *)
LoopAssertsHold == lpc # "abort"

(* Threads that are still inside the wakeup() of their last enqueue. *)
WakePlaces == {"wakeEH", "wakePF", "write"}

(* wakeup() does not write while EventHandling or PendingFunctions is set. *)
(* As long as no batch overflowed, the loop goes to sleep in poll with the *)
(* counter at zero and a finished thread's task queued only if that        *)
(* thread's wakeup() saw PendingFunctions: the omission for EventHandling  *)
(* never delays a task, and what the loop's own callbacks enqueue never    *)
(* waits for a poll.                                                       *)
StallOnlyAfterPendingSkip ==
    lpc = "poll" /\ ~counter /\ lost = {} =>
        /\ FunctionList[LoopThread] = <<>>
        /\ \A t \in Threads :
              FunctionList[t] # <<>> =>
                  tpc[t] \in WakePlaces \/ skipped[t] = "PendingFunctions"

(* quit() writes the eventfd a second time, unconditionally, so once it    *)
(* has returned the loop never sleeps in poll with the quit task queued    *)
(* and the counter at zero (as long as no batch overflowed): quitting is   *)
(* never left to the poll timeout, whatever flags wakeup() saw.            *)
QuitIsSignalled ==
    lpc = "poll" /\ ~counter /\ lost = {} =>
        \A t \in Threads \ inQuit : \A i \in 1..Len(FunctionList[t]) :
            FunctionList[t][i].kind # "quit"

(* The loop keeps the promise of TaskExecutor: per producer, tasks leave   *)
(* the queue in the order they were handed over, each is run at most once, *)
(* and loop() returns only when it was told to quit and nothing is queued. *)
told == lpc \notin {"enter", "start"} /\ "Looping" \notin status
Executor == INSTANCE TaskExecutor
              WITH pending <- FunctionList, quitting <- told, stopped <- (lpc = "done"),
                   QuitTasks <- [id : Ids, kind : {"quit"}]
ImplementsExecutor == Executor!AbsSpec

(* The process aborted on a failed assert. *)
Aborted == ~Running

(* A quit() that was enqueued ends the loop, wherever the loop was then,   *)
(* before its first iteration included, unless the batch limit swallowed   *)
(* a task or an assert ended the process.                                  *)
QuitTerminates ==
    \A t \in Threads :
        (t \in inQuit /\ tpc[t] = "wakeEH") ~> (lpc = "done" \/ lost # {} \/ Aborted)

(* Whatever is queued is eventually taken out of the queue, even the task  *)
(* whose wakeup was omitted (the poll timeout finds it), unless the loop   *)
(* has returned.                                                           *)
QueueIsServed ==
    \A p \in Producers :
        (FunctionList[p] # <<>>) ~> (FunctionList[p] = <<>> \/ lpc = "done" \/ Aborted)

(* README: the queue design guarantees that tasks are not lost. *)
NoTaskLost == lost = {}
=============================================================================
