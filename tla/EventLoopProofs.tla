-------------------------- MODULE EventLoopProofs ---------------------------
(***************************************************************************)
(* Proofs about EventLoop for any number of threads, any number of tasks   *)
(* and any batch limit, with asserts compiled in or not.                   *)
(***************************************************************************)
EXTENDS EventLoop, TLAPS

(* Which flags are set is decided by where the loop thread is, and the     *)
(* wake handler is only active while the counter is not zero.              *)
FlagsInv ==
    /\ lpc # "abort"
    /\ "EventHandling" \in status <=> lpc = "handle"
    /\ "PendingFunctions" \in status <=> lpc \in {"dequeue", "callback", "endPending"}
    /\ "Init" \in status <=> lpc = "enter"
    /\ lpc = "enter" => status = {"Init"}
    /\ lpc = "drain" => "Looping" \notin status
    /\ "wake" \in activeHandlers => counter

(* A thread inside quit() is recorded in inQuit until it returns. *)
CallInv ==
    \A t \in Threads :
        /\ tpc[t] \in {"checkEH", "checkPF", "checkInit", "checkOnly", "enqueue"}
             => t \in inQuit
        /\ tpc[t] = "idle" => t \notin inQuit

(* The loop will reach try_dequeue before it can block in poll. *)
WillDequeue == lpc \in {"polled", "handle", "pending", "dequeue", "callback"}

(* What is queued is noticed: the loop is on its way to the queue, or the  *)
(* counter is set, or the thread is about to set it -- or wakeup() saw     *)
(* PendingFunctions.                                                       *)
TaskNoticed(t) ==
    FunctionList[t] # <<>> =>
        WillDequeue \/ counter \/ tpc[t] \in WakePlaces \/ skipped[t] = "PendingFunctions"

QuitNoticed(t) ==
    \A i \in 1..Len(FunctionList[t]) :
        FunctionList[t][i].kind = "quit" =>
            \/ WillDequeue
            \/ counter
            \/ t \in inQuit /\ tpc[t] \in WakePlaces \cup {"quitWrite"}

NoticeInv ==
    lost = {} =>
        /\ FunctionList[LoopThread] # <<>> => WillDequeue
        /\ \A t \in Threads : TaskNoticed(t) /\ QuitNoticed(t)

IInv == TypeOK /\ FlagsInv /\ CallInv /\ NoticeInv

-----------------------------------------------------------------------------
(* Type correctness. *)

(* What enqueueing a task does to the queue variables: they stay well      *)
(* typed.  This is FunctionList_.enqueue in submit and DelayedExecution.   *)
LEMMA EnqueueTypes ==
    ASSUME TypeOK, NEW p \in Producers, NEW kind \in Kinds, Enqueue(p, kind)
    PROVE  /\ FunctionList' \in [Producers -> Seq(Task)]
           /\ made' \in [Producers -> Nat]
           /\ \A q \in Producers : made'[q] <= Quota[q]
<1>1. Quota \in [Producers -> Nat]
  BY LoopAssumption DEF Producers
<1>2. /\ made' = [made EXCEPT ![p] = @ + 1]
      /\ made[p] < Quota[p]
      /\ made \in [Producers -> Nat]
      /\ \A q \in Producers : made[q] <= Quota[q]
  BY DEF Enqueue, TypeOK
<1>3. made' \in [Producers -> Nat] /\ \A q \in Producers : made'[q] <= Quota[q]
  BY <1>1, <1>2
<1>4. made[p] + 1 \in Ids
  BY <1>1, <1>2 DEF Ids
<1>5. [id |-> made[p] + 1, kind |-> kind] \in Task
  BY <1>4 DEF Task
<1>6. FunctionList' \in [Producers -> Seq(Task)]
  BY <1>5 DEF Enqueue, TypeOK
<1> QED
  BY <1>3, <1>6

(* A step of the loop thread keeps the types. *)
LEMMA LoopStepTypes ==
    ASSUME TypeOK, LoopStep
    PROVE  TypeOK'
<1> USE DEF Flags, LoopPlaces, queueVars, threadVars
<1>1. CASE LoopEnter
  BY <1>1 DEF LoopEnter, TypeOK
<1>2. CASE LoopStart
  BY <1>2 DEF LoopStart, TypeOK
<1>3. CASE WhileLooping
  BY <1>3 DEF WhileLooping, TypeOK
<1>4. ASSUME NEW io \in BOOLEAN, PollReturn(io)
      PROVE  TypeOK'
  BY <1>4 DEF PollReturn, TypeOK
<1>5. CASE SetEventHandling
  BY <1>5 DEF SetEventHandling, TypeOK
<1>6. CASE HandleWake
  BY <1>6 DEF HandleWake, TypeOK
<1>7. CASE HandleIo
  BY <1>7 DEF HandleIo, TypeOK
<1>8. CASE HandleIoDelays
  <2>1. Enqueue(LoopThread, "plain") /\ LoopThread \in Producers /\ "plain" \in Kinds
    BY <1>8 DEF HandleIoDelays, Producers, Kinds
  <2>2. counter' \in BOOLEAN
    BY <1>8 DEF HandleIoDelays, WakeupInLoop
  <2> QED
    BY <1>8, <2>1, <2>2, EnqueueTypes DEF HandleIoDelays, TypeOK, Enqueue
<1>9. CASE HandleIoQuits
  BY <1>9 DEF HandleIoQuits, TypeOK
<1>10. CASE ClearEventHandling
  BY <1>10 DEF ClearEventHandling, TypeOK
<1>11. CASE SetPendingFunctions
  BY <1>11 DEF SetPendingFunctions, TypeOK
<1>12. CASE DequeueNothing
  BY <1>12 DEF DequeueNothing, TypeOK
<1>13. ASSUME NEW p \in Producers, DequeueAndRun(p)
       PROVE  TypeOK'
  <2>1. Head(FunctionList[p]) \in Task /\ Tail(FunctionList[p]) \in Seq(Task)
    BY <1>13 DEF DequeueAndRun, TypeOK
  <2> QED
    BY <1>13, <2>1 DEF DequeueAndRun, TypeOK
<1>14. ASSUME NEW p \in Producers, DequeueAndLose(p)
       PROVE  TypeOK'
  <2>1. Head(FunctionList[p]) \in Task /\ Tail(FunctionList[p]) \in Seq(Task)
    BY <1>14 DEF DequeueAndLose, TypeOK
  <2> QED
    BY <1>14, <2>1 DEF DequeueAndLose, TypeOK
<1>15. CASE CallbackDelays
  <2>1. LoopThread \in Producers /\ "plain" \in Kinds
    BY DEF Producers, Kinds
  <2>2. CASE Enqueue(LoopThread, "plain") /\ WakeupInLoop
    <3>1. counter' \in BOOLEAN
      BY <2>2 DEF WakeupInLoop
    <3> QED
      BY <1>15, <2>1, <2>2, <3>1, EnqueueTypes DEF CallbackDelays, TypeOK, Enqueue
  <2>3. CASE UNCHANGED <<queueVars, counter>>
    BY <1>15, <2>3 DEF CallbackDelays, TypeOK
  <2> QED
    BY <1>15, <2>2, <2>3 DEF CallbackDelays
<1>16. CASE ClearPendingFunctions
  BY <1>16 DEF ClearPendingFunctions, TypeOK
<1>17. CASE Drain
  BY <1>17 DEF Drain, TypeOK
<1> QED
  BY <1>1, <1>2, <1>3, <1>4, <1>5, <1>6, <1>7, <1>8, <1>9, <1>10, <1>11, <1>12,
     <1>13, <1>14, <1>15, <1>16, <1>17 DEF LoopStep

(* A step of another thread keeps the types. *)
LEMMA ThreadStepTypes ==
    ASSUME TypeOK, NEW t \in Threads, ThreadStep(t)
    PROVE  TypeOK'
<1> USE DEF ThreadPlaces, queueVars, loopVars, Goto
<1>0. t \in Producers
  BY DEF Producers
<1>1. ASSUME NEW kind \in {"plain", "delay"}, Submit(t, kind)
      PROVE  TypeOK'
  <2>1. kind \in Kinds /\ Enqueue(t, kind)
    BY <1>1 DEF Submit, Kinds
  <2> QED
    BY <1>0, <1>1, <2>1, EnqueueTypes DEF Submit, TypeOK, Enqueue
<1>2. CASE Quit(t)
  BY <1>2 DEF Quit, TypeOK
<1>3. CASE CheckEventHandling(t)
  BY <1>3 DEF CheckEventHandling, TypeOK
<1>4. CASE CheckPendingFunctions(t)
  BY <1>4 DEF CheckPendingFunctions, TypeOK
<1>5. CASE CheckInit(t)
  BY <1>5 DEF CheckInit, TypeOK
<1>6. CASE CheckOnlyInit(t)
  BY <1>6 DEF CheckOnlyInit, TypeOK
<1>7. CASE EnqueueQuit(t)
  <2>1. "quit" \in Kinds /\ Enqueue(t, "quit")
    BY <1>7 DEF EnqueueQuit, Kinds
  <2> QED
    BY <1>0, <1>7, <2>1, EnqueueTypes DEF EnqueueQuit, TypeOK, Enqueue
<1>8. CASE WakeupEventHandling(t)
  BY <1>8 DEF WakeupEventHandling, AfterWakeup, TypeOK
<1>9. CASE WakeupPendingFunctions(t)
  BY <1>9 DEF WakeupPendingFunctions, AfterWakeup, TypeOK
<1>10. CASE WakeupWrite(t)
  BY <1>10 DEF WakeupWrite, AfterWakeup, TypeOK
<1>11. CASE QuitWrite(t)
  BY <1>11 DEF QuitWrite, TypeOK
<1> QED
  BY <1>1, <1>2, <1>3, <1>4, <1>5, <1>6, <1>7, <1>8, <1>9, <1>10, <1>11
     DEF ThreadStep, InCall

LEMMA InitTypes == Init => TypeOK
<1> SUFFICES ASSUME Init
             PROVE  TypeOK
  OBVIOUS
<1>1. \A p \in Producers : Quota[p] \in Nat
  BY LoopAssumption DEF Producers
<1>2. made \in [Producers -> Nat] /\ \A p \in Producers : made[p] <= Quota[p]
  BY <1>1 DEF Init
<1>3. status \subseteq Flags /\ activeHandlers \subseteq {"wake", "io"} /\ FinishNum \in Nat
  BY DEF Init, Flags
<1>4. FunctionList \in [Producers -> Seq(Task)] /\ ran \in [Producers -> Seq(Task)]
  BY DEF Init
<1>5. /\ lpc \in LoopPlaces /\ tpc \in [Threads -> ThreadPlaces]
      /\ inQuit \subseteq Threads /\ lost \subseteq Producers \X Task
      /\ skipped \in [Threads -> {"none", "EventHandling", "PendingFunctions"}]
  BY DEF Init, LoopPlaces, ThreadPlaces
<1>6. counter \in BOOLEAN
  BY DEF Init
<1> QED
  BY <1>2, <1>3, <1>4, <1>5, <1>6 DEF TypeOK

(* The variables of the loop and of its callers keep their types in every  *)
(* reachable state.                                                        *)
THEOREM TypeCorrect == Spec => []TypeOK
<1>1. Init => TypeOK
  BY InitTypes
<1>2. TypeOK /\ [Next]_vars => TypeOK'
  <2> SUFFICES ASSUME TypeOK, [Next]_vars
               PROVE  TypeOK'
    OBVIOUS
  <2>1. CASE UNCHANGED vars
    BY <2>1 DEF vars, TypeOK
  <2>2. CASE Next
    BY <2>2, LoopStepTypes, ThreadStepTypes DEF Next
  <2> QED
    BY <2>1, <2>2
<1> QED
  BY <1>1, <1>2, PTL DEF Spec

-----------------------------------------------------------------------------
(* The flags agree with the place of the loop thread. *)

LEMMA LoopStepFlags ==
    ASSUME TypeOK, FlagsInv, LoopStep
    PROVE  FlagsInv'
<1> USE DEF FlagsInv, queueVars, threadVars, CheckeEventLoopStatus
<1>1. CASE LoopEnter
  BY <1>1 DEF LoopEnter
<1>2. CASE LoopStart
  BY <1>2 DEF LoopStart
<1>3. CASE WhileLooping
  BY <1>3 DEF WhileLooping
<1>4. ASSUME NEW io \in BOOLEAN, PollReturn(io)
      PROVE  FlagsInv'
  BY <1>4 DEF PollReturn
<1>5. CASE SetEventHandling
  BY <1>5 DEF SetEventHandling
<1>6. CASE HandleWake
  BY <1>6 DEF HandleWake
<1>7. CASE HandleIo
  BY <1>7 DEF HandleIo
<1>8. CASE HandleIoDelays
  BY <1>8 DEF HandleIoDelays, WakeupInLoop
<1>9. CASE HandleIoQuits
  BY <1>9 DEF HandleIoQuits
<1>10. CASE ClearEventHandling
  BY <1>10 DEF ClearEventHandling
<1>11. CASE SetPendingFunctions
  BY <1>11 DEF SetPendingFunctions
<1>12. CASE DequeueNothing
  BY <1>12 DEF DequeueNothing
<1>13. ASSUME NEW p \in Producers, DequeueAndRun(p)
       PROVE  FlagsInv'
  BY <1>13 DEF DequeueAndRun
<1>14. ASSUME NEW p \in Producers, DequeueAndLose(p)
       PROVE  FlagsInv'
  BY <1>14 DEF DequeueAndLose
<1>15. CASE CallbackDelays
  BY <1>15 DEF CallbackDelays, WakeupInLoop
<1>16. CASE ClearPendingFunctions
  BY <1>16 DEF ClearPendingFunctions
<1>17. CASE Drain
  BY <1>17 DEF Drain
<1> QED
  BY <1>1, <1>2, <1>3, <1>4, <1>5, <1>6, <1>7, <1>8, <1>9, <1>10, <1>11, <1>12,
     <1>13, <1>14, <1>15, <1>16, <1>17 DEF LoopStep

(* Another thread leaves the loop's variables alone and at most sets the   *)
(* counter.                                                                *)
LEMMA ThreadStepFrame ==
    ASSUME NEW t \in Threads, ThreadStep(t)
    PROVE  UNCHANGED <<loopVars, lost>> /\ (counter => counter')
BY DEF ThreadStep, InCall, Submit, Quit, CheckEventHandling, CheckPendingFunctions,
       CheckInit, CheckOnlyInit, EnqueueQuit, WakeupEventHandling,
       WakeupPendingFunctions, WakeupWrite, QuitWrite, Enqueue, loopVars, queueVars

LEMMA ThreadStepFlags ==
    ASSUME FlagsInv, NEW t \in Threads, ThreadStep(t)
    PROVE  FlagsInv'
BY ThreadStepFrame DEF FlagsInv, loopVars

-----------------------------------------------------------------------------
(* Calls of quit() are recorded. *)

LEMMA LoopStepFrame ==
    ASSUME LoopStep
    PROVE  UNCHANGED threadVars
BY DEF LoopStep, LoopEnter, LoopStart, WhileLooping, PollReturn, SetEventHandling,
       HandleWake, HandleIo, HandleIoDelays, HandleIoQuits, ClearEventHandling,
       SetPendingFunctions, DequeueNothing, DequeueAndRun, DequeueAndLose,
       CallbackDelays, ClearPendingFunctions, Drain

LEMMA ThreadStepCalls ==
    ASSUME TypeOK, CallInv, NEW t \in Threads, ThreadStep(t)
    PROVE  CallInv'
<1> USE DEF CallInv, TypeOK, Goto
<1>1. ASSUME NEW kind \in {"plain", "delay"}, Submit(t, kind)
      PROVE  CallInv'
  BY <1>1 DEF Submit
<1>2. CASE Quit(t)
  BY <1>2 DEF Quit
<1>3. CASE CheckEventHandling(t) \/ CheckPendingFunctions(t) \/ CheckInit(t) \/ CheckOnlyInit(t)
  BY <1>3 DEF CheckEventHandling, CheckPendingFunctions, CheckInit, CheckOnlyInit
<1>4. CASE EnqueueQuit(t)
  BY <1>4 DEF EnqueueQuit
<1>5. CASE WakeupEventHandling(t) \/ WakeupPendingFunctions(t) \/ WakeupWrite(t)
  BY <1>5 DEF WakeupEventHandling, WakeupPendingFunctions, WakeupWrite, AfterWakeup
<1>6. CASE QuitWrite(t)
  BY <1>6 DEF QuitWrite
<1> QED
  BY <1>1, <1>2, <1>3, <1>4, <1>5, <1>6 DEF ThreadStep, InCall

-----------------------------------------------------------------------------
(* What is queued is noticed. *)

(* A step that leaves queue and threads alone, does not turn back on the   *)
(* way to the queue and empties the counter only on that way.              *)
LEMMA NoticeFrame ==
    ASSUME NoticeInv, UNCHANGED <<FunctionList, lost>>, UNCHANGED threadVars,
           WillDequeue => WillDequeue', counter => counter' \/ WillDequeue'
    PROVE  NoticeInv'
BY DEF NoticeInv, TaskNoticed, QuitNoticed, threadVars

(* While the loop is on its way to the queue everything is noticed. *)
LEMMA NoticeOnTheWay ==
    ASSUME WillDequeue
    PROVE  NoticeInv
BY DEF NoticeInv, TaskNoticed, QuitNoticed

LEMMA LoopStepNotice ==
    ASSUME TypeOK, FlagsInv, NoticeInv, LoopStep
    PROVE  NoticeInv'
<1> USE DEF queueVars
<1>1. CASE LoopEnter \/ LoopStart \/ WhileLooping
  <2>1. WillDequeue => WillDequeue'
    BY <1>1 DEF LoopEnter, LoopStart, WhileLooping, WillDequeue
  <2> QED
    BY <1>1, <2>1, NoticeFrame DEF LoopEnter, LoopStart, WhileLooping
<1>2. CASE \/ \E io \in BOOLEAN : PollReturn(io)
           \/ SetEventHandling \/ HandleWake \/ HandleIo \/ HandleIoDelays
           \/ HandleIoQuits \/ ClearEventHandling \/ SetPendingFunctions
           \/ \E p \in Producers : DequeueAndRun(p)
           \/ CallbackDelays
  <2>1. lpc' # "abort"
    BY LoopStepFlags DEF FlagsInv
  <2>2. WillDequeue'
    BY <1>2, <2>1 DEF WillDequeue, PollReturn, SetEventHandling, HandleWake, HandleIo,
       HandleIoDelays, HandleIoQuits, ClearEventHandling, SetPendingFunctions,
       DequeueAndRun, CallbackDelays
  <2>3. (WillDequeue => NoticeInv)'
    BY NoticeOnTheWay, PTL
  <2> QED
    BY <2>2, <2>3
<1>3. CASE DequeueNothing
  BY <1>3 DEF DequeueNothing, QueueEmpty, Producers, NoticeInv, TaskNoticed, QuitNoticed
<1>4. ASSUME NEW p \in Producers, DequeueAndLose(p)
      PROVE  NoticeInv'
  <2>1. lost' # {}
    BY <1>4 DEF DequeueAndLose
  <2> QED
    BY <2>1 DEF NoticeInv
<1>5. CASE ClearPendingFunctions \/ Drain
  <2>1. WillDequeue => WillDequeue'
    BY <1>5 DEF ClearPendingFunctions, Drain, WillDequeue
  <2> QED
    BY <1>5, <2>1, NoticeFrame DEF ClearPendingFunctions, Drain
<1> QED
  BY <1>1, <1>2, <1>3, <1>4, <1>5 DEF LoopStep

LEMMA ThreadStepNotice ==
    ASSUME TypeOK, FlagsInv, CallInv, NoticeInv, NEW t \in Threads, ThreadStep(t)
    PROVE  NoticeInv'
<1> USE DEF queueVars, loopVars, Goto, WakePlaces
<1>1. SUFFICES ASSUME lost = {}, ~WillDequeue
               PROVE  /\ FunctionList'[LoopThread] = <<>>
                      /\ \A s \in Threads : TaskNoticed(s)' /\ QuitNoticed(s)'
  <2>1. UNCHANGED <<loopVars, lost>>
    BY ThreadStepFrame
  <2>2. WillDequeue <=> WillDequeue'
    BY <2>1 DEF WillDequeue
  <2> QED
    BY <2>1, <2>2 DEF NoticeInv, TaskNoticed, QuitNoticed
<1>2. /\ FunctionList[LoopThread] = <<>>
      /\ \A s \in Threads : TaskNoticed(s) /\ QuitNoticed(s)
  BY <1>1 DEF NoticeInv
<1>3. LoopThread # t
  BY LoopAssumption
<1>4. counter => counter'
  BY ThreadStepFrame
<1>5. ASSUME NEW kind \in Kinds, Enqueue(t, kind), tpc' = [tpc EXCEPT ![t] = "wakeEH"],
             skipped' = [skipped EXCEPT ![t] = "none"], UNCHANGED <<counter, inQuit>>,
             kind = "quit" => t \in inQuit, tpc[t] \in {"idle", "enqueue"}
      PROVE  /\ FunctionList'[LoopThread] = <<>>
             /\ \A s \in Threads : TaskNoticed(s)' /\ QuitNoticed(s)'
  <2>1. /\ FunctionList'[LoopThread] = <<>>
        /\ \A s \in Threads \ {t} : FunctionList'[s] = FunctionList[s]
        /\ FunctionList'[t] = Append(FunctionList[t], [id |-> made[t] + 1, kind |-> kind])
        /\ FunctionList[t] \in Seq(Task)
    BY <1>2, <1>3, <1>5 DEF Enqueue, TypeOK, Producers
  <2>2. ASSUME NEW s \in Threads
        PROVE  TaskNoticed(s)'
    BY <1>1, <1>2, <1>5, <2>1 DEF TaskNoticed, TypeOK
  <2>3. ASSUME NEW s \in Threads, s # t
        PROVE  QuitNoticed(s)'
    BY <1>1, <1>2, <1>5, <2>1, <2>3 DEF QuitNoticed, TypeOK
  <2>4. QuitNoticed(t)'
    <3>1. ASSUME NEW i \in 1..Len(FunctionList'[t]), FunctionList'[t][i].kind = "quit",
                 ~(t \in inQuit)
          PROVE  counter
      <4>1. kind # "quit"
        BY <1>5, <3>1
      <4>2. i \in 1..Len(FunctionList[t]) /\ FunctionList[t][i].kind = "quit"
        BY <2>1, <3>1, <4>1
      <4> QED
        BY <1>1, <1>2, <3>1, <4>2 DEF QuitNoticed
    <3>2. tpc'[t] \in WakePlaces
      BY <1>5 DEF TypeOK
    <3> QED
      BY <1>5, <3>1, <3>2 DEF QuitNoticed
  <2> QED
    BY <2>1, <2>2, <2>3, <2>4
<1>6. ASSUME NEW kind \in {"plain", "delay"}, Submit(t, kind)
      PROVE  /\ FunctionList'[LoopThread] = <<>>
             /\ \A s \in Threads : TaskNoticed(s)' /\ QuitNoticed(s)'
  BY <1>5, <1>6 DEF Submit, Kinds
<1>7. CASE EnqueueQuit(t)
  <2>1. t \in inQuit
    BY <1>7 DEF EnqueueQuit, CallInv
  <2> QED
    BY <1>5, <1>7, <2>1 DEF EnqueueQuit, Kinds
<1>8. CASE \/ Quit(t) \/ CheckEventHandling(t) \/ CheckPendingFunctions(t)
           \/ CheckInit(t) \/ CheckOnlyInit(t)
  BY <1>1, <1>2, <1>8 DEF Quit, CheckEventHandling, CheckPendingFunctions, CheckInit,
     CheckOnlyInit, TaskNoticed, QuitNoticed, TypeOK
<1>9. CASE WakeupEventHandling(t)
  <2>1. "EventHandling" \notin status
    BY <1>1 DEF FlagsInv, WillDequeue
  <2> QED
    BY <1>1, <1>2, <1>9, <2>1 DEF WakeupEventHandling, TaskNoticed, QuitNoticed, TypeOK
<1>10. CASE WakeupPendingFunctions(t)
  BY <1>1, <1>2, <1>10 DEF WakeupPendingFunctions, AfterWakeup, TaskNoticed, QuitNoticed, TypeOK
<1>11. CASE WakeupWrite(t) \/ QuitWrite(t)
  BY <1>2, <1>11 DEF WakeupWrite, QuitWrite, TaskNoticed, QuitNoticed
<1> QED
  BY <1>6, <1>7, <1>8, <1>9, <1>10, <1>11 DEF ThreadStep, InCall

-----------------------------------------------------------------------------
(* The inductive invariant holds in every reachable state. *)
THEOREM Invariance == Spec => []IInv
<1>1. Init => IInv
  <2> SUFFICES ASSUME Init
               PROVE  IInv
    OBVIOUS
  <2>1. TypeOK
    BY InitTypes
  <2>2. FlagsInv /\ CallInv
    BY DEF Init, FlagsInv, CallInv
  <2>3. NoticeInv
    BY DEF Init, NoticeInv, TaskNoticed, QuitNoticed, Producers
  <2> QED
    BY <2>1, <2>2, <2>3 DEF IInv
<1>2. IInv /\ [Next]_vars => IInv'
  <2> SUFFICES ASSUME IInv, [Next]_vars
               PROVE  IInv'
    OBVIOUS
  <2> USE DEF IInv
  <2>1. CASE LoopStep
    <3>1. CallInv'
      BY <2>1, LoopStepFrame DEF CallInv, threadVars
    <3> QED
      BY <2>1, <3>1, LoopStepTypes, LoopStepFlags, LoopStepNotice
  <2>2. ASSUME NEW t \in Threads, ThreadStep(t)
        PROVE  IInv'
    BY <2>2, ThreadStepTypes, ThreadStepFlags, ThreadStepCalls, ThreadStepNotice
  <2>3. CASE UNCHANGED vars
    BY <2>3 DEF vars, TypeOK, FlagsInv, CallInv, NoticeInv, TaskNoticed, QuitNoticed,
       WillDequeue
  <2> QED
    BY <2>1, <2>2, <2>3 DEF Next
<1> QED
  BY <1>1, <1>2, PTL DEF Spec

(* No assert() of the loop thread fails, for any number of threads. *)
THEOREM LoopNeverAborts == Spec => []LoopAssertsHold
<1>1. IInv => LoopAssertsHold
  BY DEF IInv, FlagsInv, LoopAssertsHold
<1> QED
  BY <1>1, Invariance, PTL

(* Only the omission for PendingFunctions can leave a task to the poll     *)
(* timeout: EventLoop::wakeup's other omission and the tasks that the      *)
(* loop's own callbacks enqueue never wait.                                *)
THEOREM StallsExplained == Spec => []StallOnlyAfterPendingSkip
<1>1. IInv => StallOnlyAfterPendingSkip
  BY DEF IInv, NoticeInv, TaskNoticed, WillDequeue, StallOnlyAfterPendingSkip
<1> QED
  BY <1>1, Invariance, PTL

(* After EventLoop::quit has returned the loop never sleeps on the quit    *)
(* task.                                                                   *)
THEOREM QuitAlwaysSignalled == Spec => []QuitIsSignalled
<1>1. IInv => QuitIsSignalled
  BY DEF IInv, NoticeInv, QuitNoticed, WillDequeue, QuitIsSignalled
<1> QED
  BY <1>1, Invariance, PTL

-----------------------------------------------------------------------------
(* The loop implements TaskExecutor. *)

(* A step that touches neither queue nor history and leaves "told to quit" *)
(* and "has returned" as they were is a stutter of the executor.           *)
LEMMA ExecutorStutter ==
    ASSUME UNCHANGED <<FunctionList, ran, lost>>, told' = told,
           (lpc = "done") <=> (lpc' = "done")
    PROVE  UNCHANGED Executor!absVars
BY DEF Executor!absVars

(* An enqueue is a HandOver of the executor. *)
LEMMA ExecutorHandOver ==
    ASSUME TypeOK, NEW p \in Producers, NEW kind \in Kinds, Enqueue(p, kind),
           UNCHANGED <<status, lpc>>
    PROVE  Executor!AbsNext
<1> DEFINE task == [id |-> made[p] + 1, kind |-> kind]
<1>1. made[p] + 1 \in Ids
  <2>1. Quota[p] \in Nat /\ made[p] \in Nat /\ made[p] < Quota[p]
    BY LoopAssumption DEF Producers, TypeOK, Enqueue
  <2> QED
    BY <2>1 DEF Ids
<1>2. task \in Task
  BY <1>1 DEF Task
<1>3. Executor!HandOver(p, task)
  BY DEF Executor!HandOver, Enqueue, told
<1> QED
  BY <1>2, <1>3 DEF Executor!AbsNext

LEMMA LoopStepRefines ==
    ASSUME IInv, IInv', LoopStep
    PROVE  Executor!AbsNext \/ UNCHANGED Executor!absVars
<1> USE DEF queueVars, threadVars
<1>0. lpc # "abort" /\ lpc' # "abort"
  BY DEF IInv, FlagsInv
<1>1. CASE LoopEnter \/ LoopStart \/ WhileLooping
  BY <1>0, <1>1, ExecutorStutter DEF LoopEnter, LoopStart, WhileLooping, told
<1>2. CASE \/ \E io \in BOOLEAN : PollReturn(io)
           \/ SetEventHandling \/ HandleWake \/ HandleIo \/ ClearEventHandling
  BY <1>0, <1>2, ExecutorStutter DEF PollReturn, SetEventHandling, HandleWake, HandleIo,
     ClearEventHandling, told
<1>3. CASE SetPendingFunctions \/ DequeueNothing \/ ClearPendingFunctions
  BY <1>0, <1>3, ExecutorStutter DEF SetPendingFunctions, DequeueNothing,
     ClearPendingFunctions, told
<1>4. CASE HandleIoDelays
  BY <1>4, ExecutorHandOver DEF HandleIoDelays, IInv, Producers, Kinds
<1>5. CASE HandleIoQuits
  <2>1. Executor!TellQuit
    BY <1>0, <1>5 DEF HandleIoQuits, Executor!TellQuit, told
  <2> QED
    BY <2>1 DEF Executor!AbsNext
<1>6. ASSUME NEW p \in Producers, DequeueAndRun(p)
      PROVE  Executor!AbsNext
  <2>1. Head(FunctionList[p]) \in Task
    BY <1>6 DEF DequeueAndRun, IInv, TypeOK
  <2>2. Head(FunctionList[p]) \in [id : Ids, kind : {"quit"}]
          <=> Head(FunctionList[p]).kind = "quit"
    BY <2>1 DEF Task
  <2>3. told' <=> told \/ Head(FunctionList[p]).kind = "quit"
    BY <1>6 DEF DequeueAndRun, told
  <2>4. Executor!Run(p)
    BY <1>6, <2>2, <2>3 DEF DequeueAndRun, Executor!Run, told
  <2> QED
    BY <2>4 DEF Executor!AbsNext
<1>7. ASSUME NEW p \in Producers, DequeueAndLose(p)
      PROVE  Executor!AbsNext
  <2>1. Executor!Lose(p)
    BY <1>7 DEF DequeueAndLose, Executor!Lose, told
  <2> QED
    BY <2>1 DEF Executor!AbsNext
<1>8. CASE CallbackDelays
  <2>1. CASE Enqueue(LoopThread, "plain")
    <3>1. lpc = "callback" /\ lpc' = "dequeue" /\ UNCHANGED status
      BY <1>8 DEF CallbackDelays
    <3>2. made[LoopThread] + 1 \in Ids
      <4>1. LoopThread \in Producers
        BY DEF Producers
      <4>2. Quota[LoopThread] \in Nat /\ made[LoopThread] \in Nat
            /\ made[LoopThread] < Quota[LoopThread]
        BY <2>1, <4>1, LoopAssumption DEF Producers, IInv, TypeOK, Enqueue
      <4> QED
        BY <4>1, <4>2 DEF Ids
    <3>3. [id |-> made[LoopThread] + 1, kind |-> "plain"] \in Task
      BY <3>2 DEF Task, Kinds
    <3>4. Executor!HandOver(LoopThread, [id |-> made[LoopThread] + 1, kind |-> "plain"])
      BY <2>1, <3>1 DEF Executor!HandOver, Enqueue, told
    <3> QED
      BY <3>3, <3>4 DEF Executor!AbsNext, Producers
  <2>2. CASE UNCHANGED queueVars
    BY <1>8, <2>2, ExecutorStutter DEF CallbackDelays, told
  <2> QED
    BY <1>8, <2>1, <2>2 DEF CallbackDelays
<1>9. CASE Drain
  <2>1. CASE QueueEmpty
    <3>1. Executor!Stop
      BY <1>9, <2>1 DEF Drain, QueueEmpty, Executor!Stop, told, IInv, FlagsInv
    <3> QED
      BY <3>1 DEF Executor!AbsNext
  <2>2. CASE ~QueueEmpty
    BY <1>9, <2>2, ExecutorStutter DEF Drain, told
  <2> QED
    BY <2>1, <2>2
<1> QED
  BY <1>1, <1>2, <1>3, <1>4, <1>5, <1>6, <1>7, <1>8, <1>9 DEF LoopStep

LEMMA ThreadStepRefines ==
    ASSUME TypeOK, NEW t \in Threads, ThreadStep(t)
    PROVE  Executor!AbsNext \/ UNCHANGED Executor!absVars
<1> USE DEF loopVars, queueVars
<1>0. t \in Producers
  BY DEF Producers
<1>1. ASSUME NEW kind \in {"plain", "delay"}, Submit(t, kind)
      PROVE  Executor!AbsNext
  BY <1>0, <1>1, ExecutorHandOver DEF Submit, Kinds
<1>2. CASE EnqueueQuit(t)
  BY <1>0, <1>2, ExecutorHandOver DEF EnqueueQuit, Kinds
<1>3. CASE \/ Quit(t) \/ CheckEventHandling(t) \/ CheckPendingFunctions(t)
           \/ CheckInit(t) \/ CheckOnlyInit(t) \/ WakeupEventHandling(t)
           \/ WakeupPendingFunctions(t) \/ WakeupWrite(t) \/ QuitWrite(t)
  <2>1. UNCHANGED <<FunctionList, ran, lost, status, lpc>>
    BY <1>3 DEF Quit, CheckEventHandling, CheckPendingFunctions, CheckInit,
       CheckOnlyInit, WakeupEventHandling, WakeupPendingFunctions, WakeupWrite, QuitWrite
  <2> QED
    BY <2>1, ExecutorStutter DEF told
<1> QED
  BY <1>1, <1>2, <1>3 DEF ThreadStep, InCall

(* EventLoop implements TaskExecutor for any number of threads and tasks:  *)
(* tasks of one producer leave the queue in order, each is run at most     *)
(* once, and loop() returns only after a quit and with the queue empty.    *)
THEOREM LoopImplementsExecutor == Spec => ImplementsExecutor
<1>1. Init => Executor!AbsInit
  BY DEF Init, Executor!AbsInit, told
<1>2. IInv /\ IInv' /\ [Next]_vars => [Executor!AbsNext]_(Executor!absVars)
  <2> SUFFICES ASSUME IInv, IInv', [Next]_vars
               PROVE  Executor!AbsNext \/ UNCHANGED Executor!absVars
    OBVIOUS
  <2>1. CASE UNCHANGED vars
    BY <2>1, ExecutorStutter DEF vars, told
  <2>2. CASE Next
    BY <2>2, LoopStepRefines, ThreadStepRefines DEF Next, IInv
  <2> QED
    BY <2>1, <2>2
<1> QED
  BY <1>1, <1>2, Invariance, PTL DEF Spec, ImplementsExecutor, Executor!AbsSpec
=============================================================================
