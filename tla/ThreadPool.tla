----------------------------- MODULE ThreadPool -----------------------------
(***************************************************************************)
(* ThreadPool<Strategy>: workers with a local queue each, a global         *)
(* priority queue, stealing, tasks that wait for other tasks, the monitor  *)
(* with Adjust_Worker_Strategy, and shutdown.                              *)
(*                                                                         *)
(* A step is what a thread does under one mutex, or one access to an       *)
(* atomic.  workers_mutex is held for longer than a step only by the       *)
(* monitor, which joins the worker it removes while it holds it; so the    *)
(* mutex is free when the monitor is not joining.  try_add_task looks at   *)
(* the workers in one step: whoever else fills a queue needs the mutex.    *)
(* Time is abstract: any worker may have been idle for long enough.        *)
(*                                                                         *)
(* dep_submit and Adjust_Worker_Strategy are modelled as they are written; *)
(* at this revision no program of the repository instantiates them.        *)
(***************************************************************************)
EXTENDS Integers, Sequences, FiniteSets, FiniteSetsExt

CONSTANTS PlainTasks,   \* tasks given to submit
          DepTasks,     \* tasks given to dep_submit
          Rank,         \* priority_ or arrival_time: the least is on top
          MinThreads,   \* min_threads_
          MaxThreads,   \* max_threads_
          Capacity,     \* queue_capacity, 2 in the code
          GrowLimit,    \* 100 in Adjust_Worker_Strategy
          DepCalls,     \* bound: calls of add_dependency
          None,         \* no task
          Debug         \* TRUE: assert() is compiled in

Tasks   == PlainTasks \cup DepTasks
Workers == 1..MaxThreads

ASSUME PoolAssumption ==
    /\ IsFiniteSet(PlainTasks) /\ IsFiniteSet(DepTasks)
    /\ PlainTasks \cap DepTasks = {} /\ None \notin Tasks
    /\ Rank \in [Tasks -> Nat]
    /\ {MinThreads, MaxThreads, Capacity} \subseteq Nat \ {0}
    /\ MinThreads <= MaxThreads
    /\ {GrowLimit, DepCalls} \subseteq Nat
    /\ Debug \in BOOLEAN

VARIABLES
    size,        \* workers.size()
    slot,        \* slot[w]: workers[w] is not null
    wpc,         \* where worker w's thread is
    Stoping,     \* status_ == Stoping
    local,       \* local_queue
    task,        \* the task in worker w's hand
    todo,        \* dependents execute() has still to visit
    dep,         \* the dependent execute() is at
    global,      \* global_queue: how many times it holds each task
    all_tasks,   \* TaskManager::all_tasks
    status,      \* BaseTask::status, "none" before the task exists
    unresolved,  \* unresolved_dependencies
    dependents,  \* BaseTask::dependents
    cpc,         \* the submitting thread: "idle", "add", "insert"
    carg,        \* what it works on
    depCalls,    \* calls of add_dependency
    strategies,  \* a strategy was set
    running,     \* MonitorThread::running
    mpc,         \* where the monitor is
    mi,          \* i and
    worker_count,\* worker_count of Adjust_Worker_Strategy
    spc,         \* where shutdown() is
    aborted,     \* an assert failed or a null task was dereferenced
    \* history
    ran,         \* how often each task's function was called
    awaits,      \* predecessors declared before the task's release
    late         \* tasks that got a predecessor after their release

workerVars  == <<wpc, task, todo, dep>>
queueVars   == <<local, global>>
slotVars    == <<size, slot, Stoping>>
taskVars    == <<all_tasks, status, unresolved, dependents>>
clientVars  == <<cpc, carg, depCalls>>
monitorVars == <<strategies, running, mpc, mi, worker_count>>
history     == <<ran, awaits, late>>
vars == <<workerVars, queueVars, slotVars, taskVars, clientVars, monitorVars,
          spc, aborted, history>>

(* The constructor: min_threads_ workers, no monitor yet. *)
Init ==
    /\ size = MinThreads
    /\ slot = [w \in Workers |-> w <= MinThreads]
    /\ wpc = [w \in Workers |-> IF w <= MinThreads THEN "local" ELSE "none"]
    /\ Stoping = [w \in Workers |-> FALSE]
    /\ local = [w \in Workers |-> <<>>]
    /\ task = [w \in Workers |-> None]
    /\ todo = [w \in Workers |-> {}]
    /\ dep = [w \in Workers |-> None]
    /\ global = [t \in Tasks |-> 0]
    /\ all_tasks = {}
    /\ status = [t \in Tasks |-> "none"]
    /\ unresolved = [t \in Tasks |-> 0]
    /\ dependents = [t \in Tasks |-> {}]
    /\ cpc = "idle" /\ carg = <<>> /\ depCalls = 0
    /\ strategies \in BOOLEAN /\ running = TRUE
    /\ mpc = "off" /\ mi = 1 /\ worker_count = 0
    /\ spc = "none"
    /\ aborted = FALSE
    /\ ran = [t \in Tasks |-> 0]
    /\ awaits = [t \in Tasks |-> {}]
    /\ late = {}

WorkersMutexFree == mpc \notin {"scan", "join"}
TasksMutexFree   == cpc # "insert"

enqueue_task(t) == global' = [global EXCEPT ![t] = @ + 1]
GlobalSize == MapThenSumSet(LAMBDA t : global[t], Tasks)

(* What the comparison of FSFC and Priority puts on top. *)
Top == {t \in Tasks : global[t] > 0
                      /\ \A u \in Tasks : global[u] > 0 => Rank[t] <= Rank[u]}

-----------------------------------------------------------------------------
(* The calling thread. *)

submit(t) ==
    /\ cpc = "idle" /\ status[t] = "none" /\ t \in PlainTasks
    /\ status' = [status EXCEPT ![t] = "PENDING"]
    /\ all_tasks' = all_tasks \cup {t}
    /\ cpc' = "add" /\ carg' = <<t>>
    /\ UNCHANGED <<workerVars, queueVars, slotVars, unresolved, dependents,
                   depCalls, monitorVars, spc, aborted, history>>

(* Workers with room, as try_push_task finds them. *)
Roomy == {w \in 1..size : slot[w] /\ Len(local[w]) < Capacity}

(* try_add_task: the first worker with room, else the global queue. *)
AddTask ==
    /\ cpc = "add" /\ WorkersMutexFree
    /\ LET t == carg[1]
       IN IF Roomy = {}
          THEN enqueue_task(t) /\ UNCHANGED local
          ELSE LET w == CHOOSE x \in Roomy : \A y \in Roomy : x <= y
               IN local' = [local EXCEPT ![w] = Append(@, t)] /\ UNCHANGED global
    /\ cpc' = "idle" /\ carg' = <<>>
    /\ UNCHANGED <<workerVars, slotVars, taskVars, depCalls, monitorVars, spc,
                   aborted, history>>

(* A waiting task is registered and not queued. *)
dep_submit(t) ==
    /\ cpc = "idle" /\ status[t] = "none" /\ t \in DepTasks
    /\ status' = [status EXCEPT ![t] = "DEPENDENCY"]
    /\ all_tasks' = all_tasks \cup {t}
    /\ UNCHANGED <<workerVars, queueVars, slotVars, unresolved, dependents,
                   clientVars, monitorVars, spc, aborted, history>>

(* t's release began: a worker has found its counter at 0.  Between that   *)
(* load and the store of PENDING the status still says DEPENDENCY.         *)
Released(t) == \/ status[t] = "PENDING"
               \/ \E w \in Workers : wpc[w] = "store" /\ dep[w] = t

(* add_dependency(t, p), first half: under tasks_mutex it looks both tasks *)
(* up and increments t's counter.  A task that is not there is a null      *)
(* pointer.                                                               *)
AddDependency(t, p) ==
    /\ cpc = "idle" /\ depCalls < DepCalls
    /\ t # p /\ status[t] # "none" /\ status[p] # "none"
    /\ depCalls' = depCalls + 1
    /\ \/ /\ {t, p} \subseteq all_tasks
          /\ unresolved' = [unresolved EXCEPT ![t] = @ + 1]
          /\ cpc' = "insert" /\ carg' = <<t, p>>
          /\ IF Released(t)
             THEN late' = late \cup {t} /\ UNCHANGED awaits
             ELSE awaits' = [awaits EXCEPT ![t] = @ \cup {p}] /\ UNCHANGED late
          /\ UNCHANGED aborted
       \/ /\ ~({t, p} \subseteq all_tasks)
          /\ aborted' = TRUE
          /\ UNCHANGED <<unresolved, cpc, carg, awaits, late>>
    /\ UNCHANGED <<workerVars, queueVars, slotVars, all_tasks, status,
                   dependents, monitorVars, spc, ran>>

(* The places of a worker inside the loop over the dependents. *)
Walk == {"deps", "dec", "test", "store", "enqueue"}

(* Second half: t becomes a dependent of p, if it is none yet.  execute()  *)
(* walks through the set without the lock: a walk under way may or may not *)
(* meet t.                                                                 *)
InsertDependent ==
    /\ cpc = "insert"
    /\ LET t == carg[1]
           p == carg[2]
           walkers == {w \in Workers : /\ t \notin dependents[p]
                                       /\ task[w] = p /\ wpc[w] \in Walk}
       IN /\ dependents' = [dependents EXCEPT ![p] = @ \cup {t}]
          /\ \E met \in SUBSET walkers :
                todo' = [w \in Workers |-> IF w \in met THEN todo[w] \cup {t} ELSE todo[w]]
    /\ cpc' = "idle" /\ carg' = <<>>
    /\ UNCHANGED <<wpc, task, dep, queueVars, slotVars, all_tasks, status,
                   unresolved, depCalls, monitorVars, spc, aborted, history>>

-----------------------------------------------------------------------------
(* Worker::run.  A worker leaves the loop at its top when it is Stoping.   *)

Goto(w, place) == wpc' = [wpc EXCEPT ![w] = place]
Take(w, t) == task' = [task EXCEPT ![w] = t] /\ Goto(w, "exec")

(* The test of status_ and the worker's own queue. *)
PopLocal(w) ==
    /\ wpc[w] = "local"
    /\ \/ Stoping[w] /\ Goto(w, "exit") /\ UNCHANGED <<task, local>>
       \/ /\ ~Stoping[w] /\ local[w] # <<>>
          /\ Take(w, Head(local[w]))
          /\ local' = [local EXCEPT ![w] = Tail(@)]
       \/ ~Stoping[w] /\ local[w] = <<>> /\ Goto(w, "global") /\ UNCHANGED <<task, local>>
    /\ UNCHANGED <<todo, dep, global, slotVars, taskVars, clientVars,
                   monitorVars, spc, aborted, history>>

dequeue_task(w) ==
    /\ wpc[w] = "global"
    /\ \/ \E t \in Top : Take(w, t) /\ global' = [global EXCEPT ![t] = @ - 1]
       \/ Top = {} /\ Goto(w, "steal") /\ UNCHANGED <<task, global>>
    /\ UNCHANGED <<todo, dep, local, slotVars, taskVars, clientVars,
                   monitorVars, spc, aborted, history>>

(* A victim's queue_mutex is only tried: its owner may hold it. *)
Victims(w) == {v \in 1..size : v # w /\ slot[v] /\ local[v] # <<>>}
Busy(v)    == wpc[v] = "local"

(* Mutant of try_steal_task: the victim keeps its task. *)
try_steal_taskCopies(w) ==
    /\ wpc[w] = "steal" /\ WorkersMutexFree
    /\ \/ \E v \in Victims(w) :
             /\ \A u \in Victims(w) : u < v => Busy(u)
             /\ Take(w, local[v][Len(local[v])])
             /\ UNCHANGED local
       \/ (\A v \in Victims(w) : Busy(v)) /\ Goto(w, "local") /\ UNCHANGED <<task, local>>
    /\ UNCHANGED <<todo, dep, global, slotVars, taskVars, clientVars,
                   monitorVars, spc, aborted, history>>

try_steal_task(w) ==
    /\ wpc[w] = "steal" /\ WorkersMutexFree
    /\ \/ \E v \in Victims(w) :
             /\ \A u \in Victims(w) : u < v => Busy(u)
             /\ Take(w, local[v][Len(local[v])])
             /\ local' = [local EXCEPT ![v] = SubSeq(@, 1, Len(@) - 1)]
       \/ (\A v \in Victims(w) : Busy(v)) /\ Goto(w, "local") /\ UNCHANGED <<task, local>>
    /\ UNCHANGED <<todo, dep, global, slotVars, taskVars, clientVars,
                   monitorVars, spc, aborted, history>>

(* execute(): the function.  Its promise can be set once; a second call    *)
(* throws out of run(), and Thread::run swallows what ends the thread.     *)
Execute(w) ==
    /\ wpc[w] = "exec"
    /\ LET t == task[w]
       IN /\ ran' = [ran EXCEPT ![t] = @ + 1]
          /\ IF ran[t] = 0
             THEN Goto(w, "deps") /\ todo' = [todo EXCEPT ![w] = dependents[t]]
                  /\ UNCHANGED task
             ELSE Goto(w, "exit") /\ task' = [task EXCEPT ![w] = None] /\ UNCHANGED todo
    /\ UNCHANGED <<dep, queueVars, slotVars, taskVars, clientVars, monitorVars,
                   spc, aborted, awaits, late>>

(* One dependent: the assert on its status ...                             *)
Visit(w) ==
    /\ wpc[w] = "deps"
    /\ \E d \in todo[w] :
          /\ dep' = [dep EXCEPT ![w] = d]
          /\ aborted' = (Debug /\ status[d] # "DEPENDENCY")
    /\ Goto(w, "dec")
    /\ UNCHANGED <<task, todo, queueVars, slotVars, taskVars, clientVars,
                   monitorVars, spc, history>>

(* ... the decrement of its counter ...                                    *)
Decrement(w) ==
    /\ wpc[w] = "dec"
    /\ todo' = [todo EXCEPT ![w] = @ \ {dep[w]}]
    /\ unresolved' = [unresolved EXCEPT ![dep[w]] = @ - 1]
    /\ Goto(w, "test")
    /\ UNCHANGED <<task, dep, queueVars, slotVars, all_tasks, status, dependents,
                   clientVars, monitorVars, spc, aborted, history>>

(* Mutant of Test: the value of the counter is ignored. *)
TestAlways(w) ==
    /\ wpc[w] = "test" /\ Goto(w, "store")
    /\ UNCHANGED <<task, todo, dep, queueVars, slotVars, taskVars, clientVars,
                   monitorVars, spc, aborted, history>>

(* ... a load of its own, which may see a counter that others changed ...  *)
Test(w) ==
    /\ wpc[w] = "test"
    /\ IF unresolved[dep[w]] = 0
       THEN Goto(w, "store") /\ UNCHANGED dep
       ELSE Goto(w, "deps") /\ dep' = [dep EXCEPT ![w] = None]
    /\ UNCHANGED <<task, todo, queueVars, slotVars, taskVars, clientVars,
                   monitorVars, spc, aborted, history>>

(* ... and if that was 0, the new status, ...                              *)
Release(w) ==
    /\ wpc[w] = "store"
    /\ status' = [status EXCEPT ![dep[w]] = "PENDING"]
    /\ Goto(w, "enqueue")
    /\ UNCHANGED <<task, todo, dep, queueVars, slotVars, all_tasks, unresolved,
                   dependents, clientVars, monitorVars, spc, aborted, history>>

(* ... and the global queue. *)
Enqueue(w) ==
    /\ wpc[w] = "enqueue"
    /\ enqueue_task(dep[w])
    /\ dep' = [dep EXCEPT ![w] = None]
    /\ Goto(w, "deps")
    /\ UNCHANGED <<task, todo, local, slotVars, taskVars, clientVars,
                   monitorVars, spc, aborted, history>>

deregister_task(w) ==
    /\ wpc[w] = "deps" /\ todo[w] = {} /\ TasksMutexFree
    /\ all_tasks' = all_tasks \ {task[w]}
    /\ task' = [task EXCEPT ![w] = None]
    /\ Goto(w, "local")
    /\ UNCHANGED <<todo, dep, queueVars, slotVars, status, unresolved,
                   dependents, clientVars, monitorVars, spc, aborted, history>>

-----------------------------------------------------------------------------
(* The monitor, and the thread that owns the pool. *)

monitorRun ==
    /\ mpc = "off" /\ spc = "none" /\ mpc' = "top"
    /\ UNCHANGED <<workerVars, queueVars, slotVars, taskVars, clientVars,
                   strategies, running, mi, worker_count, spc, aborted, history>>

(* The loop of MonitorThread::start; without a strategy it waits.  A       *)
(* strategy begins with workers_mutex and the size of the vector, in which *)
(* removed workers still count.                                            *)
MonitorTop ==
    /\ mpc = "top"
    /\ \/ ~running /\ mpc' = "exit" /\ UNCHANGED <<mi, worker_count>>
       \/ running /\ strategies /\ mpc' = "scan" /\ mi' = 1 /\ worker_count' = size
    /\ UNCHANGED <<workerVars, queueVars, slotVars, taskVars, clientVars,
                   strategies, running, spc, aborted, history>>

(* The next worker that has been idle for too long is moved out of its     *)
(* slot and told to stop; after the last one the mutex is released.        *)
Scan ==
    /\ mpc = "scan"
    /\ \/ \E i \in mi..worker_count :
             /\ slot[i] /\ worker_count > MinThreads
             /\ slot' = [slot EXCEPT ![i] = FALSE]
             /\ Stoping' = [Stoping EXCEPT ![i] = TRUE]
             /\ mi' = i /\ mpc' = "join"
       \/ mpc' = "grow" /\ UNCHANGED <<slot, Stoping, mi>>
    /\ UNCHANGED <<workerVars, queueVars, size, taskVars, clientVars, strategies,
                   running, worker_count, spc, aborted, history>>

Positions(q, t)   == {k \in 1..Len(q) : q[k] = t}
Occurrences(q, t) == Cardinality(Positions(q, t))

(* Mutant of remove_worker: what the worker's queue holds is dropped. *)
remove_workerDrops ==
    /\ mpc = "join" /\ wpc[mi] = "exit"
    /\ UNCHANGED global
    /\ local' = [local EXCEPT ![mi] = <<>>]
    /\ Goto(mi, "none")
    /\ Stoping' = [Stoping EXCEPT ![mi] = FALSE]
    /\ mpc' = "scan" /\ mi' = mi + 1
    /\ UNCHANGED <<task, todo, dep, size, slot, taskVars, clientVars, strategies,
                   running, worker_count, spc, aborted, history>>

(* The rest of remove_worker: the join, then its tasks become global. *)
remove_worker ==
    /\ mpc = "join" /\ wpc[mi] = "exit"
    /\ global' = [t \in Tasks |-> global[t] + Occurrences(local[mi], t)]
    /\ local' = [local EXCEPT ![mi] = <<>>]
    /\ Goto(mi, "none")
    /\ Stoping' = [Stoping EXCEPT ![mi] = FALSE]
    /\ mpc' = "scan" /\ mi' = mi + 1
    /\ UNCHANGED <<task, todo, dep, size, slot, taskVars, clientVars, strategies,
                   running, worker_count, spc, aborted, history>>

(* A new worker fills the first null slot, or a slot behind the last. *)
add_worker ==
    LET free == {i \in 1..size : ~slot[i]} \cup {size + 1}
        w == CHOOSE i \in free : \A j \in free : i <= j
    IN /\ slot' = [slot EXCEPT ![w] = TRUE]
       /\ size' = IF w > size THEN w ELSE size
       /\ Goto(w, "local")

(* The end of the strategy. *)
Grow ==
    /\ mpc = "grow" /\ mpc' = "top"
    /\ IF GlobalSize > GrowLimit /\ worker_count < MaxThreads
       THEN add_worker
       ELSE UNCHANGED <<slot, size, wpc>>
    /\ UNCHANGED <<task, todo, dep, queueVars, Stoping, taskVars, clientVars,
                   strategies, running, mi, worker_count, spc, aborted, history>>

(* shutdown(): MonitorThread::stop joins the monitor if it was started ... *)
shutdown ==
    /\ spc = "none" /\ spc' = "monitor"
    /\ running' = (mpc = "off" /\ running)
    /\ UNCHANGED <<workerVars, queueVars, slotVars, taskVars, clientVars,
                   strategies, mpc, mi, worker_count, aborted, history>>

(* Mutant of StopWorkers: only the first worker is told to stop. *)
StopFirstWorker ==
    /\ spc = "monitor" /\ mpc \in {"off", "exit"} /\ spc' = "workers"
    /\ Stoping' = [w \in Workers |-> slot[w] /\ w = 1]
    /\ UNCHANGED <<workerVars, queueVars, size, slot, taskVars, clientVars,
                   monitorVars, aborted, history>>

(* ... shutdown_workers tells every worker to stop ... *)
StopWorkers ==
    /\ spc = "monitor" /\ mpc \in {"off", "exit"} /\ spc' = "workers"
    /\ Stoping' = [w \in Workers |-> slot[w]]
    /\ UNCHANGED <<workerVars, queueVars, size, slot, taskVars, clientVars,
                   monitorVars, aborted, history>>

(* ... and joins them.  What is queued stays queued. *)
JoinWorkers ==
    /\ spc = "workers" /\ \A w \in Workers : slot[w] => wpc[w] = "exit"
    /\ spc' = "done"
    /\ UNCHANGED <<workerVars, queueVars, slotVars, taskVars, clientVars,
                   monitorVars, aborted, history>>

-----------------------------------------------------------------------------
Client == \/ AddTask \/ InsertDependent
          \/ \E t \in Tasks : submit(t) \/ dep_submit(t)
          \/ \E t \in DepTasks, p \in Tasks : AddDependency(t, p)
WorkerStep(w) == \/ PopLocal(w) \/ dequeue_task(w) \/ try_steal_task(w)
                 \/ Execute(w) \/ Visit(w) \/ Decrement(w) \/ Test(w)
                 \/ Release(w) \/ Enqueue(w) \/ deregister_task(w)
MonitorStep  == MonitorTop \/ Scan \/ remove_worker \/ Grow
ShutdownStep == StopWorkers \/ JoinWorkers
Owner == monitorRun \/ shutdown \/ ShutdownStep

Next == ~aborted /\ (Client \/ Owner \/ MonitorStep \/ \E w \in Workers : WorkerStep(w))

Spec == Init /\ [][Next]_vars

(* Every thread is scheduled, whoever is inside a call goes on, and a      *)
(* thread that waits for workers_mutex gets it if it is released again and *)
(* again (the monitor takes it in every round of its loop).  Nobody is     *)
(* required to submit, to start the monitor or to shut down.               *)
FairSpec ==
    /\ Spec
    /\ \A w \in Workers : /\ WF_vars(~aborted /\ WorkerStep(w))
                          /\ SF_vars(~aborted /\ try_steal_task(w))
    /\ WF_vars(~aborted /\ MonitorStep)
    /\ WF_vars(~aborted /\ ShutdownStep)
    /\ SF_vars(~aborted /\ (AddTask \/ InsertDependent))

-----------------------------------------------------------------------------
Places == {"none", "local", "global", "steal", "exec", "exit"} \cup Walk

(* The types of the variables of the pool. *)
TypeOK ==
    /\ size \in 0..MaxThreads
    /\ slot \in [Workers -> BOOLEAN] /\ Stoping \in [Workers -> BOOLEAN]
    /\ wpc \in [Workers -> Places]
    /\ local \in [Workers -> Seq(Tasks)]
    /\ task \in [Workers -> Tasks \cup {None}] /\ dep \in [Workers -> Tasks \cup {None}]
    /\ todo \in [Workers -> SUBSET Tasks]
    /\ global \in [Tasks -> Nat]
    /\ all_tasks \subseteq Tasks
    /\ status \in [Tasks -> {"none", "DEPENDENCY", "PENDING"}]
    /\ unresolved \in [Tasks -> Int]
    /\ dependents \in [Tasks -> SUBSET Tasks]
    /\ cpc \in {"idle", "add", "insert"} /\ carg \in Seq(Tasks) /\ depCalls \in 0..DepCalls
    /\ strategies \in BOOLEAN /\ running \in BOOLEAN
    /\ mpc \in {"off", "top", "scan", "join", "grow", "exit"}
    /\ mi \in 1..MaxThreads + 1 /\ worker_count \in 0..MaxThreads
    /\ spc \in {"none", "monitor", "workers", "done"}
    /\ aborted \in BOOLEAN
    /\ ran \in [Tasks -> Nat]
    /\ awaits \in [Tasks -> SUBSET Tasks] /\ late \subseteq Tasks

(* The copies of a task that somebody still has to run. *)
LocalCopies(t) == UNION {{w} \X Positions(local[w], t) : w \in Workers}
Copies(t) ==
    global[t]
    + Cardinality(LocalCopies(t))
    + Cardinality({w \in Workers : wpc[w] = "exec" /\ task[w] = t})
    + Cardinality({w \in Workers : wpc[w] = "enqueue" /\ dep[w] = t})
    + (IF cpc = "add" /\ carg = <<t>> THEN 1 ELSE 0)

(* A task that was submitted or released is never lost, whoever pops,      *)
(* steals or re-queues it, and it exists once: two copies need two         *)
(* predecessors that race on its counter (ThreadPool.tpp:13), or a         *)
(* predecessor declared after its release began.                           *)
NoTaskLostOrDuplicated ==
    \A t \in Tasks :
        /\ status[t] = "PENDING" => Copies(t) + ran[t] >= 1
        /\ status[t] # "PENDING" => Copies(t) + ran[t] = 0
        /\ Copies(t) + ran[t] > 1 =>
              \/ Cardinality({p \in Tasks : t \in dependents[p]}) > 1
              \/ t \in late

(* A waiting task runs only after every predecessor has run that           *)
(* add_dependency named before a worker found its counter at 0, however    *)
(* decrements, loads and further calls interleave.  A predecessor named    *)
(* between that load and the store of PENDING (ThreadPool.tpp:14-15) is    *)
(* not waited for, although the status is still DEPENDENCY: the task is in *)
(* late, and such calls are the only ones the pool ignores.                *)
DependenciesRespected ==
    \A t \in Tasks : ran[t] > 0 => \A p \in awaits[t] : ran[p] > 0

(* The monitor joins a worker that waits for the mutex the monitor holds. *)
Wedged == mpc = "join" /\ wpc[mi] = "steal"
Working(w) == slot[w] /\ wpc[w] \notin {"none", "exit"}

(* A submitted task runs while the pool is not shut down: unless the       *)
(* monitor and a worker are wedged or the monitor has removed the last     *)
(* worker (its worker_count is never lowered), nothing else can stop it.   *)
TaskRuns ==
    \A t \in PlainTasks :
        status[t] = "PENDING" ~>
            \/ ran[t] > 0 \/ spc # "none" \/ aborted
            \/ Wedged \/ ~\E w \in Workers : Working(w)

(* shutdown() returns: the join of the monitor and of every worker ends,   *)
(* unless the monitor is wedged with a worker.                             *)
ShutdownReturns == spc = "monitor" ~> (spc = "done" \/ Wedged \/ aborted)
=============================================================================
