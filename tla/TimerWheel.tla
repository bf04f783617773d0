----------------------------- MODULE TimerWheel -----------------------------
(***************************************************************************)
(* One TimerWheel on its loop: insert() computes slot and rotation on the  *)
(* caller's thread, from a cur_slot_ that the loop moves meanwhile, and    *)
(* submits the insertion; tick() walks through the current slot, executes  *)
(* what is due and re-inserts what has executions left.                    *)
(*                                                                         *)
(* Time is counted in calls of tick(), one for each time the loop finds    *)
(* the timerfd readable (several expirations read together are one call).  *)
(* A slot is the sequence of its nodes from the head; insertions go to the *)
(* head, so the nodes a walk has not visited yet are the last todo ones.   *)
(***************************************************************************)
EXTENDS Timer, Sequences, SequencesExt

CONSTANTS maxSlots, SI   \* maxSlots_ and SI_

ASSUME WheelAssumption == {maxSlots, SI} \subseteq Nat \ {0}

VARIABLES
    cur_slot,   \* cur_slot_
    slots,      \* slots_
    handed,     \* timers given to insert()
    pending,    \* insertions in the loop's task queue
    wpc,        \* the loop thread: "poll", "walk", "callback"
    todo        \* nodes of the current slot that tick() has still to visit

wheelVars == <<cur_slot, slots, handed, pending, wpc, todo>>

WheelInit ==
    /\ cur_slot = 0
    /\ slots = [s \in 0..maxSlots - 1 |-> <<>>]
    /\ handed = {} /\ pending = {}
    /\ wpc = "poll" /\ todo = 0
    /\ TimerInit

(* The ticks a timer's interval stands for. *)
Ticks(t) == IF Interval[t] < SI THEN 1 ELSE Interval[t] \div SI

(* Mutant of NodeFor: one rotation too few at multiples of the wheel. *)
NodeForEarly(t) == [timer |-> t, time_slot |-> (cur_slot + (Ticks(t) % maxSlots)) % maxSlots,
                    rotation |-> (Ticks(t) - 1) \div maxSlots]

(* The first half of insert(). *)
NodeFor(t) == [timer |-> t, time_slot |-> (cur_slot + (Ticks(t) % maxSlots)) % maxSlots,
               rotation |-> Ticks(t) \div maxSlots]

(* Its closure, on the loop's thread. *)
Put(node) == [slots EXCEPT ![node.time_slot] = <<node>> \o @]

-----------------------------------------------------------------------------
insert(t) ==
    /\ t \notin handed
    /\ handed' = handed \cup {t} /\ pending' = pending \cup {NodeFor(t)}
    /\ UNCHANGED <<cur_slot, slots, wpc, todo, timerVars>>

RunPut ==
    /\ wpc = "poll"
    /\ \E node \in pending : slots' = Put(node) /\ pending' = pending \ {node}
    /\ UNCHANGED <<cur_slot, handed, wpc, todo, timerVars>>

(* A callback calls insert(): submit runs the closure at once. *)
CallbackPut(t) ==
    /\ wpc = "callback" /\ t \notin handed
    /\ handed' = handed \cup {t} /\ slots' = Put(NodeFor(t))
    /\ UNCHANGED <<cur_slot, pending, wpc, todo, timerVars>>

WheelCancel(t) ==
    /\ t \in handed /\ Cancel(t)
    /\ UNCHANGED <<wheelVars, aborted, age, fired>>

(* tick(): the timerfd is read and the walk begins. *)
StartTick ==
    /\ wpc = "poll" /\ wpc' = "walk" /\ todo' = Len(slots[cur_slot])
    /\ age' = [t \in Timers |-> IF t \in handed /\ age[t] < Ticks(t) THEN age[t] + 1 ELSE age[t]]
    /\ UNCHANGED <<cur_slot, slots, handed, pending, execute_count, aborted, fired>>

(* The node the walk is at. *)
At(s) == Len(s) - todo + 1
Node  == slots[cur_slot][At(slots[cur_slot])]

(* A node with rotations left is passed over ... *)
PassOver ==
    /\ wpc = "walk" /\ todo > 0 /\ Node.rotation > 0
    /\ slots' = [slots EXCEPT ![cur_slot][At(slots[cur_slot])].rotation = @ - 1]
    /\ todo' = todo - 1
    /\ UNCHANGED <<cur_slot, handed, pending, wpc, timerVars>>

(* ... any other is executed, also when it was cancelled. *)
ExecuteNode ==
    /\ wpc = "walk" /\ todo > 0 /\ Node.rotation = 0
    /\ Execute(Node.timer)
    /\ wpc' = "callback"
    /\ UNCHANGED <<cur_slot, slots, handed, pending, todo, age>>

(* Mutant of AfterExecute: the node is unlinked by its place in the list   *)
(* before the re-insertion.                                                *)
AfterExecuteMisplaced ==
    /\ wpc = "callback"
    /\ LET t == Node.timer
           at == At(slots[cur_slot])
           put == IF execute_count[t] > 0 THEN Put(NodeFor(t)) ELSE slots
       IN /\ slots' = [put EXCEPT ![cur_slot] = RemoveAt(@, at)]
          /\ Renew(t)
    /\ todo' = todo - 1 /\ wpc' = "walk"
    /\ UNCHANGED <<cur_slot, handed, pending, execute_count, aborted, fired>>

(* After the callback: re-insertion, which may put a new head on the slot  *)
(* that is being walked, and only then the unlinking of the node.          *)
AfterExecute ==
    /\ wpc = "callback"
    /\ LET t == Node.timer
           put == IF execute_count[t] > 0 THEN Put(NodeFor(t)) ELSE slots
       IN /\ slots' = [put EXCEPT ![cur_slot] = RemoveAt(@, At(@))]
          /\ Renew(t)
    /\ todo' = todo - 1 /\ wpc' = "walk"
    /\ UNCHANGED <<cur_slot, handed, pending, execute_count, aborted, fired>>

EndTick ==
    /\ wpc = "walk" /\ todo = 0
    /\ cur_slot' = (cur_slot + 1) % maxSlots
    /\ wpc' = "poll"
    /\ UNCHANGED <<slots, handed, pending, todo, timerVars>>

-----------------------------------------------------------------------------
TickStep == StartTick \/ PassOver \/ ExecuteNode \/ AfterExecute \/ EndTick

WheelNext ==
    /\ ~aborted
    /\ \/ TickStep \/ RunPut
       \/ \E t \in Timers : insert(t) \/ CallbackPut(t) \/ WheelCancel(t)

WheelSpec == WheelInit /\ [][WheelNext]_<<wheelVars, timerVars>>

(* The timerfd goes on expiring, callbacks return, and the loop runs the   *)
(* tasks it is given.                                                      *)
WheelFairness == /\ WF_<<wheelVars, timerVars>>(~aborted /\ TickStep)
                 /\ SF_<<wheelVars, timerVars>>(~aborted /\ RunPut)

-----------------------------------------------------------------------------
(* The ticks until a node of slot s executes, seen between two ticks. *)
Remaining(s, node) == ((s - cur_slot) % maxSlots) + 1 + node.rotation * maxSlots

(* Between two ticks every node is on time: it executes neither before its *)
(* ticks have passed since insert() or its last execution, nor later than  *)
(* one rotation after that, although cur_slot_ is read on another thread   *)
(* and moves before the insertion, and a re-insertion may meet the slot    *)
(* that is being walked.                                                   *)
WheelOnTime ==
    wpc = "poll" =>
        \A s \in DOMAIN slots : \A k \in DOMAIN slots[s] :
            LET node == slots[s][k]
                left_ == Remaining(s, node)
            IN /\ node.time_slot = s
               /\ age[node.timer] + left_ >= Ticks(node.timer)
               /\ left_ <= Ticks(node.timer) + maxSlots

(* A timer that is handed to the wheel with executions left is executed,   *)
(* again and again until it has none or is cancelled: no insertion, walk   *)
(* or unlinking loses a node.                                              *)
WheelFires ==
    \A t \in Timers :
        t \in handed /\ execute_count[t] > 0 ~>
            execute_count[t] = 0 \/ (wpc = "callback" /\ Node.timer = t) \/ aborted
=============================================================================
