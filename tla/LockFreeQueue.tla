--------------------------- MODULE LockFreeQueue ----------------------------
(***************************************************************************)
(* LockFreeCurcularQueue<T>: a ring of slots, each with an atomic sequence *)
(* number, two atomic positions, and any number of threads inside enqueue  *)
(* and dequeue.  Every atomic access and every access to a slot's data is  *)
(* a step of its own, and the steps interleave: loads of one thread are    *)
(* not reordered (x86-64).  The acquire loads and release stores of the    *)
(* sequence numbers order the data accesses around them.  Positions are    *)
(* size_t; they count operations and are bounded here by the operations    *)
(* made, so their wrap-around after 2^64 operations is not modelled.       *)
(***************************************************************************)
EXTENDS Integers, Sequences

CONSTANTS Enqueuers,   \* threads that call enqueue
          Dequeuers,   \* threads that call dequeue
          Observers,   \* threads that call empty, full or getRemainCapacity
          Size,        \* buffer_.size(), a power of two
          MaxOps,      \* bound: enqueue calls per enqueuer
          None         \* no element

ASSUME QueueAssumption ==
    /\ Size \in Nat \ {0}
    /\ MaxOps \in Nat
    /\ Enqueuers \cap Dequeuers = {}
    /\ None \notin Enqueuers \X (1..MaxOps)
    /\ None \notin Nat

Threads == Enqueuers \cup Dequeuers
Slots   == 0..(Size - 1)

(* The n-th element enqueuer t offers; all elements differ. *)
Values == Enqueuers \X (1..MaxOps)

VARIABLES
    enqueuePos,   \* enqueuePos_
    dequeuePos,   \* dequeuePos_
    sequence,     \* buffer_[i].sequence
    data,         \* buffer_[i].data
    pc,           \* where each thread is
    pos,          \* each thread's local pos
    val,          \* the element a thread is putting in or has moved out
    ops,          \* enqueue calls each enqueuer has made
    head,         \* an observer's local head, None outside of a call
    log,          \* history: the elements in the order their slots were claimed
    delivered     \* history: the elements dequeue has returned

vars == <<enqueuePos, dequeuePos, sequence, data, pc, pos, val, ops, head, log,
          delivered>>
history == <<log, delivered>>

(* buffer_[pos & bufferMask_]: Size is a power of two. *)
Slot(p) == p % Size

(* The constructor. *)
Init ==
    /\ enqueuePos = 0
    /\ dequeuePos = 0
    /\ sequence = [i \in Slots |-> i]
    /\ data = [i \in Slots |-> None]
    /\ pc = [t \in Threads |-> "idle"]
    /\ pos = [t \in Threads |-> 0]
    /\ val = [t \in Threads |-> None]
    /\ ops = [t \in Enqueuers |-> 0]
    /\ head = [o \in Observers |-> None]
    /\ log = <<>>
    /\ delivered = {}

Goto(t, place) == pc' = [pc EXCEPT ![t] = place]

-----------------------------------------------------------------------------
(* enqueueImpl *)

(* The call, and the load of enqueuePos_ it begins with. *)
EnqueueCall(t) ==
    /\ pc[t] = "idle"
    /\ ops[t] < MaxOps
    /\ ops' = [ops EXCEPT ![t] = @ + 1]
    /\ val' = [val EXCEPT ![t] = <<t, ops[t] + 1>>]
    /\ pos' = [pos EXCEPT ![t] = enqueuePos]
    /\ Goto(t, "loadSeq")
    /\ UNCHANGED <<enqueuePos, dequeuePos, sequence, data, head, history>>

(* Mutants of EnqueueLoadSeq: the test for a full ring is gone; a stale    *)
(* position is taken for a full ring.                                      *)
EnqueueIgnoresFull(t) ==
    /\ pc[t] = "loadSeq"
    /\ LET dif == sequence[Slot(pos[t])] - pos[t]
       IN Goto(t, IF dif > 0 THEN "reload" ELSE "cas")
    /\ UNCHANGED <<enqueuePos, dequeuePos, sequence, data, pos, val, ops, head, history>>

EnqueueRefusesStale(t) ==
    /\ pc[t] = "loadSeq"
    /\ LET dif == sequence[Slot(pos[t])] - pos[t]
       IN Goto(t, IF dif = 0 THEN "cas" ELSE "idle")
    /\ UNCHANGED <<enqueuePos, dequeuePos, sequence, data, pos, val, ops, head, history>>

(* Load the slot's sequence number and branch on its difference to pos.    *)
(* A negative difference is the return of false.                           *)
EnqueueLoadSeq(t) ==
    /\ pc[t] = "loadSeq"
    /\ LET dif == sequence[Slot(pos[t])] - pos[t]
       IN Goto(t, IF dif = 0 THEN "cas" ELSE IF dif < 0 THEN "idle" ELSE "reload")
    /\ UNCHANGED <<enqueuePos, dequeuePos, sequence, data, pos, val, ops, head, history>>

EnqueueReload(t) ==
    /\ pc[t] = "reload"
    /\ pos' = [pos EXCEPT ![t] = enqueuePos]
    /\ Goto(t, "loadSeq")
    /\ UNCHANGED <<enqueuePos, dequeuePos, sequence, data, val, ops, head, history>>

(* Mutant of EnqueueClaim: a plain store instead of the compare_exchange. *)
EnqueueStores(t) ==
    /\ pc[t] = "cas"
    /\ enqueuePos' = pos[t] + 1
    /\ log' = Append(log, val[t])
    /\ Goto(t, "write")
    /\ UNCHANGED <<dequeuePos, sequence, data, pos, val, ops, head, delivered>>

(* compare_exchange_weak succeeds: position pos[t] belongs to t. *)
EnqueueClaim(t) ==
    /\ pc[t] = "cas"
    /\ enqueuePos = pos[t]
    /\ enqueuePos' = enqueuePos + 1
    /\ log' = Append(log, val[t])
    /\ Goto(t, "write")
    /\ UNCHANGED <<dequeuePos, sequence, data, pos, val, ops, head, delivered>>

(* compare_exchange_weak fails, spuriously or not, and reloads pos. *)
EnqueueClaimFails(t) ==
    /\ pc[t] = "cas"
    /\ pos' = [pos EXCEPT ![t] = enqueuePos]
    /\ Goto(t, "loadSeq")
    /\ UNCHANGED <<enqueuePos, dequeuePos, sequence, data, val, ops, head, history>>

EnqueueWrite(t) ==
    /\ pc[t] = "write"
    /\ data' = [data EXCEPT ![Slot(pos[t])] = val[t]]
    /\ Goto(t, "publish")
    /\ UNCHANGED <<enqueuePos, dequeuePos, sequence, pos, val, ops, head, history>>

(* Mutant of EnqueuePublish: the sequence number is stored unchanged. *)
EnqueuePublishesPos(t) ==
    /\ pc[t] = "publish"
    /\ sequence' = [sequence EXCEPT ![Slot(pos[t])] = pos[t]]
    /\ Goto(t, "idle")
    /\ UNCHANGED <<enqueuePos, dequeuePos, data, pos, val, ops, head, history>>

(* sequence.store(pos+1), and the return of true *)
EnqueuePublish(t) ==
    /\ pc[t] = "publish"
    /\ sequence' = [sequence EXCEPT ![Slot(pos[t])] = pos[t] + 1]
    /\ Goto(t, "idle")
    /\ UNCHANGED <<enqueuePos, dequeuePos, data, pos, val, ops, head, history>>

-----------------------------------------------------------------------------
(* dequeue *)

DequeueCall(t) ==
    /\ pc[t] = "idle"
    /\ pos' = [pos EXCEPT ![t] = dequeuePos]
    /\ Goto(t, "loadSeq")
    /\ UNCHANGED <<enqueuePos, dequeuePos, sequence, data, val, ops, head, history>>

(* Mutant of DequeueLoadSeq: the test for an empty ring is gone. *)
DequeueIgnoresEmpty(t) ==
    /\ pc[t] = "loadSeq"
    /\ LET dif == sequence[Slot(pos[t])] - (pos[t] + 1)
       IN Goto(t, IF dif > 0 THEN "reload" ELSE "cas")
    /\ UNCHANGED <<enqueuePos, dequeuePos, sequence, data, pos, val, ops, head, history>>

DequeueLoadSeq(t) ==
    /\ pc[t] = "loadSeq"
    /\ LET dif == sequence[Slot(pos[t])] - (pos[t] + 1)
       IN Goto(t, IF dif = 0 THEN "cas" ELSE IF dif < 0 THEN "idle" ELSE "reload")
    /\ UNCHANGED <<enqueuePos, dequeuePos, sequence, data, pos, val, ops, head, history>>

DequeueReload(t) ==
    /\ pc[t] = "reload"
    /\ pos' = [pos EXCEPT ![t] = dequeuePos]
    /\ Goto(t, "loadSeq")
    /\ UNCHANGED <<enqueuePos, dequeuePos, sequence, data, val, ops, head, history>>

DequeueClaim(t) ==
    /\ pc[t] = "cas"
    /\ dequeuePos = pos[t]
    /\ dequeuePos' = dequeuePos + 1
    /\ Goto(t, "read")
    /\ UNCHANGED <<enqueuePos, sequence, data, pos, val, ops, head, history>>

DequeueClaimFails(t) ==
    /\ pc[t] = "cas"
    /\ pos' = [pos EXCEPT ![t] = dequeuePos]
    /\ Goto(t, "loadSeq")
    /\ UNCHANGED <<enqueuePos, dequeuePos, sequence, data, val, ops, head, history>>

(* data=std::move(slot->data) *)
DequeueRead(t) ==
    /\ pc[t] = "read"
    /\ val' = [val EXCEPT ![t] = data[Slot(pos[t])]]
    /\ data' = [data EXCEPT ![Slot(pos[t])] = None]
    /\ Goto(t, "release")
    /\ UNCHANGED <<enqueuePos, dequeuePos, sequence, pos, ops, head, history>>

(* sequence.store(pos+buffer_.size()), and the return of true *)
DequeueRelease(t) ==
    /\ pc[t] = "release"
    /\ sequence' = [sequence EXCEPT ![Slot(pos[t])] = pos[t] + Size]
    /\ delivered' = delivered \cup {val[t]}
    /\ val' = [val EXCEPT ![t] = None]
    /\ Goto(t, "idle")
    /\ UNCHANGED <<enqueuePos, dequeuePos, data, pos, ops, head, log>>

-----------------------------------------------------------------------------
(* empty, full and getRemainCapacity: two loads, the head first; their     *)
(* answers are computed from tail - head, an unsigned difference.          *)
ObserveHead(o) ==
    /\ head[o] = None
    /\ head' = [head EXCEPT ![o] = dequeuePos]
    /\ UNCHANGED <<enqueuePos, dequeuePos, sequence, data, pc, pos, val, ops, history>>

ObserveTail(o) ==
    /\ head[o] # None
    /\ head' = [head EXCEPT ![o] = None]
    /\ UNCHANGED <<enqueuePos, dequeuePos, sequence, data, pc, pos, val, ops, history>>

-----------------------------------------------------------------------------
EnqueueStep(t) ==
    \/ EnqueueCall(t) \/ EnqueueLoadSeq(t) \/ EnqueueReload(t)
    \/ EnqueueClaim(t) \/ EnqueueClaimFails(t) \/ EnqueueWrite(t) \/ EnqueuePublish(t)

DequeueStep(t) ==
    \/ DequeueCall(t) \/ DequeueLoadSeq(t) \/ DequeueReload(t)
    \/ DequeueClaim(t) \/ DequeueClaimFails(t) \/ DequeueRead(t) \/ DequeueRelease(t)

ObserveStep(o) == ObserveHead(o) \/ ObserveTail(o)

Next ==
    \/ \E t \in Enqueuers : EnqueueStep(t)
    \/ \E t \in Dequeuers : DequeueStep(t)
    \/ \E o \in Observers : ObserveStep(o)

Spec == Init /\ [][Next]_vars

-----------------------------------------------------------------------------
(* Properties. *)

(* Type correctness. *)
TypeOK ==
    /\ enqueuePos \in Nat
    /\ dequeuePos \in Nat
    /\ sequence \in [Slots -> Nat]
    /\ data \in [Slots -> Values \cup {None}]
    /\ pc \in [Threads -> {"idle", "loadSeq", "reload", "cas", "write", "publish",
                           "read", "release"}]
    /\ pos \in [Threads -> Nat]
    /\ val \in [Threads -> Values \cup {None}]
    /\ ops \in [Enqueuers -> 0..MaxOps]
    /\ head \in [Observers -> Nat \cup {None}]
    /\ log \in Seq(Values)
    /\ delivered \subseteq Values \cup {None}

(* Places between a successful compare_exchange and the release store:     *)
(* the thread may touch its slot's data.                                   *)
Writing(t) == pc[t] \in {"write", "publish"}
Reading(t) == pc[t] \in {"read", "release"}

(* Two threads never own the same slot at once, so the plain accesses to   *)
(* slot->data never race, however the claims of enqueuers and dequeuers    *)
(* interleave and however long a thread sleeps between claim and release.  *)
SlotExclusive ==
    \A s, t \in Threads :
        s # t /\ (Writing(s) \/ Reading(s)) /\ (Writing(t) \/ Reading(t)) =>
            Slot(pos[s]) # Slot(pos[t])

(* enqueue answers false only if all Size slots are taken, or the dequeuer *)
(* of the slot it needs has claimed it and not released it yet; dequeue    *)
(* answers false only if nothing is in the queue, or the enqueuer of the   *)
(* oldest element has not published it yet.  A position read long ago      *)
(* never makes either of them answer false.                                *)
HonestRefusal ==
    [][/\ \A t \in Enqueuers :
            pc[t] = "loadSeq" /\ pc'[t] = "idle" =>
                \/ enqueuePos = dequeuePos + Size
                \/ \E c \in Dequeuers : Reading(c) /\ pos[c] + Size = enqueuePos
       /\ \A t \in Dequeuers :
            pc[t] = "loadSeq" /\ pc'[t] = "idle" =>
                \/ enqueuePos = dequeuePos
                \/ \E e \in Enqueuers : Writing(e) /\ pos[e] = dequeuePos]_vars

(* empty, full and getRemainCapacity subtract an earlier head from a later *)
(* tail: the unsigned difference never wraps.                              *)
ObserverNeverWraps ==
    \A o \in Observers : head[o] # None => head[o] <= enqueuePos

(* When every call has returned and dequeue would answer false, everything *)
(* that was put in has been handed out.                                    *)
NothingMissing ==
    /\ \A t \in Threads : pc[t] = "idle"
    /\ sequence[Slot(dequeuePos)] < dequeuePos + 1
    => \A i \in 1..Len(log) : log[i] \in delivered

(* The ring behaves as one bounded first-in first-out queue: elements are  *)
(* put in when enqueuePos_ advances, taken out when dequeuePos_ advances,  *)
(* and each dequeue returns the very element of the position it claimed.   *)
holding == [c \in Dequeuers |-> IF Reading(c) THEN log[pos[c] + 1] ELSE None]
Fifo == INSTANCE BoundedFifo
          WITH items <- SubSeq(log, dequeuePos + 1, Len(log)), Consumers <- Dequeuers
ImplementsFifo == Fifo!FifoSpec
=============================================================================
