---------------------------- MODULE BoundedFifo -----------------------------
(***************************************************************************)
(* What LockFreeCurcularQueue promises: one first-in first-out queue of at *)
(* most Size elements.  An element is put in at one instant, taken out by  *)
(* one consumer at one instant, and handed to that consumer's caller later *)
(* (dequeue still has to move it out of its slot).                         *)
(***************************************************************************)
EXTENDS Naturals, Sequences

CONSTANTS Values, Consumers, Size, None

VARIABLES items,      \* the elements in the queue, oldest first
          holding,    \* holding[c]: what c has taken and not handed on, or None
          delivered   \* history: the elements handed to callers of dequeue

fifoVars == <<items, holding, delivered>>

FifoInit ==
    /\ items = <<>>
    /\ holding = [c \in Consumers |-> None]
    /\ delivered = {}

Put(v) ==
    /\ Len(items) < Size
    /\ items' = Append(items, v)
    /\ UNCHANGED <<holding, delivered>>

Take(c) ==
    /\ items # <<>>
    /\ holding[c] = None
    /\ holding' = [holding EXCEPT ![c] = Head(items)]
    /\ items' = Tail(items)
    /\ UNCHANGED delivered

Deliver(c) ==
    /\ holding[c] # None
    /\ delivered' = delivered \cup {holding[c]}
    /\ holding' = [holding EXCEPT ![c] = None]
    /\ UNCHANGED items

FifoNext ==
    \/ \E v \in Values : Put(v)
    \/ \E c \in Consumers : Take(c) \/ Deliver(c)

FifoSpec == FifoInit /\ [][FifoNext]_fifoVars
=============================================================================
