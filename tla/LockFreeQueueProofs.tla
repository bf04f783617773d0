------------------------ MODULE LockFreeQueueProofs -------------------------
(***************************************************************************)
(* Proofs about LockFreeQueue for any number of threads and calls and any  *)
(* ring of at least two slots.  (With one slot they are false: a full slot *)
(* looks free.)  The argument is by positions: position q lives in         *)
(* slot Slot(q), positions dequeuePos .. dequeuePos + Size - 1 have        *)
(* pairwise different slots, and the sequence number of its slot says how  *)
(* far position q has got.                                                 *)
(***************************************************************************)
EXTENDS LockFreeQueue, SequenceTheorems, TLAPS

(* Enqueuers only write, dequeuers only read, and an enqueuer that is      *)
(* inside a call has an element to put in.                                 *)
PlaceInv ==
    /\ \A t \in Enqueuers :
          pc[t] \notin {"read", "release"} /\ (pc[t] # "idle" => val[t] \in Values)
    /\ \A c \in Dequeuers : pc[c] \notin {"write", "publish"}

WindowInv ==
    /\ dequeuePos <= enqueuePos
    /\ enqueuePos <= dequeuePos + Size
    /\ Len(log) = enqueuePos

(* A claimed position that no dequeuer claimed is published or its writer  *)
(* is still at work.                                                       *)
FilledInv ==
    \A q \in Nat : dequeuePos <= q /\ q < enqueuePos =>
        \/ sequence[Slot(q)] = q + 1
        \/ \E t \in Enqueuers : Writing(t) /\ pos[t] = q

(* A position that can be claimed next is free or the reader of the same   *)
(* slot one round earlier is still at work.                                *)
FreeInv ==
    \A q \in Nat : enqueuePos <= q /\ q < dequeuePos + Size =>
        \/ sequence[Slot(q)] = q
        \/ \E c \in Dequeuers : Reading(c) /\ pos[c] + Size = q

WriterInv ==
    \A t \in Enqueuers : Writing(t) =>
        /\ dequeuePos <= pos[t] /\ pos[t] < enqueuePos
        /\ sequence[Slot(pos[t])] = pos[t]
        /\ \A s \in Enqueuers : s # t /\ Writing(s) => pos[s] # pos[t]

ReaderInv ==
    \A c \in Dequeuers : Reading(c) =>
        /\ pos[c] < dequeuePos /\ enqueuePos <= pos[c] + Size
        /\ sequence[Slot(pos[c])] = pos[c] + 1
        /\ \A d \in Dequeuers : d # c /\ Reading(d) => pos[d] # pos[c]

(* What the data of a slot is, from the claim to the delivery. *)
DataInv ==
    /\ \A q \in Nat : dequeuePos <= q /\ q < enqueuePos /\ sequence[Slot(q)] = q + 1
          => data[Slot(q)] = log[q + 1]
    /\ \A t \in Enqueuers :
          /\ pc[t] = "write" => val[t] = log[pos[t] + 1]
          /\ pc[t] = "publish" => data[Slot(pos[t])] = log[pos[t] + 1]
    /\ \A c \in Dequeuers :
          /\ pc[c] = "read" => data[Slot(pos[c])] = log[pos[c] + 1]
          /\ pc[c] = "release" => val[c] = log[pos[c] + 1]

(* A position read earlier is not in the future, and one that is still     *)
(* current at the compare_exchange still has the sequence number seen.     *)
ClaimInv ==
    /\ \A t \in Enqueuers :
          /\ pc[t] \in {"loadSeq", "cas"} => pos[t] <= enqueuePos
          /\ pc[t] = "cas" /\ pos[t] = enqueuePos => sequence[Slot(enqueuePos)] = enqueuePos
    /\ \A c \in Dequeuers :
          /\ pc[c] \in {"loadSeq", "cas"} => pos[c] <= dequeuePos
          /\ pc[c] = "cas" /\ pos[c] = dequeuePos =>
                sequence[Slot(dequeuePos)] = dequeuePos + 1 /\ dequeuePos < enqueuePos

(* Sequence numbers never fall behind a position that was claimed. *)
PastInv ==
    /\ \A q \in Nat : q < enqueuePos => sequence[Slot(q)] >= q
    /\ \A q \in Nat : q < dequeuePos => sequence[Slot(q)] >= q + 1

(* What was taken out was delivered or is being read. *)
HandedInv ==
    \A q \in Nat : q < dequeuePos =>
        \/ log[q + 1] \in delivered
        \/ \E c \in Dequeuers : Reading(c) /\ pos[c] = q

HeadInv == \A o \in Observers : head[o] # None => head[o] <= dequeuePos

OwnerInv == PlaceInv /\ WindowInv /\ WriterInv /\ ReaderInv
RingInv  == FilledInv /\ FreeInv /\ ClaimInv /\ PastInv
IInv == TypeOK /\ OwnerInv /\ RingInv /\ DataInv /\ HandedInv /\ HeadInv

-----------------------------------------------------------------------------
(* Arithmetic of slots. *)

LEMMA SlotDivision ==
    ASSUME NEW p \in Nat
    PROVE  /\ p % Size \in Slots
           /\ p \div Size \in Nat
           /\ p = Size * (p \div Size) + (p % Size)
<1>1. Size \in Nat \ {0}
  BY QueueAssumption
<1>2. p % Size \in 0..(Size - 1)
  BY <1>1
<1>3. p \div Size \in Nat
  BY <1>1
<1>4. p = Size * (p \div Size) + (p % Size)
  BY <1>1
<1> QED
  BY <1>2, <1>3, <1>4 DEF Slots

LEMMA SlotRemainder ==
    ASSUME NEW x \in Nat, NEW r \in Slots
    PROVE  (Size * x + r) % Size = r
<1>1. Size \in Nat \ {0} /\ r \in Nat /\ r < Size
  BY QueueAssumption DEF Slots
<1> QED
  BY <1>1

LEMMA RoundsApart ==
    ASSUME NEW x \in Nat, NEW y \in Nat, x < y
    PROVE  Size * y >= Size * x + Size
BY QueueAssumption

LEMMA SlotInRange == \A a \in Nat : Slot(a) \in Slots
BY SlotDivision DEF Slot

(* Size positions in a row are in Size different slots. *)
LEMMA SlotApart ==
    \A a, b \in Nat : a < b /\ b < a + Size => Slot(a) # Slot(b)
<1> SUFFICES ASSUME NEW a \in Nat, NEW b \in Nat, a < b, b < a + Size,
                    a % Size = b % Size
             PROVE  FALSE
  BY DEF Slot
<1> DEFINE x == a \div Size
           y == b \div Size
           r == a % Size
<1>1. /\ a = Size * x + r /\ b = Size * y + r
      /\ x \in Nat /\ y \in Nat /\ r \in Slots
  BY SlotDivision
<1> HIDE DEF x, y, r
<1>2. Size \in Nat \ {0} /\ r \in Nat
  BY <1>1, QueueAssumption DEF Slots
<1>3. Size * x \in Nat /\ Size * y \in Nat
  BY <1>1, <1>2
<1>4. CASE x < y
  BY <1>1, <1>2, <1>3, <1>4, RoundsApart
<1>5. CASE x = y
  BY <1>1, <1>2, <1>3, <1>5
<1>6. CASE y < x
  BY <1>1, <1>2, <1>3, <1>6, RoundsApart
<1> QED
  BY <1>1, <1>4, <1>5, <1>6

(* One round later a position is in the same slot. *)
LEMMA SlotAgain == \A a \in Nat : Slot(a + Size) = Slot(a)
<1> SUFFICES ASSUME NEW a \in Nat
             PROVE  (a + Size) % Size = a % Size
  BY DEF Slot
<1> DEFINE x == a \div Size
           r == a % Size
<1>1. a = Size * x + r /\ x \in Nat /\ r \in Slots
  BY SlotDivision
<1> HIDE DEF x, r
<1>2. a + Size = Size * (x + 1) + r
  BY <1>1, QueueAssumption DEF Slots
<1>3. (a + Size) % Size = r
  BY <1>1, <1>2, SlotRemainder
<1>4. a % Size = r
  BY <1>1, SlotRemainder
<1> QED
  BY <1>3, <1>4

-----------------------------------------------------------------------------
(* Type correctness. *)

LEMMA EnqueueTypes ==
    ASSUME TypeOK, PlaceInv, NEW t \in Enqueuers, EnqueueStep(t)
    PROVE  TypeOK'
<1> USE DEF TypeOK, Threads, Goto, history
<1>1. CASE EnqueueCall(t)
  <2>1. ops[t] + 1 \in 1..MaxOps
    BY <1>1, QueueAssumption DEF EnqueueCall
  <2>2. <<t, ops[t] + 1>> \in Values
    BY <2>1 DEF Values
  <2> QED
    BY <1>1, <2>1, <2>2, QueueAssumption DEF EnqueueCall
<1>2. CASE EnqueueLoadSeq(t)
  BY <1>2 DEF EnqueueLoadSeq
<1>3. CASE EnqueueReload(t)
  BY <1>3 DEF EnqueueReload
<1>4. CASE EnqueueClaim(t)
  <2>1. val[t] \in Values
    BY <1>4 DEF EnqueueClaim, PlaceInv
  <2> QED
    BY <1>4, <2>1 DEF EnqueueClaim
<1>5. CASE EnqueueClaimFails(t)
  BY <1>5 DEF EnqueueClaimFails
<1>6. CASE EnqueueWrite(t)
  BY <1>6 DEF EnqueueWrite
<1>7. CASE EnqueuePublish(t)
  <2>1. pos[t] + 1 \in Nat
    OBVIOUS
  <2> QED
    BY <1>7, <2>1 DEF EnqueuePublish
<1> QED
  BY <1>1, <1>2, <1>3, <1>4, <1>5, <1>6, <1>7 DEF EnqueueStep

LEMMA DequeueTypes ==
    ASSUME TypeOK, NEW t \in Dequeuers, DequeueStep(t)
    PROVE  TypeOK'
<1> USE DEF TypeOK, Threads, Goto, history
<1>1. CASE DequeueCall(t)
  BY <1>1 DEF DequeueCall
<1>2. CASE DequeueLoadSeq(t)
  BY <1>2 DEF DequeueLoadSeq
<1>3. CASE DequeueReload(t)
  BY <1>3 DEF DequeueReload
<1>4. CASE DequeueClaim(t)
  BY <1>4 DEF DequeueClaim
<1>5. CASE DequeueClaimFails(t)
  BY <1>5 DEF DequeueClaimFails
<1>6. CASE DequeueRead(t)
  <2>1. data[Slot(pos[t])] \in Values \cup {None}
    BY SlotInRange
  <2> QED
    BY <1>6, <2>1 DEF DequeueRead
<1>7. CASE DequeueRelease(t)
  <2>1. pos[t] + Size \in Nat
    BY QueueAssumption
  <2> QED
    BY <1>7, <2>1 DEF DequeueRelease
<1> QED
  BY <1>1, <1>2, <1>3, <1>4, <1>5, <1>6, <1>7 DEF DequeueStep

LEMMA ObserveTypes ==
    ASSUME TypeOK, NEW o \in Observers, ObserveStep(o)
    PROVE  TypeOK'
BY DEF TypeOK, ObserveStep, ObserveHead, ObserveTail, history

-----------------------------------------------------------------------------
(* Ownership of slots. *)

(* The owners of slots own different slots. *)
LEMMA OwnersApart ==
    ASSUME TypeOK, OwnerInv
    PROVE  /\ \A s, t \in Enqueuers :
                 s # t /\ Writing(s) /\ Writing(t) => Slot(pos[s]) # Slot(pos[t])
           /\ \A s, t \in Dequeuers :
                 s # t /\ Reading(s) /\ Reading(t) => Slot(pos[s]) # Slot(pos[t])
           /\ \A s \in Enqueuers, t \in Dequeuers :
                 Writing(s) /\ Reading(t) => Slot(pos[s]) # Slot(pos[t])
<1> USE DEF OwnerInv, WindowInv
<1>0. /\ Size \in Nat \ {0} /\ enqueuePos \in Nat /\ dequeuePos \in Nat
      /\ \A t \in Enqueuers : pos[t] \in Nat
      /\ \A t \in Dequeuers : pos[t] \in Nat
  BY QueueAssumption DEF TypeOK, Threads
<1>1. ASSUME NEW s \in Enqueuers, NEW t \in Enqueuers, s # t, Writing(s), Writing(t)
      PROVE  Slot(pos[s]) # Slot(pos[t])
  <2>1. /\ pos[s] # pos[t]
        /\ pos[s] < pos[t] + Size /\ pos[t] < pos[s] + Size
    BY <1>0, <1>1 DEF WriterInv
  <2> QED
    BY <1>0, <2>1, SlotApart
<1>2. ASSUME NEW s \in Dequeuers, NEW t \in Dequeuers, s # t, Reading(s), Reading(t)
      PROVE  Slot(pos[s]) # Slot(pos[t])
  <2>1. /\ pos[s] # pos[t]
        /\ pos[s] < pos[t] + Size /\ pos[t] < pos[s] + Size
    BY <1>0, <1>2 DEF ReaderInv
  <2> QED
    BY <1>0, <2>1, SlotApart
<1>3. ASSUME NEW s \in Enqueuers, NEW t \in Dequeuers, Writing(s), Reading(t)
      PROVE  Slot(pos[s]) # Slot(pos[t])
  <2>1. pos[t] < pos[s] /\ pos[s] < pos[t] + Size
    BY <1>0, <1>3 DEF WriterInv, ReaderInv
  <2> QED
    BY <1>0, <2>1, SlotApart
<1> QED
  BY <1>1, <1>2, <1>3

(* A step of a thread that owns no slot, before or after, and that leaves  *)
(* the ring alone keeps everything but what is said of that thread.        *)
LEMMA QuietStep ==
    ASSUME IInv, NEW t \in Threads,
           UNCHANGED <<enqueuePos, dequeuePos, sequence, data, log, delivered>>,
           \A s \in Threads : s # t =>
               pc'[s] = pc[s] /\ pos'[s] = pos[s] /\ val'[s] = val[s],
           ~Writing(t), ~Reading(t), ~Writing(t)', ~Reading(t)'
    PROVE  /\ WindowInv' /\ WriterInv' /\ ReaderInv' /\ FilledInv' /\ FreeInv'
           /\ DataInv' /\ PastInv' /\ HandedInv'
<1> USE DEF IInv, OwnerInv, RingInv, Threads, Writing, Reading
<1>1. WindowInv' /\ PastInv'
  BY DEF WindowInv, PastInv
<1>2. WriterInv' /\ ReaderInv'
  BY DEF WriterInv, ReaderInv
<1>3. FilledInv' /\ FreeInv'
  BY DEF FilledInv, FreeInv
<1>4. DataInv'
  BY DEF DataInv
<1>5. HandedInv'
  BY DEF HandedInv
<1> QED
  BY <1>1, <1>2, <1>3, <1>4, <1>5

LEMMA EnqueueQuiet ==
    ASSUME IInv, NEW t \in Enqueuers,
           EnqueueCall(t) \/ EnqueueLoadSeq(t) \/ EnqueueReload(t) \/ EnqueueClaimFails(t)
    PROVE  OwnerInv' /\ RingInv' /\ DataInv' /\ HandedInv' /\ HeadInv'
<1> USE DEF IInv, TypeOK, Threads, Goto, history
<1>1. /\ UNCHANGED <<enqueuePos, dequeuePos, sequence, data, log, delivered, head>>
      /\ \A s \in Threads : s # t =>
            pc'[s] = pc[s] /\ pos'[s] = pos[s] /\ val'[s] = val[s]
      /\ pc[t] \in {"idle", "loadSeq", "reload", "cas"}
      /\ pc'[t] \in {"idle", "loadSeq", "reload", "cas"}
  BY DEF EnqueueCall, EnqueueLoadSeq, EnqueueReload, EnqueueClaimFails
<1>2. ~Writing(t) /\ ~Reading(t) /\ ~Writing(t)' /\ ~Reading(t)'
  BY <1>1 DEF Writing, Reading
<1>3. /\ WindowInv' /\ WriterInv' /\ ReaderInv' /\ FilledInv' /\ FreeInv'
      /\ DataInv' /\ PastInv' /\ HandedInv'
  BY <1>1, <1>2, QuietStep
<1>4. PlaceInv'
  <2>1. pc'[t] # "idle" => val'[t] \in Values
    <3>1. CASE EnqueueCall(t)
      <4>1. ops[t] + 1 \in 1..MaxOps
        BY <3>1, QueueAssumption DEF EnqueueCall
      <4> QED
        BY <3>1, <4>1 DEF EnqueueCall, Values
    <3>2. CASE EnqueueLoadSeq(t) \/ EnqueueReload(t) \/ EnqueueClaimFails(t)
      BY <3>2 DEF EnqueueLoadSeq, EnqueueReload, EnqueueClaimFails, OwnerInv, PlaceInv
    <3> QED
      BY <3>1, <3>2
  <2> QED
    BY <1>1, <2>1, QueueAssumption DEF OwnerInv, PlaceInv
<1>5. ClaimInv'
  <2>1. /\ pc'[t] \in {"loadSeq", "cas"} => pos'[t] <= enqueuePos
        /\ pc'[t] = "cas" => sequence[Slot(pos'[t])] = pos'[t]
    <3>1. CASE EnqueueCall(t) \/ EnqueueReload(t) \/ EnqueueClaimFails(t)
      BY <3>1 DEF EnqueueCall, EnqueueReload, EnqueueClaimFails
    <3>2. CASE EnqueueLoadSeq(t)
      <4>1. sequence[Slot(pos[t])] \in Nat /\ pos[t] \in Nat
        BY SlotInRange
      <4> QED
        BY <3>2, <4>1 DEF EnqueueLoadSeq, RingInv, ClaimInv
    <3> QED
      BY <3>1, <3>2
  <2> QED
    BY <1>1, <2>1, QueueAssumption DEF RingInv, ClaimInv
<1>6. HeadInv'
  BY <1>1 DEF HeadInv
<1> QED
  BY <1>3, <1>4, <1>5, <1>6 DEF OwnerInv, RingInv

LEMMA DequeueQuiet ==
    ASSUME IInv, NEW t \in Dequeuers,
           DequeueCall(t) \/ DequeueLoadSeq(t) \/ DequeueReload(t) \/ DequeueClaimFails(t)
    PROVE  OwnerInv' /\ RingInv' /\ DataInv' /\ HandedInv' /\ HeadInv'
<1> USE DEF IInv, TypeOK, Threads, Goto, history
<1>1. /\ UNCHANGED <<enqueuePos, dequeuePos, sequence, data, log, delivered, head>>
      /\ \A s \in Threads : s # t =>
            pc'[s] = pc[s] /\ pos'[s] = pos[s] /\ val'[s] = val[s]
      /\ pc[t] \in {"idle", "loadSeq", "reload", "cas"}
      /\ pc'[t] \in {"idle", "loadSeq", "reload", "cas"}
  BY DEF DequeueCall, DequeueLoadSeq, DequeueReload, DequeueClaimFails
<1>2. ~Writing(t) /\ ~Reading(t) /\ ~Writing(t)' /\ ~Reading(t)'
  BY <1>1 DEF Writing, Reading
<1>3. /\ WindowInv' /\ WriterInv' /\ ReaderInv' /\ FilledInv' /\ FreeInv'
      /\ DataInv' /\ PastInv' /\ HandedInv'
  BY <1>1, <1>2, QuietStep
<1>4. PlaceInv'
  BY <1>1, QueueAssumption DEF OwnerInv, PlaceInv
<1>5. ClaimInv'
  <2>1. sequence[Slot(dequeuePos)] = dequeuePos + 1 => dequeuePos < enqueuePos
    <3> SUFFICES ASSUME dequeuePos = enqueuePos
                 PROVE  sequence[Slot(dequeuePos)] # dequeuePos + 1
      BY DEF OwnerInv, WindowInv
    <3>1. CASE sequence[Slot(enqueuePos)] = enqueuePos
      BY <3>1
    <3>2. ASSUME NEW c \in Dequeuers, Reading(c), pos[c] + Size = enqueuePos
          PROVE  sequence[Slot(dequeuePos)] # dequeuePos + 1
      <4>1. sequence[Slot(pos[c])] = pos[c] + 1 /\ pos[c] \in Nat
        BY <3>2 DEF OwnerInv, ReaderInv
      <4>2. Slot(enqueuePos) = Slot(pos[c])
        BY <3>2, <4>1, SlotAgain
      <4> QED
        BY <3>2, <4>1, <4>2, QueueAssumption
    <3>3. enqueuePos < dequeuePos + Size
      BY QueueAssumption
    <3> QED
      BY <3>1, <3>2, <3>3 DEF RingInv, FreeInv
  <2>2. /\ pc'[t] \in {"loadSeq", "cas"} => pos'[t] <= dequeuePos
        /\ pc'[t] = "cas" => sequence[Slot(pos'[t])] = pos'[t] + 1
    <3>1. CASE DequeueCall(t) \/ DequeueReload(t) \/ DequeueClaimFails(t)
      BY <3>1 DEF DequeueCall, DequeueReload, DequeueClaimFails
    <3>2. CASE DequeueLoadSeq(t)
      <4>1. sequence[Slot(pos[t])] \in Nat /\ pos[t] \in Nat
        BY SlotInRange
      <4> QED
        BY <3>2, <4>1 DEF DequeueLoadSeq, RingInv, ClaimInv
    <3> QED
      BY <3>1, <3>2
  <2> QED
    BY <1>1, <2>1, <2>2, QueueAssumption DEF RingInv, ClaimInv
<1>6. HeadInv'
  BY <1>1 DEF HeadInv
<1> QED
  BY <1>3, <1>4, <1>5, <1>6 DEF OwnerInv, RingInv

-----------------------------------------------------------------------------
(* The claims. *)

(* What a successful compare_exchange_weak on enqueuePos_ relies on: the   *)
(* ring is not full and nobody reads the slot.                             *)
LEMMA EnqueueClaimFacts ==
    ASSUME Size # 1, IInv, NEW t \in Enqueuers, EnqueueClaim(t)
    PROVE  /\ pos[t] = enqueuePos
           /\ sequence[Slot(enqueuePos)] = enqueuePos
           /\ enqueuePos < dequeuePos + Size
           /\ \A c \in Dequeuers : Reading(c) => enqueuePos < pos[c] + Size
<1> USE DEF IInv, TypeOK, Threads, OwnerInv, RingInv
<1>0. /\ Size \in Nat /\ Size >= 2
      /\ \A s \in Enqueuers : pos[s] \in Nat
      /\ \A c \in Dequeuers : pos[c] \in Nat
  BY QueueAssumption
<1>1. pos[t] = enqueuePos /\ sequence[Slot(enqueuePos)] = enqueuePos
  BY DEF EnqueueClaim, ClaimInv
<1>2. enqueuePos # dequeuePos + Size
  <2> SUFFICES ASSUME enqueuePos = dequeuePos + Size
               PROVE  FALSE
    OBVIOUS
  <2>1. Slot(dequeuePos) = Slot(enqueuePos)
    BY SlotAgain
  <2>2. dequeuePos < enqueuePos
    BY <1>0
  <2>3. CASE sequence[Slot(dequeuePos)] = dequeuePos + 1
    BY <1>0, <1>1, <2>1, <2>3
  <2>4. ASSUME NEW s \in Enqueuers, Writing(s), pos[s] = dequeuePos
        PROVE  FALSE
    BY <1>0, <1>1, <2>1, <2>4 DEF WriterInv
  <2> QED
    BY <2>2, <2>3, <2>4 DEF FilledInv
<1>3. ASSUME NEW c \in Dequeuers, Reading(c), pos[c] + Size = enqueuePos
      PROVE  FALSE
  <2>1. Slot(pos[c]) = Slot(enqueuePos)
    BY <1>0, <1>3, SlotAgain
  <2>2. sequence[Slot(pos[c])] = pos[c] + 1
    BY <1>3 DEF ReaderInv
  <2> QED
    BY <1>0, <1>1, <1>3, <2>1, <2>2
<1>4. enqueuePos < dequeuePos + Size
  BY <1>0, <1>2 DEF WindowInv
<1>5. ASSUME NEW c \in Dequeuers, Reading(c)
      PROVE  enqueuePos < pos[c] + Size
  <2>1. enqueuePos <= pos[c] + Size
    BY <1>5 DEF ReaderInv
  <2>2. pos[c] + Size # enqueuePos
    BY <1>3, <1>5
  <2>3. pos[c] \in Nat /\ enqueuePos \in Nat
    BY <1>0
  <2> HIDE DEF IInv, TypeOK, OwnerInv, RingInv
  <2> QED
    BY <1>0, <2>1, <2>2, <2>3
<1> QED
  BY <1>1, <1>4, <1>5

LEMMA EnqueueClaimStep ==
    ASSUME Size # 1, IInv, NEW t \in Enqueuers, EnqueueClaim(t)
    PROVE  OwnerInv' /\ RingInv' /\ DataInv' /\ HandedInv' /\ HeadInv'
<1> USE DEF OwnerInv, RingInv
<1>0. /\ Size \in Nat /\ Size >= 2 /\ enqueuePos \in Nat /\ dequeuePos \in Nat
      /\ \A s \in Enqueuers : pos[s] \in Nat /\ s \notin Dequeuers
      /\ \A c \in Dequeuers : pos[c] \in Nat /\ c # t
  BY QueueAssumption DEF IInv, TypeOK, Threads
<1>1. /\ pos[t] = enqueuePos
      /\ sequence[Slot(enqueuePos)] = enqueuePos
      /\ enqueuePos < dequeuePos + Size
      /\ \A c \in Dequeuers : Reading(c) => enqueuePos < pos[c] + Size
  BY EnqueueClaimFacts
<1>2. /\ enqueuePos' = enqueuePos + 1
      /\ pc[t] = "cas" /\ pc'[t] = "write"
      /\ \A s \in Threads : s # t => pc'[s] = pc[s]
      /\ UNCHANGED <<dequeuePos, sequence, data, pos, val, head, delivered>>
  BY DEF EnqueueClaim, Goto, IInv, TypeOK, Threads
<1>3. /\ Len(log') = enqueuePos + 1
      /\ \A q \in Nat : q < enqueuePos => log'[q + 1] = log[q + 1]
      /\ log'[enqueuePos + 1] = val[t]
  <2>1. val[t] \in Values /\ log \in Seq(Values) /\ Len(log) = enqueuePos
        /\ log' = Append(log, val[t])
    BY <1>2 DEF IInv, TypeOK, PlaceInv, WindowInv, EnqueueClaim
  <2> QED
    BY <1>0, <2>1
<1>4. ~Writing(t) /\ Writing(t)' /\ ~Reading(t) /\ ~Reading(t)'
  BY <1>2 DEF Writing, Reading
<1>5. /\ \A s \in Enqueuers : s # t => (Writing(s)' <=> Writing(s))
      /\ \A c \in Dequeuers : Reading(c)' <=> Reading(c)
  BY <1>0, <1>2 DEF Writing, Reading, Threads
<1>6. PlaceInv' /\ WindowInv'
  BY <1>0, <1>1, <1>2, <1>3 DEF PlaceInv, WindowInv, IInv, Threads
<1>7. WriterInv'
  BY <1>0, <1>1, <1>2, <1>4, <1>5 DEF WriterInv, WindowInv, IInv
<1>8. ReaderInv'
  BY <1>0, <1>1, <1>2, <1>5 DEF ReaderInv, IInv
<1>9. FilledInv'
  BY <1>0, <1>1, <1>2, <1>4, <1>5 DEF FilledInv, IInv
<1>10. FreeInv'
  BY <1>0, <1>2, <1>5 DEF FreeInv, IInv
<1>11. ClaimInv'
  BY <1>0, <1>2 DEF ClaimInv, IInv, Threads
<1>12. PastInv'
  BY <1>0, <1>1, <1>2 DEF PastInv, IInv
<1>13. DataInv'
  <2>1. ASSUME NEW q \in Nat, dequeuePos <= q, q < enqueuePos + 1, sequence[Slot(q)] = q + 1
        PROVE  data[Slot(q)] = log'[q + 1]
    <3>1. q # enqueuePos
      BY <1>0, <1>1, <2>1
    <3>2. q < enqueuePos
      BY <1>0, <2>1, <3>1
    <3>3. data[Slot(q)] = log[q + 1]
      BY <2>1, <3>2 DEF DataInv, IInv
    <3> QED
      BY <1>3, <3>2, <3>3
  <2>2. ASSUME NEW s \in Enqueuers, s # t
        PROVE  /\ pc[s] = "write" => val[s] = log'[pos[s] + 1]
               /\ pc[s] = "publish" => data[Slot(pos[s])] = log'[pos[s] + 1]
    <3>1. pc[s] \in {"write", "publish"} => pos[s] < enqueuePos
      BY DEF IInv, WriterInv, Writing
    <3> QED
      BY <1>0, <1>3, <3>1 DEF DataInv, IInv
  <2>3. ASSUME NEW c \in Dequeuers
        PROVE  /\ pc[c] = "read" => data[Slot(pos[c])] = log'[pos[c] + 1]
               /\ pc[c] = "release" => val[c] = log'[pos[c] + 1]
    <3>1. pc[c] \in {"read", "release"} => pos[c] < enqueuePos
      BY <1>0 DEF IInv, ReaderInv, WindowInv, Reading
    <3> QED
      BY <1>0, <1>3, <3>1 DEF DataInv, IInv
  <2> QED
    BY <1>0, <1>1, <1>2, <1>3, <2>1, <2>2, <2>3 DEF DataInv, Threads
<1>14. HandedInv'
  BY <1>0, <1>2, <1>3, <1>5 DEF HandedInv, WindowInv, IInv
<1>15. HeadInv'
  BY <1>2 DEF HeadInv, IInv
<1> QED
  BY <1>6, <1>7, <1>8, <1>9, <1>10, <1>11, <1>12, <1>13, <1>14, <1>15

LEMMA DequeueClaimStep ==
    ASSUME IInv, NEW t \in Dequeuers, DequeueClaim(t)
    PROVE  OwnerInv' /\ RingInv' /\ DataInv' /\ HandedInv' /\ HeadInv'
<1> USE DEF OwnerInv, RingInv
<1>0. /\ Size \in Nat /\ Size >= 1 /\ enqueuePos \in Nat /\ dequeuePos \in Nat
      /\ \A s \in Enqueuers : pos[s] \in Nat /\ s # t
      /\ \A c \in Dequeuers : pos[c] \in Nat
  BY QueueAssumption DEF IInv, TypeOK, Threads
<1>1. /\ pos[t] = dequeuePos
      /\ sequence[Slot(dequeuePos)] = dequeuePos + 1
      /\ dequeuePos < enqueuePos
  BY DEF DequeueClaim, IInv, ClaimInv
<1>2. /\ dequeuePos' = dequeuePos + 1
      /\ pc[t] = "cas" /\ pc'[t] = "read"
      /\ \A s \in Threads : s # t => pc'[s] = pc[s]
      /\ UNCHANGED <<enqueuePos, sequence, data, pos, val, head, log, delivered>>
  BY DEF DequeueClaim, Goto, IInv, TypeOK, Threads, history
<1>3. ~Reading(t) /\ Reading(t)' /\ ~Writing(t) /\ ~Writing(t)'
  BY <1>2 DEF Writing, Reading
<1>4. /\ \A c \in Dequeuers : c # t => (Reading(c)' <=> Reading(c))
      /\ \A s \in Enqueuers : Writing(s)' <=> Writing(s)
  BY <1>0, <1>2 DEF Writing, Reading, Threads
<1>5. PlaceInv' /\ WindowInv'
  BY <1>0, <1>1, <1>2 DEF PlaceInv, WindowInv, IInv, Threads
<1>6. WriterInv'
  <2>1. \A s \in Enqueuers : Writing(s) => pos[s] # dequeuePos
    BY <1>0, <1>1 DEF WriterInv, IInv
  <2> QED
    BY <1>0, <1>2, <1>4, <2>1 DEF WriterInv, IInv
<1>7. ReaderInv'
  BY <1>0, <1>1, <1>2, <1>3, <1>4 DEF ReaderInv, WindowInv, IInv
<1>8. FilledInv'
  BY <1>0, <1>2, <1>4 DEF FilledInv, IInv
<1>9. FreeInv'
  BY <1>0, <1>1, <1>2, <1>3, <1>4 DEF FreeInv, IInv
<1>10. ClaimInv'
  BY <1>0, <1>2 DEF ClaimInv, IInv, Threads
<1>11. PastInv'
  BY <1>0, <1>1, <1>2 DEF PastInv, IInv
<1>12. DataInv'
  BY <1>0, <1>1, <1>2 DEF DataInv, IInv, Threads
<1>13. HandedInv'
  BY <1>0, <1>1, <1>2, <1>3, <1>4 DEF HandedInv, IInv
<1>14. HeadInv'
  BY <1>0, <1>2, QueueAssumption DEF HeadInv, IInv, TypeOK
<1> QED
  BY <1>5, <1>6, <1>7, <1>8, <1>9, <1>10, <1>11, <1>12, <1>13, <1>14

-----------------------------------------------------------------------------
(* The work on a claimed slot. *)

LEMMA EnqueueWriteStep ==
    ASSUME IInv, NEW t \in Enqueuers, EnqueueWrite(t)
    PROVE  OwnerInv' /\ RingInv' /\ DataInv' /\ HandedInv' /\ HeadInv'
<1> USE DEF OwnerInv, RingInv
<1>0. /\ Size \in Nat \ {0} /\ enqueuePos \in Nat /\ dequeuePos \in Nat
      /\ \A s \in Enqueuers : pos[s] \in Nat
      /\ \A c \in Dequeuers : pos[c] \in Nat /\ c # t
  BY QueueAssumption DEF IInv, TypeOK, Threads
<1>1. /\ data' = [data EXCEPT ![Slot(pos[t])] = val[t]]
      /\ pc[t] = "write" /\ pc'[t] = "publish"
      /\ \A s \in Threads : s # t => pc'[s] = pc[s]
      /\ UNCHANGED <<enqueuePos, dequeuePos, sequence, pos, val, head, log, delivered>>
  BY DEF EnqueueWrite, Goto, IInv, TypeOK, Threads, history
<1>2. Writing(t) /\ Writing(t)'
  BY <1>1 DEF Writing
<1>3. /\ \A s \in Enqueuers : Writing(s)' <=> Writing(s)
      /\ \A c \in Dequeuers : Reading(c)' <=> Reading(c)
  BY <1>0, <1>1, <1>2 DEF Writing, Reading, Threads
<1>4. PlaceInv' /\ WindowInv' /\ HeadInv'
  BY <1>0, <1>1 DEF PlaceInv, WindowInv, HeadInv, IInv, Threads
<1>5. WriterInv' /\ ReaderInv'
  BY <1>1, <1>3 DEF WriterInv, ReaderInv, IInv
<1>6. FilledInv' /\ FreeInv'
  BY <1>1, <1>3 DEF FilledInv, FreeInv, IInv
<1>7. ClaimInv'
  BY <1>0, <1>1 DEF ClaimInv, IInv, Threads
<1>8. PastInv' /\ HandedInv'
  BY <1>1, <1>3 DEF PastInv, HandedInv, IInv
<1>9. DataInv'
  <2>1. data \in [Slots -> Values \cup {None}]
    BY DEF IInv, TypeOK
  <2>2. ASSUME NEW q \in Nat, dequeuePos <= q, q < enqueuePos, sequence[Slot(q)] = q + 1
        PROVE  data'[Slot(q)] = log[q + 1]
    <3>1. /\ sequence[Slot(pos[t])] = pos[t] /\ dequeuePos <= pos[t] /\ pos[t] < enqueuePos
          /\ enqueuePos <= dequeuePos + Size
      BY <1>2 DEF IInv, WriterInv, WindowInv
    <3>2. q # pos[t]
      BY <1>0, <2>2, <3>1
    <3>3. Slot(q) # Slot(pos[t])
      BY <1>0, <2>2, <3>1, <3>2, SlotApart
    <3> QED
      BY <1>1, <2>1, <2>2, <3>3, SlotInRange DEF IInv, DataInv
  <2>3. data'[Slot(pos[t])] = log[pos[t] + 1]
    BY <1>0, <1>1, <2>1, SlotInRange DEF IInv, DataInv
  <2>4. ASSUME NEW s \in Enqueuers, s # t, Writing(s)
        PROVE  data'[Slot(pos[s])] = data[Slot(pos[s])]
    BY <1>0, <1>1, <1>2, <2>1, <2>4, OwnersApart, SlotInRange DEF IInv
  <2>5. ASSUME NEW c \in Dequeuers, Reading(c)
        PROVE  data'[Slot(pos[c])] = data[Slot(pos[c])]
    BY <1>0, <1>1, <1>2, <2>1, <2>5, OwnersApart, SlotInRange DEF IInv
  <2> QED
    BY <1>0, <1>1, <2>2, <2>3, <2>4, <2>5 DEF DataInv, IInv, Writing, Reading, Threads
<1> QED
  BY <1>4, <1>5, <1>6, <1>7, <1>8, <1>9

LEMMA DequeueReadStep ==
    ASSUME IInv, NEW t \in Dequeuers, DequeueRead(t)
    PROVE  OwnerInv' /\ RingInv' /\ DataInv' /\ HandedInv' /\ HeadInv'
<1> USE DEF OwnerInv, RingInv
<1>0. /\ Size \in Nat \ {0} /\ enqueuePos \in Nat /\ dequeuePos \in Nat
      /\ \A s \in Enqueuers : pos[s] \in Nat /\ s # t
      /\ \A c \in Dequeuers : pos[c] \in Nat
  BY QueueAssumption DEF IInv, TypeOK, Threads
<1>1. /\ data' = [data EXCEPT ![Slot(pos[t])] = None]
      /\ pc[t] = "read" /\ pc'[t] = "release"
      /\ val'[t] = data[Slot(pos[t])]
      /\ \A s \in Threads : s # t => pc'[s] = pc[s] /\ val'[s] = val[s]
      /\ UNCHANGED <<enqueuePos, dequeuePos, sequence, pos, head, log, delivered>>
  BY DEF DequeueRead, Goto, IInv, TypeOK, Threads, history
<1>2. Reading(t) /\ Reading(t)'
  BY <1>1 DEF Reading
<1>3. /\ \A s \in Enqueuers : Writing(s)' <=> Writing(s)
      /\ \A c \in Dequeuers : Reading(c)' <=> Reading(c)
  BY <1>0, <1>1, <1>2 DEF Writing, Reading, Threads
<1>4. PlaceInv' /\ WindowInv' /\ HeadInv'
  BY <1>0, <1>1 DEF PlaceInv, WindowInv, HeadInv, IInv, Threads
<1>5. WriterInv' /\ ReaderInv'
  BY <1>1, <1>3 DEF WriterInv, ReaderInv, IInv
<1>6. FilledInv' /\ FreeInv'
  BY <1>1, <1>3 DEF FilledInv, FreeInv, IInv
<1>7. ClaimInv'
  BY <1>0, <1>1 DEF ClaimInv, IInv, Threads
<1>8. PastInv' /\ HandedInv'
  BY <1>1, <1>3 DEF PastInv, HandedInv, IInv
<1>9. DataInv'
  <2>1. data \in [Slots -> Values \cup {None}]
    BY DEF IInv, TypeOK
  <2>2. ASSUME NEW q \in Nat, dequeuePos <= q, q < enqueuePos, sequence[Slot(q)] = q + 1
        PROVE  data'[Slot(q)] = log[q + 1]
    <3>1. pos[t] < dequeuePos /\ enqueuePos <= pos[t] + Size
      BY <1>2 DEF IInv, ReaderInv
    <3>2. Slot(q) # Slot(pos[t])
      BY <1>0, <2>2, <3>1, SlotApart
    <3> QED
      BY <1>1, <2>1, <2>2, <3>2, SlotInRange DEF IInv, DataInv
  <2>3. val'[t] = log[pos[t] + 1]
    BY <1>1 DEF IInv, DataInv
  <2>4. ASSUME NEW s \in Enqueuers, Writing(s)
        PROVE  data'[Slot(pos[s])] = data[Slot(pos[s])]
    BY <1>0, <1>1, <1>2, <2>1, <2>4, OwnersApart, SlotInRange DEF IInv
  <2>5. ASSUME NEW c \in Dequeuers, c # t, Reading(c)
        PROVE  data'[Slot(pos[c])] = data[Slot(pos[c])]
    BY <1>0, <1>1, <1>2, <2>1, <2>5, OwnersApart, SlotInRange DEF IInv
  <2> QED
    BY <1>0, <1>1, <2>2, <2>3, <2>4, <2>5 DEF DataInv, IInv, Writing, Reading, Threads
<1> QED
  BY <1>4, <1>5, <1>6, <1>7, <1>8, <1>9

LEMMA EnqueuePublishStep ==
    ASSUME Size # 1, IInv, NEW t \in Enqueuers, EnqueuePublish(t)
    PROVE  OwnerInv' /\ RingInv' /\ DataInv' /\ HandedInv' /\ HeadInv'
<1> USE DEF OwnerInv, RingInv
<1> DEFINE p == pos[t]
<1>0. /\ Size \in Nat /\ Size >= 2 /\ enqueuePos \in Nat /\ dequeuePos \in Nat /\ p \in Nat
      /\ \A s \in Enqueuers : pos[s] \in Nat
      /\ \A c \in Dequeuers : pos[c] \in Nat /\ c # t
      /\ sequence \in [Slots -> Nat]
  BY QueueAssumption DEF IInv, TypeOK, Threads
<1>1. /\ sequence' = [sequence EXCEPT ![Slot(p)] = p + 1]
      /\ pc[t] = "publish" /\ pc'[t] = "idle"
      /\ \A s \in Threads : s # t => pc'[s] = pc[s]
      /\ UNCHANGED <<enqueuePos, dequeuePos, data, pos, val, head, log, delivered>>
  BY DEF EnqueuePublish, Goto, IInv, TypeOK, Threads, history
<1>2. Writing(t) /\ ~Writing(t)'
  BY <1>1 DEF Writing
<1>3. /\ \A s \in Enqueuers : s # t => (Writing(s)' <=> Writing(s))
      /\ \A c \in Dequeuers : Reading(c)' <=> Reading(c)
  BY <1>0, <1>1 DEF Writing, Reading, Threads
<1>4. /\ dequeuePos <= p /\ p < enqueuePos
      /\ dequeuePos <= enqueuePos /\ enqueuePos <= dequeuePos + Size
      /\ sequence[Slot(p)] = p
  BY <1>2 DEF IInv, WriterInv, WindowInv
<1>5. /\ sequence'[Slot(p)] = p + 1
      /\ \A q \in Nat : Slot(q) # Slot(p) => sequence'[Slot(q)] = sequence[Slot(q)]
      /\ \A q \in Nat : Slot(q) = Slot(p) => sequence[Slot(q)] = p /\ sequence'[Slot(q)] = p + 1
  BY <1>0, <1>1, <1>4, SlotInRange
<1>6. \A q \in Nat : dequeuePos <= q /\ q < dequeuePos + Size /\ q # p => Slot(q) # Slot(p)
  BY <1>0, <1>4, SlotApart
<1> HIDE DEF p
<1>7. PlaceInv' /\ WindowInv' /\ HeadInv'
  BY <1>0, <1>1 DEF PlaceInv, WindowInv, HeadInv, IInv, Threads
<1>8. WriterInv'
  <2>1. \A s \in Enqueuers : s # t /\ Writing(s) => Slot(pos[s]) # Slot(p)
    BY <1>2, OwnersApart DEF IInv, p
  <2> QED
    BY <1>0, <1>1, <1>2, <1>3, <1>5, <2>1 DEF WriterInv, IInv
<1>9. ReaderInv'
  <2>1. \A c \in Dequeuers : Reading(c) => Slot(pos[c]) # Slot(p)
    BY <1>2, OwnersApart DEF IInv, p
  <2> QED
    BY <1>0, <1>1, <1>3, <1>5, <2>1 DEF ReaderInv, IInv
<1>10. FilledInv'
  <2> SUFFICES ASSUME NEW q \in Nat, dequeuePos <= q, q < enqueuePos, q # p
               PROVE  \/ sequence'[Slot(q)] = q + 1
                      \/ \E s \in Enqueuers : Writing(s)' /\ pos[s] = q
    BY <1>1, <1>5 DEF FilledInv
  <2>1. sequence'[Slot(q)] = sequence[Slot(q)]
    BY <1>0, <1>4, <1>5, <1>6
  <2> QED
    BY <1>3, <2>1 DEF FilledInv, IInv, p
<1>11. FreeInv'
  <2> SUFFICES ASSUME NEW q \in Nat, enqueuePos <= q, q < dequeuePos + Size
               PROVE  \/ sequence'[Slot(q)] = q
                      \/ \E c \in Dequeuers : Reading(c)' /\ pos[c] + Size = q
    BY <1>1 DEF FreeInv
  <2>1. sequence'[Slot(q)] = sequence[Slot(q)]
    BY <1>0, <1>4, <1>5, <1>6
  <2> QED
    BY <1>3, <2>1 DEF FreeInv, IInv
<1>12. ClaimInv'
  <2>1. sequence[Slot(enqueuePos)] = enqueuePos => sequence'[Slot(enqueuePos)] = enqueuePos
    BY <1>0, <1>4, <1>5
  <2>2. sequence[Slot(dequeuePos)] = dequeuePos + 1
          => sequence'[Slot(dequeuePos)] = dequeuePos + 1
    <3>1. dequeuePos # p => Slot(dequeuePos) # Slot(p)
      BY <1>0, <1>6
    <3> QED
      BY <1>0, <1>5, <3>1
  <2> QED
    BY <1>0, <1>1, <2>1, <2>2 DEF ClaimInv, IInv, Threads
<1>13. PastInv'
  <2>1. \A q \in Nat : sequence'[Slot(q)] >= sequence[Slot(q)]
    BY <1>0, <1>5, SlotInRange
  <2>2. \A q \in Nat : sequence[Slot(q)] \in Nat /\ sequence'[Slot(q)] \in Nat
    BY <1>0, <1>1, SlotInRange
  <2> QED
    BY <1>0, <1>1, <2>1, <2>2 DEF PastInv, IInv
<1>14. DataInv'
  <2>1. ASSUME NEW q \in Nat, dequeuePos <= q, q < enqueuePos, sequence'[Slot(q)] = q + 1
        PROVE  data[Slot(q)] = log[q + 1]
    <3>1. CASE q = p
      BY <1>1, <3>1 DEF DataInv, IInv, p
    <3>2. CASE q # p
      BY <1>0, <1>4, <1>5, <1>6, <2>1, <3>2 DEF DataInv, IInv
    <3> QED
      BY <3>1, <3>2
  <2> QED
    BY <1>0, <1>1, <2>1 DEF DataInv, IInv, Threads
<1>15. HandedInv'
  BY <1>1, <1>3 DEF HandedInv, IInv
<1> QED
  BY <1>7, <1>8, <1>9, <1>10, <1>11, <1>12, <1>13, <1>14, <1>15

LEMMA DequeueReleaseStep ==
    ASSUME Size # 1, IInv, NEW t \in Dequeuers, DequeueRelease(t)
    PROVE  OwnerInv' /\ RingInv' /\ DataInv' /\ HandedInv' /\ HeadInv'
<1> USE DEF OwnerInv, RingInv
<1> DEFINE p == pos[t]
<1>0. /\ Size \in Nat /\ Size >= 2 /\ enqueuePos \in Nat /\ dequeuePos \in Nat /\ p \in Nat
      /\ \A s \in Enqueuers : pos[s] \in Nat /\ s # t
      /\ \A c \in Dequeuers : pos[c] \in Nat
      /\ sequence \in [Slots -> Nat]
  BY QueueAssumption DEF IInv, TypeOK, Threads
<1>1. /\ sequence' = [sequence EXCEPT ![Slot(p)] = p + Size]
      /\ pc[t] = "release" /\ pc'[t] = "idle"
      /\ \A s \in Threads : s # t => pc'[s] = pc[s] /\ val'[s] = val[s]
      /\ delivered' = delivered \cup {val[t]}
      /\ UNCHANGED <<enqueuePos, dequeuePos, data, pos, head, log>>
  BY DEF DequeueRelease, Goto, IInv, TypeOK, Threads
<1>2. Reading(t) /\ ~Reading(t)'
  BY <1>1 DEF Reading
<1>3. /\ \A s \in Enqueuers : Writing(s)' <=> Writing(s)
      /\ \A c \in Dequeuers : c # t => (Reading(c)' <=> Reading(c))
  BY <1>0, <1>1 DEF Writing, Reading, Threads
<1>4. /\ p < dequeuePos /\ enqueuePos <= p + Size
      /\ dequeuePos <= enqueuePos /\ enqueuePos <= dequeuePos + Size
      /\ sequence[Slot(p)] = p + 1
  BY <1>2 DEF IInv, ReaderInv, WindowInv
<1>5. /\ sequence'[Slot(p)] = p + Size
      /\ \A q \in Nat : Slot(q) # Slot(p) => sequence'[Slot(q)] = sequence[Slot(q)]
      /\ \A q \in Nat : Slot(q) = Slot(p) =>
            sequence[Slot(q)] = p + 1 /\ sequence'[Slot(q)] = p + Size
  BY <1>0, <1>1, <1>4, SlotInRange
<1>6. \A q \in Nat : dequeuePos <= q /\ q < dequeuePos + Size /\ q # p + Size
                       => Slot(q) # Slot(p)
  <2>1. p + Size \in Nat /\ Slot(p + Size) = Slot(p)
    BY <1>0, SlotAgain
  <2>2. ASSUME NEW q \in Nat, dequeuePos <= q, q < dequeuePos + Size, q # p + Size
        PROVE  Slot(q) # Slot(p)
    <3>1. q < p + Size => q < p + Size /\ p < q
      BY <1>0, <1>4, <2>2
    <3>2. q > p + Size => q < (p + Size) + Size
      BY <1>0, <1>4, <2>2
    <3>3. q < p + Size => Slot(p) # Slot(q)
      BY <1>0, <3>1, SlotApart
    <3>4. q > p + Size => Slot(p + Size) # Slot(q)
      BY <1>0, <2>1, <3>2, SlotApart
    <3> QED
      BY <1>0, <2>1, <2>2, <3>3, <3>4
  <2> QED
    BY <2>2
<1> HIDE DEF p
<1>7. PlaceInv' /\ WindowInv' /\ HeadInv'
  BY <1>0, <1>1 DEF PlaceInv, WindowInv, HeadInv, IInv, Threads
<1>8. WriterInv'
  <2>1. \A s \in Enqueuers : Writing(s) => Slot(pos[s]) # Slot(p)
    BY <1>2, OwnersApart DEF IInv, p
  <2> QED
    BY <1>0, <1>1, <1>3, <1>5, <2>1 DEF WriterInv, IInv
<1>9. ReaderInv'
  <2>1. \A c \in Dequeuers : c # t /\ Reading(c) => Slot(pos[c]) # Slot(p)
    BY <1>2, OwnersApart DEF IInv, p
  <2> QED
    BY <1>0, <1>1, <1>2, <1>3, <1>5, <2>1 DEF ReaderInv, IInv
<1>10. FilledInv'
  <2> SUFFICES ASSUME NEW q \in Nat, dequeuePos <= q, q < enqueuePos
               PROVE  \/ sequence'[Slot(q)] = q + 1
                      \/ \E s \in Enqueuers : Writing(s)' /\ pos[s] = q
    BY <1>1 DEF FilledInv
  <2>1. sequence'[Slot(q)] = sequence[Slot(q)]
    BY <1>0, <1>4, <1>5, <1>6
  <2> QED
    BY <1>3, <2>1 DEF FilledInv, IInv
<1>11. FreeInv'
  <2> SUFFICES ASSUME NEW q \in Nat, enqueuePos <= q, q < dequeuePos + Size
               PROVE  \/ sequence'[Slot(q)] = q
                      \/ \E c \in Dequeuers : Reading(c)' /\ pos[c] + Size = q
    BY <1>1 DEF FreeInv
  <2>1. CASE q = p + Size
    BY <1>0, <1>5, <2>1, SlotAgain
  <2>2. CASE q # p + Size
    <3>1. sequence'[Slot(q)] = sequence[Slot(q)]
      BY <1>0, <1>4, <1>5, <1>6, <2>2
    <3> QED
      BY <1>3, <2>2, <3>1 DEF FreeInv, IInv, p
  <2> QED
    BY <2>1, <2>2
<1>12. ClaimInv'
  <2>1. sequence[Slot(enqueuePos)] = enqueuePos => sequence'[Slot(enqueuePos)] = enqueuePos
    <3>1. enqueuePos = p + 1 => Slot(p) # Slot(enqueuePos)
      BY <1>0, SlotApart
    <3> QED
      BY <1>0, <1>5, <3>1
  <2>2. sequence[Slot(dequeuePos)] = dequeuePos + 1
          => sequence'[Slot(dequeuePos)] = dequeuePos + 1
    BY <1>0, <1>4, <1>5
  <2> QED
    BY <1>0, <1>1, <2>1, <2>2 DEF ClaimInv, IInv, Threads
<1>13. PastInv'
  <2>1. p + Size >= p + 1
    BY <1>0
  <2>2. \A q \in Nat : sequence'[Slot(q)] >= sequence[Slot(q)]
    BY <1>0, <1>5, <2>1, SlotInRange
  <2>3. \A q \in Nat : sequence[Slot(q)] \in Nat /\ sequence'[Slot(q)] \in Nat
    BY <1>0, <1>1, SlotInRange
  <2> QED
    BY <1>0, <1>1, <2>2, <2>3 DEF PastInv, IInv
<1>14. DataInv'
  <2>1. ASSUME NEW q \in Nat, dequeuePos <= q, q < enqueuePos, sequence'[Slot(q)] = q + 1
        PROVE  data[Slot(q)] = log[q + 1]
    <3>1. sequence[Slot(q)] = q + 1
      BY <1>0, <1>4, <1>5, <1>6, <2>1
    <3> QED
      BY <2>1, <3>1 DEF DataInv, IInv
  <2> QED
    BY <1>0, <1>1, <2>1 DEF DataInv, IInv, Threads
<1>15. HandedInv'
  <2> SUFFICES ASSUME NEW q \in Nat, q < dequeuePos
               PROVE  \/ log[q + 1] \in delivered'
                      \/ \E c \in Dequeuers : Reading(c)' /\ pos[c] = q
    BY <1>1 DEF HandedInv
  <2>1. CASE q = p
    BY <1>1, <2>1 DEF DataInv, IInv, p
  <2>2. CASE q # p
    BY <1>1, <1>3, <2>2 DEF HandedInv, IInv, p
  <2> QED
    BY <2>1, <2>2
<1> QED
  BY <1>7, <1>8, <1>9, <1>10, <1>11, <1>12, <1>13, <1>14, <1>15

-----------------------------------------------------------------------------
(* The theorems. *)

LEMMA InitTypes == Init => TypeOK /\ PlaceInv
<1> SUFFICES ASSUME Init
             PROVE  TypeOK /\ PlaceInv
  OBVIOUS
<1>1. Slots \subseteq Nat
  BY QueueAssumption DEF Slots
<1>2. PlaceInv
  BY DEF Init, PlaceInv, Threads
<1>3. sequence \in [Slots -> Nat] /\ data \in [Slots -> Values \cup {None}]
  BY <1>1 DEF Init
<1>4. log \in Seq(Values) /\ delivered \subseteq Values \cup {None}
  BY DEF Init
<1>5. ops \in [Enqueuers -> 0..MaxOps]
  BY QueueAssumption DEF Init
<1>6. /\ enqueuePos \in Nat /\ dequeuePos \in Nat
      /\ pos \in [Threads -> Nat] /\ val \in [Threads -> Values \cup {None}]
      /\ head \in [Observers -> Nat \cup {None}]
      /\ pc \in [Threads -> {"idle", "loadSeq", "reload", "cas", "write", "publish",
                             "read", "release"}]
  BY DEF Init
<1> QED
  BY <1>2, <1>3, <1>4, <1>5, <1>6 DEF TypeOK

LEMMA PlaceStep ==
    ASSUME TypeOK, PlaceInv, Next
    PROVE  PlaceInv'
<1> USE DEF TypeOK, Threads, Goto, PlaceInv
<1>1. ASSUME NEW t \in Enqueuers, EnqueueCall(t)
      PROVE  PlaceInv'
  <2>1. ops[t] + 1 \in 1..MaxOps
    BY <1>1, QueueAssumption DEF EnqueueCall
  <2>2. val'[t] \in Values /\ pc'[t] = "loadSeq"
    BY <1>1, <2>1 DEF EnqueueCall, Values
  <2> QED
    BY <1>1, <2>2, QueueAssumption DEF EnqueueCall
<1>2. ASSUME NEW t \in Enqueuers,
             \/ EnqueueLoadSeq(t) \/ EnqueueReload(t) \/ EnqueueClaim(t)
             \/ EnqueueClaimFails(t) \/ EnqueueWrite(t) \/ EnqueuePublish(t)
      PROVE  PlaceInv'
  BY <1>2, QueueAssumption DEF EnqueueLoadSeq, EnqueueReload, EnqueueClaim,
     EnqueueClaimFails, EnqueueWrite, EnqueuePublish
<1>3. ASSUME NEW t \in Dequeuers, DequeueStep(t)
      PROVE  PlaceInv'
  BY <1>3, QueueAssumption DEF DequeueStep, DequeueCall, DequeueLoadSeq, DequeueReload,
     DequeueClaim, DequeueClaimFails, DequeueRead, DequeueRelease
<1>4. ASSUME NEW o \in Observers, ObserveStep(o)
      PROVE  PlaceInv'
  BY <1>4 DEF ObserveStep, ObserveHead, ObserveTail
<1> QED
  BY <1>1, <1>2, <1>3, <1>4 DEF Next, EnqueueStep

(* Every variable of the ring and of its callers keeps its type, for every *)
(* capacity.                                                               *)
THEOREM TypeCorrect == Spec => []TypeOK
<1>1. Init => TypeOK /\ PlaceInv
  BY InitTypes
<1>2. TypeOK /\ PlaceInv /\ [Next]_vars => (TypeOK /\ PlaceInv)'
  <2> SUFFICES ASSUME TypeOK, PlaceInv, [Next]_vars
               PROVE  TypeOK' /\ PlaceInv'
    OBVIOUS
  <2>1. CASE UNCHANGED vars
    BY <2>1 DEF vars, TypeOK, PlaceInv
  <2>2. CASE Next
    BY <2>2, EnqueueTypes, DequeueTypes, ObserveTypes, PlaceStep DEF Next
  <2> QED
    BY <2>1, <2>2
<1> QED
  BY <1>1, <1>2, PTL DEF Spec

LEMMA ObserveStepKeeps ==
    ASSUME IInv, NEW o \in Observers, ObserveStep(o)
    PROVE  OwnerInv' /\ RingInv' /\ DataInv' /\ HandedInv' /\ HeadInv'
<1>1. UNCHANGED <<enqueuePos, dequeuePos, sequence, data, pc, pos, val, log, delivered>>
  BY DEF ObserveStep, ObserveHead, ObserveTail, history
<1>2. OwnerInv' /\ RingInv' /\ DataInv' /\ HandedInv'
  BY <1>1 DEF IInv, OwnerInv, RingInv, PlaceInv, WindowInv, WriterInv, ReaderInv,
     FilledInv, FreeInv, ClaimInv, PastInv, DataInv, HandedInv, Writing, Reading
<1>3. HeadInv'
  <2>1. /\ head'[o] = None \/ head'[o] = dequeuePos
        /\ \A n \in Observers : n # o => head'[n] = head[n]
    BY DEF IInv, TypeOK, ObserveStep, ObserveHead, ObserveTail
  <2>2. dequeuePos <= dequeuePos
    BY DEF IInv, TypeOK
  <2> QED
    BY <1>1, <2>1, <2>2 DEF IInv, HeadInv
<1> QED
  BY <1>2, <1>3

LEMMA InitRing == Init => IInv
<1> SUFFICES ASSUME Init
             PROVE  IInv
  OBVIOUS
<1>1. TypeOK /\ PlaceInv
  BY InitTypes
<1>2. Size \in Nat \ {0} /\ \A t \in Threads : ~Writing(t) /\ ~Reading(t)
  BY QueueAssumption DEF Init, Writing, Reading
<1>3. \A q \in Nat : q < Size => Slot(q) = q /\ q \in Slots
  BY <1>2 DEF Slot, Slots
<1>4. WindowInv /\ FreeInv
  BY <1>2, <1>3 DEF Init, WindowInv, FreeInv
<1>5. WriterInv /\ ReaderInv /\ FilledInv
  BY <1>2 DEF Init, WriterInv, ReaderInv, FilledInv, Threads
<1>6. DataInv /\ ClaimInv
  BY DEF Init, DataInv, ClaimInv, Threads
<1>7. PastInv /\ HandedInv /\ HeadInv
  BY DEF Init, PastInv, HandedInv, HeadInv
<1> QED
  BY <1>1, <1>4, <1>5, <1>6, <1>7 DEF IInv, OwnerInv, RingInv

LEMMA NextKeepsIInv ==
    ASSUME Size # 1, IInv, [Next]_vars
    PROVE  IInv'
<1>1. CASE UNCHANGED vars
  BY <1>1 DEF vars, IInv, TypeOK, OwnerInv, RingInv, PlaceInv, WindowInv, WriterInv,
     ReaderInv, FilledInv, FreeInv, ClaimInv, PastInv, DataInv, HandedInv, HeadInv,
     Writing, Reading
<1>2. ASSUME NEW t \in Enqueuers, EnqueueStep(t)
      PROVE  IInv'
  <2>1. TypeOK'
    BY <1>2, EnqueueTypes DEF IInv, OwnerInv
  <2> QED
    BY <1>2, <2>1, EnqueueQuiet, EnqueueClaimStep, EnqueueWriteStep, EnqueuePublishStep
       DEF EnqueueStep, IInv
<1>3. ASSUME NEW t \in Dequeuers, DequeueStep(t)
      PROVE  IInv'
  <2>1. TypeOK'
    BY <1>3, DequeueTypes DEF IInv
  <2> QED
    BY <1>3, <2>1, DequeueQuiet, DequeueClaimStep, DequeueReadStep, DequeueReleaseStep
       DEF DequeueStep, IInv
<1>4. ASSUME NEW o \in Observers, ObserveStep(o)
      PROVE  IInv'
  BY <1>4, ObserveTypes, ObserveStepKeeps DEF IInv
<1> QED
  BY <1>1, <1>2, <1>3, <1>4 DEF Next

(* The inductive invariant holds in every reachable state of a ring of two *)
(* or more slots.                                                          *)
THEOREM Invariance ==
    ASSUME Size # 1
    PROVE  Spec => []IInv
<1>1. IInv /\ [Next]_vars => IInv'
  BY NextKeepsIInv
<1> QED
  BY <1>1, InitRing, PTL DEF Spec

(* The plain accesses to slot->data in enqueueImpl and dequeue never race. *)
THEOREM SlotsNeverRace ==
    ASSUME Size # 1
    PROVE  Spec => []SlotExclusive
<1>1. IInv => SlotExclusive
  <2> SUFFICES ASSUME IInv
               PROVE  SlotExclusive
    OBVIOUS
  <2>1. /\ \A t \in Enqueuers : ~Reading(t)
        /\ \A t \in Dequeuers : ~Writing(t)
    BY DEF IInv, OwnerInv, PlaceInv, Reading, Writing
  <2> QED
    BY <2>1, OwnersApart DEF SlotExclusive, IInv, Threads
<1> QED
  BY <1>1, Invariance, PTL

(* The unsigned difference in empty, full and getRemainCapacity never      *)
(* wraps.                                                                  *)
THEOREM ObserversNeverWrap ==
    ASSUME Size # 1
    PROVE  Spec => []ObserverNeverWraps
<1>1. IInv => ObserverNeverWraps
  <2> SUFFICES ASSUME IInv, NEW o \in Observers, head[o] # None
               PROVE  head[o] <= enqueuePos
    BY DEF ObserverNeverWraps
  <2>1. head[o] \in Nat /\ enqueuePos \in Nat /\ dequeuePos \in Nat
    BY DEF IInv, TypeOK
  <2>2. head[o] <= dequeuePos /\ dequeuePos <= enqueuePos
    BY DEF IInv, HeadInv, OwnerInv, WindowInv
  <2> QED
    BY <2>1, <2>2
<1> QED
  BY <1>1, Invariance, PTL

(* Once every call has returned and dequeue would answer false, everything *)
(* enqueued was handed out.                                                *)
THEOREM NothingGoesMissing ==
    ASSUME Size # 1
    PROVE  Spec => []NothingMissing
<1>1. IInv => NothingMissing
  <2> SUFFICES ASSUME IInv, \A t \in Threads : pc[t] = "idle",
                      sequence[Slot(dequeuePos)] < dequeuePos + 1,
                      NEW i \in 1..Len(log)
               PROVE  log[i] \in delivered
    BY DEF NothingMissing
  <2>1. \A t \in Threads : ~Writing(t) /\ ~Reading(t)
    BY DEF Writing, Reading
  <2>2. /\ enqueuePos \in Nat /\ dequeuePos \in Nat /\ sequence[Slot(dequeuePos)] \in Nat
        /\ Len(log) = enqueuePos /\ dequeuePos <= enqueuePos
    BY SlotInRange DEF IInv, TypeOK, OwnerInv, WindowInv
  <2>3. dequeuePos = enqueuePos
    BY <2>1, <2>2 DEF IInv, RingInv, FilledInv, Threads
  <2>4. i - 1 \in Nat /\ i - 1 < dequeuePos /\ (i - 1) + 1 = i
    BY <2>2, <2>3
  <2> QED
    BY <2>1, <2>4 DEF IInv, HandedInv, Threads
<1> QED
  BY <1>1, Invariance, PTL

(* enqueue and dequeue answer false only for a full or empty queue, or for *)
(* a slot whose owner has not finished: a stale position never does it.    *)
THEOREM RefusalsAreHonest ==
    ASSUME Size # 1
    PROVE  Spec => HonestRefusal
<1> DEFINE A == /\ \A t \in Enqueuers :
                      pc[t] = "loadSeq" /\ pc'[t] = "idle" =>
                          \/ enqueuePos = dequeuePos + Size
                          \/ \E c \in Dequeuers : Reading(c) /\ pos[c] + Size = enqueuePos
                /\ \A t \in Dequeuers :
                      pc[t] = "loadSeq" /\ pc'[t] = "idle" =>
                          \/ enqueuePos = dequeuePos
                          \/ \E e \in Enqueuers : Writing(e) /\ pos[e] = dequeuePos
<1>1. IInv /\ Next => A
  <2> SUFFICES ASSUME IInv, Next
               PROVE  A
    OBVIOUS
  <2>0. /\ Size \in Nat \ {0} /\ enqueuePos \in Nat /\ dequeuePos \in Nat
        /\ \A t \in Threads : pos[t] \in Nat /\ sequence[Slot(pos[t])] \in Nat
    BY QueueAssumption, SlotInRange DEF IInv, TypeOK
  <2>1. ASSUME NEW t \in Enqueuers, pc[t] = "loadSeq", pc'[t] = "idle"
        PROVE  \/ enqueuePos = dequeuePos + Size
               \/ \E c \in Dequeuers : Reading(c) /\ pos[c] + Size = enqueuePos
    <3>1. EnqueueLoadSeq(t)
      BY <2>1, QueueAssumption DEF IInv, TypeOK, Threads, Next, EnqueueStep, DequeueStep,
         ObserveStep, ObserveHead, ObserveTail, EnqueueCall, EnqueueReload, EnqueueClaim,
         EnqueueClaimFails, EnqueueWrite, EnqueuePublish, DequeueCall, DequeueLoadSeq,
         DequeueReload, DequeueClaim, DequeueClaimFails, DequeueRead, DequeueRelease,
         EnqueueLoadSeq, Goto
    <3>2. sequence[Slot(pos[t])] < pos[t]
      BY <2>0, <2>1, <3>1 DEF EnqueueLoadSeq, Goto, IInv, TypeOK, Threads
    <3>3. pos[t] <= enqueuePos
      BY <2>1 DEF IInv, RingInv, ClaimInv
    <3>4. pos[t] = enqueuePos
      BY <2>0, <3>2, <3>3 DEF IInv, RingInv, PastInv, Threads
    <3>5. enqueuePos <= dequeuePos + Size
      BY DEF IInv, OwnerInv, WindowInv
    <3> QED
      BY <2>0, <3>2, <3>4, <3>5 DEF IInv, RingInv, FreeInv
  <2>2. ASSUME NEW t \in Dequeuers, pc[t] = "loadSeq", pc'[t] = "idle"
        PROVE  \/ enqueuePos = dequeuePos
               \/ \E e \in Enqueuers : Writing(e) /\ pos[e] = dequeuePos
    <3>1. DequeueLoadSeq(t)
      BY <2>2, QueueAssumption DEF IInv, TypeOK, Threads, Next, EnqueueStep, DequeueStep,
         ObserveStep, ObserveHead, ObserveTail, EnqueueCall, EnqueueReload, EnqueueClaim,
         EnqueueClaimFails, EnqueueWrite, EnqueuePublish, DequeueCall, DequeueLoadSeq,
         DequeueReload, DequeueClaim, DequeueClaimFails, DequeueRead, DequeueRelease,
         EnqueueLoadSeq, Goto
    <3>2. sequence[Slot(pos[t])] < pos[t] + 1
      BY <2>0, <2>2, <3>1 DEF DequeueLoadSeq, Goto, IInv, TypeOK, Threads
    <3>3. pos[t] <= dequeuePos
      BY <2>2 DEF IInv, RingInv, ClaimInv
    <3>4. pos[t] = dequeuePos
      BY <2>0, <3>2, <3>3 DEF IInv, RingInv, PastInv, Threads
    <3>5. dequeuePos <= enqueuePos
      BY DEF IInv, OwnerInv, WindowInv
    <3> QED
      BY <2>0, <3>2, <3>4, <3>5 DEF IInv, RingInv, FilledInv
  <2> QED
    BY <2>1, <2>2
<1>2. IInv /\ [Next]_vars => [A]_vars
  BY <1>1
<1> HIDE DEF A
<1>3. Spec => [][A]_vars
  BY <1>2, Invariance, PTL DEF Spec
<1> QED
  BY <1>3 DEF HonestRefusal, A

-----------------------------------------------------------------------------
(* The ring implements BoundedFifo. *)

(* Appending to a log appends to each of its suffixes. *)
LEMMA SuffixAppend ==
    ASSUME NEW S, NEW s \in Seq(S), NEW v \in S, NEW k \in Nat, k <= Len(s)
    PROVE  SubSeq(Append(s, v), k + 1, Len(Append(s, v)))
             = Append(SubSeq(s, k + 1, Len(s)), v)
<1> DEFINE a == SubSeq(Append(s, v), k + 1, Len(s) + 1)
           b == SubSeq(s, k + 1, Len(s))
<1>1. /\ Append(s, v) \in Seq(S) /\ Len(Append(s, v)) = Len(s) + 1 /\ Len(s) \in Nat
      /\ \A i \in 1..Len(s) : Append(s, v)[i] = s[i]
      /\ Append(s, v)[Len(s) + 1] = v
  BY AppendProperties
<1>2. \A i \in (k + 1)..(Len(s) + 1) : Append(s, v)[i] \in S
  BY <1>1
<1>3. /\ a \in Seq(S) /\ Len(a) = (Len(s) - k) + 1
      /\ \A i \in 1..((Len(s) - k) + 1) : a[i] = Append(s, v)[k + i]
  <2>1. /\ a \in Seq(S)
        /\ Len(a) = IF k + 1 <= Len(s) + 1 THEN (Len(s) + 1) - (k + 1) + 1 ELSE 0
        /\ \A i \in 1..((Len(s) + 1) - (k + 1) + 1) : a[i] = Append(s, v)[(k + 1) + i - 1]
    BY <1>1, <1>2, SubSeqProperties
  <2> DEFINE w == Append(s, v)
  <2>2. \A i \in 1..((Len(s) + 1) - (k + 1) + 1) : a[i] = w[(k + 1) + i - 1]
    BY <2>1
  <2> HIDE DEF a, w
  <2>3. Len(a) = (Len(s) - k) + 1 /\ \A i \in 1..((Len(s) - k) + 1) : a[i] = w[k + i]
    BY <1>1, <2>1, <2>2
  <2> QED
    BY <2>1, <2>3 DEF w
<1>4. /\ b \in Seq(S) /\ Len(b) = Len(s) - k
      /\ \A i \in 1..(Len(s) - k) : b[i] = s[k + i]
  <2>1. \A i \in (k + 1)..Len(s) : s[i] \in S
    OBVIOUS
  <2>2. /\ b \in Seq(S)
        /\ Len(b) = IF k + 1 <= Len(s) THEN Len(s) - (k + 1) + 1 ELSE 0
        /\ \A i \in 1..(Len(s) - (k + 1) + 1) : b[i] = s[(k + 1) + i - 1]
    BY <1>1, <2>1, SubSeqProperties
  <2> HIDE DEF b
  <2> QED
    BY <1>1, <2>2
<1> HIDE DEF a, b
<1>5. /\ Append(b, v) \in Seq(S) /\ Len(Append(b, v)) = (Len(s) - k) + 1
      /\ \A i \in 1..(Len(s) - k) : Append(b, v)[i] = b[i]
      /\ Append(b, v)[(Len(s) - k) + 1] = v
  BY <1>4, AppendProperties
<1>6. ASSUME NEW i \in 1..Len(a)
      PROVE  a[i] = Append(b, v)[i]
  <2>1. CASE i = (Len(s) - k) + 1
    BY <1>1, <1>3, <1>5, <2>1
  <2>2. CASE i # (Len(s) - k) + 1
    BY <1>1, <1>3, <1>4, <1>5, <2>2
  <2> QED
    BY <2>1, <2>2
<1>7. a = Append(b, v)
  BY <1>3, <1>5, <1>6, SeqEqual
<1> QED
  BY <1>1, <1>7 DEF a, b

(* Head, tail and length of a suffix. *)
LEMMA SuffixFacts ==
    ASSUME NEW S, NEW s \in Seq(S), NEW k \in Nat, k < Len(s)
    PROVE  /\ Head(SubSeq(s, k + 1, Len(s))) = s[k + 1]
           /\ Tail(SubSeq(s, k + 1, Len(s))) = SubSeq(s, (k + 1) + 1, Len(s))
           /\ SubSeq(s, k + 1, Len(s)) # <<>>
<1>1. k + 1 \in 1..Len(s) /\ Len(s) \in (k + 1)..Len(s) /\ Len(s) \in Nat
  OBVIOUS
<1>2. \A i \in (k + 1)..Len(s) : s[i] \in S
  OBVIOUS
<1>3. Len(SubSeq(s, k + 1, Len(s))) = Len(s) - (k + 1) + 1
  BY <1>1, <1>2, SubSeqProperties
<1>4. SubSeq(s, k + 1, Len(s)) # <<>>
  <2> DEFINE u == SubSeq(s, k + 1, Len(s))
  <2>1. Len(u) = Len(s) - (k + 1) + 1
    BY <1>3
  <2> HIDE DEF u
  <2>2. u # <<>>
    BY <1>1, <2>1
  <2> QED
    BY <2>2 DEF u
<1> QED
  BY <1>1, <1>4, HeadTailOfSubSeq

LEMMA SuffixLength ==
    ASSUME NEW S, NEW s \in Seq(S), NEW k \in Nat, k <= Len(s)
    PROVE  Len(SubSeq(s, k + 1, Len(s))) = Len(s) - k
<1>1. \A i \in (k + 1)..Len(s) : s[i] \in S
  OBVIOUS
<1>2. Len(SubSeq(s, k + 1, Len(s))) = IF k + 1 <= Len(s) THEN Len(s) - (k + 1) + 1 ELSE 0
  BY <1>1, SubSeqProperties
<1> QED
  BY <1>2

(* Steps that leave the log, dequeuePos_ and the readers alone. *)
LEMMA FifoStutter ==
    ASSUME UNCHANGED <<dequeuePos, log, delivered>>,
           \A c \in Dequeuers : (Reading(c)' <=> Reading(c)) /\ (Reading(c) => pos'[c] = pos[c])
    PROVE  UNCHANGED Fifo!fifoVars
<1>1. holding' = holding
  BY DEF holding
<1> QED
  BY <1>1 DEF Fifo!fifoVars

LEMMA ClaimIsPut ==
    ASSUME Size # 1, IInv, NEW t \in Enqueuers, EnqueueClaim(t)
    PROVE  Fifo!FifoNext
<1> USE DEF OwnerInv
<1>1. /\ enqueuePos \in Nat /\ dequeuePos \in Nat /\ Size \in Nat
      /\ log \in Seq(Values) /\ Len(log) = enqueuePos /\ dequeuePos <= enqueuePos
      /\ enqueuePos < dequeuePos + Size
  BY EnqueueClaimFacts, QueueAssumption DEF IInv, TypeOK, WindowInv
<1>2. /\ val[t] \in Values /\ log' = Append(log, val[t])
      /\ pc' = [pc EXCEPT ![t] = "write"] /\ pc[t] = "cas"
      /\ UNCHANGED <<dequeuePos, pos, delivered>>
  BY DEF EnqueueClaim, Goto, IInv, PlaceInv
<1>3. holding' = holding
  <2>1. ASSUME NEW c \in Dequeuers
        PROVE  /\ Reading(c)' <=> Reading(c)
               /\ Reading(c) => log'[pos[c] + 1] = log[pos[c] + 1]
    <3>1. c # t /\ pos[c] \in Nat /\ pc'[c] = pc[c]
      BY <1>2, QueueAssumption DEF IInv, TypeOK, Threads
    <3>2. Reading(c) => pos[c] < dequeuePos
      BY DEF IInv, ReaderInv
    <3> QED
      BY <1>1, <1>2, <3>1, <3>2 DEF Reading
  <2> QED
    BY <1>2, <2>1 DEF holding
<1>4. SubSeq(log', dequeuePos + 1, Len(log'))
        = Append(SubSeq(log, dequeuePos + 1, Len(log)), val[t])
  BY <1>1, <1>2, SuffixAppend
<1>5. Len(SubSeq(log, dequeuePos + 1, Len(log))) < Size
  <2>1. Len(SubSeq(log, dequeuePos + 1, Len(log))) = Len(log) - dequeuePos
    BY <1>1, SuffixLength
  <2> QED
    BY <1>1, <2>1
<1>6. Fifo!Put(val[t])
  BY <1>2, <1>3, <1>4, <1>5 DEF Fifo!Put
<1> QED
  BY <1>2, <1>6 DEF Fifo!FifoNext

LEMMA ClaimIsTake ==
    ASSUME IInv, NEW t \in Dequeuers, DequeueClaim(t)
    PROVE  Fifo!FifoNext
<1> USE DEF OwnerInv
<1>1. /\ enqueuePos \in Nat /\ dequeuePos \in Nat
      /\ log \in Seq(Values) /\ Len(log) = enqueuePos /\ dequeuePos < enqueuePos
      /\ pos[t] = dequeuePos
  BY DEF IInv, TypeOK, WindowInv, RingInv, ClaimInv, DequeueClaim
<1>2. /\ dequeuePos' = dequeuePos + 1 /\ pc' = [pc EXCEPT ![t] = "read"] /\ pc[t] = "cas"
      /\ pc \in [Threads -> {"idle", "loadSeq", "reload", "cas", "write", "publish",
                             "read", "release"}]
      /\ UNCHANGED <<log, pos, delivered>>
  BY DEF DequeueClaim, Goto, IInv, TypeOK, history
<1>3. holding' = [holding EXCEPT ![t] = log[dequeuePos + 1]]
  BY <1>1, <1>2 DEF holding, Reading, Threads
<1>4. holding[t] = None
  BY <1>2 DEF holding, Reading
<1>5. /\ Head(SubSeq(log, dequeuePos + 1, Len(log))) = log[dequeuePos + 1]
      /\ Tail(SubSeq(log, dequeuePos + 1, Len(log)))
           = SubSeq(log, (dequeuePos + 1) + 1, Len(log))
      /\ SubSeq(log, dequeuePos + 1, Len(log)) # <<>>
  BY <1>1, SuffixFacts
<1>6. Fifo!Take(t)
  BY <1>2, <1>3, <1>4, <1>5 DEF Fifo!Take
<1> QED
  BY <1>6 DEF Fifo!FifoNext

LEMMA ReleaseIsDeliver ==
    ASSUME IInv, NEW t \in Dequeuers, DequeueRelease(t)
    PROVE  Fifo!FifoNext
<1>1. /\ pc[t] = "release" /\ pc' = [pc EXCEPT ![t] = "idle"]
      /\ pc \in [Threads -> {"idle", "loadSeq", "reload", "cas", "write", "publish",
                             "read", "release"}]
      /\ delivered' = delivered \cup {val[t]}
      /\ UNCHANGED <<log, pos, dequeuePos>>
  BY DEF DequeueRelease, Goto, IInv, TypeOK
<1>2. holding[t] = val[t]
  BY <1>1 DEF holding, Reading, IInv, DataInv
<1>3. holding[t] # None
  <2>1. /\ pos[t] \in Nat /\ dequeuePos \in Nat /\ enqueuePos \in Nat
        /\ pos[t] < dequeuePos /\ dequeuePos <= enqueuePos
        /\ Len(log) = enqueuePos /\ log \in Seq(Values)
    BY <1>1 DEF IInv, TypeOK, OwnerInv, ReaderInv, WindowInv, Reading, Threads
  <2>2. log[pos[t] + 1] \in Values
    BY <2>1
  <2>3. holding[t] = log[pos[t] + 1]
    BY <1>1 DEF holding, Reading
  <2> QED
    BY <2>2, <2>3, QueueAssumption DEF Values
<1>4. holding' = [holding EXCEPT ![t] = None]
  BY <1>1 DEF holding, Reading, Threads
<1>5. Fifo!Deliver(t)
  BY <1>1, <1>2, <1>3, <1>4 DEF Fifo!Deliver
<1> QED
  BY <1>5 DEF Fifo!FifoNext

(* LockFreeCurcularQueue is one bounded first-in first-out queue for any   *)
(* number of concurrent callers, provided it has at least two slots.       *)
THEOREM QueueImplementsFifo ==
    ASSUME Size # 1
    PROVE  Spec => ImplementsFifo
<1>1. Init => Fifo!FifoInit
  <2> SUFFICES ASSUME Init
               PROVE  Fifo!FifoInit
    OBVIOUS
  <2>1. SubSeq(log, dequeuePos + 1, Len(log)) = <<>>
    BY SubSeqEmpty DEF Init
  <2>2. holding = [c \in Dequeuers |-> None]
    BY DEF Init, holding, Reading, Threads
  <2> QED
    BY <2>1, <2>2 DEF Init, Fifo!FifoInit
<1>2. IInv /\ [Next]_vars => [Fifo!FifoNext]_(Fifo!fifoVars)
  <2> SUFFICES ASSUME IInv, [Next]_vars
               PROVE  Fifo!FifoNext \/ UNCHANGED Fifo!fifoVars
    OBVIOUS
  <2> USE DEF Reading, Threads, Goto, history
  <2>1. CASE UNCHANGED vars
    BY <2>1, FifoStutter DEF vars
  <2>2. ASSUME NEW t \in Enqueuers,
               \/ EnqueueCall(t) \/ EnqueueLoadSeq(t) \/ EnqueueReload(t)
               \/ EnqueueClaimFails(t) \/ EnqueueWrite(t) \/ EnqueuePublish(t)
        PROVE  UNCHANGED Fifo!fifoVars
    BY <2>2, FifoStutter, QueueAssumption DEF IInv, TypeOK, EnqueueCall, EnqueueLoadSeq,
       EnqueueReload, EnqueueClaimFails, EnqueueWrite, EnqueuePublish
  <2>3. ASSUME NEW t \in Dequeuers,
               \/ DequeueCall(t) \/ DequeueLoadSeq(t) \/ DequeueReload(t)
               \/ DequeueClaimFails(t) \/ DequeueRead(t)
        PROVE  UNCHANGED Fifo!fifoVars
    BY <2>3, FifoStutter DEF IInv, TypeOK, DequeueCall, DequeueLoadSeq, DequeueReload,
       DequeueClaimFails, DequeueRead
  <2>4. ASSUME NEW o \in Observers, ObserveStep(o)
        PROVE  UNCHANGED Fifo!fifoVars
    BY <2>4, FifoStutter DEF ObserveStep, ObserveHead, ObserveTail
  <2> QED
    BY <2>1, <2>2, <2>3, <2>4, ClaimIsPut, ClaimIsTake, ReleaseIsDeliver
       DEF Next, EnqueueStep, DequeueStep
<1> QED
  BY <1>1, <1>2, Invariance, PTL DEF Spec, ImplementsFifo, Fifo!FifoSpec
=============================================================================
