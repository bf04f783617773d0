----------------------------- MODULE TcpBuffer -----------------------------
(***************************************************************************)
(* TcpBuffer as a value [data, r, w]: buffer_, read_index_, write_index_.  *)
(* Consumed bytes stay in data until they are overwritten.                 *)
(***************************************************************************)
EXTENDS Naturals, Sequences

CONSTANTS prepend_size, initial_size, Zero   \* Zero: the byte of a fresh vector

ASSUME BufferAssumption == prepend_size \in Nat /\ initial_size \in Nat

EmptyBuffer == [data |-> [i \in 1..prepend_size + initial_size |-> Zero],
                r |-> prepend_size, w |-> prepend_size]

readable_size(b) == b.w - b.r
writable_size(b) == Len(b.data) - b.w

(* std::copy of bytes s to offset k. *)
Write(data, k, s) == [i \in 1..Len(data) |-> IF i \in k + 1..k + Len(s) THEN s[i - k] ELSE data[i]]

Readable(b) == SubSeq(b.data, b.r + 1, b.w)

(* readView(): one byte more than is readable; behind the end of the vector *)
(* it may be any byte.                                                      *)
ReadViews(b, Bytes) ==
    {Readable(b) \o <<x>> : x \in IF b.w < Len(b.data) THEN {b.data[b.w + 1]} ELSE Bytes}

reuse_prependable_space(b) ==
    [data |-> Write(b.data, prepend_size, Readable(b)),
     r |-> prepend_size, w |-> prepend_size + readable_size(b)]

(* buffer_.resize(). *)
Resize(data, n) == [i \in 1..n |-> IF i <= Len(data) THEN data[i] ELSE Zero]

(* Mutant of expend: room is taken for granted without moving the data. *)
expendInPlace(b, n) ==
    IF writable_size(b) + b.r > n + prepend_size THEN [b EXCEPT !.w = prepend_size + readable_size(b)]
    ELSE [reuse_prependable_space(b) EXCEPT !.data = Resize(@, prepend_size + readable_size(b) + n)]

expend(b, n) ==
    IF writable_size(b) + b.r > n + prepend_size THEN reuse_prependable_space(b)
    ELSE [reuse_prependable_space(b) EXCEPT !.data = Resize(@, prepend_size + readable_size(b) + n)]

ensure_appendable(b, n) == IF writable_size(b) < n THEN expend(b, n) ELSE b

appendImp(b, s) ==
    LET c == ensure_appendable(b, Len(s))
    IN  [c EXCEPT !.data = Write(@, c.w, s), !.w = @ + Len(s)]

(* readv() fills what is writable, the rest comes through extrabuf. *)
appendFormFd(b, s) ==
    LET n == IF Len(s) <= writable_size(b) THEN Len(s) ELSE writable_size(b)
        c == [b EXCEPT !.data = Write(@, b.w, SubSeq(s, 1, n)), !.w = @ + n]
    IN  IF n = Len(s) THEN c ELSE appendImp(c, SubSeq(s, n + 1, Len(s)))

(* Without assertions a consume() of too much empties the buffer. *)
consume(b, n) ==
    IF n < readable_size(b) THEN [b EXCEPT !.r = @ + n]
    ELSE [b EXCEPT !.r = prepend_size, !.w = prepend_size]
=============================================================================
