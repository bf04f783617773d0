-------------------------- MODULE MCTcpConnection ---------------------------
(* TcpConnection for TLC: one calling thread and the message callback. *)
EXTENDS TcpConnection, TLC

CONSTANTS t1, loop

MCThreads == {t1}

(* A send and a disconnect from outside, one call from the callback. *)
MCCalls == t1 :> 2 @@ loop :> 1

(* handleRead with and without out-of-band data, handleETRead.  (The       *)
(* constructor's default, no interest at all, adds nothing to the three.)  *)
MCEvents == {{"Read", "Except"}, {"Read", "Edge"}, {"Read"}}
=============================================================================
