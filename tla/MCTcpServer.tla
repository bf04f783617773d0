---------------------------- MODULE MCTcpServer ----------------------------
(* A server for TLC: two acceptors, two workers, up to three clients. *)
EXTENDS TcpServer, TLC

CONSTANTS a1, a2, w1, w2, c1, c2, c3

MCAcceptors == <<a1, a2>>
MCWorkers   == <<w1, w2>>

(* Two clients at different acceptors, or three at the same: the third *)
(* then meets the worker of the first.                                 *)
MCArrivals  == { {[client |-> c1, acceptor |-> a1], [client |-> c2, acceptor |-> a2]},
                 [client : {c1, c2, c3}, acceptor : {a1}] }
=============================================================================
