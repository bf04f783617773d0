---------------------------- MODULE MCThreadPool ----------------------------
(* ThreadPool for TLC: two plain tasks and one that may wait for both. *)
EXTENDS ThreadPool, TLC

CONSTANTS a, b, d

MCPlain == {a, b}
MCDep   == {d}
MCRank  == a :> 2 @@ b :> 1 @@ d :> 0
=============================================================================
