---------------------------- MODULE MCEventLoop -----------------------------
(* EventLoop for TLC: two submitting threads and the loop's own tasks. *)
EXTENDS EventLoop, TLC

CONSTANTS t1, t2, loop

MCThreads == {t1, t2}

(* A task, a delayed task or a quit from each. *)
MCQuota == t1 :> 1 @@ t2 :> 1 @@ loop :> 1
=============================================================================
