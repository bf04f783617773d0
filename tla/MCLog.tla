-------------------------------- MODULE MCLog --------------------------------
(* The two log back-ends for TLC.  A program uses one of them: kind says   *)
(* which.                                                                  *)
EXTENDS SyncLog, AsyncLog, TLC

CONSTANTS t1, t2, t3
VARIABLE kind

MCThreads == {t1, t2, t3}
MCCallers == {t1, t2}

allVars == <<syncVars, asyncVars, kind>>

MCInit == SyncInit /\ AsyncInit /\ kind \in {"sync", "async"}
Sync(A)  == kind = "sync" /\ A /\ UNCHANGED <<kind, asyncVars>>
Async(A) == kind = "async" /\ A /\ UNCHANGED <<kind, syncVars>>
MCNext == Sync(SyncNext) \/ Async(AsyncNext)
MCSpec == /\ MCInit /\ [][MCNext]_allVars
          /\ WF_allVars(Async(fault = "none" /\ LoopStep))
          /\ WF_allVars(Async(fault = "none" /\ JoinReturns))
=============================================================================
