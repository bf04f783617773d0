------------------------------ MODULE MCTimers ------------------------------
(* The two timer services for TLC.  They run side by side on a loop and    *)
(* share nothing, so a behaviour uses one of them: kind says which.        *)
EXTENDS TimerQueue, TimerWheel, TLC

CONSTANTS p, q, r
VARIABLE kind

MCTimers   == {p, q, r}

(* p is periodic, q executes once, r is a FOREVER timer with interval 0.   *)
(* On the wheel of two slots p takes one full rotation and q one and a half. *)
MCInterval == p :> 2 @@ q :> 3 @@ r :> 0
MCCount    == p :> 2 @@ q :> 1 @@ r :> FOREVER

allVars == <<vars, wheelVars, kind>>

MCInit == Init /\ WheelInit /\ kind \in {"queue", "wheel"}
Queue(A) == kind = "queue" /\ A /\ UNCHANGED <<kind, wheelVars>>
Wheel(A) == kind = "wheel" /\ A /\ UNCHANGED <<kind, where, queueVars, handlerVars>>
MCNext == Queue(Next) \/ Wheel(WheelNext)
MCSpec == /\ MCInit /\ [][MCNext]_allVars
          /\ WF_allVars(Queue(~aborted /\ Tick))
          /\ WF_allVars(Queue(~aborted /\ LoopStep))
          /\ WF_allVars(Wheel(~aborted /\ TickStep))
          /\ SF_allVars(Wheel(~aborted /\ RunPut))
=============================================================================
