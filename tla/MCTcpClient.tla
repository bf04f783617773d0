---------------------------- MODULE MCTcpClient ----------------------------
(* A client for TLC: how often its user makes each call. *)
EXTENDS TcpClient, TLC

CONSTANTS Connects, Stops, Toggles

MCQuota == "connect" :> Connects @@ "disconnect" :> 1 @@ "stop" :> Stops
           @@ "enableRetry" :> Toggles @@ "disableRetry" :> 1
=============================================================================
