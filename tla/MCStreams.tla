----------------------------- MODULE MCStreams -----------------------------
(* The decoders for TLC.  They share nothing, so a behaviour uses either   *)
(* the codecs on a TcpBuffer or HTTP: protocol says which.                 *)
EXTENDS Codec, Http, TLC

VARIABLE protocol

(* The fourth frame is longer than LengthCodec takes, the fifth than        *)
(* ProtoMsgCodec takes.                                                     *)
MCFrameLens == <<1, 2, 0, 3, 4>>

(* A request with a body, one without, and one that expects 100 and closes. *)
MCRequests  == << [len |-> 1, expect |-> FALSE, close |-> FALSE],
                  [len |-> 0, expect |-> FALSE, close |-> FALSE],
                  [len |-> 1, expect |-> TRUE, close |-> TRUE] >>

MCInit == /\ CodecInit /\ HttpInit /\ protocol \in {"codec", "http"}
          /\ protocol = "http" => codec = "line"
MCNext == \/ protocol = "codec" /\ CodecNext /\ UNCHANGED <<protocol, httpVars>>
          \/ protocol = "http" /\ HttpNext /\ UNCHANGED <<protocol, codecVars>>
MCSpec == MCInit /\ [][MCNext]_<<protocol, codecVars, httpVars>>
=============================================================================
