------------------------------- MODULE Codec -------------------------------
(***************************************************************************)
(* Frames that LineCodec, LengthCodec or ProtoMsgCodec has encoded arrive  *)
(* in pieces in a TcpBuffer and are decoded as CodecTestServer::onMessage  *)
(* does it: after every read tryDecode(readView()) and consume() until a   *)
(* result <= 0; or as the protobuf test server does it: decode() as long   *)
(* as msgComplete().                                                       *)
(*                                                                         *)
(* A byte is [frame, i], the i-th byte of that frame's encoding.  The two  *)
(* bytes of "\r\n" are kept apart; "mBdT" and the length are one byte each,*)
(* and so are protobuf's total length and its type name with its length.   *)
(***************************************************************************)
EXTENDS TcpBuffer, SequencesExt

CONSTANTS
    FrameLens,        \* the payload length of each frame, in the order they are sent
    MaxLength,        \* the payload LengthCodec accepts: 1024*1024
    MAX_MESSAGE_SIZE, \* the whole message ProtoMsgCodec accepts, header included
    Asserts           \* assertions are compiled in

ASSUME CodecAssumption == FrameLens \in Seq(Nat) /\ Asserts \in BOOLEAN
                          /\ MaxLength \in Nat /\ MAX_MESSAGE_SIZE \in Nat
                          /\ Zero \notin [frame : Nat, i : Nat]

VARIABLES
    codec,        \* "line", "length" or "proto"
    unknown,      \* messages whose type this program does not have, or whose
                  \* name is longer than MAX_NAME_LENGTH
    arrived,      \* bytes of the stream that have been read
    buf,          \* the connection's RecvBuffer_
    decoding,     \* onMessage is in its loop
    frames,       \* payloads handed to the application
    overread,     \* a result counted the byte behind the readable ones
    codecAborted, \* an assertion failed
    spinning      \* onMessage repeats a decode() that fails, for ever

codecVars == <<codec, unknown, arrived, buf, decoding, frames, overread, codecAborted, spinning>>

(* encode(): the payload and "\r\n", or magic, length and the payload, or  *)
(* the lengths, the name and the payload.                                  *)
Encoded(f) == [i \in 1..FrameLens[f] + 2 |-> [frame |-> f, i |-> i]]
Wire       == FlattenSeq([f \in 1..Len(FrameLens) |-> Encoded(f)])
Payload(k, f) == IF k = "line" THEN SubSeq(Encoded(f), 1, FrameLens[f])
                 ELSE SubSeq(Encoded(f), 3, FrameLens[f] + 2)
Bytes      == Range(Wire) \cup {Zero}

IsNewline(x) == x # Zero /\ x.i = FrameLens[x.frame] + 2
IsReturn(x)  == x # Zero /\ x.i = FrameLens[x.frame] + 1

CodecInit ==
    /\ codec \in {"line", "length", "proto"} /\ arrived = 0 /\ buf = EmptyBuffer
    /\ unknown \in SUBSET (IF codec = "proto" THEN 1..Len(FrameLens) ELSE {})
    /\ decoding = FALSE /\ frames = <<>> /\ overread = FALSE
    /\ codecAborted = FALSE /\ spinning = FALSE

(* What the receiver's codec does not take; encode() makes it all the same. *)
Refused(f) ==
    \/ codec = "length" /\ FrameLens[f] > MaxLength
    \/ codec = "proto" /\ (Len(Encoded(f)) > MAX_MESSAGE_SIZE \/ f \in unknown)

(* A result -1 (refused) ends onMessage as 0 (not yet) does: both are 0 here. *)
Result(n, msg) == [n |-> n, msg |-> msg]

(* LineCodec::tryDecode (no frame consists of a single EOT). *)
lineTryDecode(data) ==
    IF \A i \in 1..Len(data) : ~IsNewline(data[i]) THEN {Result(0, <<>>)}
    ELSE LET i == SelectInSeq(data, IsNewline)
             end == IF i > 1 /\ IsReturn(data[i - 1]) THEN i - 2 ELSE i - 1
         IN  {Result(i, SubSeq(data, 1, end))}

(* LengthCodec::tryDecode.  A length that is not in its place is garbage: *)
(* refused or, now and then, a length that fits what is there.            *)
lengthTryDecode(data) ==
    LET Try(len) == IF len <= MaxLength /\ Len(data) >= len + 2
                    THEN Result(len + 2, SubSeq(data, 3, len + 2))
                    ELSE Result(0, <<>>) IN
    IF Len(data) < 2 THEN {Result(0, <<>>)}
    ELSE IF data[1] = Zero \/ data[1].i # 1 THEN {Result(0, <<>>)}
    ELSE IF data[2] # Zero /\ data[2].i = 2 THEN {Try(FrameLens[data[2].frame])}
    ELSE {Try(len) : len \in 0..Len(data)}

(* ProtoMsgCodec::msgComplete.  The buffer always begins with a header. *)
msgComplete(b) ==
    readable_size(b) > 0 /\ readable_size(b) >= Len(Encoded(Readable(b)[1].frame))

(* ProtoMsgCodec::decode of a complete message.  It returns NULL when a     *)
(* length or the type is refused; and ParseFromZeroCopyStream is given      *)
(* everything that is readable, not the total_len bytes of the message: it  *)
(* fails when the header of another message follows, whose first bytes are  *)
(* no field tag.                                                            *)
Parses(b) == \A x \in Range(Readable(b)) : x.frame = Readable(b)[1].frame
Decodes(b) == ~Refused(Readable(b)[1].frame) /\ Parses(b)

tryDecode(data) == IF codec = "line" THEN lineTryDecode(data) ELSE lengthTryDecode(data)

-----------------------------------------------------------------------------
(* handleRead(): some bytes arrive, and onMessage begins. *)
ReadSome ==
    /\ ~decoding /\ arrived < Len(Wire) /\ decoding' = TRUE
    /\ \E n \in 1..Len(Wire) - arrived :
         /\ buf' = appendFormFd(buf, SubSeq(Wire, arrived + 1, arrived + n))
         /\ arrived' = arrived + n
    /\ UNCHANGED <<codec, unknown, frames, overread, codecAborted, spinning>>

(* One turn of onMessage's loop. *)
Decode ==
    /\ decoding /\ codec # "proto"
    /\ \E data \in ReadViews(buf, Bytes) : \E p \in tryDecode(data) :
         IF p.n = 0 THEN decoding' = FALSE /\ UNCHANGED <<buf, frames, overread, codecAborted>>
         ELSE /\ frames' = Append(frames, p.msg) /\ buf' = consume(buf, p.n)
              /\ overread' = (overread \/ p.n > readable_size(buf))
              /\ codecAborted' = (Asserts /\ p.n > readable_size(buf)) /\ UNCHANGED decoding
    /\ UNCHANGED <<codec, unknown, arrived, spinning>>

(* One turn of the loop around ProtoMsgCodec::decode.  A decode that fails *)
(* leaves the buffer as it is, and msgComplete() remains true.             *)
ProtoDecode ==
    /\ decoding /\ codec = "proto"
    /\ \/ ~msgComplete(buf) /\ decoding' = FALSE /\ UNCHANGED <<buf, frames, spinning>>
       \/ /\ msgComplete(buf) /\ Decodes(buf)
          /\ frames' = Append(frames, SubSeq(Readable(buf), 3, readable_size(buf)))
          /\ buf' = consume(buf, readable_size(buf))
          /\ UNCHANGED <<decoding, spinning>>
       \/ /\ msgComplete(buf) /\ ~Decodes(buf)
          /\ spinning' = TRUE
          /\ UNCHANGED <<buf, frames, decoding>>
    /\ UNCHANGED <<codec, unknown, arrived, overread, codecAborted>>

CodecNext == ~codecAborted /\ ~spinning /\ (ReadSome \/ Decode \/ ProtoDecode)

CodecSpec == CodecInit /\ [][CodecNext]_codecVars

-----------------------------------------------------------------------------
(* Wherever the reads cut the stream and whatever the buffer does to make  *)
(* room, the frames handed over are the frames that were sent, in order,   *)
(* and all of them up to the first one the codec refuses: an encoded frame *)
(* longer than the limit, or a message of a type the receiver lacks, stops *)
(* the stream for good.  The one exception is a result that counted the    *)
(* byte readView() adds behind the readable ones.  The protobuf loop hangs *)
(* when the complete message is refused, or part of another one is behind  *)
(* it, and never otherwise.                                                *)
FramesIntact ==
    \/ overread
    \/ /\ Len(frames) <= Len(FrameLens)
       /\ \A f \in 1..Len(frames) : frames[f] = Payload(codec, f) /\ ~Refused(f)
       /\ spinning => \/ Refused(Len(frames) + 1)
                      \/ readable_size(buf) > FrameLens[Len(frames) + 1] + 2
       /\ ~decoding /\ arrived = Len(Wire) =>
              Len(frames) = Len(FrameLens) \/ Refused(Len(frames) + 1)
=============================================================================
