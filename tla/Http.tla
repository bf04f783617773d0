-------------------------------- MODULE Http --------------------------------
(***************************************************************************)
(* An HTTPClient and an HttpServer on one connection.  A user's thread     *)
(* sends requests one after another; the stream may cut them anywhere and  *)
(* join them; the server parses, routes and answers on its loop, the       *)
(* client matches answers to pendingRequests_ on its own.                  *)
(*                                                                         *)
(* A message is two pieces of header, the empty line that ends it and its  *)
(* body; every piece knows what its message's header says.  encode() adds  *)
(* "Connection: Keep-Alive" behind the other headers and the last one      *)
(* counts, so this client always sees Keep-Alive; a request with close     *)
(* comes from another client.  Receive buffers are sequences (TcpBuffer).  *)
(***************************************************************************)
EXTENDS Naturals, Sequences, FiniteSetsExt

CONSTANTS
    Requests,   \* [len, expect, close] of each request: body length, "Expect", "Connection: close"
    RespLen,    \* body length of the routes' responses
    HttpDebug   \* assertions are compiled in

ASSUME HttpAssumption ==
    /\ Requests \in Seq([len : Nat, expect : BOOLEAN, close : BOOLEAN])
    /\ RespLen \in Nat /\ HttpDebug \in BOOLEAN

VARIABLES
    upc, sent, pending,          \* user's thread, requests sent, pendingRequests_
    c2s, s2c,                    \* bytes on their way
    sbuf, inputBuffer, req, sloop,   \* server: recvBuffer, parser, in onMessage's loop
    sclosed,                     \* the server has called disconnect()
    cbuf, resp, cloop,           \* client: recvBuffer, response_, in onMessage's loop
    handled,                     \* requests that were routed
    callbacks,                   \* request and the response its callback got
    split,                       \* onMessage returned and left a part of a request in both buffers
    overtaken,                   \* a response came with pendingRequests_ empty
    httpAborted

userVars   == <<upc, sent>>
serverVars == <<sbuf, inputBuffer, req, sloop, sclosed, handled, split>>
clientVars == <<cbuf, resp, cloop, callbacks, overtaken>>
httpVars   == <<userVars, pending, c2s, s2c, serverVars, clientVars, httpAborted>>

None == "none"

(* The bytes of a message. *)
Piece(m, part) == [msg |-> m.msg, part |-> part, len |-> m.len, expect |-> m.expect, close |-> m.close]
encode(m) == <<Piece(m, "head"), Piece(m, "head"), Piece(m, "end")>>
             \o [i \in 1..m.len |-> Piece(m, "body")]

Message(k, len, expect, close) == [msg |-> k, len |-> len, expect |-> expect, close |-> close]
Request(k)  == Message(k, Requests[k].len, Requests[k].expect, Requests[k].close)
Response(k) == Message(k, RespLen, FALSE, FALSE)

(* HttpMsg after clear(). *)
Cleared == [complete |-> FALSE, contentLen |-> 0, scanned |-> 0,
            header |-> Message(None, 0, FALSE, FALSE), body |-> <<>>]

HttpInit ==
    /\ upc = "idle" /\ sent = 0 /\ pending = <<>> /\ c2s = <<>> /\ s2c = <<>>
    /\ sbuf = <<>> /\ inputBuffer = <<>> /\ req = Cleared /\ sloop = FALSE /\ sclosed = FALSE
    /\ cbuf = <<>> /\ resp = Cleared /\ cloop = FALSE
    /\ handled = <<>> /\ callbacks = <<>>
    /\ split = FALSE /\ overtaken = FALSE /\ httpAborted = FALSE

-----------------------------------------------------------------------------
Drop(s, n) == SubSeq(s, n + 1, Len(s))
Parsed(r, h) == [result |-> r, state |-> h]

(* What the bytes before the empty line mean.  Pieces of one message are its *)
(* header; anything else is refused, or taken for some header or other.      *)
WellFormed(slice) == Len(slice) = 2 /\ slice[1] = slice[2] /\ slice[1].part = "head"
Headers(slice) ==
    IF WellFormed(slice) THEN {Message(slice[1].msg, slice[1].len, slice[1].expect, slice[1].close)}
    ELSE {Message("junk", len, FALSE, FALSE) : len \in {0} \cup {slice[i].len : i \in 1..Len(slice)}}

(* Mutant of Body: it begins one byte early. *)
BodyEarly(h, data) ==
    IF Len(data) >= h.contentLen + h.scanned
    THEN Parsed("Complete", [h EXCEPT !.complete = TRUE, !.scanned = @ + h.contentLen,
                                      !.body = SubSeq(data, h.scanned, h.scanned + h.contentLen - 1)])
    ELSE Parsed("NotComplete", h)

(* The last part of tryDecode_. *)
Body(h, data) ==
    IF Len(data) >= h.contentLen + h.scanned
    THEN Parsed("Complete", [h EXCEPT !.complete = TRUE, !.scanned = @ + h.contentLen,
                                      !.body = SubSeq(data, h.scanned + 1, h.scanned + h.contentLen)])
    ELSE Parsed("NotComplete", h)

(* tryDecode_: the results it may have, with the HttpMsg it leaves. *)
tryDecode_(h, data) ==
    LET ends == {i \in h.scanned + 1..Len(data) : data[i].part = "end"}
        e == Min(ends)
        slice == SubSeq(data, 1, e - 1)
        AfterHeader(m) ==
            LET g == [h EXCEPT !.header = m, !.scanned = e, !.contentLen = m.len] IN
            IF m.expect /\ Len(data) < m.len + e THEN Parsed("Continue100", g) ELSE Body(g, data)
    IN  IF h.complete THEN {Parsed("Complete", h)}
        ELSE IF h.contentLen # 0 THEN {Body(h, data)}
        ELSE IF ends = {} THEN {Parsed("NotComplete", [h EXCEPT !.scanned = Len(data)])}
        ELSE IF e = 1 THEN {Parsed("NotComplete", h)}
        ELSE {AfterHeader(m) : m \in Headers(slice)}
             \cup IF WellFormed(slice) THEN {} ELSE {Parsed("Error", [h EXCEPT !.scanned = e - 1])}

-----------------------------------------------------------------------------
(* sendRequest() on the user's thread: the request is sent, and then pushed. *)
sendRequest ==
    /\ upc = "idle" /\ sent < Len(Requests) /\ upc' = "push" /\ sent' = sent + 1
    /\ c2s' = c2s \o encode(Request(sent + 1))
    /\ UNCHANGED <<pending, s2c, serverVars, clientVars, httpAborted>>

pushRequest ==
    /\ upc = "push" /\ upc' = "idle" /\ pending' = Append(pending, sent)
    /\ UNCHANGED <<sent, c2s, s2c, serverVars, clientVars, httpAborted>>

(* Some bytes arrive and handleRead() calls onMessage. *)
ServerRead ==
    /\ ~sloop /\ sloop' = TRUE
    /\ \E n \in 1..Len(c2s) : sbuf' = sbuf \o SubSeq(c2s, 1, n) /\ c2s' = Drop(c2s, n)
    /\ UNCHANGED <<userVars, pending, s2c, inputBuffer, req, sclosed, handled, split, clientVars, httpAborted>>

ClientRead ==
    /\ ~cloop /\ cloop' = TRUE
    /\ \E n \in 1..Len(s2c) : cbuf' = cbuf \o SubSeq(s2c, 1, n) /\ s2c' = Drop(s2c, n)
    /\ UNCHANGED <<userVars, pending, c2s, resp, callbacks, overtaken, serverVars, httpAborted>>

(* conn->send, refused after disconnect(). *)
Send(m) == s2c' = IF sclosed THEN s2c ELSE s2c \o encode(m)

(* parseRequest(): the receive buffer is appended to inputBuffer_ and decoded. *)
ParseRequest == {[data |-> inputBuffer \o sbuf, p |-> p] : p \in tryDecode_(req, inputBuffer \o sbuf)}

(* HttpServer::onMessage, one turn of its loop.  First: nothing to route. *)
ServerReturns ==
    /\ sloop /\ sloop' = FALSE
    /\ \E x \in ParseRequest :
         /\ x.p.result # "Complete" /\ req' = x.p.state
         /\ CASE x.p.result = "Error" -> /\ inputBuffer' = <<>> /\ sclosed' = TRUE
                                         /\ Send(Message("400", 0, FALSE, FALSE))
              [] x.p.result = "Continue100" -> /\ inputBuffer' = x.data /\ sclosed' = sclosed
                                               /\ Send(Message("100", 0, FALSE, FALSE))
              [] OTHER -> inputBuffer' = x.data /\ UNCHANGED <<s2c, sclosed>>
         /\ split' = (split \/ sbuf # <<>>)
    /\ UNCHANGED <<userVars, pending, c2s, sbuf, handled, clientVars, httpAborted>>

(* A request is complete: routed and answered, its bytes consumed, the parser *)
(* cleared - except after "Connection: close".                                *)
ServerRoutes ==
    /\ sloop
    /\ \E x \in ParseRequest :
         LET h == x.p.state IN
         /\ x.p.result = "Complete"
         /\ handled' = Append(handled, [msg |-> h.header.msg, body |-> h.body])
         /\ Send(Response(h.header.msg))
         /\ sbuf' = Drop(sbuf, h.scanned)
         /\ httpAborted' = (HttpDebug /\ h.scanned > Len(sbuf))
         /\ IF h.header.close THEN sclosed' = TRUE /\ req' = h /\ inputBuffer' = Drop(x.data, h.scanned)
                              ELSE sclosed' = sclosed /\ req' = Cleared /\ inputBuffer' = <<>>
    /\ UNCHANGED <<userVars, pending, c2s, sloop, split, clientVars>>

(* Mutant of Consumed: everything that is readable. *)
ConsumedAll(h) == <<>>

(* buffer.consume(response_.getByte()). *)
Consumed(h) == Drop(cbuf, h.scanned)

(* HTTPClient::onMessage, one turn of its loop.  Its branch for a response  *)
(* with Connection: close, which leaves response_ as it is, is not reached: *)
(* HTTPServer answers every request with Keep-Alive.                        *)
ClientLoop ==
    /\ cloop
    /\ \E p \in tryDecode_(resp, cbuf) :
         IF p.result # "Complete"
         THEN /\ cloop' = FALSE /\ resp' = p.state /\ cbuf' = (IF p.result = "Error" THEN <<>> ELSE cbuf)
              /\ UNCHANGED <<pending, callbacks, overtaken>>
         ELSE /\ cloop' = TRUE /\ resp' = Cleared /\ cbuf' = Consumed(p.state)
              /\ IF pending = <<>> THEN overtaken' = TRUE /\ UNCHANGED <<pending, callbacks>>
                 ELSE /\ callbacks' = Append(callbacks, [to |-> Head(pending), msg |-> p.state.header.msg,
                                                         body |-> p.state.body])
                      /\ pending' = Tail(pending) /\ UNCHANGED overtaken
    /\ UNCHANGED <<userVars, c2s, s2c, serverVars, httpAborted>>

HttpNext == ~httpAborted /\
    (sendRequest \/ pushRequest \/ ServerRead \/ ClientRead \/ ServerReturns \/ ServerRoutes \/ ClientLoop)

HttpSpec == HttpInit /\ [][HttpNext]_httpVars

-----------------------------------------------------------------------------
(* What should be handed over for message m. *)
Whole(m) == [msg |-> m.msg, body |-> [i \in 1..m.len |-> Piece(m, "body")]]

(* The routes see the requests that were sent, in order, whole and all of  *)
(* them, however the stream joins them - unless onMessage returned in the  *)
(* middle of a request (then the parser holds its first part twice) or a   *)
(* request said "Connection: close" (then it is routed again).             *)
RequestsIntact ==
    \/ split \/ sclosed
    \/ /\ \A i \in 1..Len(handled) : i <= sent /\ handled[i] = Whole(Request(i))
       /\ ~sloop /\ c2s = <<>> => Len(handled) = sent

(* A callback gets the response to its own request, whole, however the     *)
(* stream cuts or joins responses, and in the end every callback is called *)
(* - unless the server misread a request or a response overtook the push   *)
(* of its request.                                                         *)
ResponsesMatched ==
    \/ split \/ overtaken \/ sclosed
    \/ /\ \A i \in 1..Len(callbacks) :
            callbacks[i] = [to |-> i, msg |-> i, body |-> Whole(Response(i)).body]
       /\ ~sloop /\ ~cloop /\ upc = "idle" /\ c2s = <<>> /\ s2c = <<>> => Len(callbacks) = sent
=============================================================================
