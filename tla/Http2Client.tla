----------------------------- MODULE Http2Client -----------------------------
(***************************************************************************)
(* One DoH fetch over HTTP/2: src/base/net/http2/Http2Client on top of    *)
(* its base class HttpsClient.  The Http2Client callbacks are translated  *)
(* from the code: handshake(), read() with its SSL_connect branch and its *)
(* SSL_read loop, the nghttp2 callbacks onHeader and onStreamClose, and   *)
(* sendPendingData().  The base class is not in the repository; its part  *)
(* is what spec 4.4 asks of the transport: close(status) ends the fetch,  *)
(* reporting a negative status to the listener, once, and a per-request   *)
(* timeout closes a fetch that is still open.                             *)
(*                                                                         *)
(* The network is the server's side: each read() call hands the client   *)
(* a few TLS records, each one HTTP/2 frame.  A response body is the      *)
(* sequence of its DATA chunks; the request body (onDataSourceRead) is    *)
(* left out, since nghttp2 pulls it whole within the first window.        *)
(* Frames of a stream other than m_streamId come from server push, which  *)
(* the client's SETTINGS do not disable.                                  *)
(***************************************************************************)
EXTENDS Integers, Sequences

CONSTANTS
    Statuses,       \* :status values the server may send
    MaxRecords,     \* most TLS records one read() call drains
    Chunks,         \* the payloads a DATA frame may carry
    MaxData         \* most DATA frames the server sends on our stream

ASSUME Statuses \subseteq 100..599 /\ MaxRecords \in Nat \ {0} /\ MaxData \in Nat

\* HttpData::body before the response: the request, the DNS query.
Query == <<"query">>

\* libuv error codes passed to close()
UV_EOF == -4095
UV_EPROTO == -71
UV_ETIMEDOUT == -110

Phases == {"connecting", "stalled", "handshaking", "ready"}

\* One TLS record as SSL_read returns it: an HTTP/2 frame of our stream or
\* of a pushed one (own), a malformed frame, or close_notify (rc == 0).
\* sendOk: whether the sendPendingData() after it succeeds.
Frames ==
    [k : {"headers"}, own : BOOLEAN, s : Statuses] \cup
    [k : {"close"}, own : BOOLEAN, err : BOOLEAN] \cup
    [k : {"data"}, own : BOOLEAN, d : Chunks] \cup
    [k : {"garbage", "eof"}]
Records == [f : Frames, sendOk : BOOLEAN]

VARIABLE c      \* the client

(***************************************************************************)
(* Fields of c:                                                            *)
(*   phase      connecting, stalled (SSL_new failed), handshaking, ready   *)
(*   streamId   m_streamId: 0 before submitRequest, 1 ours, -1 refused     *)
(*   respStatus m_responseStatus                                           *)
(*   resp       m_responseBody, the DATA chunks received on m_streamId     *)
(*   body       HttpData::body, the request until onStreamClose moves resp *)
(*   closed     the base class has closed the fetch                        *)
(*   delivered  what each onHttpData call saw: [status, body], in order    *)
(*   sent       the :status the server sent on our stream (0: none yet)   *)
(*   sentData   the DATA chunks the server sent on our stream             *)
(*   ended      the server has closed our stream                          *)
(***************************************************************************)

\* HttpsClient::close(status), spec 4.4: the first close ends the fetch and
\* reports a negative status to the listener; later closes do nothing.
Close(x, status) ==
    IF x.closed THEN x
    ELSE [x EXCEPT !.closed = TRUE,
                   !.delivered = IF status < 0
                                 THEN Append(@, [status |-> status, body |-> x.body])
                                 ELSE @]

\* Http2Client::sendPendingData: nghttp2_session_mem_send < 0 closes.
SendPendingData(x, ok) == IF ok THEN x ELSE Close(x, UV_EPROTO)

\* Http2Client::onHeader: the :status of our stream's HEADERS.
OnHeader(x, f) == IF f.own THEN [x EXCEPT !.respStatus = f.s] ELSE x

\* The stream_id check dropped: a pushed stream's chunks join the body too.
OnDataChunkRecvAnyStream(x, f) == [x EXCEPT !.resp = Append(@, f.d)]

\* Http2Client::onDataChunkRecv: a chunk of our stream joins the body.
OnDataChunkRecv(x, f) == IF f.own THEN [x EXCEPT !.resp = Append(@, f.d)] ELSE x

\* Http2Client::onStreamClose: our stream closed with an error code, or
\* normally: status = m_responseStatus, body = std::move(m_responseBody),
\* listener->onHttpData, close(0).
OnStreamClose(x, f) ==
    IF ~f.own THEN x
    ELSE IF f.err THEN Close(x, UV_EPROTO)
    ELSE Close([x EXCEPT !.body = x.resp, !.resp = <<>>,
                         !.delivered = Append(@, [status |-> x.respStatus, body |-> x.resp])], 0)

\* nghttp2_session_mem_recv of one frame, firing the callbacks.
OnFrame(x, f) ==
    CASE f.k = "headers" -> OnHeader(x, f)
      [] f.k = "data"    -> OnDataChunkRecv(x, f)
      [] f.k = "close"   -> OnStreamClose(x, f)
      [] OTHER           -> x

\* The while (SSL_read(...) > 0) loop of read(): rc == 0 closes with
\* UV_EOF, mem_recv < 0 closes and returns; the loop keeps going after a
\* close made by a callback or by sendPendingData.
RECURSIVE Drain(_, _)
Drain(x, recs) ==
    IF recs = <<>> THEN x
    ELSE LET r == Head(recs) IN
         CASE r.f.k = "eof"     -> Close(x, UV_EOF)
           [] r.f.k = "garbage" -> Close(x, UV_EPROTO)
           [] OTHER -> Drain(SendPendingData(OnFrame(x, r.f), r.sendOk), Tail(recs))

\* Http2Client::submitRequest: m_streamId is what nghttp2_submit_request
\* returns, stream 1 or a negative error code.
SubmitRequest(x, submitted) == [x EXCEPT !.streamId = IF submitted THEN 1 ELSE -1]

\* The SSL_connect branch of read() once the handshake completes: the
\* certificate and ALPN checks, then m_ready, initSession, submitRequest
\* and sendPendingData.
HandshakeDone(x, certOk, alpnOk, submitted, sendOk) ==
    IF ~certOk \/ ~alpnOk THEN Close(x, UV_EPROTO)
    ELSE SendPendingData(SubmitRequest([x EXCEPT !.phase = "ready"], submitted), sendOk)
-----------------------------------------------------------------------------
Init ==
    c = [phase |-> "connecting", streamId |-> 0, respStatus |-> 0, resp |-> <<>>,
         body |-> Query, closed |-> FALSE, delivered |-> <<>>, sent |-> 0,
         sentData |-> <<>>, ended |-> FALSE]

\* The base class has connected and calls handshake(); SSL_new may fail,
\* and then handshake() returns with nothing armed but the timeout.
Handshake ==
    /\ c.phase = "connecting" /\ ~c.closed
    /\ \E sslOk \in BOOLEAN :
          c' = [c EXCEPT !.phase = IF sslOk THEN "handshaking" ELSE "stalled"]

\* read() while SSL_is_init_finished is false.  SSL_connect wants more
\* data, completes, or fails otherwise (then read() just returns).
ReadHandshake ==
    /\ c.phase = "handshaking" /\ ~c.closed
    /\ \/ UNCHANGED c
       \/ \E certOk, alpnOk, submitted, sendOk \in BOOLEAN :
             c' = HandshakeDone(c, certOk, alpnOk, submitted, sendOk)

\* Frames the server may still send: ours only on a submitted stream it has
\* not closed; one HEADERS, then at most MaxData DATA frames, then the close.
Sendable(x) ==
    {r \in Records :
        r.f.k \in {"headers", "data", "close"} /\ r.f.own =>
            /\ x.streamId = 1 /\ ~x.ended
            /\ r.f.k = "headers" => x.sent = 0
            /\ r.f.k = "data" => x.sent # 0 /\ Len(x.sentData) < MaxData}

\* What the server's records do to its own view of our stream.
RECURSIVE ServerSent(_, _)
ServerSent(x, recs) ==
    IF recs = <<>> THEN x
    ELSE LET f == Head(recs).f
             x1 == CASE f.k = "headers" /\ f.own -> [x EXCEPT !.sent = f.s]
                     [] f.k = "data" /\ f.own -> [x EXCEPT !.sentData = Append(@, f.d)]
                     [] f.k = "close" /\ f.own -> [x EXCEPT !.ended = TRUE]
                     [] OTHER -> x
         IN  ServerSent(x1, Tail(recs))

\* Frames the server sends in order: ours at most once each, pushes freely;
\* a malformed record or close_notify is the last one read.
Valid(x, recs) ==
    \A i \in 1..Len(recs) :
        /\ recs[i] \in Sendable(ServerSent(x, SubSeq(recs, 1, i - 1)))
        /\ recs[i].f.k \in {"garbage", "eof"} => i = Len(recs)

\* read() once the handshake is finished: 1..MaxRecords records drained.
ReadFrames ==
    /\ c.phase = "ready" /\ ~c.closed
    /\ \E n \in 1..MaxRecords :
       \E recs \in [1..n -> Records] :
          /\ Valid(c, recs)
          /\ c' = Drain(ServerSent(c, recs), recs)

\* The base class gives up: the per-request timeout, or a connect, TLS
\* write or socket error.
Abort ==
    /\ ~c.closed
    /\ \E status \in {UV_ETIMEDOUT, UV_EPROTO} : c' = Close(c, status)

Next == Handshake \/ ReadHandshake \/ ReadFrames \/ Abort

\* The per-request timeout (spec 4.4) closes every fetch that stays open.
Spec == Init /\ [][Next]_c /\ WF_c(Abort)
-----------------------------------------------------------------------------
\* The listener hears of a fetch exactly once (spec 4.4): onHttpData runs
\* at most once, however the frames, errors and timeout interleave.  It is
\* called from the base class's close() and from onStreamClose().
AtMostOnceDelivery == Len(c.delivered) <= 1

\* What the listener is handed on a normal close is the response to our
\* request (spec 4.4): the :status of our stream's HEADERS and the DATA
\* of our stream, in order, gathered by onHeader and onDataChunkRecv over
\* any number of read() calls, with frames of pushed streams interleaved
\* and moved into HttpData::body by onStreamClose.
ResponseFromOwnStream ==
    \A i \in DOMAIN c.delivered :
        c.delivered[i].status >= 0 =>
            c.delivered[i] = [status |-> c.sent, body |-> c.sentData]
=============================================================================
