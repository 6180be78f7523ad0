----------------------------- MODULE DnsTcpClient -----------------------------
(***************************************************************************)
(* The one-shot TCP/53 query of src/base/net/dns/DnsTcpClient, with the  *)
(* libuv handles it owns and the owner (DnsPoolNsBackend) that holds it in *)
(* m_tcpClient.  Every libuv callback (onConnect, onRead, onTimer, and the *)
(* close of each handle) is one action; send, read, done and close are     *)
(* operators on the record c that the callbacks pass along.                *)
(*                                                                         *)
(* The owner's completion callback, onTcpQueryComplete, always runs        *)
(* m_tcpClient.reset(), so the client is deleted inside its own callback.  *)
(* The owner also deletes a live client when it replaces it               *)
(* (startPoolQueryTcp) or starts a new cycle (resolve).                    *)
(*                                                                         *)
(* libuv facts the model relies on: uv_close stops reads and timers at     *)
(* once, frees the handle one loop iteration later, and, for a TCP handle  *)
(* with a connect still pending, first calls the connect callback with     *)
(* UV_ECANCELED (uv__stream_destroy).                                      *)
(***************************************************************************)
EXTENDS Integers, Sequences

CONSTANTS
    FrameLens   \* length prefixes the server may send (any 16-bit value)

ASSUME FrameLens \subseteq 0..65535

Handles == {"open", "closing", "freed"}
TimerStates == {"idle", "armed", "closing", "freed"}

VARIABLE c      \* the client, its handles and what its owner saw

(***************************************************************************)
(* Fields of c:                                                            *)
(*   obj        the DnsTcpClient object: "alive" or "freed"               *)
(*   tcp        m_tcp's uv_tcp_t: open, closing (uv_close called), freed   *)
(*   timer      m_timer's uv_timer_t: idle, armed, closing, freed          *)
(*   connectReq the uv_connect_t of start(): "pending" until onConnect     *)
(*   reading    uv_read_start has been called                             *)
(*   closed     m_closed                                                   *)
(*   callback   m_callback is set                                          *)
(*   frameLen   the length prefix the server sends (0 before connect)      *)
(*   recvd      m_recvBuf.size()                                           *)
(*   expectedLen m_expectedLen                                             *)
(*   results    the calls of the owner's callback (success flags)          *)
(*   uaf        a callback read a member of a freed client                 *)
(***************************************************************************)

\* Mutant of close(): the timer handle forgotten.
CloseLeaksTimer(x) ==
    IF x.tcp = "open" THEN [x EXCEPT !.tcp = "closing", !.reading = FALSE] ELSE x

\* DnsTcpClient::close: uv_close each handle not already closing.
Close(x) ==
    LET x1 == IF x.tcp = "open" THEN [x EXCEPT !.tcp = "closing", !.reading = FALSE] ELSE x
    IN  IF x1.timer \in {"idle", "armed"} THEN [x1 EXCEPT !.timer = "closing"] ELSE x1

\* ~DnsTcpClient, run by m_tcpClient.reset().
Destroy(x) == [Close(x) EXCEPT !.obj = "freed"]

\* The owner's callback: onTcpQueryComplete always resets m_tcpClient.
Callback(x, ok) == Destroy([x EXCEPT !.results = Append(@, ok)])

\* DnsTcpClient::done
Done(x, ok) ==
    IF x.closed THEN x
    ELSE LET x1 == Close([x EXCEPT !.closed = TRUE,
                                   !.timer = IF @ = "armed" THEN "idle" ELSE @])
         IN  IF x1.callback THEN Callback([x1 EXCEPT !.callback = FALSE], ok) ELSE x1

\* DnsTcpClient::send: built is buildQuery(m_host) non-empty, written is
\* uv_try_write having written the whole frame.
Send(x, built, written) ==
    IF ~built \/ ~written THEN Done(x, FALSE) ELSE x

\* Mutant of read(): the frame taken as complete one byte early.
ReadEarly(x, n, parsed) ==
    LET x1 == [x EXCEPT !.recvd = @ + n]
        x2 == IF x1.expectedLen = 0 THEN [x1 EXCEPT !.expectedLen = x.frameLen] ELSE x1
    IN  IF x1.recvd < 2 THEN x1
        ELSE IF x2.expectedLen > 65535 \/ x2.expectedLen < 12 THEN Done(x2, FALSE)
        ELSE IF x2.recvd < 1 + x2.expectedLen THEN x2
        ELSE Done(x2, parsed)

\* Mutant of read(): the length prefix decoded little-endian.
ReadSwapped(x, n, parsed) ==
    LET x1 == [x EXCEPT !.recvd = @ + n]
        swapped == (x.frameLen % 256) * 256 + x.frameLen \div 256
        x2 == IF x1.expectedLen = 0 THEN [x1 EXCEPT !.expectedLen = swapped] ELSE x1
    IN  IF x1.recvd < 2 THEN x1
        ELSE IF x2.expectedLen > 65535 \/ x2.expectedLen < 12 THEN Done(x2, FALSE)
        ELSE IF x2.recvd < 2 + x2.expectedLen THEN x2
        ELSE Done(x2, parsed)

\* DnsTcpClient::read: n more bytes arrive; parsed is the result of
\* parseAddressRecords on the message once it is complete.
Read(x, n, parsed) ==
    LET x1 == [x EXCEPT !.recvd = @ + n]
        x2 == IF x1.expectedLen = 0 THEN [x1 EXCEPT !.expectedLen = x.frameLen] ELSE x1
    IN  IF x1.recvd < 2 THEN x1
        ELSE IF x2.expectedLen > 65535 \/ x2.expectedLen < 12 THEN Done(x2, FALSE)
        ELSE IF x2.recvd < 2 + x2.expectedLen THEN x2
        ELSE Done(x2, parsed)

\* DnsTcpClient::onConnect.  A freed client's m_closed is read from freed
\* memory (undefined behaviour): the model records it and stops there.
OnConnect(x, status, built, written) ==
    LET x0 == [x EXCEPT !.connectReq = "none", !.uaf = @ \/ x.obj = "freed"]
    IN  IF x.obj = "freed" \/ x.closed THEN x0
        ELSE IF status # "ok" THEN Done(x0, FALSE)
        ELSE Send([x0 EXCEPT !.reading = TRUE], built, written)

\* DnsTcpClient::onRead: nread < 0 is a read error or EOF.
OnRead(x, nread, parsed) ==
    IF x.closed THEN x
    ELSE IF nread < 0 THEN Done(x, FALSE)
    ELSE Read(x, nread, parsed)

\* Mutant of onTimer(): the expiry only disarms the timer.
OnTimerNoDone(x) == [x EXCEPT !.timer = "idle"]

\* DnsTcpClient::onTimer
OnTimer(x) ==
    LET x1 == [x EXCEPT !.timer = "idle"] IN
    IF ~x.closed THEN Done(x1, FALSE) ELSE x1
-----------------------------------------------------------------------------
\* startPoolQueryTcp: new DnsTcpClient(...) then start(): both handles
\* initialised, the connect request issued and the timer armed.
\* The members of DnsTcpClient (m_tcp, m_timer, m_callback, m_recvBuf,
\* m_expectedLen, m_closed), with the object's own lifetime and the
\* connect request libuv still holds.
Client ==
    [obj : {"alive", "freed"}, tcp : Handles, timer : TimerStates,
     connectReq : {"none", "pending"}, reading : BOOLEAN, closed : BOOLEAN,
     callback : BOOLEAN, frameLen : FrameLens \cup {0},
     recvd : Nat, expectedLen : FrameLens \cup {0},
     results : Seq(BOOLEAN), uaf : BOOLEAN]

Init ==
    c = [obj |-> "alive", tcp |-> "open", timer |-> "armed",
         connectReq |-> "pending", reading |-> FALSE, closed |-> FALSE,
         callback |-> TRUE, frameLen |-> 0, recvd |-> 0, expectedLen |-> 0,
         results |-> <<>>, uaf |-> FALSE]

\* The kernel completes the connect: status ok (the server's reply will
\* carry prefix len) or an error.  A query that cannot be built or written
\* whole makes send() fail.
ConnectDone ==
    /\ c.connectReq = "pending" /\ c.tcp = "open"
    /\ \/ \E len \in FrameLens, built, written \in BOOLEAN :
             c' = OnConnect([c EXCEPT !.frameLen = len], "ok", built, written)
       \/ c' = OnConnect(c, "error", TRUE, TRUE)

\* Bytes of the server's reply arrive (any split), or the read fails / EOF.
ReadData ==
    /\ c.reading /\ c.tcp = "open"
    /\ \/ \E n \in 1..(2 + c.frameLen - c.recvd), parsed \in BOOLEAN :
             c' = OnRead(c, n, parsed)
       \/ c' = OnRead(c, -1, FALSE)

\* The client's own timer fires.
TimerFires ==
    /\ c.timer = "armed"
    /\ c' = OnTimer(c)

\* uv__finish_close of m_tcp: a pending connect is first completed with
\* UV_ECANCELED, then the handle is deleted.
TcpClosed ==
    /\ c.tcp = "closing"
    /\ c' = [(IF c.connectReq = "pending" THEN OnConnect(c, "canceled", TRUE, TRUE) ELSE c)
                EXCEPT !.tcp = "freed"]

TimerClosed ==
    /\ c.timer = "closing"
    /\ c' = [c EXCEPT !.timer = "freed"]

\* The owner drops a live client: resolve() resets m_tcpClient for a new
\* cycle, startPoolQueryTcp replaces it, or the backend is destroyed.
OwnerReset ==
    /\ c.obj = "alive"
    /\ c' = Destroy(c)

Next == ConnectDone \/ ReadData \/ TimerFires \/ TcpClosed \/ TimerClosed \/ OwnerReset

\* libuv runs due timers and finishes closes on every loop iteration; the
\* network (connect, reads) and the owner are not obliged to act.
Fairness == WF_c(TimerFires) /\ WF_c(TcpClosed) /\ WF_c(TimerClosed)

Spec == Init /\ [][Next]_c /\ Fairness

-----------------------------------------------------------------------------
TypeOK ==
    /\ c \in Client
    /\ c.recvd <= 2 + c.frameLen

\* read() reports success only for a whole frame: a length prefix of at
\* least a DNS header and all of its bytes received.
SuccessOnlyOnWholeFrame ==
    \A i \in 1..Len(c.results) :
        c.results[i] => c.expectedLen >= 12 /\ c.recvd >= 2 + c.expectedLen

\* The client always finishes, even when the server never answers: its
\* callback runs or the owner drops it (the timer is what guarantees it).
ClientFinishes == c.obj = "alive" ~> c.obj = "freed"

\* Every handle of a finished client is eventually freed (no leaked
\* uv_tcp_t / uv_timer_t).
HandlesReleased == c.obj = "freed" ~> (c.tcp = "freed" /\ c.timer = "freed")

\* No libuv callback reads a client that was already deleted.
NoUseAfterFree == ~c.uaf
====
