# TLA+ models of the vltrig-proxy DNS resolver

This directory is a model-checking project for the DNS resolution path of
vltrig-proxy (`src/base/net/dns`, plus the HTTP/2 client it fetches through).
The modules are written from the C++ source. Each modelled definition is listed
in `PROJECT.json` under `map`, with the source lines it translates.

## 1. The system

All of the resolver runs on the libuv default loop. Callbacks therefore never
overlap, but they can run in any order the network produces.

| Part | Source | State | Operations |
|------|--------|-------|------------|
| Registry | `Dns.cpp` | `m_backends` (one backend per host, sticky); `m_resolving` (recursion depth) | `Dns::resolve` picks `DnsPoolNsBackend` for non-IP, non-DoH hosts when `pool-ns` is on, else `DnsUvBackend` |
| PoolNs backend | `DnsPoolNsBackend.cpp/.h` | `m_state` with the values IDLE, NS_LOOKUP, NS_RESOLVE, POOL_QUERY, SIMPLE_DOH and FALLBACK; `m_queue` of listeners; `m_records`/`m_status`/`m_ts` (TTL cache); `m_nsServers`, `m_currentNsIndex`, `m_nsEntries`, `m_dohServerIndex`, `m_poolQueryDoH`; `m_addedToActiveSet`; one step timer; `m_tcpClient`; `m_poolDoHListener`; `m_fallback` with its listener. The static `s_activeBaseDomains` is process-wide | `resolve`, `onHttpData`, `onPoolDoHResponse`, `onTcpQueryComplete`, `onTimeout`, `FallbackListener::onResolved`, `notify`, plus the `start*`/`try*`/`fallbackTo*` chain |
| TCP client | `DnsTcpClient.cpp` | a uv TCP handle, a timer, a read buffer, `m_closed` | `start`, `onConnect`, `send`, `onRead`, `read`, `onTimer`, `done`, `close` |
| Wire codec | `DnsWireFormat.cpp` | none (pure) | `buildQuery`, `parseResponse`, `parseAddressRecords`, `encodeName`, `decodeName` |
| Domain utils | `DomainUtils.cpp` | none (pure) | `extractBaseDomain`, `isIpAddress` |
| Config | `DnsConfig.cpp/.h` | `ttl`, `pool-ns`, DoH servers, `pool-ns-timeout` | the constructor from the "dns" JSON object (`ip_version` filter, `ttl` floored at 1 s), `ttl()` (seconds × 1000 in uint32), `isDoHServer`, `ai_family` |
| HTTP/2 client | `http2/Http2Client.cpp` | a TLS and nghttp2 session for one request | `onStreamClose` calls the listener, then closes; the base class `HttpsClient` (not in the repository) closes on errors and on the request timeout |
| Web UI | `webui/WebUI.cpp` | none | serves static text |

**How the parts interact.** A caller's `Dns::resolve(host)` creates a
`DnsRequest` and passes it to the host's backend. The backend goes through
these steps:

1. It asks a well-known DoH server for the base domain's NS records (NS_LOOKUP).
2. It sends a DoH query to the first NS host (POOL_QUERY). That fetch goes
   through a `PoolDoHListener`, which is replaced at every pool query. The
   HTTP client resolves the NS host's name through `Dns::resolve` itself.
3. If that query fails, it resolves the NS host's IP over DoH (NS_RESOLVE) and
   queries the IP over TCP/53 (POOL_QUERY over TCP).
4. It moves on to the next NS host.
5. It then falls back to a plain DoH query for the host (SIMPLE_DOH).
6. Finally it falls back to the system resolver (FALLBACK).

A backend entering NS_LOOKUP takes the process-wide recursion slot: it
increments `Dns::m_resolving` and inserts its base domain into
`s_activeBaseDomains`. While any backend holds the slot, other resolutions go
straight to SIMPLE_DOH. `notify()` releases the slot, calls every queued
listener and clears the queue.

**What makes it hard.**
- The step timer and the HTTP client's own timeout are both set to
  `pool-ns-timeout`, so an answer can arrive after the backend has moved on.
  `onHttpData` does not match an answer to its query.
- The TCP client is not cancelled when the backend changes step.
- `onTcpQueryComplete` has no state check.
- The slot is released only by `notify()`.

## 2. Modules

### `DnsPoolNsBackend` (the backend, with the registry's counter)

**State.** The module's variables and what they stand for in the code:

| Variable | Code |
|----------|------|
| `bk[h]` | the backend for host `h`, as a record. The next table lists its fields. |
| `http` | a bag of DoH fetches in flight, each tagged with its listener (backend or pool listener), query type, name and server |
| `resolving` | `Dns::m_resolving` |
| `active` | `s_activeBaseDomains` |
| `reqHost` | the `DnsRequest`s created so far |
| `answers[r]` | every `onResolved` call that request `r` received |

The fields of `bk[h]` stand for these members:

| Field | Member |
|-------|--------|
| `state` | `m_state` |
| `dohServerIndex` | `m_dohServerIndex` |
| `nsServers` | `m_nsServers.size()`. The i-th NS name is `NsName(d, i)`. |
| `currentNsIndex` | `m_currentNsIndex` |
| `poolQueryDoH` | `m_poolQueryDoH` |
| `addedToActiveSet` | `m_addedToActiveSet` |
| `nsEntry` | whose IP `m_nsEntries.back()` is |
| `records` | whose address `m_records` holds |
| `status` | `m_status` |
| `age` | `now - m_ts` in ms, one of the values in the constant `Ages` |
| `timer` | whether the step timer is armed |
| `tcpClient` | the NS host whose IP the live `DnsTcpClient` targets |
| `fallbackPending` | whether the system resolver's answer is still due |
| `queue` | `m_queue` |
| `oob` | a ghost flag, set by any read of `m_nsServers[m_currentNsIndex]` with the index out of range |

**Helpers.** Each helper of the `.cpp` is an operator from a backend record to
a backend record: `Notify`, `StartNsLookup`, `TryNextNs`, `StartPoolQueryTcp`
and the others. The helpers that call one another in a cycle are declared
`RECURSIVE`. A helper reports its side effects in transient fields:
- `sent`: a fetch issued.
- `killPool`: `m_poolDoHListener` was replaced, so the old listener's
  `weak_ptr` expires and its answers are dropped.
- `dres`: `beginResolving` / `endResolving`.
- `delivered`: the listeners `notify()` called.

`Commit` applies these effects to the global variables.

**Actions.** Each action is a whole callback:

| Action | Callback |
|--------|----------|
| `Resolve` | `Dns::resolve` followed by `DnsPoolNsBackend::resolve` |
| `DeliverHttp(f, out)` | `Http2Client::onStreamClose` calling `onHttpData`, for fetch `f` with outcome `out` (the parameter lets a property name one outcome) |
| `DeliverPoolDoH` | `PoolDoHListener::onHttpData` calling `onPoolDoHResponse` |
| `Timeout` | `onTimer` / `onTimeout` |
| `TcpDone` | `DnsTcpClient::done` calling `onTcpQueryComplete` |
| `SystemResolved` | `FallbackListener::onResolved` |
| `Tick` | time passing: `now - m_ts` grows (only while `m_records` holds something, since every write of `m_records` also sets `m_ts`) |

An HTTP answer is one of three outcomes:
- `ok`: a 200 carrying records.
- `empty`: a 200 without records.
- `error`: a non-200 or transport failure.

A 200 parses at the current step only if it answers a query of the type that
step parses. That is what the codec checks: it looks at record types and never
at the query ID or name.

**The TTL cache.**
- `CacheHit` is the check in `resolve()`, `now - m_ts <= config.ttl() && !m_records.isEmpty()`.
- `ttl()` is `m_ttl * 1000U` in a `uint32_t`. TLC's integers are 32-bit signed,
  so `TtlMsDiv8` keeps `ttl() / 8`: since 1000 = 8 × 125, it computes
  `m_ttl * 125` modulo 2^29. `WithinTtl` compares an age against that.
- The constants are `Ttl` (`m_ttl`, in seconds) and `Ages`. The safety run
  uses 0, exactly `ttl()`, and one millisecond past it.

**Abstractions.**
- Addresses are the names they belong to, so a stale answer is visible.
- The two DoH servers are one value, because no handler reads which one
  answered; only `m_dohServerIndex` counts rotations.
- `Encodable` (`buildQuery` succeeds) is a constant, TRUE in the MC module.
  Long labels are a codec question.
- The IP-literal branch of `resolve()` is not modelled, because the registry
  never sends an IP to this backend.

### `DnsResolver` (what the resolver promises) and the refinement

`DnsResolver` is the resolver as a caller sees it. It has no NS lookup, DoH,
TCP/53 or system resolver. Its variables are:
- `reqHost`;
- `answers`;
- `cache[h]`: the fresh successful result of `h`, if there is one.

Its actions are:

| Action | What it does |
|--------|--------------|
| `Request(r, h)` | `r` asks for `h`. A cached result answers it in the same call. |
| `Complete(h, res)` | Every request of `h` that is waiting gets `res`. A success becomes the cached result. |
| `Expire(h)` | The cached result of `h` is dropped. |

Weak fairness on answering a host with waiting requests gives the liveness.
The constant `Results` holds a success that carries records, and a failure
that carries none.

`DnsPoolNsBackend` instantiates it as `Resolver`:
- `reqHost` and `answers` map by name.
- `cache[h]` is `CachedResult(bk[h])`: the backend's `[records, status]` while
  `m_records` holds something and `now - m_ts <= m_ttl * 1000`, computed
  without the 32-bit wrap, as spec 3 defines `ttl_ms`.

The map is simple, but it leaves three things for TLC to establish:
- `m_queue` is always exactly the set of waiting requests of its host;
- `notify()` runs only when the cache mapping changes the way `Complete`
  allows;
- a cache hit never happens while a cycle is in flight. Otherwise the early
  `notify()` would answer the queued listeners with old records.

### `DnsTcpClient` (the TCP/53 client and its libuv handles)

One variable `c`, a record of type `Client` (the members declared in
`DnsTcpClient.h`), holds:
- the object (`alive` or `freed`);
- each uv handle's lifecycle: `tcp` and `timer` go open, then closing (after
  `uv_close`), then freed (after the close callback);
- the pending `uv_connect_t`;
- `m_closed`, `m_callback`, `m_recvBuf.size()` and `m_expectedLen`;
- the results the owner received;
- a ghost `uaf` flag.

`Close`, `Destroy` (the destructor), `Done`, `Send`, `Read`, `OnConnect`,
`OnRead` and `OnTimer` are operators on the record. They keep the order of the
code: `done()` stops the timer, closes both handles and then runs the
callback.

The owner's callback is `Callback`. It models `onTcpQueryComplete`, which
always runs `m_tcpClient.reset()`, so the client is deleted inside its own
callback.

The actions are the libuv events:

| Action | Event |
|--------|-------|
| `ConnectDone` | the connect completes, with a success or an error |
| `ReadData` | any number of bytes arrive, or a read error or EOF |
| `TimerFires` | the client's timer fires |
| `TcpClosed` | `uv__finish_close` for the TCP handle. It first completes a still-pending connect with `UV_ECANCELED`, as libuv's `uv__stream_destroy` does. |
| `TimerClosed` | the timer handle's close completes |
| `OwnerReset` | the backend drops a live client: `resolve()`, or `startPoolQueryTcp` replacing it |

Fairness covers the loop-local events only: timers and close completion. The
network and the owner are not obliged to act.

### `DomainUtils` (the base domain of a host)

`ExtractBaseDomain(labels, isIp)` is `extractBaseDomain`
(`DomainUtils.cpp:29-45`) over the host's labels. It returns the host
unchanged when it is empty, an IP literal, or has at most two labels, and
otherwise its last two labels. Whether a host is an IP literal is an input:
`isIpAddress` is the C library's `inet_pton`.

### `DnsConfig` (the resolver's options)

The options are operators, because the configuration never changes once it
is built:

| Operator | Code |
|----------|------|
| `Defaults` | the member initializers: `ttl` 30, `ip_version` 0, `pool-ns` on, timeout 1000 ms, the two DoH servers |
| `Get` | `Json::getUint`, `getBool` and `getString`. These are not in the repository; each returns its default when the key is missing or has the wrong type |
| `ParseDnsConfig` | the constructor: an `ip_version` other than 0, 4 or 6 keeps the default, `ttl` is floored at 1 s, and the rest is taken as given |
| `IsDoHServer` | `isDoHServer` |
| `UsesPoolNs` | the registry's choice in `Dns::resolve` of a `DnsPoolNsBackend` |

A "dns" object is a function whose domain is the keys present with the right
type. `ai_family` is in `DnsWireFormat`, as the family filter of
`parseAddressRecords`.

### `MCDnsPoolNsBackend`

This module gives the constants their values for TLC:
- the hosts h1, h2 and base domains d1, d2 are model values;
- `HostLabels` gives h1 the labels of `xmr.pool.example.com` and h2 those of
  `pool.other.net`; `DomainLabels` gives d1 `example.com` and d2 `other.net`;
- `MCBaseOf(h)`, the value of `BaseOf`, is the domain whose labels
  `ExtractBaseDomain` returns for the host's labels, so `m_baseDomain` is
  computed as `resolve()` computes it, not written down;
- `Encodable` is TRUE;
- `Ttl` is `MCTtl`: the `m_ttl` of `MCConfig`, which is `ParseDnsConfig` of
  the "dns" object `{"ttl": 30}`;
- an `ASSUME` checks that each host is one that `Dns::resolve` gives a
  `DnsPoolNsBackend` under that configuration;
- `InFlightBound` bounds the fetches in flight (two-host run only).

### `DnsWireFormat` (the DNS message codec)

The codec has no state, so each function is an operator over a byte
sequence: a message is a sequence of 0..255, and the code's 0-based offset
`o` is element `o + 1`.
- Each loop of the code is a RECURSIVE operator whose arguments are the loop's
  variables:
  - `DecodeLoop` is the `while` of `decodeName`;
  - `SkipQuestions` is the question loop;
  - `ResponseAnswers` and `AddressAnswers` are the two answer loops.
- Every read also returns `oob`, which says whether it lay past `len`. The
  byte itself is taken as 0, since it is undefined.
- A name is the sequence of its labels. The 255-byte buffer that `decodeName`
  joins the labels into never fills on these short messages.
- `parseResponse` fails the whole parse on a malformed answer.
  `parseAddressRecords` `break`s and keeps what it has. The model keeps that
  difference.

### `MCDnsWireFormat` and `MCDnsWireFormatAdversarial`

These modules check the codec against a reference written from the wire
format (spec 4.1), not computed by the code. The variable ranges over a set
of inputs.
- **Well-formed responses.** `MCDnsWireFormat` builds them the way a server
  answers `BuildQuery`:
  - questions "a" and "a.b", of type A, NS or AAAA;
  - up to two answers of six kinds:
    - an A record with a pointer owner;
    - an A record with a literal owner;
    - an A record with 2-byte rdata;
    - an NS record with a literal name;
    - an NS record pointing back at the question;
    - an AAAA record.
- **Hostile messages.** `MCDnsWireFormatAdversarial` builds 480 of them:
  - QDCOUNT 0 or 1, and ANCOUNT 1 or 2;
  - then one of eight name encodings: root, "a", "ab", unterminated, a self
    pointer, a two-pointer loop, a cut pointer, or a pointer past the end;
  - then an A record cut at every length from 0 to 14 bytes.

  The reference `SpecName` decodes a name as spec 4.1 states it.

### `Http2Client` (one DoH fetch over HTTP/2)

The module models one fetch, as `Http2Client.cpp` drives it. Its one variable
`c` holds:
- the phase of the handshake;
- `m_streamId`;
- `m_responseStatus`;
- `m_responseBody` (`resp`), as the sequence of our stream's DATA payloads;
- `HttpData::body` (`body`), which holds the request (`Query`) until
  `onStreamClose` moves the response into it;
- whether the fetch is closed;
- what each `onHttpData` call saw, a status and a body, in order.

The server's side is `ReadFrames`:
- each `read()` call drains 1 to `MaxRecords` TLS records;
- a record is a HEADERS frame, a DATA frame carrying one of `Chunks`, a
  stream close (normal or with an error code), a malformed frame, or
  close_notify;
- a frame belongs to our stream or to a stream the server pushed;
- the server's own state (`sent`, `sentData`, `ended`) keeps the frames of
  our stream in protocol order: one HEADERS, at most `MaxData` DATA frames,
  then the close. Pushed streams' frames come in any order;
- each record carries whether the `sendPendingData()` after it succeeds.

| Action or operator | Code |
|--------------------|------|
| `Handshake` | `handshake()`, including a failed `SSL_new` that arms nothing |
| `ReadHandshake`, `HandshakeDone`, `SubmitRequest` | `read()` before `SSL_is_init_finished`: `WANT_READ`, the certificate and ALPN checks, then `submitRequest` (stream 1, or a negative error) and `sendPendingData` |
| `ReadFrames`, `Drain` | `read()`'s `SSL_read` loop: `mem_recv` errors close and return, and `rc == 0` closes with `UV_EOF` |
| `OnHeader`, `OnDataChunkRecv`, `OnStreamClose` | the nghttp2 callbacks, with their `m_streamId` checks; `OnStreamClose` moves the body, calls the listener, then `close(0)` |
| `SendPendingData` | `close(UV_EPROTO)` when `nghttp2_session_mem_send` fails |
| `Close`, `Abort` | `HttpsClient::close` and the request timeout, modelled from spec 4.4 |

Spec 4.4 says the transport delivers `(status, body)` exactly once per
request. Two properties check it:
- `AtMostOnceDelivery` is the "at most once" half;
- `ResponseFromOwnStream` checks that a normal answer is our stream's
  `:status` and DATA, in order, whatever pushed streams interleave.

The request body (`onDataSourceRead`) is left out. nghttp2 pulls the DNS
query whole within the first 65535-byte window, and no check depends on its
bytes.

The "at least once" half is not checked. A fetch can stall in ways that
only the request timeout ends:
- a failed `SSL_new`, after which `handshake()` returns with nothing armed;
- an `SSL_connect` error other than `WANT_READ`, after which `read()` just
  returns;
- a server that stops sending.

That timeout belongs to `HttpsClient`, which is not in the repository. With
the timeout assumed fair, "every fetch is answered" would hold by that
assumption alone, so it says nothing about this code.

## 3. Runs

`CHECK_DEADLOCK FALSE` is set in every cfg. An idle resolver with every
request answered is a correct final state, because nothing obliges a caller to
resolve again.

| Run | cfg | Bounds | Checks | Result |
|-----|-----|--------|--------|--------|
| backend_safety | `MCDnsPoolNsBackend.cfg` | 1 host, 1 NS, 2 requests, `m_ttl` 30 s, ages 0 / 30000 / 30001 ms | `TypeOK`, `RefinesResolverSafety`, `GuardAccounting` | pass |
| backend_two_hosts | `MCDnsPoolNsBackendTwoHosts.cfg` | 2 hosts on different base domains, 1 NS, 2 requests, ages 0 / 30001 ms, at most 2 fetches in flight | `RefinesResolverSafety`, `GuardAccounting` | pass |
| backend_liveness | `MCDnsPoolNsBackendLive.cfg` | 1 host, 2 NS, 1 request | `RefinesResolver`, `ActiveSlotReleased` | pass |
| stale_records | `MCDnsPoolNsBackendStale.cfg` | 1 host, 2 NS, 1 request | `RecordsAreForHost` | violation |
| ns_selection | `MCDnsPoolNsBackendNsSelection.cfg` | 1 host, 2 NS, 1 request | `NsSelectionConsistent` | violation |
| fallback_path | `MCDnsPoolNsBackendFallbackPath.cfg` | 1 host, 2 NS, 1 request | `SystemFallbackAsSpecified` | violation |
| tcp_client | `DnsTcpClient.cfg` | length prefix 3 or 12, any split of the reply | `TypeOK`, `SuccessOnlyOnWholeFrame`, `ClientFinishes`, `HandlesReleased` | pass |
| tcp_client_uaf | `DnsTcpClientUaf.cfg` | same | `NoUseAfterFree` | violation |
| codec_roundtrip | `MCDnsWireFormat.cfg` | 258 responses | `ParseResponseRoundTrip`, `AddressRecordsRoundTrip` | pass |
| codec_malformed | `MCDnsWireFormatMalformed.cfg` | 480 hostile messages | `MalformedMessagesRejected` | violation |
| h2_fetch | `Http2ClientFetch.cfg` | statuses 200 / 503, DATA payloads x / y, at most 2 DATA frames on our stream, at most 2 records per `read()` | `ResponseFromOwnStream` | pass |
| h2_double_delivery | `Http2Client.cfg` | statuses 200 / 503, one DATA payload, at most 2 records per `read()` | `AtMostOnceDelivery` | violation |

**The passing runs.** Every fetch may be answered late: after the step timer
has fired, and after any number of later steps.

- **backend_safety.** Two requests let a second `resolve()` do each of these
  while answers of an earlier cycle are still in flight:
  - join a cycle that is in flight;
  - hit the TTL cache;
  - start a new cycle.

  The run shows two things:
  - `RefinesResolverSafety`: every step is a step of `DnsResolver`, which
    gives the following:
    - no listener is called twice;
    - the listeners waiting together get one result from one `notify()`;
    - a request at exactly `ttl()` after a success is served from the cache,
      and one millisecond later it is not;
    - a success always carries records;
  - `m_resolving` and `s_activeBaseDomains` stay equal to the set of backends
    holding the slot, and at most one backend holds it.
- **backend_two_hosts.** Two backends, one per host, share `Dns::m_resolving`
  and `s_activeBaseDomains`. Every interleaving of their callbacks keeps
  the counter and the set equal to the backends holding a slot, at most one
  backend holds it, and each host's listeners get one result. With one host
  the guard only ever sees itself; here the second host's `resolve()` meets
  the first host's slot, and the guard (`DnsPoolNsBackend.cpp:115`) must
  send it to SIMPLE_DOH. Dropping the `m_resolving` half of the guard is
  caught (`OnResolveNoDepthCheck`), because the base domains differ.
- **backend_liveness.** With two NS servers, every path is reachable: rotating
  the DoH server, TCP to a resolved IP, moving to the next NS, SIMPLE_DOH and
  the system resolver. `RefinesResolver` adds `DnsResolver`'s
  liveness to the refinement: every request is answered. The run also shows
  that every slot is released.

**The violations.** Each one is a finding in `PROJECT.json`:

- **stale_records.** The NS_RESOLVE answer for `ns0` arrives after the timer
  has moved the backend to SIMPLE_DOH, and it is accepted as the pool host's
  address.
- **ns_selection.** `NsSelectionConsistent` says two things: the NS index
  stays inside `m_nsServers`, and a TCP pool query goes to the IP of the NS
  the backend is on. Both fail. TLC shows the shorter trace: an NS_RESOLVE
  error for `ns1` calls `startPoolQueryTcp`, which uses
  `m_nsEntries.back()`, the IP of `ns0`. The other trace was confirmed
  with the first conjunct alone: a TCP success arrives after `tryNextNs`
  has passed the last NS, and `onPoolQueryComplete` reads
  `m_nsServers[size]`.
- **fallback_path.** `SystemFallbackAsSpecified` states spec 4.5's path to
  the system resolver: it is entered only from IDLE, NS_LOOKUP or
  SIMPLE_DOH, from SIMPLE_DOH only after both DoH servers, from NS_LOOKUP
  never on an empty 200, and it is left only when the system resolver
  answers. Each conjunct is broken by the code, and each was confirmed on
  its own:
  - TLC shows this trace: an empty 200 at NS_LOOKUP, after the step timer
    moved to the second DoH server, calls `fallbackToSystem`
    (`DnsPoolNsBackend.cpp:162`); the spec says fall back to simple DoH.
  - A SIMPLE_DOH timeout at server index 0 goes to the system resolver
    (`:560`) without trying the second server.
  - A stale NS_LOOKUP error during the TCP pool query moves the backend to
    FALLBACK from POOL_QUERY.
  - The TCP client then fails, and `tryNextNs` moves the backend out of
    FALLBACK to SIMPLE_DOH while the system query is still pending.

- **tcp_client.** With any split of the reply, read errors, timer expiry and
  early drops by the owner, the client reports success only for a whole
  frame. It always finishes, and both uv handles are freed.
- **tcp_client_uaf.** This is a use-after-free in three steps:
  1. The timer fires before the connect completes.
  2. `done()` closes the handles and runs the callback, and the owner deletes
     the client.
  3. libuv completes the pending connect with `UV_ECANCELED`, and
     `onConnect` reads `client->m_closed` from freed memory
     (`DnsTcpClient.cpp:64`).

- **codec_roundtrip.** Both parsers return exactly the records of the asked
  type, or of the allowed family, in answer order. They follow compression
  pointers in owner names and in NS rdata, skip 2-byte A rdata, and read
  nothing past the message.
- **h2_fetch.** A normal answer carries exactly our stream's
  `:status` and DATA, gathered over any number of `read()` calls with pushed
  frames interleaved. The client's SETTINGS do not disable push, so only the
  `stream_id` checks of `onHeader` and `onDataChunkRecv` keep pushed frames
  out. The run has 118 distinct states; three records per `read()` reach the
  same states.
- **codec_malformed.** `MalformedMessagesRejected` joins the codec's two
  rejection laws:
  - `NameDecodeRejectsMalformed`: a name decodes only when well formed;
  - `TruncatedAnswersRejected`: an answer section parses only when whole,
    and without a read past `len`.

  TLC shows the shortest counterexample, an unterminated name. Each
  conjunct on its own was checked to fail too. Three defects break it:
  - `decodeName` leaves its loop when `pos` reaches `len` or when the jump
    budget runs out, and then returns `true` in both cases. So an
    unterminated name is accepted, with the caller's offset past `len`. A
    self-pointer is accepted too, as an empty name (`DnsWireFormat.cpp:278`).
  - The answer loops check `offset + 10 <= len` before they decode the owner name.
    They then read type and rdlength after the name without checking again.
    With a root owner and 9 bytes left, rdlength is read one byte past the
    buffer (`DnsWireFormat.cpp:190` and `:112`).
  - With ANCOUNT 2 and one whole A record, the second answer is missing, yet
    `parseAddressRecords` `break`s and returns the first record as a
    success (`:181`).
- **h2_double_delivery.** This is a double delivery in four steps:
  1. The handshake completes.
  2. One `read()` drains two records.
  3. After the first record, `nghttp2_session_mem_send` fails, so
     `sendPendingData` calls `close(UV_EPROTO)`, which reports -71 to the
     listener.
  4. The loop keeps reading. The second record ends our stream normally, so
     `onStreamClose` calls `onHttpData` again, with status 0
     (`Http2Client.cpp:105`, `:265`).

  The result assumes that `HttpsClient::close` leaves the listener attached.
  That class is not in the repository, and spec 4.4 does not say it detaches
  the listener.

**Bounds.**
- One NS server is enough for the guard, the cache and the rejoin questions.
- Two NS servers are needed for the `tryNextNs`, `m_nsEntries.back()` and
  index-overrun questions.
- For the TCP client, one length prefix below 12 and one of exactly 12 cover
  the three outcomes of `read()`: the length check fails, the frame is still
  incomplete, or the frame is complete. Every chunk size is enumerated.
- Two requests with two NS servers exceed 6M states.
- Two hosts: without a bound the run passes 4.4M states. `InFlightBound`
  (at most two DoH fetches in flight, over both hosts) keeps it at 485k
  states in under a minute; with a bound of 3 it takes 7.5 minutes. Two in
  flight is enough for one host's stale answer to arrive while the other
  host is mid-cycle, which is the interleaving the guard is about. The
  single-host runs keep no bound.
- `Http2Client`: two records per `read()` let a close inside the loop be
  followed by another frame. Two statuses and two DATA payloads tell a
  pushed stream's frames from ours. Two DATA frames make a body span two
  `read()` calls, or two frames of one call.
- The codec inputs put the end of the message at every field boundary after
  a name, and they include every kind of name the decoder branches on: a label,
  a pointer, the terminator, and each failure.

**Mutants.** Each checked property has a mutant of the code that breaks it:

| Mutant | Bug it models | Property it breaks |
|--------|---------------|--------------------|
| `NotifyKeepsQueue` | `m_queue.clear()` forgotten | `RefinesResolverSafety` |
| `CacheHitStrict` | the TTL check written `<` instead of `<=` | `RefinesResolverSafety` |
| `OnSystemResolvedDropsStatus` | the system resolver's status not copied | `RefinesResolver` |
| `NotifyKeepsQueue` (two hosts) | `m_queue.clear()` forgotten | `RefinesResolverSafety` |
| `OnResolveNoDepthCheck` | the `Dns::isResolving()` check dropped | `GuardAccounting` (two hosts) |
| `NotifyNoEndResolving` | `Dns::endResolving` forgotten | `GuardAccounting` |
| `NotifyKeepsSlot` | the whole release block forgotten | `ActiveSlotReleased` |
| `OnPoolDoHResponseNoRetry` | a failed pool DoH answer is not retried | `RefinesResolver` |
| `OnHttpErrorNoBound` | the `< 2` rotation bound dropped | `TypeOK` |
| `ReadSwapped` | the length prefix read little-endian | `TypeOK` |
| `ReadEarly` | the frame taken as complete one byte early | `SuccessOnlyOnWholeFrame` |
| `OnTimerNoDone` | the timer callback does not call `done` | `ClientFinishes` |
| `CloseLeaksTimer` | `close()` forgets the timer | `HandlesReleased` |
| `DecodeLoopPtrOffset` | after a pointer the caller resumes at `pos + 1`, not `pos + 2` | `ParseResponseRoundTrip` |
| `AcceptsAnyFamily` | `ai_family` ignored | `AddressRecordsRoundTrip` |
| `OnDataChunkRecvAnyStream` | the `stream_id` check of `onDataChunkRecv` dropped | `ResponseFromOwnStream` |

## 4. Fairness

libuv runs every ready callback. The model therefore assumes the following:

- **Weak fairness on "the HTTP client answers some fetch in flight".** The
  HTTP client's own timeout guarantees each fetch an answer. Answering *some*
  fetch is weaker than answering each one.
- **Weak fairness, per host, on the step timer, the TCP completion and the
  system resolver.** The TCP client has its own timer, and `DnsUvBackend`
  always calls back.

Nothing obliges callers to call `resolve()`, or the clock to expire the
cache.

`Http2Client`'s `Spec` has weak fairness on `Abort` only. Spec 4.4 gives
every request a timeout of `pool_ns_timeout_ms`, and that timeout closes any
fetch still open. No run checks a liveness property of this module. The
only one available would rest on that assumed timeout.

## 5. Not modelled yet, and the plan

- **TTL wrap.** The model computes `ttl()` modulo 2^32, and
  `backend_safety` runs the default `m_ttl = 30`.
  - With `m_ttl = 4294968` (about 49.7 days), `ttl()` wraps to 704 ms.
  - With that value and ages {0, 704, 705}, `RefinesResolverSafety` fails:
    a 705 ms old success starts a new network cycle, against spec 8.2.
  - That configuration is a hazard in `PROJECT.json`, not a run.
- **Nested resolution.** The HTTP client resolves a DoH server's name
  through `Dns::resolve`, which would nest a second backend inside the
  first (spec scenario S6). That resolution happens in `HttpsClient`, which
  is not in `src/`. The model has two independent hosts instead, sharing
  `m_resolving`.
- **Hosts of the system backend.** `Dns::resolve` sends IP literals and the
  DoH servers to `DnsUvBackend` (`UsesPoolNs` in `DnsConfig`). The MC
  module's `ASSUME` checks that each model host is a pool host. The other
  hosts are not modelled, because `DnsUvBackend` is not in `src/`.
- **Listener re-entrancy.** A listener could call `resolve()` from
  `onResolved` during `notify()` (`DnsPoolNsBackend.cpp:533`). That would
  have three effects:
  - `emplace_back` on the deque under the range-for is undefined behaviour;
  - a cache hit would run a nested `notify()` that calls the earlier
    listeners again;
  - otherwise the outer `m_queue.clear()` would drop the new request.

  No listener in `src/` re-enters, so the model's `notify()` is one atomic
  step.
- **`DnsConfig::toJSON`.** It only writes the options back out.
- **Out of scope.**
  - Inside the HTTP/2 client: TLS record and HPACK contents, the request
    body (`onDataSourceRead`), and the base class
    `HttpsClient`. That class is not in the repository; only its
    `close()` and timeout are modelled, from spec 4.4.
  - The system resolver `DnsUvBackend`, which is not in the repository's
    `src/`. Only its "answers once" contract is modelled, as
    `SystemResolved`.
  - The web UI, which is static text.
