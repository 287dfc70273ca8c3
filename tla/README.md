# Formal models of the protocol probe tools

This directory holds TLA+ models of the Python tools under `src/`, the TLC
configurations that model-check them, and TLAPS proofs. `PROJECT.json` lists
the components, the runs, the mutants that show each property can fail, the
map from every modelled definition to the source lines it translates, the
hazards of the code and the theorems.

## The system

`spec.md` describes five parts. The code has them as follows.

| Part | Code | State | Operations |
|---|---|---|---|
| ConnectionLog | `multiport_analyzer.py` 14-33, 103-125, 167-182 | `connection_log`, `lock` | `log_connection` (append under the lock), `dump_stats` (every 30 s, under the lock: header, group by `protocol:port`, table), save loop on Ctrl+C (under the lock) |
| ListenerFleet | `multiport_analyzer.py` 35-101, 127-165; `dns_test_server.py` | one thread per listener, one per TCP connection | bind, accept, `handle_tcp` (recv with 5 s timeout, RECEIVED, echo, SENT_ECHO / TIMEOUT / ERROR, close), `udp_listener` loop; the DNS responders of `dns_test_server.py` |
| PacketCodec | `protocol_tester_client.py` 64-108, `dns_test_server.py` 73-98, 118-137 | none | DNS query, DNS response, SSH banner, TLS ClientHello |
| ProbeRunner | `protocol_tester_client.py` 13-62, 110-168; `test_dns_blocking.py` 12-194 | the result list | `test_protocol` per probe, run sequentially |
| Classifier | `protocol_tester_client.py` 170-200; `test_dns_blocking.py` 226-248 | none | if/elif diagnosis chains |
| Tunnel harness | `test_dns_tunnel.py` | child processes | key generation, config files, start/stop of an external binary |

How they interact. In `multiport_analyzer.py` the main thread starts one
listener thread per `(port, name, proto)` of `ports`, then the statistics
thread, then sleeps until Ctrl+C. Every TCP accept starts a handler thread.
Handler threads, UDP loops, the statistics thread and the main thread's save
loop all share `connection_log` under one `threading.Lock`. All threads but
the main one are daemons: they die when the main thread ends. The client side
(`protocol_tester_client.py`, `test_dns_blocking.py`) is sequential and talks
to the servers only through sockets.

What makes it hard: handlers of different connections, the UDP loops, the
statistics scan and the save loop interleave on one log; a peer can send,
half-close, reset or stay silent at any time; `sendall`/`sendto`/`f.write`
can fail part-way through a handler or the save loop; Ctrl+C can arrive at
any point, including before the `try` block.

## Modules

- `ConnectionLog.tla` — the abstract specification of what the log promises
  (spec 4.2): an append-only sequence; `Report` prints the statistics
  (`Stats`, grouped by the structured key `(transport, name, port)`, with
  count, byte sum and client set) of the whole log at one instant; on exit the
  file holds the whole log (`Export`) or, when opening or writing fails, a
  prefix of it or nothing (`Abort`); nothing is logged after exit.
- `MultiportAnalyzer.tla` — the threads of `multiport_analyzer.py`.
  Variables: `log` (`connection_log`), `lock` (free, or held by the statistics
  or the main thread), `mainPc`/`nStarted`/`file`/`saveIdx` (main thread),
  `lstState` (each listener: init, listening, failed), per TCP connection the
  remote `peer` (open, eof, rst; bytes sent) and the handler's `tcpPc`,
  `tcpData`, per UDP listener `udpPc`, `udpCur`, `udpCount`, and the
  statistics thread's `statsPc`, `statsTotal` (the header), `statsIdx`.
  `log_connection` is one atomic step (`LogConnection`, enabled only while the
  lock is free: the other holders never release it in the middle of their own
  critical section). The statistics scan and the save loop are entry by entry
  (`StatsBegin`/`StatsScan`/`StatsPrint`, `Interrupt`/`SaveLine`/`SaveDone`),
  so that what the lock excludes is visible. `handle_tcp` is `HandleRecv`
  (recv and the first log call: data, EOF, reset or timeout) and `HandleSend`
  (sendall, SENT_ECHO or ERROR, close). A payload is its length; an entry
  keeps port, transport, name, client, length and status, not the timestamp or
  the hex. `CL == INSTANCE ConnectionLog` maps the file to `NoFile` until the
  process has exited.
- `MCMultiportAnalyzer.tla` — the instance: a TCP and a UDP listener for DNS
  on port 53 (the first two entries of `ports`), two client addresses as model
  values with symmetry, one payload size.
- `MultiportAnalyzerProofs.tla` — the TLAPS proofs of typing and refinement.
- `MultiportAnalyzerEventsProofs.tla` — the TLAPS proof of the
  per-connection event contract `ConnEventProtocol`.
- `DnsTcpProbe.tla` — one DNS-over-TCP probe of `run_tests`
  (`protocol_tester_client.py`, `test_protocol` with `proto='tcp'`) against
  `dns_tcp_server`/`handle_dns_tcp` of `dns_test_server.py`, through a
  censoring middlebox. `net` holds the two byte streams (client to server
  `c2s`, server to client `s2c`), each with the bytes still on the `wire`,
  FIN/RST sent, the receiving socket's buffer `buf`, FIN/RST arrived
  (`eof`, `reset`) and the count of bytes arrived. The client is `cPc`
  (`ClientConnect`: accepted, REFUSED when the bind failed, TIMEOUT when
  black-holed; `ClientSend`: `sendall`; `ClientRecv`: `recv(4096)` giving
  SUCCESS for bytes or `b''`, NO_RESPONSE on the timeout, ERROR on a reset,
  then `close`), with `status` and `recvBytes` the result fields. The handler
  is `sPc` (`SrvRecvLen`: `recv(2)` and the length check; `SrvRecvQuery`: the
  single `recv(query_length)`; `SrvRespond`: the response built from the bytes
  read, `sendall` with its length prefix, `close` in `finally`), with `qlen`,
  `query` and `sent`. `recv(n)` returns up to `n` of the bytes that have
  arrived, `b''` at end of stream, and raises on a reset; `close` with unread
  bytes sends an RST (Linux), delivered after the bytes already on the
  wire. The network (`Deliver`, `DeliverFin`,
  `DeliverRst`) moves bytes in segments that end at the offsets `Cuts`; the
  middlebox may `Blackhole` the flow or `InjectReset` both ways. Bytes are
  numbers, and the codec comes from `DnsCodec`.
- `DnsCodec.tla` — the bytes both DNS responders build: the slicing by
  position (`Take`, `Drop` for `s[:n]`, `s[n:]`), `struct.pack`/`unpack`
  (`Pack16`, `Unpack16`), the TCP length prefix (`Frame`) and the response
  (`BuildResponse`), as operators on byte sequences. The spec's response
  (`SpecResponse`) is written separately, field by field from spec 6.
- `DnsUdpServer.tla` — `dns_udp_server` of `dns_test_server.py` and the
  clients of `test_protocol`'s UDP branch. `toSrv`/`toCli` are the datagrams
  in flight (any one may arrive next; `LoseToSrv`, `LoseToCli` and up to
  `MaxDup` `Duplicate` steps model an unreliable network). The server loop is
  `SrvRecv` (`recvfrom(512)`: the sender's address and the first 512 bytes)
  and `SrvRespond` (the response, `sendto` to that address or a failure that
  the `except` prints). A client is `CliSend` (`sendto` of one of `Queries`),
  `CliRecv` (the first datagram that reaches its socket: SUCCESS) and
  `CliTimeout` (NO_RESPONSE; a later reply is dropped with the socket).
- `MCDnsUdpServer.tla` — the UDP datagrams of `run_tests`: the google.com
  query under two transaction ids (`make_dns_query` draws the id at random),
  and 64 random bytes.
- `ProbeRunner.tla` — `run_tests`: the ten probes of the `tests` list in
  order, each `test_protocol` call as `ProbeSend` (connect and `sendall`, or
  `sendto`; REFUSED, TIMEOUT or ERROR at once when the path refuses,
  black-holes or is unreachable) and `ProbeRecv` (data or `b''` SUCCESS,
  timeout NO_RESPONSE, reset ERROR), then `PrintSummary`, `PrintAnalysis`
  (the three chains `DnsLine`, `SshLine`, `HttpsLine`, reading `tests` by
  index as the code does) and `SaveResults` (the file gets every result, or
  an uncaught exception leaves a prefix). What the network does to a probe
  is chosen from `TcpPaths`/`UdpPaths` when it starts. `SpecDiagnosis` is
  spec 4.5's ordered rules, written from the spec and reading the probes by
  label, against which the chains are checked.
- `DnsBlocking.tla` — `test_dns_blocking.py`: the five test functions in
  `__main__`'s order, each as `TestSend` (a failing connect, `sendall` or
  `sendto` returns False) and `TestRecv` (data, `b''` or a timeout caught
  inside: True; a reset: False), `results` the returned booleans, `replied`
  whether bytes came back, and `Analysis` the if/elif chain.
- `MCDnsTcpProbe.tla` — the payloads `run_tests` sends to port 53 over TCP:
  the framed `make_dns_query()` query for google.com (28 bytes, id `AABB`),
  and 64 random bytes, twice, with first bytes that announce fewer (16)
  and more (40001) bytes than follow.
- `DnsTcpProbeProofs.tla` — the TLAPS proofs about `DnsTcpProbe`.
- `DnsCodecProofs.tla` — lemmas on the codec operators (`Take`, `Drop`,
  `Pack16`, `Unpack16`, `Frame`, `BuildResponse`), shared by the two proof
  modules of the DNS responders.
- `DnsUdpServerProofs.tla` — the TLAPS proofs about `DnsUdpServer`.
- `ProbeRunnerProofs.tla` — the TLAPS proofs about `ProbeRunner`.

## Runs

| Run | Config | Checks | Shows |
|---|---|---|---|
| `mp_safety` | `MCMultiportAnalyzer.cfg` | `TypeOK`, `ConnEventProtocol`, `Refinement` | every interleaving keeps each connection's events a legal `handle_tcp` trace (RECEIVED n then SENT_ECHO of `6+len(name)+n`, or TIMEOUT/ERROR; empty RECEIVED never echoed) and implements `ConnectionLog` |
| `mp_liveness` | `MCMultiportAnalyzerLive.cfg` | `HandlersFinish` | every accepted connection is eventually closed by its handler |
| `mp_udp_errors` | `MCMultiportAnalyzerUdp.cfg` | `UdpFailuresLogged` (violation expected) | a failed UDP `sendto` leaves no ERROR event, against spec 4.3 and 7 |
| `dp_probe` | `MCDnsTcpProbe.cfg` | `ResponseMatchesSpec`, `ProbeTerminates` | under every segmentation, black-holing and reset, what the handler sends for a query of at least 12 bytes is the framed spec 6 response to that query, and every probe ends with a result |
| `dp_framing` | `MCDnsTcpProbeFramingRoundTrip.cfg` | `FramingRoundTrip` (violation expected) | a query arriving in two segments is answered from its first 10 bytes |
| `dp_empty_success` | `MCDnsTcpProbeSuccessMeansReply.cfg` | `SuccessMeansReply` (violation expected) | a connection closed without data is recorded as SUCCESS with 0 bytes |
| `dp_handler_leak` | `MCDnsTcpProbeHandlerEnds.cfg` | `HandlerEnds` (violation expected) | a black-holed flow leaves `handle_dns_tcp` blocked in `recv` for ever |
| `dp_short_query` | `MCDnsTcpProbeShortQuery.cfg` | `ShortQueryUnanswered` (violation expected) | a query shorter than the DNS header is still answered |
| `du_isolation` | `MCDnsUdpServer.cfg` | `ReplyMatchesQuery` | with three clients and a lossy, duplicating, reordering network, every client that records SUCCESS got the spec's response to its own query |
| `pr_run` | `MCProbeRunner.cfg` | `RunDiagnosisSound`, `RunCompletes` | every probe gets its result in list order, the run ends, and each analysis line is spec 4.5's conclusion for its family |
| `db_run` | `MCDnsBlocking.cfg` | `BlockingRunEnds` | the five blocking tests all return and the analysis is printed |
| `db_claims` | `MCDnsBlockingClaims.cfg` | `ClaimsMeanReplies` (violation expected) | a timed-out UDP query counts as "UDP DNS works" |

Bounds. Two client addresses give two concurrent connections on one port,
enough for their events to interleave in the log; one payload size (2 bytes)
suffices because no guard depends on the value beyond zero/non-zero, and the
echo length is checked symbolically against it; at most one datagram per UDP
listener in `mp_safety` (two in `mp_udp_errors`, the least that shows a
RECEIVED followed by the next RECEIVED). Connections are not reused: each
(listener, address) pair is accepted at most once, which bounds the state
space; a second connection from the same address would be another address.
`mp_safety` has about 0.9 million distinct states and runs in under a minute.

Fairness. The threads are scheduled fairly by the OS; a handler that waits
for the lock gets it (strong fairness on `HandleRecv`/`HandleSend`) because the
other holders keep it only for a bounded scan or save; the statistics scan
and the save loop proceed (weak fairness). Peers and the operator's Ctrl+C
have no fairness: a peer may stay silent for ever, which is exactly what the
5 s timeout is for.

Bounds of the probe runs. The three payloads are those `run_tests` sends on
TCP port 53 (the random ones with a fixed first two bytes, since only the
length prefix matters to the server: one announces less than follows, so
the handler closes with unread bytes and sends an RST; one announces more,
so the handler waits). Segments may end at offsets 1, 2 and 12 of a stream
or at the end of what was sent: a cut at 1 splits the length prefix, at 2
separates it from the query, at 12 splits the query. These are the cases
in which `recv(2)` and `recv(query_length)` behave differently; further
cuts only repeat them. `dp_probe` has 2,750 distinct states.

Fairness of the probe. The client and handler threads run (weak fairness
on their actions); the client's recv timer fires, which is the weak fairness
of `ClientRecv`'s timeout branch; the network delivers what it carries unless
the middlebox black-holes it (weak fairness on `Deliver`, `DeliverFin`,
`DeliverRst`). The middlebox itself (`Blackhole`, `InjectReset`) has no
fairness: it may act or not.

Mutants (in `PROJECT.json`) show that each property can fail: echoing an empty
read breaks `ConnEventProtocol`; building the echo from the log label
`TCP-<name>` breaks `TypeOK` (an impossible length); starting the statistics
scan without the lock breaks `Refinement`; dropping the timeout breaks
`HandlersFinish`; slicing the question section from `query[11:]` breaks
`ResponseMatchesSpec`; retrying a timed-out `recv` instead of ending the
probe breaks `ProbeTerminates`.

Bounds of the UDP responder. Three clients (symmetric model values), each
sending one datagram, and two duplications: enough for replies to cross,
for a duplicate query to be answered twice, for a reply to arrive after its
client timed out, and for the client of a datagram to differ from the
client of the previous one (what a stale address would confuse). No
fairness: the property is a safety property. `du_isolation` has about
267,000 distinct states.

Bounds and fairness of the runners. `pr_run` lets each TCP probe be
refused, answered or silent and each UDP probe answered or lost (406,812
distinct states): every branch of the analysis chains is reached, since
each probe succeeds or not independently. `db_run` takes every path
behaviour. Both programs are one thread whose every blocking call has a
socket timeout, so weak fairness on `Next` is what the code guarantees.

Mutants for the new runs: a server that keeps the first sender's address
breaks `ReplyMatchesQuery`; a DNS chain reading `tests[3]` for the random
TCP probe breaks `RunDiagnosisSound`; retrying a timed-out recv breaks
`RunCompletes` and `BlockingRunEnds`.

## Findings

- `udp_listener` (`multiport_analyzer.py` 95-99): when `sendto` raises, the
  error is printed and nothing is logged, so the log has a RECEIVED with data
  followed directly by the next datagram's RECEIVED. Spec 4.3 requires UDP to
  follow the TCP log/respond contract and spec 7 requires every per-unit
  failure to become an ERROR event (`mp_udp_errors`).

- `handle_dns_tcp` line 69: one `conn.recv(query_length)` returns only what
  has arrived, so a query split across segments is answered from a prefix
  (spec 8's framing round trip and spec 3; `dp_framing`).
- `test_protocol` line 36: `b''` from a closed connection is SUCCESS with 0
  bytes (spec 4.4; `dp_empty_success`).
- `handle_dns_tcp` line 59: no socket timeout, so a silent or black-holed
  client keeps the handler thread for ever (spec 5; `dp_handler_leak`).
- `handle_dns_tcp` line 75: a query shorter than 12 bytes is answered
  (spec 4.1; `dp_short_query`).
- `test_dns_blocking.py` line 191 (and 36, 85, 126, 154): a recv timeout is
  caught and the test returns True, so with UDP lost and TCP refused the
  analysis prints "UDP DNS works" (spec 4.4, 4.5; `db_claims`).

## Proofs

`MultiportAnalyzerProofs.tla`, checked by `tlapm`, for every `ports` list of
distinct `(port, name, proto)` records with names of 1 to 16 characters, any
non-empty address set, any payload sizes in 1..4096 and any datagram bound
(assumptions `PortsAssumption`, `NameAssumption`, `DataAssumption` of
`MultiportAnalyzer.tla`):

- `Invariance`: `Spec => []IInv`, where `IInv` is `TypeOK` strengthened by
  `SendInv` (a handler or UDP loop about to echo holds non-empty data — needed
  for the echo's entry to have a loggable length) and `LockInv` (the lock is
  held by the statistics thread exactly while it scans and by the main thread
  exactly while it saves; during a scan the header equals `Len(log)`; during
  the save the file is `SubSeq(log, 1, saveIdx)`; before Ctrl+C there is no
  file and before the statistics thread starts it is off). `TypeOK` alone is
  not inductive: it does not say that the echoed data is non-empty, nor that
  the log cannot grow while the file is being written. `IInv` was checked
  with TLC on the `mp_safety` instance before it was proved.
- `TypeCorrect`: `Spec => []TypeOK`.
- `RefinementCorrect`: `Spec => Refinement`, i.e. the threads implement
  `ConnectionLog`. Every step maps to a `ConnectionLog` step or a stutter:
  appends to `LogAppend`; `StatsPrint` to `Report` (by `LockInv` the header
  is `Len(log)` and the scanned prefix is the whole log); `SaveDone` to
  `Export` (the file is the full prefix); a failed open, a failed write or an
  early Ctrl+C to `Abort`; everything else stutters.

`MultiportAnalyzerEventsProofs.tla`, under the same assumptions:

- `ConnEventsCorrect`: `Spec => []ConnEventProtocol`.
- How a connection's events are defined. `ConnEvents(c)` is the log
  filtered to the entries of `c`. `MultiportAnalyzer.tla` defines it without
  `SelectSeq`, because the provers cannot expand `SelectSeq`. Its definition
  is `EventsOf`: the k-th event is the entry of `c` that has exactly k
  entries of `c` up to and including it (`EvCount`). TLC checked that
  `EventsOf(log, c)` equals `SelectSeq(log, IsConnEv(_, c))` in all 908,272
  reachable states of the `mp_safety` instance. The mp_safety run and its
  mutant check the property on this definition.
- Lemmas about `EventsOf`, proved by counting with `FiniteSetTheorems`:
  - `EvCountStep`, `EvCountMono`: `EvCount` starts at 0, never decreases,
    and rises by one exactly at an entry of `c`.
  - `EvCountOnto`: every count up to the total is reached at an entry of
    `c`. The proof takes the least index whose count is high enough, using
    `WFMin` on `<` over `Nat`; no induction rule is needed.
  - `EventsOfAt`, `EventsOfType`.
  - `EventsOfAppend`: appending an entry adds it to the events of its own
    connection and leaves every other connection's events unchanged. This
    is the step lemma that `SelectSeq` did not allow.
- The inductive invariant is `IInv /\ ConnInv`. For each connection,
  `ConnInv` records what `handle_tcp` has logged at each point of its run:
  - before its recv returns, nothing;
  - while it echoes, the one RECEIVED of the data it holds (`tcpData`);
  - once closed, a complete trace;
  - a peer that has not connected means the handler is still idle (needed
    for `Accept`).
  `ConnEventProtocol` is not inductive on its own. It does not say which
  data the pending RECEIVED carried, and that data is what the later
  SENT_ECHO must match. TLC checked `ConnInv` on the `mp_safety` instance
  before it was proved.
- Why one connection's steps never touch another's events (`OwnAppend`,
  `UdpAppend`): `EvOwner` shows that an entry a listener logs belongs to
  connection `c` exactly when it comes from `c`'s own TCP listener and
  client. The proof rests on `PortsAssumption`: no two listeners share
  `(proto, name, port)`.

`DnsTcpProbeProofs.tla`, for every set of payloads of at most 4096 bytes and
every set of cuts (assumption `PayloadsAssumption` of `DnsTcpProbe.tla`):

- `Invariance`: `Spec => []IInv`, where `IInv` is `TypeOK` with `StreamInv`
  (the bytes of the client stream on the wire and in the buffer are at most
  the payload; before the client sends, that stream is empty; the query read
  is no longer than the payload) and `RespInv` (before the connect the
  handler is idle; what was sent is `Frame(BuildResponse(query))`). `TypeOK`
  alone is not inductive: it needs the bound on the query to show that the
  response fits the 16-bit length prefix (`Len(BuildResponse(q)) <=
  Len(q) + 28 <= 4124`), and `StreamInv` supplies it. Every action has its
  own lemma; segment delivery keeps the stream's byte count (`SegmentProps`).
- `TypeCorrect`: `Spec => []TypeOK`.
- `ResponseCorrect`: `Spec => []ResponseMatchesSpec`. From `RespInv` and the
  lemma `BuildMatchesSpec`: for any byte string of at least 12 bytes, the
  code's concatenation of literal byte strings equals the spec's field-by-field
  response (ID from `Unpack16`, flags `0x8180`, counts, question, answer with
  TTL from `Pack32(300)`).

`DnsCodecProofs.tla` holds the lemmas on the codec that both responders
use: what `Take`, `Drop`, `Pack16`/`Unpack16` and `Frame` return and their
lengths, `TakeAll` (slicing a string to at least its length is the string),
and `BuildMatchesSpec` (the code's response equals spec 6's field-by-field
response for any string of at least 12 bytes).

`DnsUdpServerProofs.tla`, for every set of clients, every set of queries
(byte strings) and every duplication bound (`UdpAssumption`):

- `Invariance`: `Spec => []IInv`. `IInv` is `TypeOK` and five conjuncts:
  - `ClientInv`: a client that has sent holds one of `Queries`, and it has a
    status other than UNKNOWN only after it is done;
  - `SentInv`: every datagram in flight to port 53 comes from a client that
    has sent, and carries that client's query;
  - `CurInv`: while the server is about to respond, `cur` holds the sender's
    address and the first 512 bytes of that sender's query;
  - `ReplyInv`: every datagram in flight to a client is the response to the
    first 512 bytes of that client's query (`Reply(c)`);
  - `GotInv`: a client with SUCCESS holds `Reply(c)`.

  `ReplyMatchesQuery` is not inductive by itself, because it says nothing of
  the datagrams in flight. `SentInv`, `CurInv` and `ReplyInv` carry the
  address from the query through `recvfrom`/`sendto` to the reply. They
  hold because a client's query is fixed once it has sent. The conjuncts
  are stated on the set of datagrams in flight (`Range`); loss, duplication
  and removal only shrink or keep that set (lemmas `RangeRemoveAt`,
  `RangeAppend`).
- `Isolation`: `Spec => [](status[c] = "SUCCESS" => got[c] = Reply(c))` for
  every client. This holds for queries of any length.
- `ReplyCorrect`: under the hypothesis that every query is at most 512
  bytes, `Spec => []ReplyMatchesQuery`. `run_tests` sends at most 64 bytes,
  so the hypothesis holds. For a longer query the property is false, because
  of the `recvfrom(512)` truncation (a listed hazard).

`ProbeRunnerProofs.tla`, for every `TcpPaths` and `UdpPaths`
(`PathsAssumption`):

- `Invariance`: `Spec => []IInv`. `IInv` is `TypeOK` with two conjuncts:
  - `NameInv`: `tests[i]` has the label of the i-th probe of the list;
  - `PhaseInv`: a probe is under way only while the list is not full, and
    only on a path that reaches the recv. The analysis starts on the full
    list. Once it has printed, `diag` is the three chains' lines on `tests`,
    which no later step changes.
- `DiagnosisCorrect`: `Spec => []RunDiagnosisSound`. The argument:
  - `LabelsDistinct`: the ten labels are distinct. With `NameInv`, the
    chains' `tests[k][1]['status'] == 'SUCCESS'` is equivalent to the
    spec's lookup by label (`WorksSucceeded`, `ChainsRead`).
  - Each chain then prints nothing or exactly spec 4.5's conclusion for its
    family (`ChainLines`).
  - Three lines of three distinct families never name a family twice.

Only model-checked:
- `DnsBlocking`.
- The liveness properties `HandlersFinish`, `ProbeTerminates`,
  `RunCompletes` and `BlockingRunEnds`. TLAPS does not check liveness under
  fairness here.

## Not modelled yet, and plan

- `dns_test_server.py`: the echo server (`tcp_echo_server`,
  `handle_tcp_client`), which has the shape of `handle_tcp`, already modelled
  in `MultiportAnalyzer`, and `__main__`, which only starts the threads.
- PacketCodec: `make_dns_query`, `make_ssh_banner` and
  `make_https_clienthello` build constant byte strings (the query for
  google.com only); no branch of the programs reads them, and the models use
  the resulting bytes.
- What the client records when the RST that a server `close` with unread
  bytes sends reaches it before its `recv` (modelled in `DnsTcpProbe`, where
  the RST is delivered only after the bytes already on the wire and so never
  overtakes the response; no property yet).
- Two divergences are modelled but have no run, since they can be read
  straight off the code: `recvfrom(512)` at `dns_test_server.py` 114 cuts a
  longer query, whose reply then carries a truncated question (spec 8), and
  the chains of `run_tests` (179-200) have no `else`, so a family whose
  valid probe fails gets no line instead of spec 4.5's "inconclusive".
- The result file of `run_tests` is modelled (a prefix on a crash) but
  the spec gives it no contract to check.
- The tunnel harness (`test_dns_tunnel.py`) stays out: it drives an external
  binary that is not in the repository, and spec 1 excludes it.
- Export text formatting (the comma inside `str(client_addr)`) is abstracted:
  the file holds entries.
