----------------------------- MODULE DnsTcpProbe -----------------------------
(***************************************************************************)
(* One TCP probe of run_tests (src/protocol_tester_client.py, test_protocol *)
(* with proto 'tcp') against the DNS-over-TCP responder of                 *)
(* src/dns_test_server.py (dns_tcp_server and its handle_dns_tcp thread).  *)
(*                                                                         *)
(* The connection is two byte streams.  What one side sends travels on the *)
(* wire and arrives in the other side's receive buffer in segments of any  *)
(* size; a FIN arrives after the data, an RST ends the stream.  recv(n)    *)
(* returns at most n of the bytes that have arrived, b'' at end of stream, *)
(* and raises on a reset; closing a socket with unread bytes in its buffer *)
(* sends an RST instead of a FIN (Linux).  The censoring middlebox the     *)
(* probe is about may black-hole the flow or inject a reset at any time.   *)
(* Payload bytes are kept as numbers: the server reads its length prefix   *)
(* and slices the query by position.                                       *)
(***************************************************************************)
EXTENDS DnsCodec

CONSTANTS
  Payloads,     \* the byte strings run_tests may send to port 53 over TCP
  Cuts          \* bound: stream offsets at which a segment may end

RecvSize == 4096   \* sock.recv(4096) in test_protocol

ASSUME PayloadsAssumption ==
  /\ Payloads \subseteq Seq(Byte)
  /\ \A p \in Payloads : Len(p) <= RecvSize
  /\ Cuts \subseteq Nat \ {0}

Dirs == {"c2s", "s2c"}
Empty == [wire |-> <<>>, fin |-> FALSE, rst |-> FALSE,
          buf |-> <<>>, eof |-> FALSE, reset |-> FALSE, arrived |-> 0]

VARIABLES
  net,        \* per direction: bytes on the wire, FIN/RST sent, receive
              \* buffer of the receiving socket, FIN/RST arrived there,
              \* bytes arrived so far
  blocked,    \* the middlebox drops every further packet of the flow
  listening,  \* dns_tcp_server's bind(('0.0.0.0', 53)) succeeded
  payload,    \* the `data` argument of this test_protocol call
  cPc,        \* client: "connect", "send", "recv", "done"
  status,     \* result['status']
  recvBytes,  \* result['recv_bytes']
  sPc,        \* handle_dns_tcp: "idle", "len", "query", "respond", "closed"
  qlen,       \* query_length
  query,      \* the bytes conn.recv(query_length) returned
  sent        \* what the handler passed to conn.sendall

vars == <<net, blocked, listening, payload, cPc, status, recvBytes, sPc,
          qlen, query, sent>>

(* The stream an endpoint reads from and the one it writes to.             *)
In(e)  == IF e = "client" THEN "s2c" ELSE "c2s"
Out(e) == IF e = "client" THEN "c2s" ELSE "s2c"

(* recv on endpoint e would return (or raise) now rather than block.       *)
Readable(e) == LET d == net[In(e)] IN d.buf # <<>> \/ d.eof \/ d.reset

(* e reads k bytes of its buffer.                                          *)
Consume(n, e, k) == [n EXCEPT ![In(e)].buf = Drop(@, k)]

(* sock.close() on e: an RST if bytes are left unread, a FIN otherwise.    *)
CloseSock(n, e) ==
  IF n[In(e)].buf # <<>> THEN [n EXCEPT ![Out(e)].rst = TRUE]
                         ELSE [n EXCEPT ![Out(e)].fin = TRUE]

-----------------------------------------------------------------------------
Init ==
  /\ net = [d \in Dirs |-> Empty]
  /\ blocked = FALSE
  /\ listening \in BOOLEAN
  /\ payload \in Payloads
  /\ cPc = "connect"
  /\ status = "UNKNOWN"
  /\ recvBytes = 0
  /\ sPc = "idle"
  /\ qlen = 0
  /\ query = <<>>
  /\ sent = <<>>

(* sock.connect((host, port)): accepted, and dns_tcp_server starts a       *)
(* handle_dns_tcp thread; refused when nothing listens; a black-holed SYN  *)
(* times out.  Both exceptions skip sock.close() and time_ms.              *)
ClientConnect ==
  /\ cPc = "connect"
  /\ \/ /\ listening /\ ~blocked
        /\ cPc' = "send"
        /\ sPc' = "len"
        /\ UNCHANGED status
     \/ /\ ~listening /\ ~blocked
        /\ status' = "REFUSED"
        /\ cPc' = "done"
        /\ UNCHANGED sPc
     \/ /\ blocked
        /\ status' = "TIMEOUT"
        /\ cPc' = "done"
        /\ UNCHANGED sPc
  /\ UNCHANGED <<net, blocked, listening, payload, recvBytes, qlen, query,
                 sent>>

(* sock.sendall(data); a reset connection raises (ERROR).                  *)
ClientSend ==
  /\ cPc = "send"
  /\ \/ /\ ~net["s2c"].reset
        /\ net' = [net EXCEPT !["c2s"].wire = @ \o payload]
        /\ cPc' = "recv"
        /\ UNCHANGED status
     \/ /\ net["s2c"].reset
        /\ status' = "ERROR"
        /\ cPc' = "done"
        /\ UNCHANGED net
  /\ UNCHANGED <<blocked, listening, payload, recvBytes, sPc, qlen, query,
                 sent>>

(* Mutant of ClientRecv: a timed-out recv is retried instead of ending the *)
(* probe.                                                                  *)
ClientRecvRetry ==
  LET d == net["s2c"]  k == MinOf(RecvSize, Len(d.buf)) IN
  /\ cPc = "recv"
  /\ \/ /\ d.buf # <<>> \/ d.eof
        /\ status' = "SUCCESS"
        /\ recvBytes' = k
        /\ net' = CloseSock(Consume(net, "client", k), "client")
        /\ cPc' = "done"
     \/ /\ d.buf = <<>> /\ d.reset
        /\ status' = "ERROR"
        /\ cPc' = "done"
        /\ UNCHANGED <<recvBytes, net>>
     \/ /\ ~Readable("client")
        /\ UNCHANGED <<status, cPc, recvBytes, net>>
  /\ UNCHANGED <<blocked, listening, payload, sPc, qlen, query, sent>>

(* response = sock.recv(4096): any bytes, or b'' at end of stream, count   *)
(* as SUCCESS; socket.timeout (5 s with nothing readable) is NO_RESPONSE;  *)
(* a reset raises out of the inner try (ERROR).  Then sock.close().        *)
ClientRecv ==
  LET d == net["s2c"]  k == MinOf(RecvSize, Len(d.buf)) IN
  /\ cPc = "recv"
  /\ \/ /\ d.buf # <<>> \/ d.eof
        /\ status' = "SUCCESS"
        /\ recvBytes' = k
        /\ net' = CloseSock(Consume(net, "client", k), "client")
     \/ /\ d.buf = <<>> /\ d.reset
        /\ status' = "ERROR"
        /\ UNCHANGED <<recvBytes, net>>
     \/ /\ ~Readable("client")
        /\ status' = "NO_RESPONSE"
        /\ net' = CloseSock(net, "client")
        /\ UNCHANGED recvBytes
  /\ cPc' = "done"
  /\ UNCHANGED <<blocked, listening, payload, sPc, qlen, query, sent>>

-----------------------------------------------------------------------------
(* handle_dns_tcp: length_data = conn.recv(2); anything but 2 bytes is an  *)
(* invalid prefix and closes the connection; a reset raises, and the       *)
(* finally clause closes.                                                  *)
SrvRecvLen ==
  LET d == net["c2s"]  got == Take(d.buf, 2) IN
  /\ sPc = "len"
  /\ Readable("server")
  /\ \/ /\ Len(got) = 2
        /\ qlen' = Unpack16(got)
        /\ sPc' = "query"
        /\ net' = Consume(net, "server", 2)
     \/ /\ Len(got) # 2 /\ (got # <<>> \/ d.eof)
        /\ sPc' = "closed"
        /\ net' = CloseSock(Consume(net, "server", Len(got)), "server")
        /\ UNCHANGED qlen
     \/ /\ got = <<>> /\ ~d.eof /\ d.reset
        /\ sPc' = "closed"
        /\ net' = CloseSock(net, "server")
        /\ UNCHANGED qlen
  /\ UNCHANGED <<blocked, listening, payload, cPc, status, recvBytes, query,
                 sent>>

(* query = conn.recv(query_length): one call, which returns what has       *)
(* arrived (at most query_length bytes), b'' at once for a zero length or  *)
(* at end of stream, and raises on a reset.                                *)
SrvRecvQuery ==
  LET d == net["c2s"]  got == Take(d.buf, qlen) IN
  /\ sPc = "query"
  /\ qlen = 0 \/ Readable("server")
  /\ \/ /\ qlen = 0 \/ d.buf # <<>> \/ d.eof
        /\ query' = got
        /\ sPc' = "respond"
        /\ net' = Consume(net, "server", Len(got))
     \/ /\ qlen > 0 /\ d.buf = <<>> /\ ~d.eof /\ d.reset
        /\ sPc' = "closed"
        /\ net' = CloseSock(net, "server")
        /\ UNCHANGED query
  /\ UNCHANGED <<blocked, listening, payload, cPc, status, recvBytes, qlen,
                 sent>>

(* Build the response from whatever was read, conn.sendall it with its     *)
(* length prefix (a reset connection raises), then close.                  *)
SrvRespond ==
  LET msg == Frame(BuildResponse(query)) IN
  /\ sPc = "respond"
  /\ \/ /\ ~net["c2s"].reset
        /\ sent' = msg
        /\ net' = CloseSock([net EXCEPT !["s2c"].wire = @ \o msg], "server")
     \/ /\ net["c2s"].reset
        /\ net' = CloseSock(net, "server")
        /\ UNCHANGED sent
  /\ sPc' = "closed"
  /\ UNCHANGED <<blocked, listening, payload, cPc, status, recvBytes, qlen,
                 query>>

-----------------------------------------------------------------------------
(* The network: a segment arrives, ending at one of the offsets Cuts or   *)
(* at the end of what was sent; a FIN or an RST arrives after the data     *)
(* sent before it.  Nothing arrives once the receiving side has been       *)
(* reset, or once the middlebox black-holes.                               *)
Deliver(dir) ==
  LET d == net[dir] IN
  /\ ~blocked /\ ~d.reset /\ d.wire # <<>>
  /\ \E c \in (Cuts \cup {d.arrived + Len(d.wire)})
          \cap (d.arrived + 1)..(d.arrived + Len(d.wire)) :
       net' = [net EXCEPT ![dir].buf = @ \o Take(d.wire, c - d.arrived),
                          ![dir].wire = Drop(@, c - d.arrived),
                          ![dir].arrived = c]
  /\ UNCHANGED <<blocked, listening, payload, cPc, status, recvBytes, sPc,
                 qlen, query, sent>>

DeliverFin(dir) ==
  LET d == net[dir] IN
  /\ ~blocked /\ ~d.reset /\ d.wire = <<>> /\ d.fin /\ ~d.eof
  /\ net' = [net EXCEPT ![dir].eof = TRUE]
  /\ UNCHANGED <<blocked, listening, payload, cPc, status, recvBytes, sPc,
                 qlen, query, sent>>

DeliverRst(dir) ==
  LET d == net[dir] IN
  /\ ~blocked /\ ~d.reset /\ d.wire = <<>> /\ d.rst
  /\ net' = [net EXCEPT ![dir].reset = TRUE]
  /\ UNCHANGED <<blocked, listening, payload, cPc, status, recvBytes, sPc,
                 qlen, query, sent>>

(* The middlebox black-holes the flow, or injects an RST both ways.        *)
Blackhole ==
  /\ ~blocked
  /\ blocked' = TRUE
  /\ UNCHANGED <<net, listening, payload, cPc, status, recvBytes, sPc, qlen,
                 query, sent>>

InjectReset ==
  /\ sPc # "idle"
  /\ ~blocked
  /\ \E dir \in Dirs : ~net[dir].reset
  /\ net' = [dir \in Dirs |-> [net[dir] EXCEPT !.wire = <<>>, !.reset = TRUE]]
  /\ UNCHANGED <<blocked, listening, payload, cPc, status, recvBytes, sPc,
                 qlen, query, sent>>

(* The probe has its result; run_tests goes on to the next one.            *)
Terminated ==
  /\ cPc = "done"
  /\ UNCHANGED vars

Next ==
  \/ ClientConnect \/ ClientSend \/ ClientRecv
  \/ SrvRecvLen \/ SrvRecvQuery \/ SrvRespond
  \/ \E dir \in Dirs : Deliver(dir) \/ DeliverFin(dir) \/ DeliverRst(dir)
  \/ Blackhole \/ InjectReset
  \/ Terminated

(* The client's and the handler's threads run; the client's recv timer     *)
(* fires; the network delivers what it carries unless black-holed.  The    *)
(* middlebox is not fair.                                                  *)
Fairness ==
  /\ WF_vars(ClientConnect) /\ WF_vars(ClientSend) /\ WF_vars(ClientRecv)
  /\ WF_vars(SrvRecvLen) /\ WF_vars(SrvRecvQuery) /\ WF_vars(SrvRespond)
  /\ \A dir \in Dirs : /\ WF_vars(Deliver(dir))
                       /\ WF_vars(DeliverFin(dir))
                       /\ WF_vars(DeliverRst(dir))

Spec == Init /\ [][Next]_vars /\ Fairness

-----------------------------------------------------------------------------
(* Type invariant.                                                         *)
TypeOK ==
  /\ net \in [Dirs -> [wire : Seq(Byte), fin : BOOLEAN, rst : BOOLEAN,
                       buf : Seq(Byte), eof : BOOLEAN, reset : BOOLEAN,
                       arrived : Nat]]
  /\ blocked \in BOOLEAN /\ listening \in BOOLEAN
  /\ payload \in Payloads
  /\ cPc \in {"connect", "send", "recv", "done"}
  /\ status \in {"UNKNOWN", "SUCCESS", "NO_RESPONSE", "TIMEOUT", "REFUSED",
                 "ERROR"}
  /\ recvBytes \in 0..RecvSize
  /\ sPc \in {"idle", "len", "query", "respond", "closed"}
  /\ qlen \in Nat /\ qlen <= 65535
  /\ query \in Seq(Byte)
  /\ sent \in Seq(Byte)

(* A payload that is a well-formed DNS-over-TCP frame.                     *)
IsFramed(p) == Len(p) >= 2 /\ Unpack16(p) = Len(p) - 2

(* handle_dns_tcp's reply (lines 73-98) is the spec's DNS response to the  *)
(* bytes it read, in a correct TCP frame, whenever it read a full header.  *)
ResponseMatchesSpec ==
  sent # <<>> /\ Len(query) >= 12 => sent = Frame(SpecResponse(query))

(* Spec 5: a probe always ends with a terminal result, whatever the        *)
(* server and the middlebox do: test_protocol's socket timeout bounds the  *)
(* recv even when the server is itself waiting for more of the query.      *)
ProbeTerminates == <>(cPc = "done")

(* Spec 8, framing round trip: the query handle_dns_tcp answers is exactly *)
(* the message the client framed.  Its single conn.recv(query_length)      *)
(* (line 69) returns only the bytes that have arrived.                     *)
FramingRoundTrip ==
  sPc = "respond" /\ IsFramed(payload) => query = Drop(payload, 2)

(* Spec 4.1: a query shorter than the 12-byte header gets no response.      *)
(* handle_dns_tcp (lines 75-98) slices query[:2] and query[12:] from       *)
(* whatever it read and answers anyway.                                    *)
ShortQueryUnanswered == sent # <<>> => Len(query) >= 12

(* Spec 4.4: SUCCESS means bytes were received; a peer that never replied  *)
(* is NO_RESPONSE.  test_protocol (lines 34-36) counts the b'' of a closed *)
(* connection as SUCCESS.                                                  *)
SuccessMeansReply == status = "SUCCESS" => recvBytes > 0

(* Spec 5: every connection handler is bounded by a fixed read timeout, so *)
(* it ends.  handle_dns_tcp sets no timeout (line 59).                     *)
HandlerEnds == sPc \in {"len", "query"} ~> sPc = "closed"
=============================================================================
