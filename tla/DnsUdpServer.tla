----------------------------- MODULE DnsUdpServer -----------------------------
(***************************************************************************)
(* dns_udp_server of src/dns_test_server.py, a single loop that answers    *)
(* every datagram on port 53, and the clients that query it the way        *)
(* test_protocol's UDP branch does (src/protocol_tester_client.py):       *)
(* sendto, then recvfrom(4096) under a 5 s timeout, then close.           *)
(*                                                                         *)
(* Datagrams may be lost, duplicated (up to MaxDup times) and reordered;  *)
(* the in-flight datagrams are sequences from which any one may arrive.   *)
(* A reply that arrives after the client's timeout is dropped with its    *)
(* socket.                                                                 *)
(***************************************************************************)
EXTENDS DnsCodec

CONSTANTS
  Clients,      \* client sockets (address, ephemeral port)
  Queries,      \* the datagrams a client may send
  MaxDup        \* bound: datagrams the network may duplicate

ASSUME UdpAssumption ==
  /\ Queries \subseteq Seq(Byte)
  /\ MaxDup \in Nat

MaxDatagram == 512   \* sock.recvfrom(512) in dns_udp_server

VARIABLES
  toSrv,        \* datagrams in flight to port 53: [src, data]
  toCli,        \* datagrams in flight to the clients: [dst, data]
  dups,         \* duplications so far
  srvPc,        \* the server loop: "recv" or "respond"
  cur,          \* the (data, addr) recvfrom returned
  cliPc,        \* per client: "send", "wait", "done"
  query,        \* per client: the datagram it sent
  status,       \* per client: result['status']
  got           \* per client: the response recvfrom returned

vars == <<toSrv, toCli, dups, srvPc, cur, cliPc, query, status, got>>

(* The sequence s without its i-th element.                                *)
RemoveAt(s, i) == SubSeq(s, 1, i - 1) \o SubSeq(s, i + 1, Len(s))

-----------------------------------------------------------------------------
Init ==
  /\ toSrv = <<>>
  /\ toCli = <<>>
  /\ dups = 0
  /\ srvPc = "recv"
  /\ cur = [src |-> "none", data |-> <<>>]
  /\ cliPc = [c \in Clients |-> "send"]
  /\ query = [c \in Clients |-> <<>>]
  /\ status = [c \in Clients |-> "UNKNOWN"]
  /\ got = [c \in Clients |-> <<>>]

(* test_protocol, UDP: sock.sendto(data, (host, port)).                    *)
CliSend(c) ==
  /\ cliPc[c] = "send"
  /\ \E q \in Queries :
       /\ toSrv' = Append(toSrv, [src |-> c, data |-> q])
       /\ query' = [query EXCEPT ![c] = q]
  /\ cliPc' = [cliPc EXCEPT ![c] = "wait"]
  /\ UNCHANGED <<toCli, dups, srvPc, cur, status, got>>

(* response, addr = sock.recvfrom(4096): the first datagram for this       *)
(* socket, whoever sent it, is SUCCESS.  Then sock.close().                *)
CliRecv(c) ==
  /\ cliPc[c] = "wait"
  /\ \E i \in 1..Len(toCli) :
       /\ toCli[i].dst = c
       /\ got' = [got EXCEPT ![c] = toCli[i].data]
       /\ toCli' = RemoveAt(toCli, i)
  /\ status' = [status EXCEPT ![c] = "SUCCESS"]
  /\ cliPc' = [cliPc EXCEPT ![c] = "done"]
  /\ UNCHANGED <<toSrv, dups, srvPc, cur, query>>

(* socket.timeout: NO_RESPONSE; a reply still in flight is dropped when it *)
(* reaches the closed port.                                                *)
CliTimeout(c) ==
  /\ cliPc[c] = "wait"
  /\ status' = [status EXCEPT ![c] = "NO_RESPONSE"]
  /\ cliPc' = [cliPc EXCEPT ![c] = "done"]
  /\ UNCHANGED <<toSrv, toCli, dups, srvPc, cur, query, got>>

(* Mutant of SrvRecv: addr is kept from the first datagram received.       *)
SrvRecvStaleAddr ==
  /\ srvPc = "recv"
  /\ \E i \in 1..Len(toSrv) :
       /\ cur' = [src |-> IF cur.src = "none" THEN toSrv[i].src ELSE cur.src,
                  data |-> Take(toSrv[i].data, MaxDatagram)]
       /\ toSrv' = RemoveAt(toSrv, i)
  /\ srvPc' = "respond"
  /\ UNCHANGED <<toCli, dups, cliPc, query, status, got>>

(* data, addr = sock.recvfrom(512): any datagram in flight; the bytes     *)
(* beyond 512 are discarded.                                               *)
SrvRecv ==
  /\ srvPc = "recv"
  /\ \E i \in 1..Len(toSrv) :
       /\ cur' = [src |-> toSrv[i].src, data |-> Take(toSrv[i].data, MaxDatagram)]
       /\ toSrv' = RemoveAt(toSrv, i)
  /\ srvPc' = "respond"
  /\ UNCHANGED <<toCli, dups, cliPc, query, status, got>>

(* Build the response from data and sock.sendto(response, addr); an        *)
(* exception is printed and the loop goes on.                              *)
SrvRespond ==
  /\ srvPc = "respond"
  /\ \/ toCli' = Append(toCli, [dst |-> cur.src, data |-> BuildResponse(cur.data)])
     \/ UNCHANGED toCli
  /\ srvPc' = "recv"
  /\ UNCHANGED <<toSrv, dups, cur, cliPc, query, status, got>>

(* The network loses or duplicates a datagram.                             *)
LoseToSrv ==
  /\ \E i \in 1..Len(toSrv) : toSrv' = RemoveAt(toSrv, i)
  /\ UNCHANGED <<toCli, dups, srvPc, cur, cliPc, query, status, got>>

LoseToCli ==
  /\ \E i \in 1..Len(toCli) : toCli' = RemoveAt(toCli, i)
  /\ UNCHANGED <<toSrv, dups, srvPc, cur, cliPc, query, status, got>>

Duplicate ==
  /\ dups < MaxDup
  /\ \/ \E i \in 1..Len(toSrv) : /\ toSrv' = Append(toSrv, toSrv[i])
                                 /\ UNCHANGED toCli
     \/ \E i \in 1..Len(toCli) : /\ toCli' = Append(toCli, toCli[i])
                                 /\ UNCHANGED toSrv
  /\ dups' = dups + 1
  /\ UNCHANGED <<srvPc, cur, cliPc, query, status, got>>

(* Every client has its result and the server waits in recvfrom.           *)
Terminated ==
  /\ \A c \in Clients : cliPc[c] = "done"
  /\ srvPc = "recv" /\ toSrv = <<>>
  /\ UNCHANGED vars

Next ==
  \/ \E c \in Clients : CliSend(c) \/ CliRecv(c) \/ CliTimeout(c)
  \/ SrvRecv \/ SrvRespond
  \/ LoseToSrv \/ LoseToCli \/ Duplicate
  \/ Terminated

Spec == Init /\ [][Next]_vars

-----------------------------------------------------------------------------
(* Spec 4.1, 6 and 8 (concurrency isolation): a client that records       *)
(* SUCCESS received the spec's DNS response to its own query, for a query  *)
(* of at least 12 bytes, whatever other clients sent and whatever the      *)
(* network lost, duplicated or reordered.  recvfrom does not check who     *)
(* sent the datagram, and the server's single loop answers to `addr`.      *)
ReplyMatchesQuery ==
  \A c \in Clients :
    status[c] = "SUCCESS" /\ Len(query[c]) >= 12 => got[c] = SpecResponse(query[c])
=============================================================================
