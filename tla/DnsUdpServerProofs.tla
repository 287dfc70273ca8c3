------------------------- MODULE DnsUdpServerProofs -------------------------
(***************************************************************************)
(* Proofs about DnsUdpServer for every set of clients, every set of query  *)
(* datagrams and every duplication bound: whatever the network loses,      *)
(* duplicates or reorders, a reply dns_udp_server sends, and every reply   *)
(* a client accepts, is the response to the first 512 bytes of that        *)
(* client's own query.  A datagram carries its sender's address, the loop  *)
(* answers to the address of the datagram it is answering, and a client's  *)
(* query never changes once sent.                                          *)
(***************************************************************************)
EXTENDS DnsUdpServer, DnsCodecProofs

Statuses == {"UNKNOWN", "SUCCESS", "NO_RESPONSE"}

TypeOK ==
  /\ toSrv \in Seq([src : Clients, data : Seq(Byte)])
  /\ toCli \in Seq([dst : Clients, data : Seq(Byte)])
  /\ dups \in Nat
  /\ srvPc \in {"recv", "respond"}
  /\ cur \in [src : Clients \cup {"none"}, data : Seq(Byte)]
  /\ cliPc \in [Clients -> {"send", "wait", "done"}]
  /\ query \in [Clients -> Seq(Byte)]
  /\ status \in [Clients -> Statuses]
  /\ got \in [Clients -> Seq(Byte)]

(* The response dns_udp_server builds for client c's query.                *)
Reply(c) == BuildResponse(Take(query[c], MaxDatagram))

(* A client that has sent holds one of the queries, and a client has a     *)
(* result only once test_protocol has returned.                            *)
ClientInv ==
  \A c \in Clients :
    /\ cliPc[c] # "send" => query[c] \in Queries
    /\ cliPc[c] # "done" => status[c] = "UNKNOWN"

(* Every datagram on its way to port 53 is its sender's query.             *)
SentInv ==
  \A m \in Range(toSrv) : cliPc[m.src] # "send" /\ m.data = query[m.src]

(* The datagram the loop is answering came from a client that has sent,    *)
(* and holds the first 512 bytes of its query.                             *)
CurInv ==
  srvPc = "respond" =>
    /\ cur.src \in Clients
    /\ cliPc[cur.src] # "send"
    /\ cur.data = Take(query[cur.src], MaxDatagram)

(* Every datagram on its way to a client is the response to its query.     *)
ReplyInv ==
  \A m \in Range(toCli) : cliPc[m.dst] # "send" /\ m.data = Reply(m.dst)

(* A client that recorded SUCCESS holds the response to its query.         *)
GotInv ==
  \A c \in Clients : status[c] = "SUCCESS" => got[c] = Reply(c)

IInv == TypeOK /\ ClientInv /\ SentInv /\ CurInv /\ ReplyInv /\ GotInv

-----------------------------------------------------------------------------
(* Lemmas on the datagrams in flight, as the set of their elements.        *)

(* The datagrams of a sequence in flight, written from s[m] to s[n].       *)
LEMMA RangeSubSeq ==
  ASSUME NEW S, NEW s \in Seq(S), NEW m \in 1..Len(s) + 1, NEW n \in 0..Len(s)
  PROVE  SubSeq(s, m, n) \in Seq(S) /\ Range(SubSeq(s, m, n)) \subseteq Range(s)
<1>1. \A i \in m..n : s[i] \in S  BY LenProperties
<1>2. /\ SubSeq(s, m, n) \in Seq(S)
      /\ Len(SubSeq(s, m, n)) = IF m <= n THEN n - m + 1 ELSE 0
      /\ \A i \in 1..n - m + 1 : SubSeq(s, m, n)[i] = s[m + i - 1]
  BY <1>1, SubSeqProperties
<1>3. DOMAIN SubSeq(s, m, n) = 1..Len(SubSeq(s, m, n))  BY <1>2
<1>4. \A i \in DOMAIN SubSeq(s, m, n) :
        SubSeq(s, m, n)[i] = s[m + i - 1] /\ m + i - 1 \in DOMAIN s
  BY <1>2, <1>3, LenProperties
<1>5. Range(SubSeq(s, m, n)) \subseteq Range(s)  BY <1>4 DEF Range
<1>. QED  BY <1>2, <1>5

(* A datagram lost or delivered leaves the others in flight.               *)
LEMMA RangeRemoveAt ==
  ASSUME NEW S, NEW s \in Seq(S), NEW i \in 1..Len(s)
  PROVE  RemoveAt(s, i) \in Seq(S) /\ Range(RemoveAt(s, i)) \subseteq Range(s)
<1> DEFINE u == SubSeq(s, 1, i - 1)
           v == SubSeq(s, i + 1, Len(s))
<1>1. u \in Seq(S) /\ Range(u) \subseteq Range(s)  BY RangeSubSeq
<1>2. v \in Seq(S) /\ Range(v) \subseteq Range(s)  BY RangeSubSeq
<1>3. RemoveAt(s, i) = u \o v  BY DEF RemoveAt
<1>4. u \o v \in Seq(S)  BY <1>1, <1>2, ConcatProperties
<1>5. Range(u \o v) = Range(u) \cup Range(v)
  <2>1. \A a, b \in Seq(S) : Range(a \o b) = Range(a) \cup Range(b)
    BY RangeConcatenation
  <2>. QED  BY <2>1, <1>1, <1>2
<1>. QED  BY <1>1, <1>2, <1>3, <1>4, <1>5

(* A datagram sent joins the others in flight.                             *)
LEMMA RangeAppend ==
  ASSUME NEW S, NEW s \in Seq(S), NEW e \in S
  PROVE  Append(s, e) \in Seq(S) /\ Range(Append(s, e)) = Range(s) \cup {e}
<1>1. Append(s, e) = s \o <<e>>  BY AppendIsConcat
<1>2. <<e>> \in Seq(S)  OBVIOUS
<1>3. Range(<<e>>) = {e}  BY DEF Range
<1>4. Range(s \o <<e>>) = Range(s) \cup Range(<<e>>)  BY <1>2, RangeConcatenation
<1>5. Append(s, e) \in Seq(S)  BY AppendProperties
<1>. QED  BY <1>1, <1>3, <1>4, <1>5

(* The i-th datagram in flight is one of them.                             *)
LEMMA InRange ==
  ASSUME NEW S, NEW s \in Seq(S), NEW i \in 1..Len(s)
  PROVE  s[i] \in Range(s) /\ s[i] \in S
BY DEF Range

(* The response to a query is a byte string.                               *)
LEMMA ReplyBytes ==
  ASSUME NEW q \in Seq(Byte)
  PROVE  BuildResponse(Take(q, MaxDatagram)) \in Seq(Byte)
<1>1. Take(q, MaxDatagram) \in Seq(Byte)  BY TakeProps DEF MaxDatagram
<1>. QED  BY <1>1, BuildProps

-----------------------------------------------------------------------------
(* Each action keeps IInv.                                                 *)

Datagram == [src : Clients, data : Seq(Byte)]
Response == [dst : Clients, data : Seq(Byte)]

(* The datagrams in flight are addressed records.                         *)
LEMMA TypedRanges ==
  ASSUME TypeOK
  PROVE  Range(toSrv) \subseteq Datagram /\ Range(toCli) \subseteq Response
<1>1. toSrv \in Seq(Datagram) /\ toCli \in Seq(Response)
  BY DEF TypeOK, Datagram, Response
<1>. QED  BY <1>1, RangeOfSeq

(* No client has sent and nothing is in flight at the start.              *)
LEMMA InitIInv == Init => IInv
<1> SUFFICES ASSUME Init PROVE IInv  OBVIOUS
<1>1. Range(<<>>) = {}  BY DEF Range
<1>2. TypeOK  BY DEF Init, TypeOK, Statuses
<1>. QED  BY <1>1, <1>2 DEF Init, IInv, ClientInv, SentInv, CurInv, ReplyInv, GotInv

(* test_protocol's sendto: the new datagram is the client's query, and no  *)
(* other datagram, nor the one being answered, is from this client.        *)
LEMMA CliSendIInv ==
  ASSUME IInv, NEW c \in Clients, CliSend(c)
  PROVE  IInv'
<1>1. PICK q \in Queries : /\ toSrv' = Append(toSrv, [src |-> c, data |-> q])
                           /\ query' = [query EXCEPT ![c] = q]
  BY DEF CliSend
<1>2. /\ cliPc[c] = "send"
      /\ cliPc' = [cliPc EXCEPT ![c] = "wait"]
      /\ UNCHANGED <<toCli, dups, srvPc, cur, status, got>>
  BY DEF CliSend
<1>3. q \in Seq(Byte)  BY UdpAssumption
<1>4. [src |-> c, data |-> q] \in Datagram  BY <1>3 DEF Datagram
<1>5. toSrv' \in Seq(Datagram)
      /\ Range(toSrv') = Range(toSrv) \cup {[src |-> c, data |-> q]}
  <2>1. toSrv \in Seq(Datagram)  BY DEF IInv, TypeOK, Datagram
  <2>. QED  BY <1>1, <1>4, <2>1, RangeAppend
<1>6. \A d \in Clients : cliPc[d] # "send" =>
        /\ d # c /\ cliPc'[d] = cliPc[d] /\ query'[d] = query[d]
        /\ Reply(d)' = Reply(d)
  BY <1>1, <1>2 DEF IInv, TypeOK, Reply
<1>7. TypeOK'  BY <1>1, <1>2, <1>3, <1>5 DEF IInv, TypeOK, Datagram
<1>8. ClientInv'  BY <1>1, <1>2 DEF IInv, TypeOK, ClientInv
<1>9. SentInv'
  <2>1. \A m \in Range(toSrv) : cliPc'[m.src] # "send" /\ m.data = query'[m.src]
    BY <1>6, TypedRanges DEF IInv, SentInv, Datagram
  <2>2. cliPc'[c] # "send" /\ q = query'[c]  BY <1>1, <1>2 DEF IInv, TypeOK
  <2>. QED  BY <1>5, <2>1, <2>2 DEF SentInv
<1>10. CurInv'  BY <1>2, <1>6 DEF IInv, CurInv
<1>11. ReplyInv'  BY <1>2, <1>6, TypedRanges DEF IInv, ReplyInv, Response
<1>12. GotInv'
  <2>1. status[c] = "UNKNOWN"  BY <1>2 DEF IInv, ClientInv
  <2>2. \A d \in Clients : d # c => Reply(d)' = Reply(d)  BY <1>1 DEF Reply
  <2>. QED  BY <1>2, <2>1, <2>2 DEF IInv, GotInv
<1>. QED  BY <1>7, <1>8, <1>9, <1>10, <1>11, <1>12 DEF IInv

(* recvfrom(4096) returns the first datagram that reaches the socket: by   *)
(* ReplyInv it is the response to this client's query.                     *)
LEMMA CliRecvIInv ==
  ASSUME IInv, NEW c \in Clients, CliRecv(c)
  PROVE  IInv'
<1>1. PICK i \in 1..Len(toCli) : /\ toCli[i].dst = c
                                 /\ got' = [got EXCEPT ![c] = toCli[i].data]
                                 /\ toCli' = RemoveAt(toCli, i)
  BY DEF CliRecv
<1>2. /\ cliPc[c] = "wait"
      /\ status' = [status EXCEPT ![c] = "SUCCESS"]
      /\ cliPc' = [cliPc EXCEPT ![c] = "done"]
      /\ UNCHANGED <<toSrv, dups, srvPc, cur, query>>
  BY DEF CliRecv
<1>3. toCli[i] \in Range(toCli) /\ toCli[i] \in Response
  BY InRange DEF IInv, TypeOK, Response
<1>4. toCli[i].data = Reply(c)  BY <1>1, <1>3 DEF IInv, ReplyInv
<1>5. toCli' \in Seq(Response) /\ Range(toCli') \subseteq Range(toCli)
  BY <1>1, RangeRemoveAt DEF IInv, TypeOK, Response
<1>6. \A d \in Clients : (cliPc'[d] # "send" <=> cliPc[d] # "send")
                         /\ Reply(d)' = Reply(d)
  BY <1>2 DEF IInv, TypeOK, Reply
<1>7. TypeOK'  BY <1>1, <1>2, <1>3, <1>5 DEF IInv, TypeOK, Response, Statuses
<1>8. ClientInv'  BY <1>2 DEF IInv, TypeOK, ClientInv
<1>9. SentInv'  BY <1>2, <1>6, TypedRanges DEF IInv, SentInv, Datagram
<1>10. CurInv'  BY <1>2, <1>6 DEF IInv, CurInv
<1>11. ReplyInv'  BY <1>5, <1>6, TypedRanges DEF IInv, ReplyInv, Response
<1>12. GotInv'  BY <1>1, <1>2, <1>4, <1>6 DEF IInv, TypeOK, GotInv
<1>. QED  BY <1>7, <1>8, <1>9, <1>10, <1>11, <1>12 DEF IInv

(* The timeout: NO_RESPONSE, nothing else changes.                         *)
LEMMA CliTimeoutIInv ==
  ASSUME IInv, NEW c \in Clients, CliTimeout(c)
  PROVE  IInv'
<1>1. /\ cliPc[c] = "wait"
      /\ status' = [status EXCEPT ![c] = "NO_RESPONSE"]
      /\ cliPc' = [cliPc EXCEPT ![c] = "done"]
      /\ UNCHANGED <<toSrv, toCli, dups, srvPc, cur, query, got>>
  BY DEF CliTimeout
<1>2. \A d \in Clients : (cliPc'[d] # "send" <=> cliPc[d] # "send")
                         /\ Reply(d)' = Reply(d)
  BY <1>1 DEF IInv, TypeOK, Reply
<1>3. TypeOK'  BY <1>1 DEF IInv, TypeOK, Statuses
<1>4. ClientInv'  BY <1>1 DEF IInv, TypeOK, ClientInv
<1>5. SentInv'  BY <1>1, <1>2, TypedRanges DEF IInv, SentInv, Datagram
<1>6. CurInv'  BY <1>1, <1>2 DEF IInv, CurInv
<1>7. ReplyInv'  BY <1>1, <1>2, TypedRanges DEF IInv, ReplyInv, Response
<1>8. GotInv'  BY <1>1, <1>2 DEF IInv, TypeOK, GotInv
<1>. QED  BY <1>3, <1>4, <1>5, <1>6, <1>7, <1>8 DEF IInv

(* recvfrom(512): the datagram taken is its sender's query, so cur holds   *)
(* the first 512 bytes of that query and the sender's address.             *)
LEMMA SrvRecvIInv ==
  ASSUME IInv, SrvRecv
  PROVE  IInv'
<1>1. PICK i \in 1..Len(toSrv) :
        /\ cur' = [src |-> toSrv[i].src, data |-> Take(toSrv[i].data, MaxDatagram)]
        /\ toSrv' = RemoveAt(toSrv, i)
  BY DEF SrvRecv
<1>2. /\ srvPc' = "respond"
      /\ UNCHANGED <<toCli, dups, cliPc, query, status, got>>
  BY DEF SrvRecv
<1>3. toSrv[i] \in Range(toSrv) /\ toSrv[i] \in Datagram
  <2>1. toSrv \in Seq(Datagram)  BY DEF IInv, TypeOK, Datagram
  <2>. QED  BY <2>1, InRange
<1>4. cliPc[toSrv[i].src] # "send" /\ toSrv[i].data = query[toSrv[i].src]
  BY <1>3 DEF IInv, SentInv
<1>5. toSrv' \in Seq(Datagram) /\ Range(toSrv') \subseteq Range(toSrv)
  <2>1. toSrv \in Seq(Datagram)  BY DEF IInv, TypeOK, Datagram
  <2>. QED  BY <1>1, <2>1, RangeRemoveAt
<1>6. Take(toSrv[i].data, MaxDatagram) \in Seq(Byte)
  BY <1>3, TakeProps DEF Datagram, MaxDatagram
<1>7. TypeOK'  BY <1>1, <1>2, <1>3, <1>5, <1>6 DEF IInv, TypeOK, Datagram
<1>8. CurInv'  BY <1>1, <1>3, <1>4, <1>2 DEF CurInv, Datagram
<1>9. SentInv'  BY <1>2, <1>5 DEF IInv, SentInv
<1>10. ClientInv' /\ ReplyInv' /\ GotInv'
  BY <1>2 DEF IInv, ClientInv, ReplyInv, GotInv, Reply
<1>. QED  BY <1>7, <1>8, <1>9, <1>10 DEF IInv

(* The response is built from cur.data and sent to cur.src: by CurInv it   *)
(* is the response to that client's query.  A failed sendto sends nothing. *)
LEMMA SrvRespondIInv ==
  ASSUME IInv, SrvRespond
  PROVE  IInv'
<1>1. /\ srvPc = "respond" /\ srvPc' = "recv"
      /\ UNCHANGED <<toSrv, dups, cur, cliPc, query, status, got>>
  BY DEF SrvRespond
<1>2. /\ cur.src \in Clients /\ cliPc[cur.src] # "send"
      /\ BuildResponse(cur.data) = Reply(cur.src)
  BY <1>1 DEF IInv, CurInv, Reply
<1>3. CASE toCli' = Append(toCli, [dst |-> cur.src, data |-> BuildResponse(cur.data)])
  <2>1. query[cur.src] \in Seq(Byte)  BY <1>2 DEF IInv, TypeOK
  <2>2. [dst |-> cur.src, data |-> BuildResponse(cur.data)] \in Response
    BY <1>2, <2>1, ReplyBytes DEF Response, Reply
  <2>3. toCli' \in Seq(Response)
        /\ Range(toCli') = Range(toCli) \cup {[dst |-> cur.src, data |-> BuildResponse(cur.data)]}
    <3>1. toCli \in Seq(Response)  BY DEF IInv, TypeOK, Response
    <3>. QED  BY <1>3, <2>2, <3>1, RangeAppend
  <2>4. TypeOK'  BY <1>1, <2>3 DEF IInv, TypeOK, Response
  <2>5. ReplyInv'  BY <1>1, <1>2, <2>3 DEF IInv, ReplyInv, Reply
  <2>6. ClientInv' /\ SentInv' /\ CurInv' /\ GotInv'
    BY <1>1 DEF IInv, ClientInv, SentInv, CurInv, GotInv, Reply
  <2>. QED  BY <2>4, <2>5, <2>6 DEF IInv
<1>4. CASE UNCHANGED toCli
  <2>1. TypeOK'  BY <1>1, <1>4 DEF IInv, TypeOK
  <2>. QED  BY <1>1, <1>4, <2>1 DEF IInv, ClientInv, SentInv, CurInv, ReplyInv, GotInv, Reply
<1>. QED  BY <1>3, <1>4 DEF SrvRespond

(* The network loses a datagram on its way to the server.                  *)
LEMMA LoseToSrvIInv ==
  ASSUME IInv, LoseToSrv
  PROVE  IInv'
<1>1. PICK i \in 1..Len(toSrv) : toSrv' = RemoveAt(toSrv, i)  BY DEF LoseToSrv
<1>2. UNCHANGED <<toCli, dups, srvPc, cur, cliPc, query, status, got>>
  BY DEF LoseToSrv
<1>3. toSrv' \in Seq(Datagram) /\ Range(toSrv') \subseteq Range(toSrv)
  <2>1. toSrv \in Seq(Datagram)  BY DEF IInv, TypeOK, Datagram
  <2>. QED  BY <1>1, <2>1, RangeRemoveAt
<1>4. TypeOK'  BY <1>2, <1>3 DEF IInv, TypeOK, Datagram
<1>. QED  BY <1>2, <1>3, <1>4 DEF IInv, ClientInv, SentInv, CurInv, ReplyInv, GotInv, Reply

(* The network loses a datagram on its way to a client.                    *)
LEMMA LoseToCliIInv ==
  ASSUME IInv, LoseToCli
  PROVE  IInv'
<1>1. PICK i \in 1..Len(toCli) : toCli' = RemoveAt(toCli, i)  BY DEF LoseToCli
<1>2. UNCHANGED <<toSrv, dups, srvPc, cur, cliPc, query, status, got>>
  BY DEF LoseToCli
<1>3. toCli' \in Seq(Response) /\ Range(toCli') \subseteq Range(toCli)
  <2>1. toCli \in Seq(Response)  BY DEF IInv, TypeOK, Response
  <2>. QED  BY <1>1, <2>1, RangeRemoveAt
<1>4. TypeOK'  BY <1>2, <1>3 DEF IInv, TypeOK, Response
<1>. QED  BY <1>2, <1>3, <1>4 DEF IInv, ClientInv, SentInv, CurInv, ReplyInv, GotInv, Reply

(* The network duplicates a datagram: the copy is one already in flight.   *)
LEMMA DuplicateIInv ==
  ASSUME IInv, Duplicate
  PROVE  IInv'
<1>1. /\ dups < MaxDup /\ dups' = dups + 1
      /\ UNCHANGED <<srvPc, cur, cliPc, query, status, got>>
  BY DEF Duplicate
<1>2. toSrv \in Seq(Datagram) /\ toCli \in Seq(Response)
  BY DEF IInv, TypeOK, Datagram, Response
<1>3. CASE \E i \in 1..Len(toSrv) : toSrv' = Append(toSrv, toSrv[i]) /\ UNCHANGED toCli
  <2>1. PICK i \in 1..Len(toSrv) : toSrv' = Append(toSrv, toSrv[i]) /\ UNCHANGED toCli
    BY <1>3
  <2>2. toSrv[i] \in Range(toSrv) /\ toSrv[i] \in Datagram  BY <1>2, InRange
  <2>3. toSrv' \in Seq(Datagram) /\ Range(toSrv') = Range(toSrv) \cup {toSrv[i]}
    BY <1>2, <2>1, <2>2, RangeAppend
  <2>4. Range(toSrv') = Range(toSrv)  BY <2>2, <2>3
  <2>5. TypeOK'
    <3>1. dups' \in Nat  BY <1>1 DEF IInv, TypeOK
    <3>2. toSrv' \in Seq(Datagram)  BY <2>3
    <3>. QED  BY <1>1, <2>1, <3>1, <3>2 DEF IInv, TypeOK, Datagram
  <2>. QED  BY <1>1, <2>1, <2>4, <2>5
            DEF IInv, ClientInv, SentInv, CurInv, ReplyInv, GotInv, Reply
<1>4. CASE \E i \in 1..Len(toCli) : toCli' = Append(toCli, toCli[i]) /\ UNCHANGED toSrv
  <2>1. PICK i \in 1..Len(toCli) : toCli' = Append(toCli, toCli[i]) /\ UNCHANGED toSrv
    BY <1>4
  <2>2. toCli[i] \in Range(toCli) /\ toCli[i] \in Response  BY <1>2, InRange
  <2>3. toCli' \in Seq(Response) /\ Range(toCli') = Range(toCli) \cup {toCli[i]}
    BY <1>2, <2>1, <2>2, RangeAppend
  <2>4. Range(toCli') = Range(toCli)  BY <2>2, <2>3
  <2>5. TypeOK'
    <3>1. dups' \in Nat  BY <1>1 DEF IInv, TypeOK
    <3>2. toCli' \in Seq(Response)  BY <2>3
    <3>. QED  BY <1>1, <2>1, <3>1, <3>2 DEF IInv, TypeOK, Response
  <2>. QED  BY <1>1, <2>1, <2>4, <2>5
            DEF IInv, ClientInv, SentInv, CurInv, ReplyInv, GotInv, Reply
<1>. QED  BY <1>3, <1>4 DEF Duplicate

(* A step that changes no variable.                                        *)
LEMMA StutterIInv ==
  ASSUME IInv, UNCHANGED vars
  PROVE  IInv'
<1>1. UNCHANGED <<toSrv, toCli, dups, srvPc, cur, cliPc, query, status, got>>
  BY DEF vars
<1>. QED  BY <1>1 DEF IInv, TypeOK, ClientInv, SentInv, CurInv, ReplyInv, GotInv, Reply

(* Every step of the clients, the server loop and the network keeps the   *)
(* inductive invariant.                                                     *)
LEMMA NextIInv == IInv /\ [Next]_vars => IInv'
<1> SUFFICES ASSUME IInv, [Next]_vars PROVE IInv'  OBVIOUS
<1>1. CASE \E c \in Clients : CliSend(c) \/ CliRecv(c) \/ CliTimeout(c)
  BY <1>1, CliSendIInv, CliRecvIInv, CliTimeoutIInv
<1>2. CASE SrvRecv  BY <1>2, SrvRecvIInv
<1>3. CASE SrvRespond  BY <1>3, SrvRespondIInv
<1>4. CASE LoseToSrv  BY <1>4, LoseToSrvIInv
<1>5. CASE LoseToCli  BY <1>5, LoseToCliIInv
<1>6. CASE Duplicate  BY <1>6, DuplicateIInv
<1>7. CASE Terminated \/ UNCHANGED vars  BY <1>7, StutterIInv DEF Terminated
<1>. QED  BY <1>1, <1>2, <1>3, <1>4, <1>5, <1>6, <1>7 DEF Next

-----------------------------------------------------------------------------
(* The datagrams in flight and the results carry the right addresses in  *)
(* every reachable state.                                                   *)
THEOREM Invariance == Spec => []IInv
<1>1. Init => IInv  BY InitIInv
<1>2. IInv /\ [Next]_vars => IInv'  BY NextIInv
<1>. QED  BY <1>1, <1>2, PTL DEF Spec

(* Client isolation under loss, duplication and reordering, for every set  *)
(* of clients and queries: whatever a client accepts in recvfrom as its    *)
(* SUCCESS is the response dns_udp_server builds for the first 512 bytes   *)
(* of that client's own query, never another client's.                   *)
THEOREM Isolation ==
  Spec => [](\A c \in Clients : status[c] = "SUCCESS" => got[c] = Reply(c))
BY Invariance, PTL DEF IInv, GotInv

(* For queries that fit the server's 512-byte buffer, as every datagram    *)
(* run_tests sends does (at most 64 bytes), a client that records SUCCESS   *)
(* received spec 4.1 and 6's response to its own query.                    *)
THEOREM ReplyCorrect ==
  ASSUME \A q \in Queries : Len(q) <= MaxDatagram
  PROVE  Spec => []ReplyMatchesQuery
<1>1. IInv => ReplyMatchesQuery
  <2> SUFFICES ASSUME IInv, NEW c \in Clients, status[c] = "SUCCESS",
                      Len(query[c]) >= 12
               PROVE  got[c] = SpecResponse(query[c])
    BY DEF ReplyMatchesQuery
  <2>1. cliPc[c] # "send"  BY DEF IInv, ClientInv
  <2>2. query[c] \in Queries /\ query[c] \in Seq(Byte)
    BY <2>1, UdpAssumption DEF IInv, ClientInv
  <2>3. Take(query[c], MaxDatagram) = query[c]
    <3>1. MaxDatagram \in Nat  BY DEF MaxDatagram
    <3>. QED  BY <2>2, <3>1, TakeAll
  <2>4. got[c] = BuildResponse(query[c])  BY <2>3 DEF IInv, GotInv, Reply
  <2>. QED  BY <2>2, <2>4, BuildMatchesSpec
<1>. QED  BY <1>1, Invariance, PTL

=============================================================================
