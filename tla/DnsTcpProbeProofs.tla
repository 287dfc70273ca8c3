-------------------------- MODULE DnsTcpProbeProofs --------------------------
(***************************************************************************)
(* Proofs about DnsTcpProbe for every set of payloads of at most 4096      *)
(* bytes and every set of segment offsets: the state stays well typed, and *)
(* whatever handle_dns_tcp sends is the framed DNS response spec 4.1 and 6  *)
(* define for the query it read, whenever that query holds a full header.  *)
(***************************************************************************)
EXTENDS DnsTcpProbe, DnsCodecProofs

(* Bytes of the client's stream never exceed the payload it sent, and the   *)
(* handler sends at most once, after which it is closed and its query is    *)
(* fixed.                                                                   *)
StreamInv ==
  /\ Len(net["c2s"].wire) + Len(net["c2s"].buf) <= Len(payload)
  /\ cPc \in {"connect", "send"} => net["c2s"].wire = <<>> /\ net["c2s"].buf = <<>>
  /\ Len(query) <= Len(payload)

RespInv ==
  /\ cPc = "connect" => sPc = "idle"
  /\ sent # <<>> => sPc = "closed" /\ sent = Frame(BuildResponse(query))

IInv == TypeOK /\ StreamInv /\ RespInv

-----------------------------------------------------------------------------
(* recv(4096) returns at most 4096 bytes.                                  *)
LEMMA MinBound ==
  ASSUME NEW x \in Nat
  PROVE  MinOf(RecvSize, x) \in 0..RecvSize
BY DEF MinOf, RecvSize

-----------------------------------------------------------------------------
(* Lemmas on the socket helpers.                                           *)

Stream == [wire : Seq(Byte), fin : BOOLEAN, rst : BOOLEAN,
           buf : Seq(Byte), eof : BOOLEAN, reset : BOOLEAN, arrived : Nat]

Ends == {"client", "server"}

LEMMA DirsFacts ==
  /\ \A e \in Ends : In(e) \in Dirs /\ Out(e) \in Dirs /\ In(e) # Out(e)
  /\ In("server") = "c2s" /\ Out("server") = "s2c"
  /\ In("client") = "s2c" /\ Out("client") = "c2s"
BY DEF Ends, In, Out, Dirs

(* Reading k bytes changes only the reader's receive buffer.               *)
LEMMA ConsumeProps ==
  ASSUME NEW n \in [Dirs -> Stream], NEW e \in Ends, NEW k \in Nat
  PROVE  /\ Consume(n, e, k) \in [Dirs -> Stream]
         /\ Consume(n, e, k)[Out(e)] = n[Out(e)]
         /\ Consume(n, e, k)[In(e)] = [n[In(e)] EXCEPT !.buf = Drop(@, k)]
<1>1. Drop(n[In(e)].buf, k) \in Seq(Byte)  BY DirsFacts, DropProps DEF Stream
<1>. QED  BY <1>1, DirsFacts DEF Consume, Stream

(* Closing sends a FIN or an RST: it changes no bytes.                     *)
LEMMA CloseProps ==
  ASSUME NEW n \in [Dirs -> Stream], NEW e \in Ends
  PROVE  /\ CloseSock(n, e) \in [Dirs -> Stream]
         /\ \A d \in Dirs : /\ CloseSock(n, e)[d].wire = n[d].wire
                            /\ CloseSock(n, e)[d].buf = n[d].buf
                            /\ CloseSock(n, e)[d].eof = n[d].eof
                            /\ CloseSock(n, e)[d].reset = n[d].reset
BY DirsFacts DEF CloseSock, Stream

-----------------------------------------------------------------------------
(* The inductive invariant, one action at a time.                          *)

LEMMA NetType ==
  TypeOK => net \in [Dirs -> Stream]
BY DEF TypeOK, Stream

(* TypeOK in the next state, from the type of each variable.               *)
LEMMA TypeOKPrime ==
  ASSUME net' \in [Dirs -> Stream], blocked' \in BOOLEAN,
         listening' \in BOOLEAN, payload' \in Payloads,
         cPc' \in {"connect", "send", "recv", "done"},
         status' \in {"UNKNOWN", "SUCCESS", "NO_RESPONSE", "TIMEOUT",
                      "REFUSED", "ERROR"},
         recvBytes' \in 0..RecvSize,
         sPc' \in {"idle", "len", "query", "respond", "closed"},
         qlen' \in Nat, qlen' <= 65535,
         query' \in Seq(Byte), sent' \in Seq(Byte)
  PROVE  TypeOK'
<1>1. net' \in [Dirs -> [wire : Seq(Byte), fin : BOOLEAN, rst : BOOLEAN,
                         buf : Seq(Byte), eof : BOOLEAN, reset : BOOLEAN,
                         arrived : Nat]]
  BY DEF Stream
<1>. QED  BY <1>1 DEF TypeOK

(* A step that leaves the client's stream, the payload, the query and the  *)
(* handler's progress alone keeps StreamInv and RespInv.                   *)
LEMMA StreamKept ==
  ASSUME StreamInv,
         net'["c2s"].wire = net["c2s"].wire, net'["c2s"].buf = net["c2s"].buf,
         payload' = payload, query' = query,
         cPc' \in {"connect", "send"} => cPc \in {"connect", "send"}
  PROVE  StreamInv'
BY DEF StreamInv

LEMMA RespKept ==
  ASSUME RespInv, sent' = sent, query' = query, sPc' = sPc,
         cPc' = "connect" => cPc = "connect"
  PROVE  RespInv'
BY DEF RespInv

(* The lengths of a stream's wire and buffer, as opaque terms for the      *)
(* arithmetic steps.                                                       *)
WireLen(st) == Len(st.wire)
BufLen(st) == Len(st.buf)

(* A segment of j bytes moves from the wire to the receive buffer.         *)
LEMMA SegmentProps ==
  ASSUME NEW n \in [Dirs -> Stream], NEW dir \in Dirs,
         NEW j \in 1..Len(n[dir].wire), NEW c \in Nat
  PROVE  LET n2 == [n EXCEPT ![dir].buf = @ \o Take(n[dir].wire, j),
                             ![dir].wire = Drop(@, j),
                             ![dir].arrived = c]
         IN  /\ n2 \in [Dirs -> Stream]
             /\ Len(n2[dir].wire) + Len(n2[dir].buf)
                  = Len(n[dir].wire) + Len(n[dir].buf)
             /\ \A o \in Dirs \ {dir} : n2[o] = n[o]
<1>1. n[dir] \in Stream  OBVIOUS
<1>2. n[dir].wire \in Seq(Byte) /\ n[dir].buf \in Seq(Byte)  BY <1>1 DEF Stream
<1>3. Len(n[dir].wire) \in Nat /\ Len(n[dir].buf) \in Nat  BY <1>2, LenProperties
<1>4. j \in Nat /\ j <= Len(n[dir].wire)  BY <1>3
<1>5. Take(n[dir].wire, j) \in Seq(Byte) /\ Len(Take(n[dir].wire, j)) = j
  <2>1. Take(n[dir].wire, j) \in Seq(Byte)
        /\ Len(Take(n[dir].wire, j)) = MinOf(j, Len(n[dir].wire))
    BY <1>2, <1>4, TakeProps
  <2>. QED  BY <1>3, <1>4, <2>1 DEF MinOf
<1>6. Drop(n[dir].wire, j) \in Seq(Byte)
      /\ Len(Drop(n[dir].wire, j)) = Len(n[dir].wire) - j
  BY <1>2, <1>4, DropProps
<1>7. n[dir].buf \o Take(n[dir].wire, j) \in Seq(Byte)
      /\ Len(n[dir].buf \o Take(n[dir].wire, j)) = Len(n[dir].buf) + j
  BY <1>2, <1>5, ConcatBytes
<1> DEFINE n2 == [n EXCEPT ![dir].buf = @ \o Take(n[dir].wire, j),
                           ![dir].wire = Drop(@, j),
                           ![dir].arrived = c]
<1>8. n2[dir] = [n[dir] EXCEPT !.buf = n[dir].buf \o Take(n[dir].wire, j),
                               !.wire = Drop(n[dir].wire, j),
                               !.arrived = c]
  OBVIOUS
<1>9. n2[dir] \in Stream  BY <1>1, <1>6, <1>7, <1>8 DEF Stream
<1>10. n2 \in [Dirs -> Stream]  BY <1>9
<1>11. Len(n2[dir].wire) + Len(n2[dir].buf) = Len(n[dir].wire) + Len(n[dir].buf)
  <2>1. n2[dir].wire = Drop(n[dir].wire, j)
        /\ n2[dir].buf = n[dir].buf \o Take(n[dir].wire, j)
    BY <1>1, <1>8 DEF Stream
  <2>2. /\ WireLen(n2[dir]) = WireLen(n[dir]) - j
        /\ BufLen(n2[dir]) = BufLen(n[dir]) + j
        /\ WireLen(n[dir]) \in Nat /\ BufLen(n[dir]) \in Nat
    BY <2>1, <1>3, <1>6, <1>7 DEF WireLen, BufLen
  <2>3. WireLen(n2[dir]) + BufLen(n2[dir]) = WireLen(n[dir]) + BufLen(n[dir])
    BY <2>2, <1>4
  <2>. QED  BY <2>3 DEF WireLen, BufLen
<1>12. \A o \in Dirs \ {dir} : n2[o] = n[o]  OBVIOUS
<1>. QED  BY <1>10, <1>11, <1>12

(* The handler reading j bytes of the client's stream.                     *)
LEMMA ServerConsume ==
  ASSUME NEW n \in [Dirs -> Stream], NEW j \in Nat, j <= Len(n["c2s"].buf)
  PROVE  /\ Consume(n, "server", j) \in [Dirs -> Stream]
         /\ Consume(n, "server", j)["c2s"].wire = n["c2s"].wire
         /\ Len(Consume(n, "server", j)["c2s"].buf) = Len(n["c2s"].buf) - j
<1>1. "server" \in Ends  BY DEF Ends
<1>2. Consume(n, "server", j) \in [Dirs -> Stream]
      /\ Consume(n, "server", j)["c2s"] = [n["c2s"] EXCEPT !.buf = Drop(@, j)]
  BY <1>1, ConsumeProps, DirsFacts
<1>3. n["c2s"] \in Stream  BY DEF Dirs
<1>4. Len(Drop(n["c2s"].buf, j)) = Len(n["c2s"].buf) - j
  BY <1>3, DropProps DEF Stream
<1>. QED  BY <1>2, <1>3, <1>4 DEF Stream

(* A step that only removes bytes from the client stream's receive buffer, *)
(* and reads at most what the client sent as the query, keeps StreamInv.   *)
LEMMA StreamShrink ==
  ASSUME StreamInv, TypeOK, net' \in [Dirs -> Stream],
         net'["c2s"].wire = net["c2s"].wire,
         Len(net'["c2s"].buf) <= Len(net["c2s"].buf),
         payload' = payload, cPc' = cPc, Len(query') <= Len(payload)
  PROVE  StreamInv'
<1>1. net \in [Dirs -> Stream]  BY NetType
<1>2. net["c2s"] \in Stream /\ net'["c2s"] \in Stream  BY <1>1 DEF Dirs
<1>3. Len(net["c2s"].buf) \in Nat /\ Len(net'["c2s"].buf) \in Nat
  BY <1>2, LenProperties DEF Stream
<1>4. net["c2s"].buf = <<>> => net'["c2s"].buf = <<>>
  BY <1>2, <1>3, EmptySeq, LenProperties DEF Stream
<1>5. Len(net'["c2s"].wire) + Len(net'["c2s"].buf) <= Len(payload')
  <2>1. Len(net["c2s"].wire) + Len(net["c2s"].buf) <= Len(payload)
    BY DEF StreamInv
  <2>2. \A a, b, b2, c \in Nat : a + b <= c /\ b2 <= b => a + b2 <= c
    OBVIOUS
  <2>3. Len(net["c2s"].wire) \in Nat /\ Len(payload) \in Nat
    BY <1>2, LenProperties, PayloadsAssumption DEF Stream, TypeOK
  <2>. QED  BY <1>3, <2>1, <2>2, <2>3
<1>6. cPc' \in {"connect", "send"} => net'["c2s"].wire = <<>> /\ net'["c2s"].buf = <<>>
  BY <1>4 DEF StreamInv
<1>. QED  BY <1>5, <1>6 DEF StreamInv

LEMMA InitIInv == Init => IInv
<1> SUFFICES ASSUME Init PROVE IInv  OBVIOUS
<1>1. Empty \in Stream  BY DEF Empty, Stream
<1>2. payload \in Seq(Byte)  BY PayloadsAssumption DEF Init
<1>3. net \in [Dirs -> Stream]  BY <1>1 DEF Init
<1>4. recvBytes \in 0..RecvSize  BY DEF Init, RecvSize
<1>5. TypeOK
  <2>1. net \in [Dirs -> [wire : Seq(Byte), fin : BOOLEAN, rst : BOOLEAN,
                          buf : Seq(Byte), eof : BOOLEAN, reset : BOOLEAN,
                          arrived : Nat]]
    BY <1>3 DEF Stream
  <2>2. <<>> \in Seq(Byte)  BY EmptySeq
  <2>3. blocked \in BOOLEAN /\ listening \in BOOLEAN /\ payload \in Payloads
    BY DEF Init
  <2>4. cPc \in {"connect", "send", "recv", "done"}  BY DEF Init
  <2>5. status \in {"UNKNOWN", "SUCCESS", "NO_RESPONSE", "TIMEOUT", "REFUSED",
                    "ERROR"}  BY DEF Init
  <2>6. sPc \in {"idle", "len", "query", "respond", "closed"}  BY DEF Init
  <2>7. qlen \in Nat /\ qlen <= 65535  BY DEF Init
  <2>8. query \in Seq(Byte) /\ sent \in Seq(Byte)  BY <2>2 DEF Init
  <2>. QED  BY <2>1, <2>3, <2>4, <2>5, <2>6, <2>7, <2>8, <1>4 DEF TypeOK
<1>6. StreamInv  BY <1>2, LenProperties DEF Init, StreamInv, Empty, Dirs
<1>7. RespInv  BY DEF Init, RespInv
<1>. QED  BY <1>5, <1>6, <1>7 DEF IInv

LEMMA ClientConnectIInv == IInv /\ ClientConnect => IInv'
<1> SUFFICES ASSUME IInv, ClientConnect PROVE IInv'  OBVIOUS
<1>1. TypeOK'  BY DEF IInv, TypeOK, ClientConnect
<1>2. StreamInv'  BY DEF IInv, StreamInv, ClientConnect
<1>3. RespInv'  BY DEF IInv, RespInv, ClientConnect
<1>. QED  BY <1>1, <1>2, <1>3 DEF IInv

LEMMA ClientSendIInv == IInv /\ ClientSend => IInv'
<1> SUFFICES ASSUME IInv, ClientSend PROVE IInv'  OBVIOUS
<1>1. payload \in Seq(Byte)  BY PayloadsAssumption DEF IInv, TypeOK
<1>2. net \in [Dirs -> Stream]  BY NetType DEF IInv
<1>3. CASE ~net["s2c"].reset
  <2>1. net["c2s"].wire = <<>> /\ net["c2s"].buf = <<>>
    BY DEF IInv, StreamInv, ClientSend
  <2>2. /\ net' = [net EXCEPT !["c2s"].wire = <<>> \o payload]
        /\ cPc' = "recv"
        /\ UNCHANGED <<blocked, listening, payload, status, recvBytes, sPc, qlen,
                       query, sent>>
    BY <1>3, <2>1 DEF ClientSend
  <2>3. <<>> \o payload = payload  BY <1>1, ConcatEmptySeq
  <2>4. net' = [net EXCEPT !["c2s"].wire = payload]  BY <2>2, <2>3
  <2>5. net' \in [Dirs -> Stream]  BY <1>1, <1>2, <2>4 DEF Stream, Dirs
  <2>6. TypeOK'  BY <2>2, <2>5 DEF IInv, TypeOK, Stream
  <2>7. StreamInv'
    <3>1. net'["c2s"].wire = payload /\ net'["c2s"].buf = <<>>
      BY <1>2, <2>1, <2>4 DEF Dirs, Stream
    <3>2. Len(query') <= Len(payload')  BY <2>2 DEF IInv, StreamInv
    <3>3. Len(payload) \in Nat /\ Len(<<>>) = 0  BY <1>1, LenProperties
    <3>4. Len(net'["c2s"].wire) + Len(net'["c2s"].buf) <= Len(payload')
      <4>1. payload' = payload  BY <2>2
      <4>2. Len(net'["c2s"].wire) = Len(payload)  BY <3>1
      <4>3. Len(net'["c2s"].buf) = 0  BY <3>1, <3>3
      <4>. QED  BY <3>3, <4>1, <4>2, <4>3
    <3>5. cPc' \notin {"connect", "send"}  BY <2>2
    <3>. QED  BY <3>2, <3>4, <3>5 DEF StreamInv
  <2>8. RespInv'  BY <2>2 DEF IInv, RespInv
  <2>. QED  BY <2>6, <2>7, <2>8 DEF IInv
<1>4. CASE net["s2c"].reset
  <2>1. cPc' = "done"
      /\ UNCHANGED <<net, blocked, listening, payload, recvBytes, sPc, qlen, query, sent>>
      /\ status' = "ERROR"
    BY <1>4 DEF ClientSend
  <2>2. TypeOK'  BY <2>1 DEF IInv, TypeOK
  <2>3. StreamInv'  BY <2>1 DEF IInv, StreamInv
  <2>4. RespInv'  BY <2>1 DEF IInv, RespInv
  <2>. QED  BY <2>2, <2>3, <2>4 DEF IInv
<1>. QED  BY <1>3, <1>4

LEMMA ClientRecvIInv == IInv /\ ClientRecv => IInv'
<1> SUFFICES ASSUME IInv, ClientRecv PROVE IInv'  OBVIOUS
<1> DEFINE rk == MinOf(RecvSize, Len(net["s2c"].buf))
<1>1. net \in [Dirs -> Stream]  BY NetType DEF IInv
<1>2. net["s2c"] \in Stream  BY <1>1 DEF Dirs
<1>3. rk \in 0..RecvSize
  <2>1. net["s2c"].buf \in Seq(Byte)  BY <1>2 DEF Stream
  <2>2. Len(net["s2c"].buf) \in Nat  BY <2>1, LenProperties
  <2>. QED  BY <2>2, MinBound DEF rk
<1>4. /\ UNCHANGED <<blocked, listening, payload, sPc, qlen, query, sent>>
      /\ cPc' = "done"
  BY DEF ClientRecv
<1>5. /\ net' \in [Dirs -> Stream]
      /\ net'["c2s"].wire = net["c2s"].wire
      /\ net'["c2s"].buf = net["c2s"].buf
      /\ recvBytes' \in 0..RecvSize
      /\ status' \in {"SUCCESS", "ERROR", "NO_RESPONSE"}
  <2>1. CASE net' = CloseSock(Consume(net, "client", rk), "client")
             /\ recvBytes' = rk /\ status' = "SUCCESS"
    <3>1. Consume(net, "client", rk) \in [Dirs -> Stream]
          /\ Consume(net, "client", rk)["c2s"] = net["c2s"]
      <4>1. "client" \in Ends /\ rk \in Nat  BY <1>3 DEF Ends
      <4>2. Consume(net, "client", rk) \in [Dirs -> Stream]
            /\ Consume(net, "client", rk)[Out("client")] = net[Out("client")]
        BY <1>1, <4>1, ConsumeProps
      <4>. QED  BY <4>2, DirsFacts
    <3>. QED  BY <2>1, <3>1, <1>3, CloseProps DEF Ends, Dirs
  <2>2. CASE UNCHANGED <<recvBytes, net>> /\ status' = "ERROR"
    BY <2>2, <1>1 DEF IInv, TypeOK
  <2>3. CASE net' = CloseSock(net, "client") /\ UNCHANGED recvBytes
             /\ status' = "NO_RESPONSE"
    BY <2>3, <1>1, CloseProps DEF IInv, TypeOK, Ends, Dirs
  <2>. QED  BY <2>1, <2>2, <2>3 DEF ClientRecv
<1>6. TypeOK'  BY <1>4, <1>5, TypeOKPrime DEF IInv, TypeOK
<1>7. StreamInv'  BY <1>4, <1>5, StreamKept DEF IInv
<1>8. RespInv'  BY <1>4, RespKept DEF IInv
<1>. QED  BY <1>6, <1>7, <1>8 DEF IInv

LEMMA SrvRecvLenIInv == IInv /\ SrvRecvLen => IInv'
<1> SUFFICES ASSUME IInv, SrvRecvLen PROVE IInv'  OBVIOUS
<1> DEFINE got == Take(net["c2s"].buf, 2)
<1>1. net \in [Dirs -> Stream]  BY NetType DEF IInv
<1>2. net["c2s"].buf \in Seq(Byte)  BY <1>1 DEF Dirs, Stream
<1>3. got \in Seq(Byte) /\ Len(got) <= Len(net["c2s"].buf) /\ Len(got) \in Nat
  <2>1. got \in Seq(Byte) /\ Len(got) = MinOf(2, Len(net["c2s"].buf))
    BY <1>2, TakeProps
  <2>2. Len(net["c2s"].buf) \in Nat  BY <1>2, LenProperties
  <2>3. \A x \in Nat : MinOf(2, x) <= x /\ MinOf(2, x) \in Nat  BY DEF MinOf
  <2>. QED  BY <2>1, <2>2, <2>3
<1>4. /\ sPc = "len"
      /\ UNCHANGED <<blocked, listening, payload, cPc, status, recvBytes, query,
                     sent>>
  BY DEF SrvRecvLen
<1>5. /\ net' \in [Dirs -> Stream]
      /\ net'["c2s"].wire = net["c2s"].wire
      /\ Len(net'["c2s"].buf) <= Len(net["c2s"].buf)
      /\ qlen' \in Nat /\ qlen' <= 65535
      /\ sPc' \in {"query", "closed"}
  <2>1. CASE Len(got) = 2 /\ qlen' = Unpack16(got) /\ sPc' = "query"
             /\ net' = Consume(net, "server", 2)
    <3>1. 2 <= Len(net["c2s"].buf)  BY <2>1, <1>3
    <3>2. Consume(net, "server", 2) \in [Dirs -> Stream]
          /\ Consume(net, "server", 2)["c2s"].wire = net["c2s"].wire
          /\ Len(Consume(net, "server", 2)["c2s"].buf) = Len(net["c2s"].buf) - 2
      BY <1>1, <3>1, ServerConsume
    <3>3. Unpack16(got) \in Nat /\ Unpack16(got) <= 65535
      BY <2>1, <1>3, UnpackProps
    <3>4. Len(net["c2s"].buf) \in Nat  BY <1>2, LenProperties
    <3>. QED  BY <2>1, <3>2, <3>3, <3>4
  <2>2. CASE sPc' = "closed" /\ UNCHANGED qlen
             /\ net' = CloseSock(Consume(net, "server", Len(got)), "server")
    <3>1. Consume(net, "server", Len(got)) \in [Dirs -> Stream]
          /\ Consume(net, "server", Len(got))["c2s"].wire = net["c2s"].wire
          /\ Len(Consume(net, "server", Len(got))["c2s"].buf)
               <= Len(net["c2s"].buf)
      BY <1>1, <1>3, ServerConsume
    <3>. QED  BY <2>2, <3>1, CloseProps DEF Ends, Dirs, IInv, TypeOK
  <2>3. CASE sPc' = "closed" /\ UNCHANGED qlen /\ net' = CloseSock(net, "server")
    BY <2>3, <1>1, CloseProps DEF Ends, Dirs, IInv, TypeOK
  <2>. QED  BY <2>1, <2>2, <2>3 DEF SrvRecvLen
<1>6. TypeOK'  BY <1>4, <1>5, TypeOKPrime DEF IInv, TypeOK
<1>7. StreamInv'
  <2>1. Len(query') <= Len(payload)  BY <1>4 DEF IInv, StreamInv
  <2>. QED  BY <1>4, <1>5, <2>1, StreamShrink DEF IInv
<1>8. RespInv'  BY <1>4, <1>5 DEF IInv, RespInv
<1>. QED  BY <1>6, <1>7, <1>8 DEF IInv

LEMMA SrvRecvQueryIInv == IInv /\ SrvRecvQuery => IInv'
<1> SUFFICES ASSUME IInv, SrvRecvQuery PROVE IInv'  OBVIOUS
<1> DEFINE got == Take(net["c2s"].buf, qlen)
<1>1. net \in [Dirs -> Stream]  BY NetType DEF IInv
<1>2. net["c2s"].buf \in Seq(Byte) /\ net["c2s"].wire \in Seq(Byte)
  BY <1>1 DEF Dirs, Stream
<1>3. got \in Seq(Byte) /\ Len(got) <= Len(net["c2s"].buf) /\ Len(got) \in Nat
  <2>1. qlen \in Nat  BY DEF IInv, TypeOK
  <2>2. got \in Seq(Byte) /\ Len(got) = MinOf(qlen, Len(net["c2s"].buf))
    BY <1>2, <2>1, TakeProps
  <2>3. Len(net["c2s"].buf) \in Nat  BY <1>2, LenProperties
  <2>4. \A x, y \in Nat : MinOf(y, x) <= x /\ MinOf(y, x) \in Nat  BY DEF MinOf
  <2>. QED  BY <2>1, <2>2, <2>3, <2>4
<1>4. Len(got) <= Len(payload)
  <2>1. Len(net["c2s"].wire) + Len(net["c2s"].buf) <= Len(payload)
    BY DEF IInv, StreamInv
  <2>2. Len(net["c2s"].wire) \in Nat /\ Len(net["c2s"].buf) \in Nat
    BY <1>2, LenProperties
  <2>3. \A a, b, c, g \in Nat : g <= b /\ a + b <= c => g <= c  OBVIOUS
  <2>4. Len(payload) \in Nat
    BY PayloadsAssumption, LenProperties DEF IInv, TypeOK
  <2>. QED  BY <1>3, <2>1, <2>2, <2>3, <2>4
<1>5. /\ sPc = "query"
      /\ UNCHANGED <<blocked, listening, payload, cPc, status, recvBytes, qlen,
                     sent>>
  BY DEF SrvRecvQuery
<1>6. /\ net' \in [Dirs -> Stream]
      /\ net'["c2s"].wire = net["c2s"].wire
      /\ Len(net'["c2s"].buf) <= Len(net["c2s"].buf)
      /\ query' \in Seq(Byte) /\ Len(query') <= Len(payload)
      /\ sPc' \in {"respond", "closed"}
  <2>1. CASE query' = got /\ sPc' = "respond"
             /\ net' = Consume(net, "server", Len(got))
    <3>1. Consume(net, "server", Len(got)) \in [Dirs -> Stream]
          /\ Consume(net, "server", Len(got))["c2s"].wire = net["c2s"].wire
          /\ Len(Consume(net, "server", Len(got))["c2s"].buf)
               <= Len(net["c2s"].buf)
      BY <1>1, <1>3, ServerConsume
    <3>. QED  BY <2>1, <3>1, <1>3, <1>4
  <2>2. CASE sPc' = "closed" /\ UNCHANGED query /\ net' = CloseSock(net, "server")
    BY <2>2, <1>1, CloseProps DEF Ends, Dirs, IInv, TypeOK, StreamInv
  <2>. QED  BY <2>1, <2>2 DEF SrvRecvQuery
<1>7. TypeOK'  BY <1>5, <1>6, TypeOKPrime DEF IInv, TypeOK
<1>8. StreamInv'  BY <1>5, <1>6, StreamShrink DEF IInv
<1>9. RespInv'  BY <1>5, <1>6 DEF IInv, RespInv
<1>. QED  BY <1>7, <1>8, <1>9 DEF IInv

LEMMA SrvRespondIInv == IInv /\ SrvRespond => IInv'
<1> SUFFICES ASSUME IInv, SrvRespond PROVE IInv'  OBVIOUS
<1> DEFINE msg == Frame(BuildResponse(query))
           grown == [net EXCEPT !["s2c"].wire = @ \o msg]
<1>1. net \in [Dirs -> Stream]  BY NetType DEF IInv
<1>2. msg \in Seq(Byte)
  <2>1. query \in Seq(Byte)  BY DEF IInv, TypeOK
  <2>2. Len(query) <= RecvSize
    <3>1. Len(query) <= Len(payload)  BY DEF IInv, StreamInv
    <3>2. Len(payload) <= RecvSize  BY PayloadsAssumption DEF IInv, TypeOK
    <3>3. Len(query) \in Nat /\ Len(payload) \in Nat
      BY <2>1, PayloadsAssumption, LenProperties DEF IInv, TypeOK
    <3>. QED  BY <3>1, <3>2, <3>3 DEF RecvSize
  <2>3. BuildResponse(query) \in Seq(Byte)
        /\ Len(BuildResponse(query)) <= Len(query) + 28
    BY <2>1, BuildProps
  <2>4. Len(BuildResponse(query)) <= 65535
    <3>1. \A x, y \in Nat : x <= RecvSize /\ y <= x + 28 => y <= 65535
      BY DEF RecvSize
    <3>2. Len(query) \in Nat /\ Len(BuildResponse(query)) \in Nat
      BY <2>1, <2>3, LenProperties
    <3>. QED  BY <2>2, <2>3, <3>1, <3>2
  <2>. QED  BY <2>3, <2>4, FrameProps
<1>3. grown \in [Dirs -> Stream] /\ grown["c2s"] = net["c2s"]
  <2>1. net["s2c"].wire \o msg \in Seq(Byte)
    BY <1>1, <1>2, ConcatBytes DEF Dirs, Stream
  <2>. QED  BY <1>1, <2>1 DEF Dirs, Stream
<1>4. /\ sPc = "respond" /\ sPc' = "closed"
      /\ UNCHANGED <<blocked, listening, payload, cPc, status, recvBytes, qlen,
                     query>>
  BY DEF SrvRespond
<1>5. /\ net' \in [Dirs -> Stream]
      /\ net'["c2s"].wire = net["c2s"].wire
      /\ net'["c2s"].buf = net["c2s"].buf
      /\ sent' \in Seq(Byte)
      /\ sent' # <<>> => sent' = msg
  <2>1. CASE sent' = msg /\ net' = CloseSock(grown, "server")
    BY <2>1, <1>2, <1>3, CloseProps DEF Ends, Dirs
  <2>2. CASE UNCHANGED sent /\ net' = CloseSock(net, "server")
    BY <2>2, <1>1, CloseProps DEF Ends, Dirs, IInv, TypeOK, RespInv
  <2>. QED  BY <2>1, <2>2 DEF SrvRespond
<1>6. TypeOK'  BY <1>4, <1>5, TypeOKPrime DEF IInv, TypeOK
<1>7. StreamInv'  BY <1>4, <1>5, StreamKept DEF IInv
<1>8. RespInv'  BY <1>4, <1>5 DEF IInv, RespInv
<1>. QED  BY <1>6, <1>7, <1>8 DEF IInv

(* A segment arrives: bytes move from a wire to its receive buffer, so the *)
(* client stream's byte count is kept, and the client, having put bytes on *)
(* the wire, is past sending.                                              *)
LEMMA DeliverIInv ==
  ASSUME NEW dir \in Dirs
  PROVE  IInv /\ Deliver(dir) => IInv'
<1> SUFFICES ASSUME IInv, Deliver(dir) PROVE IInv'  OBVIOUS
<1>1. net \in [Dirs -> Stream]  BY NetType DEF IInv
<1>2. net[dir].wire # <<>> /\ net[dir].arrived \in Nat
      /\ Len(net[dir].wire) \in Nat
  BY <1>1, LenProperties DEF Deliver, Stream
<1>3. PICK c \in (Cuts \cup {net[dir].arrived + Len(net[dir].wire)})
               \cap (net[dir].arrived + 1)..(net[dir].arrived + Len(net[dir].wire)) :
        net' = [net EXCEPT ![dir].buf = @ \o Take(net[dir].wire, c - net[dir].arrived),
                           ![dir].wire = Drop(@, c - net[dir].arrived),
                           ![dir].arrived = c]
  BY DEF Deliver
<1> DEFINE j == c - net[dir].arrived
<1>4. j \in 1..Len(net[dir].wire) /\ c \in Nat  BY <1>2, <1>3
<1>5. /\ net' \in [Dirs -> Stream]
      /\ Len(net'[dir].wire) + Len(net'[dir].buf)
           = Len(net[dir].wire) + Len(net[dir].buf)
      /\ \A o \in Dirs \ {dir} : net'[o] = net[o]
  <2>1. LET n2 == [net EXCEPT ![dir].buf = @ \o Take(net[dir].wire, j),
                              ![dir].wire = Drop(@, j),
                              ![dir].arrived = c]
        IN  /\ n2 \in [Dirs -> Stream]
            /\ Len(n2[dir].wire) + Len(n2[dir].buf)
                 = Len(net[dir].wire) + Len(net[dir].buf)
            /\ \A o \in Dirs \ {dir} : n2[o] = net[o]
    BY <1>1, <1>4, SegmentProps
  <2>. QED  BY <2>1, <1>3, Zenon
<1>6. UNCHANGED <<blocked, listening, payload, cPc, status, recvBytes, sPc,
                  qlen, query, sent>>
  BY DEF Deliver
<1>7. TypeOK'  BY <1>5, <1>6, TypeOKPrime DEF IInv, TypeOK
<1>8. RespInv'  BY <1>6, RespKept DEF IInv
<1>9. StreamInv'
  <2>1. CASE dir = "c2s"
    <3>1. cPc \notin {"connect", "send"}  BY <2>1, <1>2 DEF IInv, StreamInv
    <3>2. Len(net'["c2s"].wire) + Len(net'["c2s"].buf) <= Len(payload')
      BY <2>1, <1>5, <1>6 DEF IInv, StreamInv
    <3>. QED  BY <3>1, <3>2, <1>6 DEF IInv, StreamInv
  <2>2. CASE dir = "s2c"
    <3>1. net'["c2s"] = net["c2s"]  BY <2>2, <1>5 DEF Dirs
    <3>. QED  BY <3>1, <1>6, StreamKept DEF IInv
  <2>. QED  BY <2>1, <2>2 DEF Dirs
<1>. QED  BY <1>7, <1>8, <1>9 DEF IInv

(* A FIN or an RST arriving, or the middlebox black-holing, moves no bytes. *)
LEMMA FlagsIInv ==
  ASSUME NEW dir \in Dirs
  PROVE  IInv /\ (DeliverFin(dir) \/ DeliverRst(dir) \/ Blackhole) => IInv'
<1> SUFFICES ASSUME IInv, DeliverFin(dir) \/ DeliverRst(dir) \/ Blackhole
             PROVE  IInv'
  OBVIOUS
<1>1. net \in [Dirs -> Stream]  BY NetType DEF IInv
<1>2. UNCHANGED <<listening, payload, cPc, status, recvBytes, sPc, qlen, query,
                  sent>>
  <2>1. CASE DeliverFin(dir)  BY <2>1 DEF DeliverFin
  <2>2. CASE DeliverRst(dir)  BY <2>2 DEF DeliverRst
  <2>3. CASE Blackhole  BY <2>3 DEF Blackhole
  <2>. QED  BY <2>1, <2>2, <2>3
<1>0. blocked' \in BOOLEAN
  <2>1. CASE DeliverFin(dir)  BY <2>1 DEF DeliverFin, IInv, TypeOK
  <2>2. CASE DeliverRst(dir)  BY <2>2 DEF DeliverRst, IInv, TypeOK
  <2>3. CASE Blackhole  BY <2>3 DEF Blackhole
  <2>. QED  BY <2>1, <2>2, <2>3
<1>3. /\ net' \in [Dirs -> Stream]
      /\ net'["c2s"].wire = net["c2s"].wire
      /\ net'["c2s"].buf = net["c2s"].buf
  <2>1. CASE DeliverFin(dir)  BY <2>1, <1>1 DEF DeliverFin, Stream, Dirs
  <2>2. CASE DeliverRst(dir)  BY <2>2, <1>1 DEF DeliverRst, Stream, Dirs
  <2>3. CASE Blackhole  BY <2>3, <1>1 DEF Blackhole
  <2>. QED  BY <2>1, <2>2, <2>3
<1>4. TypeOK'  BY <1>0, <1>2, <1>3, TypeOKPrime DEF IInv, TypeOK
<1>5. StreamInv'  BY <1>2, <1>3, StreamKept DEF IInv
<1>6. RespInv'  BY <1>2, RespKept DEF IInv
<1>. QED  BY <1>4, <1>5, <1>6 DEF IInv

(* An injected RST discards what is still on the wires.                    *)
LEMMA InjectResetIInv == IInv /\ InjectReset => IInv'
<1> SUFFICES ASSUME IInv, InjectReset PROVE IInv'  OBVIOUS
<1>1. net \in [Dirs -> Stream]  BY NetType DEF IInv
<1>2. UNCHANGED <<blocked, listening, payload, cPc, status, recvBytes, sPc,
                  qlen, query, sent>>
  BY DEF InjectReset
<1>3. /\ net' \in [Dirs -> Stream]
      /\ net'["c2s"].wire = <<>>
      /\ net'["c2s"].buf = net["c2s"].buf
  <2>1. <<>> \in Seq(Byte)  BY EmptySeq
  <2>. QED  BY <1>1, <2>1 DEF InjectReset, Stream, Dirs
<1>4. TypeOK'  BY <1>2, <1>3, TypeOKPrime DEF IInv, TypeOK
<1>5. StreamInv'
  <2>1. Len(net'["c2s"].wire) + Len(net'["c2s"].buf) <= Len(payload')
    <3>1. net["c2s"] \in Stream  BY <1>1 DEF Dirs
    <3>2. WireLen(net["c2s"]) \in Nat /\ BufLen(net["c2s"]) \in Nat
          /\ WireLen(net'["c2s"]) = 0 /\ BufLen(net'["c2s"]) = BufLen(net["c2s"])
          /\ WireLen(net["c2s"]) + BufLen(net["c2s"]) <= Len(payload)
      BY <3>1, <1>3, LenProperties DEF WireLen, BufLen, Stream, IInv, StreamInv
    <3>3. WireLen(net'["c2s"]) + BufLen(net'["c2s"]) <= Len(payload')
      BY <3>2, <1>2
    <3>. QED  BY <3>3 DEF WireLen, BufLen
  <2>2. cPc' \in {"connect", "send"}
          => net'["c2s"].wire = <<>> /\ net'["c2s"].buf = <<>>
    BY <1>2, <1>3 DEF IInv, StreamInv
  <2>. QED  BY <2>1, <2>2, <1>2 DEF IInv, StreamInv
<1>6. RespInv'  BY <1>2, RespKept DEF IInv
<1>. QED  BY <1>4, <1>5, <1>6 DEF IInv

LEMMA StutterIInv == IInv /\ UNCHANGED vars => IInv'
<1> SUFFICES ASSUME IInv, UNCHANGED vars PROVE IInv'  OBVIOUS
<1>1. /\ net' = net /\ blocked' = blocked /\ listening' = listening
      /\ payload' = payload /\ cPc' = cPc /\ status' = status
      /\ recvBytes' = recvBytes /\ sPc' = sPc /\ qlen' = qlen
      /\ query' = query /\ sent' = sent
  BY DEF vars
<1>2. TypeOK'  BY <1>1 DEF IInv, TypeOK
<1>3. StreamInv'  BY <1>1 DEF IInv, StreamInv
<1>4. RespInv'  BY <1>1 DEF IInv, RespInv
<1>. QED  BY <1>2, <1>3, <1>4 DEF IInv

LEMMA TerminatedIInv == IInv /\ Terminated => IInv'
BY StutterIInv DEF Terminated

LEMMA NextIInv == IInv /\ [Next]_vars => IInv'
<1> SUFFICES ASSUME IInv, [Next]_vars PROVE IInv'  OBVIOUS
<1>1. CASE ClientConnect  BY <1>1, ClientConnectIInv
<1>2. CASE ClientSend  BY <1>2, ClientSendIInv
<1>3. CASE ClientRecv  BY <1>3, ClientRecvIInv
<1>4. CASE SrvRecvLen  BY <1>4, SrvRecvLenIInv
<1>5. CASE SrvRecvQuery  BY <1>5, SrvRecvQueryIInv
<1>6. CASE SrvRespond  BY <1>6, SrvRespondIInv
<1>7. CASE \E dir \in Dirs : Deliver(dir) \/ DeliverFin(dir) \/ DeliverRst(dir)
  BY <1>7, DeliverIInv, FlagsIInv
<1>8. CASE Blackhole  BY <1>8, FlagsIInv DEF Dirs
<1>9. CASE InjectReset  BY <1>9, InjectResetIInv
<1>10. CASE Terminated  BY <1>10, TerminatedIInv
<1>11. CASE UNCHANGED vars  BY <1>11, StutterIInv
<1>. QED  BY <1>1, <1>2, <1>3, <1>4, <1>5, <1>6, <1>7, <1>8, <1>9, <1>10,
             <1>11 DEF Next

-----------------------------------------------------------------------------
(* The inductive invariant holds in every reachable state of the probe.    *)
THEOREM Invariance == Spec => []IInv
<1>1. Init => IInv  BY InitIInv
<1>2. IInv /\ [Next]_vars => IInv'  BY NextIInv
<1>. QED  BY <1>1, <1>2, PTL DEF Spec

(* Every variable of the client and of handle_dns_tcp keeps its type.      *)
THEOREM TypeCorrect == Spec => []TypeOK
BY Invariance, PTL DEF IInv

(* Whatever the segmentation, resets and black-holing, every response that *)
(* handle_dns_tcp sends for a query of at least 12 bytes is the framed      *)
(* response of spec 4.1 and 6, built field by field from that query.       *)
THEOREM ResponseCorrect == Spec => []ResponseMatchesSpec
<1>1. IInv => ResponseMatchesSpec
  <2> SUFFICES ASSUME IInv, sent # <<>>, Len(query) >= 12
               PROVE  sent = Frame(SpecResponse(query))
    BY DEF ResponseMatchesSpec
  <2>1. sent = Frame(BuildResponse(query))  BY DEF IInv, RespInv
  <2>2. BuildResponse(query) = SpecResponse(query)
    BY BuildMatchesSpec DEF IInv, TypeOK
  <2>. QED  BY <2>1, <2>2
<1>. QED  BY <1>1, Invariance, PTL
=============================================================================
