---------------------------- MODULE DnsCodecProofs ----------------------------
(***************************************************************************)
(* Lemmas about the byte-string operators of DnsCodec: the types and      *)
(* lengths of Python's slices, struct.pack/unpack and the response, and    *)
(* that the response both DNS responders build is the one spec 4.1 and 6   *)
(* define.  DnsTcpProbeProofs and DnsUdpServerProofs cite them.            *)
(***************************************************************************)
EXTENDS DnsCodec, SequenceTheorems, TLAPS


(* s[:n] is a byte string of min(n, len(s)) bytes.                         *)
LEMMA TakeProps ==
  ASSUME NEW s \in Seq(Byte), NEW n \in Nat
  PROVE  /\ Take(s, n) \in Seq(Byte)
         /\ Len(Take(s, n)) = MinOf(n, Len(s))
<1>1. \A i \in 1..MinOf(n, Len(s)) : s[i] \in Byte
  BY LenProperties DEF MinOf
<1>. QED  BY <1>1, SubSeqProperties DEF Take, MinOf

(* s[n:] is a byte string of len(s) - n bytes (none when n >= len(s)).     *)
LEMMA DropProps ==
  ASSUME NEW s \in Seq(Byte), NEW n \in Nat
  PROVE  /\ Drop(s, n) \in Seq(Byte)
         /\ Len(Drop(s, n)) = IF n <= Len(s) THEN Len(s) - n ELSE 0
<1>1. \A i \in n + 1..Len(s) : s[i] \in Byte
  BY LenProperties
<1>. QED  BY <1>1, SubSeqProperties DEF Drop

(* struct.pack('!H', n) gives two bytes for n < 65536.                     *)
LEMMA PackProps ==
  ASSUME NEW n \in Nat, n <= 65535
  PROVE  Pack16(n) \in Seq(Byte) /\ Len(Pack16(n)) = 2
<1>1. n \div 256 \in Byte /\ n % 256 \in Byte  BY DEF Byte
<1>. QED  BY <1>1 DEF Pack16

(* struct.unpack('!H', b) of two bytes is below 65536.                     *)
LEMMA UnpackProps ==
  ASSUME NEW s \in Seq(Byte), Len(s) = 2
  PROVE  Unpack16(s) \in Nat /\ Unpack16(s) <= 65535
<1>1. s[1] \in Byte /\ s[2] \in Byte  BY LenProperties
<1>2. \A a, b \in Byte : a * 256 + b \in Nat /\ a * 256 + b <= 65535
  BY DEF Byte
<1>. QED  BY <1>1, <1>2 DEF Unpack16

(* The answer record and the fixed header words are byte strings.           *)
LEMMA ConstBytes ==
  /\ Answer \in Seq(Byte) /\ Len(Answer) = 16
  /\ \A a, b \in Byte : <<a, b>> \in Seq(Byte) /\ Len(<<a, b>>) = 2
  /\ \h81 \in Byte /\ \h80 \in Byte /\ \h00 \in Byte /\ \h01 \in Byte
<1>1. Answer \in Seq(Byte) /\ Len(Answer) = 16  BY DEF Answer, Byte
<1>2. \A a, b \in Byte : <<a, b>> \in Seq(Byte) /\ Len(<<a, b>>) = 2  OBVIOUS
<1>3. \h81 \in Byte /\ \h80 \in Byte /\ \h00 \in Byte /\ \h01 \in Byte
  BY DEF Byte
<1>. QED  BY <1>1, <1>2, <1>3

(* Two byte strings concatenated.                                          *)
LEMMA ConcatBytes ==
  ASSUME NEW s \in Seq(Byte), NEW t \in Seq(Byte)
  PROVE  s \o t \in Seq(Byte) /\ Len(s \o t) = Len(s) + Len(t)
BY ConcatProperties

(* The fixed 12-byte header handle_dns_tcp puts before the question.      *)
Hdr(q) ==
  Take(q, 2) \o <<\h81, \h80>> \o <<\h00, \h01>> \o <<\h00, \h01>>
    \o <<\h00, \h00>> \o <<\h00, \h00>>

(* The header fields of the response and their lengths.                   *)
LEMMA HdrProps ==
  ASSUME NEW q \in Seq(Byte)
  PROVE  Hdr(q) \in Seq(Byte) /\ Len(Hdr(q)) <= 12
<1>1. Take(q, 2) \in Seq(Byte) /\ Len(Take(q, 2)) <= 2
  BY TakeProps DEF MinOf
<1>2. \A a, b \in Byte : <<a, b>> \in Seq(Byte) /\ Len(<<a, b>>) = 2
  BY ConstBytes
<1>3. \h81 \in Byte /\ \h80 \in Byte /\ \h00 \in Byte /\ \h01 \in Byte
  BY ConstBytes
<1>. QED  BY <1>1, <1>2, <1>3, ConcatBytes DEF Hdr

(* handle_dns_tcp's response is a byte string of at most len(query) + 28   *)
(* bytes.                                                                  *)
LEMMA BuildProps ==
  ASSUME NEW q \in Seq(Byte)
  PROVE  /\ BuildResponse(q) \in Seq(Byte)
         /\ Len(BuildResponse(q)) <= Len(q) + 28
<1>1. BuildResponse(q) = Hdr(q) \o Drop(q, 12) \o Answer
  BY DEF BuildResponse, Hdr
<1>2. Drop(q, 12) \in Seq(Byte) /\ Len(Drop(q, 12)) <= Len(q)
  <2>1. Len(Drop(q, 12)) = IF 12 <= Len(q) THEN Len(q) - 12 ELSE 0
    BY DropProps
  <2>2. Len(q) \in Nat  BY LenProperties
  <2>3. Drop(q, 12) \in Seq(Byte)  BY DropProps
  <2>. QED  BY <2>1, <2>2, <2>3
<1>3. Answer \in Seq(Byte) /\ Len(Answer) = 16  BY ConstBytes
<1>4. Hdr(q) \in Seq(Byte) /\ Len(Hdr(q)) <= 12  BY HdrProps
<1>5. Len(q) \in Nat  BY LenProperties
<1>6. Hdr(q) \o Drop(q, 12) \in Seq(Byte)
      /\ Len(Hdr(q) \o Drop(q, 12)) <= Len(q) + 12
  BY <1>2, <1>4, <1>5, ConcatBytes
<1>7. Hdr(q) \o Drop(q, 12) \o Answer \in Seq(Byte)
      /\ Len(Hdr(q) \o Drop(q, 12) \o Answer) <= Len(q) + 28
  <2>1. Hdr(q) \o Drop(q, 12) \o Answer \in Seq(Byte)
        /\ Len(Hdr(q) \o Drop(q, 12) \o Answer) = Len(Hdr(q) \o Drop(q, 12)) + 16
    <3>1. Hdr(q) \o Drop(q, 12) \o Answer \in Seq(Byte)
          /\ Len(Hdr(q) \o Drop(q, 12) \o Answer)
               = Len(Hdr(q) \o Drop(q, 12)) + Len(Answer)
      BY <1>3, <1>6, ConcatBytes, Zenon
    <3>. QED  BY <3>1, <1>3, Zenon
  <2>2. Len(Hdr(q) \o Drop(q, 12)) \in Nat  BY <1>6, LenProperties
  <2>3. \A a, b \in Nat : a <= b + 12 => a + 16 <= b + 28  OBVIOUS
  <2>. QED  BY <1>5, <1>6, <2>1, <2>2, <2>3
<1>. QED  BY <1>1, <1>7

(* A message below 65536 bytes framed with its length is a byte string.    *)
LEMMA FrameProps ==
  ASSUME NEW m \in Seq(Byte), Len(m) <= 65535
  PROVE  Frame(m) \in Seq(Byte)
<1>1. Pack16(Len(m)) \in Seq(Byte)  BY PackProps
<1>. QED  BY <1>1, ConcatBytes DEF Frame

(* The answer record handle_dns_tcp writes as one byte literal is the one  *)
(* spec 6 defines field by field.                                          *)
LEMMA AnswerIsSpec == Answer = SpecAnswer
BY DEF Answer, SpecAnswer, Pack16, Pack32

(* For a query of at least 12 bytes, handle_dns_tcp's response is the one  *)
(* spec 4.1 and 6 define.                                                  *)
LEMMA BuildMatchesSpec ==
  ASSUME NEW q \in Seq(Byte), Len(q) >= 12
  PROVE  BuildResponse(q) = SpecResponse(q)
<1>1. q[1] \in Byte /\ q[2] \in Byte  BY LenProperties
<1>2. Take(q, 2) = <<q[1], q[2]>>
  <2>1. Take(q, 2) \in Seq(Byte) /\ Len(Take(q, 2)) = 2
    <3>1. Take(q, 2) \in Seq(Byte) /\ Len(Take(q, 2)) = MinOf(2, Len(q))
      BY TakeProps
    <3>. QED  BY <3>1 DEF MinOf
  <2>2. \A i \in 1..2 : Take(q, 2)[i] = q[i]
    <3>1. Take(q, 2) = SubSeq(q, 1, 2)  BY LenProperties DEF Take, MinOf
    <3>2. 1 \in 1..Len(q) + 1 /\ 2 \in 1 - 1..Len(q)  BY LenProperties
    <3>3. \A i \in 1..2 - 1 + 1 : SubSeq(q, 1, 2)[i] = q[1 + i - 1]
      BY <3>2, SubSeqProperties
    <3>4. \A i \in 1..2 : 1 + i - 1 = i /\ i \in 1..2 - 1 + 1  OBVIOUS
    <3>. QED  BY <3>1, <3>3, <3>4
  <2>3. <<q[1], q[2]>> \in Seq(Byte)  BY <1>1
  <2>. QED  BY <2>1, <2>2, <2>3, SeqEqual
<1>3. Pack16(Unpack16(q)) = Take(q, 2)
  <2>1. \A a, b \in Byte : (a * 256 + b) \div 256 = a /\ (a * 256 + b) % 256 = b
    BY DEF Byte
  <2>. QED  BY <1>1, <1>2, <2>1 DEF Pack16, Unpack16
<1>4. SpecHeader(q) = Hdr(q)
  <2>1. /\ Pack16(ResponseFlags) = <<\h81, \h80>>
        /\ Pack16(1) = <<\h00, \h01>>
        /\ Pack16(0) = <<\h00, \h00>>
    BY DEF Pack16, ResponseFlags
  <2>2. \A a1, a2, a3, a4, a5, a6, b1, b2, b3, b4, b5, b6 :
          a1 = b1 /\ a2 = b2 /\ a3 = b3 /\ a4 = b4 /\ a5 = b5 /\ a6 = b6
            => a1 \o a2 \o a3 \o a4 \o a5 \o a6 = b1 \o b2 \o b3 \o b4 \o b5 \o b6
    OBVIOUS
  <2>. QED  BY <1>3, <2>1, <2>2 DEF SpecHeader, Hdr
<1>5. BuildResponse(q) = Hdr(q) \o Drop(q, 12) \o Answer
  BY DEF BuildResponse, Hdr
<1>6. SpecResponse(q) = SpecHeader(q) \o Drop(q, 12) \o SpecAnswer
  BY DEF SpecResponse, Drop
<1>. QED  BY <1>4, <1>5, <1>6, AnswerIsSpec, Zenon

(* s[:n] is s itself when s has at most n bytes: recvfrom(512) of a        *)
(* datagram of at most 512 bytes returns all of it.                        *)
LEMMA TakeAll ==
  ASSUME NEW s \in Seq(Byte), NEW n \in Nat, Len(s) <= n
  PROVE  Take(s, n) = s
<1>1. MinOf(n, Len(s)) = Len(s)  BY LenProperties DEF MinOf
<1>. QED  BY <1>1, SubSeqFull DEF Take
=============================================================================
