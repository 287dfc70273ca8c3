------------------------------- MODULE DnsCodec -------------------------------
(***************************************************************************)
(* The DNS bytes of src/dns_test_server.py and the TCP framing of          *)
(* src/protocol_tester_client.py, as operators on sequences of byte       *)
(* values: Python's slices, struct.pack/unpack('!H'), and the response     *)
(* both responders build from the query bytes they read.  The spec's       *)
(* response is stated separately, field by field.                          *)
(***************************************************************************)
EXTENDS Naturals, Sequences

Byte == 0..255

MinOf(a, b) == IF a <= b THEN a ELSE b

(* Python slices s[:n] and s[n:].                                          *)
Take(s, n) == SubSeq(s, 1, MinOf(n, Len(s)))
Drop(s, n) == SubSeq(s, n + 1, Len(s))

(* struct.pack('!H', n) and struct.unpack('!H', b)[0].                     *)
Pack16(n) == <<n \div 256, n % 256>>
Unpack16(b) == b[1] * 256 + b[2]

(* DNS over TCP: a 2-byte length prefix, then the message.                 *)
Frame(m) == Pack16(Len(m)) \o m

(* The responders' answer record: google.com A 172.217.14.206, TTL 300.   *)
Answer == <<\hc0, \h0c, \h00, \h01, \h00, \h01, \h00, \h00, \h01, \h2c,
            \h00, \h04, \hac, \hd9, \h0e, \hce>>

(* Mutant of BuildResponse: the question section sliced from query[11:].  *)
BuildResponseSkip11(query) ==
  Take(query, 2) \o <<\h81, \h80>> \o <<\h00, \h01>> \o <<\h00, \h01>>
    \o <<\h00, \h00>> \o <<\h00, \h00>> \o Drop(query, 11) \o Answer

(* The response handle_dns_tcp and dns_udp_server build from the bytes    *)
(* they read as the query.                                                  *)
BuildResponse(query) ==
  Take(query, 2) \o <<\h81, \h80>> \o <<\h00, \h01>> \o <<\h00, \h01>>
    \o <<\h00, \h00>> \o <<\h00, \h00>> \o Drop(query, 12) \o Answer

-----------------------------------------------------------------------------
(* The response spec 4.1 and 6 define for a query of at least 12 bytes,    *)
(* field by field: ID copied, flags 0x8180, QDCOUNT 1, ANCOUNT 1, NSCOUNT  *)
(* and ARCOUNT 0, the question section, then NAME 0xC00C, TYPE A, CLASS    *)
(* IN, TTL 300, RDLENGTH 4, RDATA.                                         *)
Pack32(n) == Pack16(n \div 65536) \o Pack16(n % 65536)
SpecAnswer ==
  Pack16(\hc00c) \o Pack16(1) \o Pack16(1) \o Pack32(300) \o Pack16(4)
    \o <<172, 217, 14, 206>>
ResponseFlags == \h8180   \* standard response, no error
SpecHeader(q) ==
  Pack16(Unpack16(q)) \o Pack16(ResponseFlags) \o Pack16(1) \o Pack16(1)
    \o Pack16(0) \o Pack16(0)
SpecResponse(q) == SpecHeader(q) \o SubSeq(q, 13, Len(q)) \o SpecAnswer
=============================================================================
