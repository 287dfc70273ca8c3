---------------------------- MODULE MCDnsUdpServer ----------------------------
(* The UDP datagrams run_tests sends to port 53 (protocol_tester_client.py,*)
(* lines 125 and 129): the DNS query of make_dns_query() for google.com, *)
(* under two of its random transaction ids, so that whose reply is whose *)
(* can be told apart, and 64 random bytes.                              *)
EXTENDS DnsUdpServer, TLC

Query(t1, t2) ==
  <<t1, t2, \h01, \h00, \h00, \h01, \h00, \h00, \h00, \h00, \h00, \h00,
    \h06, \h67, \h6f, \h6f, \h67, \h6c, \h65, \h03, \h63, \h6f, \h6d, \h00,
    \h00, \h01, \h00, \h01>>

RandomBytes(n) == [i \in 1..n |-> \h5a]

MCQueries == {Query(\haa, \hbb), Query(\hcc, \hdd), RandomBytes(64)}

ClientSymmetry == Permutations(Clients)
=============================================================================
