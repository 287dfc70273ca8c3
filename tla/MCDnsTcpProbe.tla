---------------------------- MODULE MCDnsTcpProbe ----------------------------
(* The TCP probes run_tests sends to port 53 (protocol_tester_client.py,   *)
(* lines 120-127): the DNS query of make_dns_query() for google.com with  *)
(* its length prefix (here with the transaction id AABB of spec 8), and   *)
(* 64 random bytes, of which only the first two matter to the server: as  *)
(* a length prefix they announce fewer bytes than follow, or more.        *)
EXTENDS DnsTcpProbe

GoogleQuery ==
  <<\haa, \hbb, \h01, \h00, \h00, \h01, \h00, \h00, \h00, \h00, \h00, \h00,
    \h06, \h67, \h6f, \h6f, \h67, \h6c, \h65, \h03, \h63, \h6f, \h6d, \h00,
    \h00, \h01, \h00, \h01>>

Random64(b1, b2) == [i \in 1..64 |-> CASE i = 1 -> b1
                                       [] i = 2 -> b2
                                       [] OTHER -> \h5a]

MCPayloads == {Frame(GoogleQuery), Random64(\h00, \h10), Random64(\h9c, \h41)}
=============================================================================
