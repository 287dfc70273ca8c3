------------------------ MODULE MCMultiportAnalyzer ------------------------
(***************************************************************************)
(* A small instance of MultiportAnalyzer for TLC: the DNS pair of the      *)
(* `ports` list (TCP and UDP on 53), two peer addresses, one payload       *)
(* size.                                                                   *)
(***************************************************************************)
EXTENDS MultiportAnalyzer, TLC

CONSTANTS a1, a2

MCPorts ==
  << [port |-> 53, name |-> "DNS", proto |-> "tcp"],
     [port |-> 53, name |-> "DNS", proto |-> "udp"] >>

(* The TCP DNS listener alone, for the liveness run.                       *)
MCPortsTcp == << [port |-> 53, name |-> "DNS", proto |-> "tcp"] >>

MCAddrs == {a1, a2}

MCSymmetry == Permutations(MCAddrs)
=============================================================================
