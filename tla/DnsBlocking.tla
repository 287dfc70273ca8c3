------------------------------ MODULE DnsBlocking ------------------------------
(***************************************************************************)
(* src/test_dns_blocking.py: five probes of port 53 run in sequence by    *)
(* __main__, each a function that returns True unless an exception left   *)
(* its try block, then the summary and the one-line analysis.             *)
(*                                                                         *)
(* As in ProbeRunner, what the path does to a probe is environment,       *)
(* chosen when the probe starts.  Each probe is two steps: socket,         *)
(* connect and sendall (TCP) or sendto (UDP), then the recv under its 3 s  *)
(* timeout and close.  `replied` records whether the recv returned bytes: *)
(* the functions print it and do not return it.                            *)
(***************************************************************************)
EXTENDS Naturals, Sequences, FiniteSets, TLC

CONSTANTS
  TcpPaths,     \* what the path may do to a TCP probe
  UdpPaths      \* what the path may do to a UDP probe

(* The keys of `results`, in the order __main__ runs the tests (lines     *)
(* 212-224).                                                               *)
Tests == <<"tcp_echo", "real_dns_tcp", "fake_dns", "encrypted", "udp_dns">>
Proto(t) == IF t = "udp_dns" THEN "udp" ELSE "tcp"

ASSUME BlockingPathsAssumption ==
  /\ TcpPaths \subseteq {"refused", "blackholed", "reset", "reply", "closed",
                         "silent"}
  /\ UdpPaths \subseteq {"unreachable", "reply", "lost"}
  /\ TcpPaths # {} /\ UdpPaths # {}

(* Paths on which connect, sendall or sendto raises (ConnectionRefused,    *)
(* socket.timeout, OSError): the outer except returns False.               *)
SendFails == {"refused", "blackholed", "unreachable"}

VARIABLES
  bPc,          \* __main__: "send", "recv", "analysis", "done"
  path,         \* what the network does to the test under way
  results,      \* the results dict: test name -> returned boolean
  replied,      \* test name -> its recv returned bytes
  line          \* the analysis line printed

vars == <<bPc, path, results, replied, line>>

Done == DOMAIN results
Cur == Tests[Cardinality(Done) + 1]

(* Where __main__ goes after the current test: the next one, or the        *)
(* summary after the last.                                                 *)
After == IF Cardinality(Done) + 1 = Len(Tests) THEN "analysis" ELSE "send"

-----------------------------------------------------------------------------
Init ==
  /\ bPc = "send"
  /\ path = "none"
  /\ results = <<>>
  /\ replied = <<>>
  /\ line = "none"

(* One test function up to its recv.                                       *)
TestSend ==
  /\ bPc = "send"
  /\ Cardinality(Done) < Len(Tests)
  /\ \E w \in (IF Proto(Cur) = "tcp" THEN TcpPaths ELSE UdpPaths) :
       /\ path' = w
       /\ \/ /\ w \in SendFails
             /\ results' = results @@ (Cur :> FALSE)
             /\ replied' = replied @@ (Cur :> FALSE)
             /\ bPc' = After
          \/ /\ w \notin SendFails
             /\ bPc' = "recv"
             /\ UNCHANGED <<results, replied>>
  /\ UNCHANGED line

(* Mutant of TestRecv: a timed-out recv is tried again.                   *)
TestRecvRetry ==
  /\ bPc = "recv"
  /\ \/ /\ path \notin {"silent", "lost"}
        /\ results' = results @@ (Cur :> (path # "reset"))
        /\ replied' = replied @@ (Cur :> (path = "reply"))
        /\ bPc' = After
     \/ /\ path \in {"silent", "lost"}
        /\ UNCHANGED <<results, replied, bPc>>
  /\ UNCHANGED <<path, line>>

(* The recv under settimeout(3): data or b'' is printed, socket.timeout    *)
(* is caught by the inner try and printed; either way the function goes    *)
(* on to sock.close() and returns True.  A reset raises out of the inner   *)
(* try and the function returns False.  test_real_dns_query's two recvs    *)
(* (length prefix, then the response) return True or False the same way.   *)
TestRecv ==
  /\ bPc = "recv"
  /\ results' = results @@ (Cur :> (path # "reset"))
  /\ replied' = replied @@ (Cur :> (path = "reply"))
  /\ bPc' = After
  /\ UNCHANGED <<path, line>>

(* SUMMARY and Analysis: the first matching branch of lines 235-248.       *)
Analysis ==
  LET r == results IN
  /\ bPc = "analysis"
  /\ line' = CASE r["tcp_echo"] /\ ~r["real_dns_tcp"]   -> "dns_format"
               [] r["real_dns_tcp"] /\ ~r["fake_dns"]   -> "dns_structure"
               [] r["real_dns_tcp"] /\ ~r["encrypted"]  -> "entropy"
               [] r["udp_dns"] /\ ~r["real_dns_tcp"]    -> "tcp53_blocked"
               [] OTHER                                 -> "see_results"
  /\ bPc' = "done"
  /\ UNCHANGED <<path, results, replied>>

Terminated ==
  /\ bPc = "done"
  /\ UNCHANGED vars

Next == TestSend \/ TestRecv \/ Analysis \/ Terminated

(* One thread; every recv ends by data, close, reset or its timeout.       *)
Spec == Init /\ [][Next]_vars /\ WF_vars(Next)

-----------------------------------------------------------------------------
(* Spec 5: every probe ends with a result and the run reaches its analysis *)
(* whatever the path does, because each recv is bounded by settimeout(3).  *)
BlockingRunEnds == <>(bPc = "done" /\ Done = {Tests[i] : i \in 1..Len(Tests)})

(* The tests an analysis line says work.                                   *)
Claimed ==
  CASE line = "dns_format"    -> {"tcp_echo"}
    [] line = "dns_structure" -> {"real_dns_tcp"}
    [] line = "entropy"       -> {"real_dns_tcp"}
    [] line = "tcp53_blocked" -> {"udp_dns"}
    [] OTHER                  -> {}

(* Spec 4.4 and 4.5: a diagnosis that says a probe works rests on that     *)
(* probe having received a reply.  The analysis of lines 235-246 reads     *)
(* "works" from the returned booleans, which are True after a timeout.     *)
ClaimsMeanReplies == \A t \in Claimed : replied[t]
=============================================================================
