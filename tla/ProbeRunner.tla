----------------------------- MODULE ProbeRunner -----------------------------
(***************************************************************************)
(* run_tests of src/protocol_tester_client.py: ten probes run one after    *)
(* the other by test_protocol, the summary, the analysis chains of the     *)
(* Classifier, and the saved result file.                                  *)
(*                                                                         *)
(* What the network path does to one probe is environment: it is chosen   *)
(* from a small set of behaviours when the probe starts (refused,          *)
(* black-holed, reset, a reply, a close without data, silence; for UDP a   *)
(* reply, a lost datagram or an unreachable network).  test_protocol is    *)
(* two steps, connect and sendall, then the recv under the 5 s timeout;    *)
(* DnsTcpProbe models the first of the ten probes byte by byte.            *)
(* Time (time_ms, the 0.5 s sleeps) and the payload bytes are left out:    *)
(* no branch of run_tests depends on them.                                 *)
(***************************************************************************)
EXTENDS Naturals, Sequences

CONSTANTS
  TcpPaths,     \* what the path may do to a TCP probe
  UdpPaths      \* what the path may do to a UDP probe

(* The tests list of run_tests, in append order (lines 123-149).           *)
Probes ==
  << [label |-> "DNS TCP",            proto |-> "tcp"],
     [label |-> "DNS UDP",            proto |-> "udp"],
     [label |-> "DNS TCP (random)",   proto |-> "tcp"],
     [label |-> "DNS UDP (random)",   proto |-> "udp"],
     [label |-> "SSH:22 TCP",         proto |-> "tcp"],
     [label |-> "SSH:22 (random)",    proto |-> "tcp"],
     [label |-> "SSH:2222 TCP",       proto |-> "tcp"],
     [label |-> "HTTPS:443",          proto |-> "tcp"],
     [label |-> "HTTPS:443 (random)", proto |-> "tcp"],
     [label |-> "HTTPS:8443",         proto |-> "tcp"] >>

NProbes == Len(Probes)

ASSUME PathsAssumption ==
  /\ TcpPaths \subseteq {"refused", "blackholed", "reset", "reply", "closed",
                         "silent"}
  /\ UdpPaths \subseteq {"unreachable", "reply", "lost"}
  /\ TcpPaths # {} /\ UdpPaths # {}

Paths(proto) == IF proto = "tcp" THEN TcpPaths ELSE UdpPaths

(* A result dict of test_protocol; recv_bytes is 0 or 1 for "some bytes". *)
Result(st, n) == [status |-> st, recv |-> n]

(* Paths that end test_protocol before the recv: connect refused           *)
(* (ConnectionRefusedError), connect timed out (socket.timeout), sendto    *)
(* failing (an OSError, ERROR).                                            *)
EarlyStatus ==
  [refused |-> "REFUSED", blackholed |-> "TIMEOUT", unreachable |-> "ERROR"]

(* The recv of line 34 or the recvfrom of line 46: bytes or b'' are        *)
(* SUCCESS, the timeout is NO_RESPONSE, a reset raises out of the inner    *)
(* try and the outer handler makes it ERROR.                               *)
RecvResult(w) ==
  CASE w = "reply"  -> Result("SUCCESS", 1)
    [] w = "closed" -> Result("SUCCESS", 0)
    [] w \in {"silent", "lost"} -> Result("NO_RESPONSE", 0)
    [] w = "reset"  -> Result("ERROR", 0)

(* The diagnoses of the analysis, one per rule.                            *)
Families == {"DNS", "SSH", "HTTPS"}

VARIABLES
  rPc,          \* run_tests: "probe", "recv", "analysis", "save",
                \* "done", "crashed"
  path,         \* what the network does to the probe under way
  tests,        \* the tests list: <<label, result>> per finished probe
  successCount, \* success_count of the summary
  diag,         \* the analysis lines printed: <<family, conclusion>>
  file          \* the lines written to /tmp/protocol_test_*.log

vars == <<rPc, path, tests, successCount, diag, file>>

Current == Probes[Len(tests) + 1]

Record(r) == Append(tests, [name |-> Current.label, result |-> r])

(* tests[i][1]['status'] == 'SUCCESS', with Python's 0-based index i.      *)
Works(i) == tests[i + 1].result.status = "SUCCESS"

-----------------------------------------------------------------------------
Init ==
  /\ rPc = "probe"
  /\ path = "none"
  /\ tests = <<>>
  /\ successCount = 0
  /\ diag = <<>>
  /\ file = <<>>

(* test_protocol up to the recv: socket, settimeout, connect and sendall   *)
(* (TCP) or sendto (UDP).  A failure there is the result at once.          *)
ProbeSend ==
  /\ rPc = "probe"
  /\ Len(tests) < NProbes
  /\ \E w \in Paths(Current.proto) :
       /\ path' = w
       /\ \/ /\ w \in DOMAIN EarlyStatus
             /\ tests' = Record(Result(EarlyStatus[w], 0))
             /\ UNCHANGED rPc
          \/ /\ w \notin DOMAIN EarlyStatus
             /\ rPc' = "recv"
             /\ UNCHANGED tests
  /\ UNCHANGED <<successCount, diag, file>>

(* Mutant of ProbeRecv: a timed-out recv is tried again.                  *)
ProbeRecvRetry ==
  /\ rPc = "recv"
  /\ \/ /\ path \notin {"silent", "lost"}
        /\ tests' = Record(RecvResult(path))
        /\ rPc' = "probe"
     \/ /\ path \in {"silent", "lost"}
        /\ UNCHANGED <<tests, rPc>>
  /\ UNCHANGED <<path, successCount, diag, file>>

(* The recv (or recvfrom) under the 5 s timeout, then sock.close().        *)
ProbeRecv ==
  /\ rPc = "recv"
  /\ tests' = Record(RecvResult(path))
  /\ rPc' = "probe"
  /\ UNCHANGED <<path, successCount, diag, file>>

(* RESULTS SUMMARY: count the SUCCESS results.                             *)
PrintSummary ==
  /\ rPc = "probe"
  /\ Len(tests) = NProbes
  /\ successCount' = Len(SelectSeq(tests, LAMBDA t : t.result.status = "SUCCESS"))
  /\ rPc' = "analysis"
  /\ UNCHANGED <<path, tests, diag, file>>

(* Mutant of DnsLine: the random DNS probe read from tests[3].            *)
DnsLineIndex3 ==
  LET dns_tcp_works == Works(0)
      dns_udp_works == Works(1)
      dns_tcp_rand  == Works(3)
  IN  IF dns_udp_works /\ ~dns_tcp_works THEN <<<<"DNS", "transport">>>>
      ELSE IF dns_tcp_works /\ ~dns_tcp_rand THEN <<<<"DNS", "dpi">>>>
      ELSE IF dns_tcp_works /\ dns_tcp_rand THEN <<<<"DNS", "open">>>>
      ELSE <<>>

(* The three if/elif chains of the ANALYSIS section.                       *)
DnsLine ==
  LET dns_tcp_works == Works(0)
      dns_udp_works == Works(1)
      dns_tcp_rand  == Works(2)
  IN  IF dns_udp_works /\ ~dns_tcp_works THEN <<<<"DNS", "transport">>>>
      ELSE IF dns_tcp_works /\ ~dns_tcp_rand THEN <<<<"DNS", "dpi">>>>
      ELSE IF dns_tcp_works /\ dns_tcp_rand THEN <<<<"DNS", "open">>>>
      ELSE <<>>

PairLine(fam, works, rand) ==
  IF works /\ ~rand THEN <<<<fam, "dpi">>>>
  ELSE IF works /\ rand THEN <<<<fam, "open">>>>
  ELSE <<>>

SshLine == PairLine("SSH", Works(4), Works(5))
HttpsLine == PairLine("HTTPS", Works(7), Works(8))

PrintAnalysis ==
  /\ rPc = "analysis"
  /\ diag' = DnsLine \o SshLine \o HttpsLine
  /\ rPc' = "save"
  /\ UNCHANGED <<path, tests, successCount, file>>

(* with open(log_file, 'w') and one f.write per result; open or write can  *)
(* raise, and nothing catches it: run_tests ends with the file holding a   *)
(* prefix of the lines, or none.                                           *)
SaveResults ==
  /\ rPc = "save"
  /\ \/ /\ file' = tests
        /\ rPc' = "done"
     \/ /\ \E k \in 0..(Len(tests) - 1) : file' = SubSeq(tests, 1, k)
        /\ rPc' = "crashed"
  /\ UNCHANGED <<path, tests, successCount, diag>>

(* The program has ended.                                                  *)
Terminated ==
  /\ rPc \in {"done", "crashed"}
  /\ UNCHANGED vars

Next ==
  \/ ProbeSend \/ ProbeRecv
  \/ PrintSummary \/ PrintAnalysis \/ SaveResults
  \/ Terminated

(* run_tests is one thread; every recv ends by data, close, reset or the   *)
(* socket timeout, so each step stays enabled until it is taken.           *)
Spec == Init /\ [][Next]_vars /\ WF_vars(Next)

-----------------------------------------------------------------------------
(* Spec 4.5, written from the spec and not from the chains: per family the *)
(* ordered rules, each reading the probes by label.  DNS: UDP works and    *)
(* TCP does not -> transport-selective blocking; the protocol-correct      *)
(* probe works and the random one on the same port does not -> DPI; both   *)
(* work -> open; otherwise inconclusive.                                   *)
Valid == [f \in Families |-> CASE f = "DNS" -> "DNS TCP"
                               [] f = "SSH" -> "SSH:22 TCP"
                               [] f = "HTTPS" -> "HTTPS:443"]
Random == [f \in Families |-> CASE f = "DNS" -> "DNS TCP (random)"
                                [] f = "SSH" -> "SSH:22 (random)"
                                [] f = "HTTPS" -> "HTTPS:443 (random)"]

Succeeded(label) ==
  \E i \in DOMAIN tests : tests[i].name = label
                          /\ tests[i].result.status = "SUCCESS"

SpecDiagnosis(f) ==
  CASE f = "DNS" /\ Succeeded("DNS UDP") /\ ~Succeeded(Valid[f]) -> "transport"
    [] Succeeded(Valid[f]) /\ ~Succeeded(Random[f]) -> "dpi"
    [] Succeeded(Valid[f]) /\ Succeeded(Random[f]) -> "open"
    [] OTHER -> "inconclusive"

(* Every analysis line run_tests prints (lines 175-200) is the conclusion  *)
(* spec 4.5's ordered rules give for that family's probes, found by their *)
(* labels, and no family gets two lines.  A chain reading the wrong index  *)
(* of tests, or its branches in another order, would print another one.   *)
RunDiagnosisSound ==
  rPc \in {"save", "done", "crashed"} =>
    /\ \A j \in DOMAIN diag : diag[j][2] = SpecDiagnosis(diag[j][1])
    /\ \A j, k \in DOMAIN diag : diag[j][1] = diag[k][1] => j = k

(* Spec 4.4 and 5: every probe of the list gets its result, in order, and  *)
(* the run reaches its end, whatever the path does to each probe.          *)
RunCompletes ==
  <>(rPc \in {"done", "crashed"}
     /\ \A i \in 1..NProbes : tests[i].name = Probes[i].label)
=============================================================================
