-------------------------- MODULE ProbeRunnerProofs --------------------------
(***************************************************************************)
(* Proofs about ProbeRunner for every set of path behaviours: run_tests    *)
(* records the probes in the order of its list, so that the analysis,     *)
(* which reads tests by index, reads the probe each rule is about, and    *)
(* every line it prints is spec 4.5's conclusion for that family.          *)
(***************************************************************************)
EXTENDS ProbeRunner, SequenceTheorems, TLAPS

Labels == {Probes[i].label : i \in 1..NProbes}
Statuses == {"SUCCESS", "NO_RESPONSE", "ERROR", "REFUSED", "TIMEOUT"}
Entry == [name : Labels, result : [status : Statuses, recv : 0..1]]

TypeOK ==
  /\ rPc \in {"probe", "recv", "analysis", "save", "done", "crashed"}
  /\ tests \in Seq(Entry)
  /\ Len(tests) <= NProbes

(* Paths on which test_protocol reaches its recv.                          *)
RecvPaths == {"reset", "reply", "closed", "silent", "lost"}

(* The i-th result is the i-th probe's.                                    *)
NameInv == \A i \in 1..Len(tests) : tests[i].name = Probes[i].label

(* A probe is under way only while the list is not full, and only on a  *)
(* path that reached the recv; the analysis starts on the full list, and *)
(* what it printed is the three chains' lines on that list, which no     *)
(* later step changes.                                                    *)
PhaseInv ==
  /\ rPc = "recv" => Len(tests) < NProbes /\ path \in RecvPaths
  /\ rPc \in {"analysis", "save", "done", "crashed"} => Len(tests) = NProbes
  /\ rPc \in {"save", "done", "crashed"} => diag = DnsLine \o SshLine \o HttpsLine

IInv == TypeOK /\ NameInv /\ PhaseInv

-----------------------------------------------------------------------------
(* The probe list of run_tests: ten probes, in this order.                 *)
LEMMA ProbeLabels ==
  /\ NProbes = 10
  /\ Probes[1].label = "DNS TCP"
  /\ Probes[2].label = "DNS UDP"
  /\ Probes[3].label = "DNS TCP (random)"
  /\ Probes[4].label = "DNS UDP (random)"
  /\ Probes[5].label = "SSH:22 TCP"
  /\ Probes[6].label = "SSH:22 (random)"
  /\ Probes[7].label = "SSH:2222 TCP"
  /\ Probes[8].label = "HTTPS:443"
  /\ Probes[9].label = "HTTPS:443 (random)"
  /\ Probes[10].label = "HTTPS:8443"
BY DEF NProbes, Probes

(* run_tests runs ten probes.                                              *)
LEMMA NProbesTen == NProbes = 10
BY DEF NProbes, Probes

(* No two probes of the list share a label.                                *)
LEMMA LabelsDistinct ==
  \A i, j \in 1..NProbes : Probes[i].label = Probes[j].label => i = j
<1>1. SUFFICES ASSUME NEW i \in 1..10, NEW j \in 1..10,
                    Probes[i].label = Probes[j].label
             PROVE  i = j
  BY ProbeLabels
<1>2. j \in {1, 2, 3, 4, 5, 6, 7, 8, 9, 10}  OBVIOUS
<1>3. CASE i = 1  BY <1>3, <1>1, <1>2, ProbeLabels
<1>4. CASE i = 2  BY <1>4, <1>1, <1>2, ProbeLabels
<1>5. CASE i = 3  BY <1>5, <1>1, <1>2, ProbeLabels
<1>6. CASE i = 4  BY <1>6, <1>1, <1>2, ProbeLabels
<1>7. CASE i = 5  BY <1>7, <1>1, <1>2, ProbeLabels
<1>8. CASE i = 6  BY <1>8, <1>1, <1>2, ProbeLabels
<1>9. CASE i = 7  BY <1>9, <1>1, <1>2, ProbeLabels
<1>10. CASE i = 8  BY <1>10, <1>1, <1>2, ProbeLabels
<1>11. CASE i = 9  BY <1>11, <1>1, <1>2, ProbeLabels
<1>12. CASE i = 10  BY <1>12, <1>1, <1>2, ProbeLabels
<1>. QED  BY <1>3, <1>4, <1>5, <1>6, <1>7, <1>8, <1>9, <1>10, <1>11, <1>12

(* On the full list, the chains' tests[k][1]['status'] == 'SUCCESS' says   *)
(* that the probe the list puts at k succeeded, wherever its result is.   *)
LEMMA WorksSucceeded ==
  ASSUME TypeOK, NameInv, Len(tests) = NProbes, NEW k \in 0..(NProbes - 1)
  PROVE  Works(k) <=> Succeeded(Probes[k + 1].label)
<1>1. DOMAIN tests = 1..NProbes /\ k + 1 \in 1..NProbes
  BY DEF TypeOK
<1>2. Works(k) => Succeeded(Probes[k + 1].label)
  BY <1>1 DEF Works, Succeeded, NameInv
<1>3. ASSUME Succeeded(Probes[k + 1].label) PROVE Works(k)
  <2>1. PICK i \in DOMAIN tests : /\ tests[i].name = Probes[k + 1].label
                                  /\ tests[i].result.status = "SUCCESS"
    BY <1>3 DEF Succeeded
  <2>2. Probes[i].label = Probes[k + 1].label  BY <2>1, <1>1 DEF NameInv
  <2>3. i = k + 1  BY <2>2, <1>1, LabelsDistinct
  <2>. QED  BY <2>1, <2>3 DEF Works
<1>. QED  BY <1>2, <1>3

(* The indices the three chains read are the probes spec 4.5 names.       *)
LEMMA ChainsRead ==
  ASSUME TypeOK, NameInv, Len(tests) = NProbes
  PROVE  /\ Works(0) <=> Succeeded("DNS TCP")
         /\ Works(1) <=> Succeeded("DNS UDP")
         /\ Works(2) <=> Succeeded("DNS TCP (random)")
         /\ Works(4) <=> Succeeded("SSH:22 TCP")
         /\ Works(5) <=> Succeeded("SSH:22 (random)")
         /\ Works(7) <=> Succeeded("HTTPS:443")
         /\ Works(8) <=> Succeeded("HTTPS:443 (random)")
<1>0. NProbes = 10  BY ProbeLabels
<1>1. \A k \in 0..(NProbes - 1) : Works(k) <=> Succeeded(Probes[k + 1].label)
  BY WorksSucceeded
<1>2. Works(0) <=> Succeeded("DNS TCP")
  <2>1. Works(0) <=> Succeeded(Probes[1].label)  BY <1>0, <1>1
  <2>. QED  BY <2>1, ProbeLabels, Zenon
<1>3. Works(1) <=> Succeeded("DNS UDP")
  <2>1. Works(1) <=> Succeeded(Probes[2].label)  BY <1>0, <1>1
  <2>. QED  BY <2>1, ProbeLabels, Zenon
<1>4. Works(2) <=> Succeeded("DNS TCP (random)")
  <2>1. Works(2) <=> Succeeded(Probes[3].label)  BY <1>0, <1>1
  <2>. QED  BY <2>1, ProbeLabels, Zenon
<1>5. Works(4) <=> Succeeded("SSH:22 TCP")
  <2>1. Works(4) <=> Succeeded(Probes[5].label)  BY <1>0, <1>1
  <2>. QED  BY <2>1, ProbeLabels, Zenon
<1>6. Works(5) <=> Succeeded("SSH:22 (random)")
  <2>1. Works(5) <=> Succeeded(Probes[6].label)  BY <1>0, <1>1
  <2>. QED  BY <2>1, ProbeLabels, Zenon
<1>7. Works(7) <=> Succeeded("HTTPS:443")
  <2>1. Works(7) <=> Succeeded(Probes[8].label)  BY <1>0, <1>1
  <2>. QED  BY <2>1, ProbeLabels, Zenon
<1>8. Works(8) <=> Succeeded("HTTPS:443 (random)")
  <2>1. Works(8) <=> Succeeded(Probes[9].label)  BY <1>0, <1>1
  <2>. QED  BY <2>1, ProbeLabels, Zenon
<1>. QED  BY <1>2, <1>3, <1>4, <1>5, <1>6, <1>7, <1>8

(* Each chain prints at most one line, and that line is spec 4.5's          *)
(* conclusion for its family.                                             *)
LEMMA ChainLines ==
  ASSUME TypeOK, NameInv, Len(tests) = NProbes
  PROVE  /\ DnsLine \in {<<>>, <<<<"DNS", SpecDiagnosis("DNS")>>>>}
         /\ SshLine \in {<<>>, <<<<"SSH", SpecDiagnosis("SSH")>>>>}
         /\ HttpsLine \in {<<>>, <<<<"HTTPS", SpecDiagnosis("HTTPS")>>>>}
<1>1. /\ Valid["DNS"] = "DNS TCP" /\ Random["DNS"] = "DNS TCP (random)"
      /\ Valid["SSH"] = "SSH:22 TCP" /\ Random["SSH"] = "SSH:22 (random)"
      /\ Valid["HTTPS"] = "HTTPS:443" /\ Random["HTTPS"] = "HTTPS:443 (random)"
  BY DEF Valid, Random, Families
<1>2. DnsLine \in {<<>>, <<<<"DNS", SpecDiagnosis("DNS")>>>>}
  BY <1>1, ChainsRead DEF DnsLine, SpecDiagnosis
<1>3. SshLine \in {<<>>, <<<<"SSH", SpecDiagnosis("SSH")>>>>}
  BY <1>1, ChainsRead DEF SshLine, PairLine, SpecDiagnosis
<1>4. HttpsLine \in {<<>>, <<<<"HTTPS", SpecDiagnosis("HTTPS")>>>>}
  BY <1>1, ChainsRead DEF HttpsLine, PairLine, SpecDiagnosis
<1>. QED  BY <1>2, <1>3, <1>4

----------------------------------------------------------------------------
(* The result dicts test_protocol returns.                                 *)
ResultRec == [status : Statuses, recv : 0..1]

(* Every result test_protocol returns before or after its recv is a     *)
(* result dict.                                                          *)
LEMMA ResultsTyped ==
  /\ \A w \in DOMAIN EarlyStatus : Result(EarlyStatus[w], 0) \in ResultRec
  /\ \A w \in RecvPaths : RecvResult(w) \in ResultRec
BY DEF EarlyStatus, Result, RecvResult, RecvPaths, ResultRec, Statuses

(* Appending the current probe's result keeps the list typed and in the   *)
(* order of the probe list.                                                *)
LEMMA RecordOK ==
  ASSUME TypeOK, NameInv, Len(tests) < NProbes, NEW r \in ResultRec
  PROVE  /\ Record(r) \in Seq(Entry)
         /\ Len(Record(r)) = Len(tests) + 1
         /\ \A i \in 1..Len(Record(r)) : Record(r)[i].name = Probes[i].label
<1>1. Len(tests) + 1 \in 1..NProbes  BY NProbesTen DEF TypeOK
<1>2. Current.label \in Labels  BY <1>1 DEF Current, Labels
<1>3. [name |-> Current.label, result |-> r] \in Entry
  BY <1>2 DEF Entry, ResultRec
<1>4. tests \in Seq(Entry)  BY DEF TypeOK
<1>5. /\ Record(r) \in Seq(Entry)
      /\ Len(Record(r)) = Len(tests) + 1
      /\ \A i \in 1..Len(tests) : Record(r)[i] = tests[i]
      /\ Record(r)[Len(tests) + 1] = [name |-> Current.label, result |-> r]
  BY <1>3, <1>4, AppendProperties DEF Record
<1>6. \A i \in 1..Len(Record(r)) : Record(r)[i].name = Probes[i].label
  BY <1>5 DEF NameInv, Current
<1>. QED  BY <1>5, <1>6

(* The analysis lines are a function of the tests list alone.              *)
LEMMA LinesUnchanged ==
  ASSUME tests' = tests
  PROVE  (DnsLine \o SshLine \o HttpsLine)' = DnsLine \o SshLine \o HttpsLine
BY DEF DnsLine, SshLine, HttpsLine, PairLine, Works

(* run_tests starts with an empty tests list and nothing printed.          *)
LEMMA InitIInv == Init => IInv
BY NProbesTen DEF Init, IInv, TypeOK, NameInv, PhaseInv

(* connect/sendall or sendto: an early failure appends the current probe's *)
(* result; otherwise the probe waits in its recv on a path that gets there. *)
LEMMA ProbeSendIInv == IInv /\ ProbeSend => IInv'
<1>. SUFFICES ASSUME IInv, ProbeSend PROVE IInv'  OBVIOUS
<1>1. PICK w \in Paths(Current.proto) :
        /\ path' = w
        /\ \/ /\ w \in DOMAIN EarlyStatus
              /\ tests' = Record(Result(EarlyStatus[w], 0))
              /\ UNCHANGED rPc
           \/ /\ w \notin DOMAIN EarlyStatus
              /\ rPc' = "recv"
              /\ UNCHANGED tests
  BY DEF ProbeSend
<1>2. CASE w \in DOMAIN EarlyStatus /\ tests' = Record(Result(EarlyStatus[w], 0))
           /\ UNCHANGED rPc
  <2>1. Result(EarlyStatus[w], 0) \in ResultRec  BY <1>2, ResultsTyped
  <2>2. LET t == Record(Result(EarlyStatus[w], 0))
        IN  /\ t \in Seq(Entry) /\ Len(t) = Len(tests) + 1
            /\ \A i \in 1..Len(t) : t[i].name = Probes[i].label
    BY <2>1, RecordOK DEF IInv, ProbeSend
  <2>3. Len(tests) + 1 <= NProbes  BY NProbesTen DEF IInv, TypeOK, ProbeSend
  <2>. QED  BY <1>2, <2>2, <2>3 DEF IInv, TypeOK, NameInv, PhaseInv, ProbeSend
<1>3. CASE w \notin DOMAIN EarlyStatus /\ rPc' = "recv" /\ UNCHANGED tests
  <2>1. w \in RecvPaths
    BY <1>1, <1>3, PathsAssumption DEF Paths, EarlyStatus, RecvPaths
  <2>. QED  BY <1>1, <1>3, <2>1 DEF IInv, TypeOK, NameInv, PhaseInv, ProbeSend
<1>. QED  BY <1>1, <1>2, <1>3

(* The recv appends the current probe's result.                           *)
LEMMA ProbeRecvIInv == IInv /\ ProbeRecv => IInv'
<1>. SUFFICES ASSUME IInv, ProbeRecv PROVE IInv'  OBVIOUS
<1>1. RecvResult(path) \in ResultRec  BY ResultsTyped DEF IInv, PhaseInv, ProbeRecv
<1>2. LET t == Record(RecvResult(path))
      IN  /\ t \in Seq(Entry) /\ Len(t) = Len(tests) + 1
          /\ \A i \in 1..Len(t) : t[i].name = Probes[i].label
  BY <1>1, RecordOK DEF IInv, PhaseInv, ProbeRecv
<1>3. Len(tests) + 1 <= NProbes  BY NProbesTen DEF IInv, TypeOK, PhaseInv, ProbeRecv
<1>. QED  BY <1>2, <1>3 DEF IInv, TypeOK, NameInv, PhaseInv, ProbeRecv

(* The summary only counts; the analysis starts on the full list.          *)
LEMMA PrintSummaryIInv == IInv /\ PrintSummary => IInv'
BY DEF IInv, TypeOK, NameInv, PhaseInv, PrintSummary

(* The analysis prints the three chains' lines on the full list.          *)
LEMMA PrintAnalysisIInv == IInv /\ PrintAnalysis => IInv'
BY LinesUnchanged DEF IInv, TypeOK, NameInv, PhaseInv, PrintAnalysis

(* Saving, or crashing while saving, changes neither tests nor the lines. *)
LEMMA SaveResultsIInv == IInv /\ SaveResults => IInv'
BY LinesUnchanged DEF IInv, TypeOK, NameInv, PhaseInv, SaveResults

(* The ended program and the stuttering steps change nothing.             *)
LEMMA TerminatedIInv == IInv /\ (Terminated \/ UNCHANGED vars) => IInv'
<1>. SUFFICES ASSUME IInv, UNCHANGED vars PROVE IInv'  BY DEF Terminated
<1>. QED  BY LinesUnchanged DEF IInv, TypeOK, NameInv, PhaseInv, vars

(* Every step of run_tests keeps the inductive invariant.                 *)
LEMMA NextIInv == IInv /\ [Next]_vars => IInv'
BY ProbeSendIInv, ProbeRecvIInv, PrintSummaryIInv, PrintAnalysisIInv,
   SaveResultsIInv, TerminatedIInv DEF Next

(* run_tests keeps its results in the order of the probe list, starts the *)
(* analysis only on the full list and prints its lines once.              *)
THEOREM Invariance == Spec => []IInv
BY InitIInv, NextIInv, PTL DEF Spec

(* The inductive invariant implies RunDiagnosisSound: once the analysis   *)
(* has printed, its lines are the three chains' on the full list, each of  *)
(* which is the spec's conclusion for its own family (ChainLines).        *)
LEMMA IInvSound == IInv => RunDiagnosisSound
<1>. SUFFICES ASSUME IInv, rPc \in {"save", "done", "crashed"}
              PROVE  /\ \A j \in DOMAIN diag : diag[j][2] = SpecDiagnosis(diag[j][1])
                     /\ \A j, k \in DOMAIN diag : diag[j][1] = diag[k][1] => j = k
  BY DEF RunDiagnosisSound
<1>. DEFINE x == <<"DNS", SpecDiagnosis("DNS")>>
            y == <<"SSH", SpecDiagnosis("SSH")>>
            z == <<"HTTPS", SpecDiagnosis("HTTPS")>>
<1>. HIDE DEF x, y, z
<1>1. diag = DnsLine \o SshLine \o HttpsLine  BY DEF IInv, PhaseInv
<1>2. /\ DnsLine \in {<<>>, <<x>>}
      /\ SshLine \in {<<>>, <<y>>}
      /\ HttpsLine \in {<<>>, <<z>>}
  BY ChainLines DEF IInv, PhaseInv, x, y, z
<1>3. x[1] # y[1] /\ x[1] # z[1] /\ y[1] # z[1]  BY DEF x, y, z
(* Three lines, each printed or not, of three distinct families: their   *)
(* concatenation holds only those lines, each family at most once.        *)
<1>4. LET d == DnsLine \o SshLine \o HttpsLine
      IN  /\ \A j \in DOMAIN d : d[j] \in {x, y, z}
          /\ \A j, k \in DOMAIN d : d[j][1] = d[k][1] => j = k
  <2>1. CASE DnsLine = <<>> /\ SshLine = <<>> /\ HttpsLine = <<>>
    BY <2>1, <1>3
  <2>2. CASE DnsLine = <<>> /\ SshLine = <<>> /\ HttpsLine = <<z>>
    BY <2>2, <1>3
  <2>3. CASE DnsLine = <<>> /\ SshLine = <<y>> /\ HttpsLine = <<>>
    BY <2>3, <1>3
  <2>4. CASE DnsLine = <<>> /\ SshLine = <<y>> /\ HttpsLine = <<z>>
    BY <2>4, <1>3
  <2>5. CASE DnsLine = <<x>> /\ SshLine = <<>> /\ HttpsLine = <<>>
    BY <2>5, <1>3
  <2>6. CASE DnsLine = <<x>> /\ SshLine = <<>> /\ HttpsLine = <<z>>
    BY <2>6, <1>3
  <2>7. CASE DnsLine = <<x>> /\ SshLine = <<y>> /\ HttpsLine = <<>>
    BY <2>7, <1>3
  <2>8. CASE DnsLine = <<x>> /\ SshLine = <<y>> /\ HttpsLine = <<z>>
    BY <2>8, <1>3
  <2>. QED  BY <1>2, <2>1, <2>2, <2>3, <2>4, <2>5, <2>6, <2>7, <2>8
<1>5. \A e \in {x, y, z} : e[2] = SpecDiagnosis(e[1])  BY DEF x, y, z
<1>6. /\ \A j \in DOMAIN diag : diag[j] \in {x, y, z}
      /\ \A j, k \in DOMAIN diag : diag[j][1] = diag[k][1] => j = k
  BY <1>1, <1>4, Zenon
<1>. QED  BY <1>5, <1>6

(* Spec 4.5: every line the analysis of run_tests prints is the ordered   *)
(* rules' conclusion for its family, read from the probes by their labels, *)
(* and no family gets two lines, for every set of path behaviours.         *)
THEOREM DiagnosisCorrect == Spec => []RunDiagnosisSound
BY Invariance, IInvSound, PTL

=============================================================================
