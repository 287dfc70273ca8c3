---------------------- MODULE MultiportAnalyzerProofs ----------------------
(***************************************************************************)
(* Proofs about MultiportAnalyzer for every value of the constants: the   *)
(* type invariant, and that the threads sharing connection_log implement   *)
(* the abstract ConnectionLog (Refinement).                                *)
(*                                                                         *)
(* Neither holds step by step on its own.  The type of an appended entry   *)
(* needs the handler's data to be non-empty when it echoes (SendInv), and  *)
(* the refinement needs the lock discipline spelled out (LockInv): the     *)
(* lock is held by the stats thread exactly while it scans and by the main *)
(* thread exactly while it saves, so that during a scan the log still has  *)
(* the length printed in the header, and during the save the file is the   *)
(* prefix of the log written so far.                                       *)
(***************************************************************************)
EXTENDS MultiportAnalyzer, SequenceTheorems, TLAPS

SendInv ==
  /\ \A c \in Conns : tcpPc[c] = "send" => tcpData[c] \in DataLens
  /\ \A l \in UdpLst : udpPc[l] = "send" => udpCur[l].len \in DataLens

LockInv ==
  /\ lock = "stats" <=> statsPc = "scan"
  /\ lock = "main" <=> mainPc = "save"
  /\ statsPc = "scan" => statsTotal = Len(log) /\ statsIdx <= Len(log)
  /\ mainPc = "save" => saveIdx <= Len(log) /\ file = SubSeq(log, 1, saveIdx)
  /\ mainPc \in {"start", "run"} => file = NoFile
  /\ mainPc = "start" => statsPc = "off"

IInv == TypeOK /\ SendInv /\ LockInv

-----------------------------------------------------------------------------
(* An entry built by Ev from a listener, an address, a loggable length and *)
(* a status is an Entry.                                                   *)
LEMMA EvType ==
  ASSUME NEW l \in Lst, NEW a \in Addrs, NEW n \in Lens, NEW s \in Status
  PROVE  Ev(l, a, n, s) \in Entry
<1>1. Ports[l] \in [port : Nat, name : STRING, proto : {"tcp", "udp"}]
  BY PortsAssumption, ElementOfSeq DEF Lst
<1>2. QED
  BY <1>1 DEF Ev, Entry

(* The lengths handle_tcp and udp_listener log are loggable lengths.       *)
LEMMA LensFacts ==
  /\ 0 \in Lens
  /\ DataLens \subseteq Lens
  /\ \A l \in Lst, n \in DataLens : EchoLen(l, n) \in Lens
  BY DEF Lens

(* Writing the next entry extends the prefix saved so far.                 *)
LEMMA SubSeqAppend ==
  ASSUME NEW S, NEW s \in Seq(S), NEW k \in 0..(Len(s) - 1)
  PROVE  Append(SubSeq(s, 1, k), s[k + 1]) = SubSeq(s, 1, k + 1)
  OBVIOUS

LEMMA InitIInv == Init => IInv
  BY DataAssumption DEF Init, IInv, TypeOK, SendInv, LockInv, Lst, Conns,
                        UdpLst

-----------------------------------------------------------------------------
(* Every step of Next preserves IInv, one step per action.                 *)
LEMMA NextIInv == IInv /\ [Next]_vars => IInv'
<1> SUFFICES ASSUME IInv, [Next]_vars PROVE IInv'
  OBVIOUS
<1> USE PortsAssumption, DataAssumption
<1> USE DEF IInv, mainVars, tcpVars, udpVars, statsVars
<1>1. CASE StartListener
  BY <1>1 DEF StartListener, TypeOK, SendInv, LockInv
<1>2. CASE StartStats
  BY <1>2 DEF StartStats, TypeOK, SendInv, LockInv
<1>3. CASE InterruptEarly
  BY <1>3 DEF InterruptEarly, TypeOK, SendInv, LockInv
<1>4. CASE Interrupt
  <2>1. CASE lock' = "main" /\ file' = <<>> /\ saveIdx' = 0 /\ mainPc' = "save"
    <3>1. file' \in Seq(Entry) /\ file' = SubSeq(log, 1, 0)
      BY <2>1, EmptySeq, SubSeqEmpty
    <3>2. QED
      BY <1>4, <2>1, <3>1 DEF Interrupt, TypeOK, SendInv, LockInv
  <2>4. CASE mainPc' = "exited" /\ UNCHANGED <<lock, file, saveIdx>>
    BY <1>4, <2>4 DEF Interrupt, TypeOK, SendInv, LockInv
  <2>5. QED
    BY <1>4, <2>1, <2>4 DEF Interrupt
<1>5. CASE SaveLine
  <2>1. /\ saveIdx \in 0..(Len(log) - 1)
        /\ log \in Seq(Entry)
        /\ file = SubSeq(log, 1, saveIdx)
    BY <1>5 DEF SaveLine, TypeOK, LockInv
  <2>2. CASE file' = Append(file, log[saveIdx + 1]) /\ saveIdx' = saveIdx + 1
             /\ UNCHANGED <<lock, mainPc>>
    <3>1. file' = SubSeq(log, 1, saveIdx + 1)
      BY <2>1, <2>2, SubSeqAppend
    <3>2. file' \in Seq(Entry)
      BY <2>1, <3>1, SubSeqProperties, ElementOfSeq
    <3>3. QED
      BY <1>5, <2>1, <2>2, <3>1, <3>2 DEF SaveLine, TypeOK, SendInv, LockInv
  <2>6. CASE lock' = "free" /\ mainPc' = "exited" /\ UNCHANGED <<file, saveIdx>>
    BY <1>5, <2>6 DEF SaveLine, TypeOK, SendInv, LockInv
  <2>7. QED
    BY <1>5, <2>2, <2>6 DEF SaveLine
<1>6. CASE SaveDone
  BY <1>6 DEF SaveDone, TypeOK, SendInv, LockInv
<1>7. ASSUME NEW l \in Lst, Bind(l) PROVE IInv'
  BY <1>7 DEF Bind, TypeOK, SendInv, LockInv
<1>8. ASSUME NEW c \in Conns, Accept(c) PROVE IInv'
  BY <1>8 DEF Accept, TypeOK, SendInv, LockInv
<1>9. ASSUME NEW c \in Conns, PeerSend(c) \/ PeerClose(c) \/ PeerReset(c)
      PROVE IInv'
  <2>1. \E r \in [st : {"absent", "open", "eof", "rst"},
                  sent : {0} \cup DataLens] :
          peer' = [peer EXCEPT ![c] = r]
    <3>1. peer[c] \in [st : {"absent", "open", "eof", "rst"},
                      sent : {0} \cup DataLens]
      BY DEF TypeOK
    <3>2. QED
      BY <1>9, <3>1 DEF PeerSend, PeerClose, PeerReset
  <2>2. peer' \in [Conns -> [st : {"absent", "open", "eof", "rst"},
                            sent : {0} \cup DataLens]]
    BY <2>1 DEF TypeOK
  <2>3. QED
    BY <1>9, <2>2 DEF PeerSend, PeerClose, PeerReset, TypeOK, SendInv, LockInv
<1>10. ASSUME NEW c \in Conns, HandleRecv(c) PROVE IInv'
  <2>1. c[1] \in Lst /\ c[2] \in Addrs /\ peer[c].sent \in Lens
    BY LensFacts DEF Conns, TcpLst, TypeOK
  <2>2. \E e \in Entry : log' = Append(log, e)
    BY <1>10, <2>1, LensFacts, EvType DEF HandleRecv, LogConnection, Status
  <2>3. log' \in Seq(Entry)
    BY <2>2, AppendProperties DEF TypeOK
  <2>4. peer[c].sent \in {0} \cup DataLens
    BY DEF TypeOK
  <2>5. TypeOK'
    BY <1>10, <2>3, <2>4 DEF HandleRecv, TypeOK
  <2>6. SendInv'
    BY <1>10, <2>4 DEF HandleRecv, TypeOK, SendInv
  <2>7. LockInv'
    BY <1>10, <2>3 DEF HandleRecv, LogConnection, TypeOK, LockInv
  <2>8. QED
    BY <2>5, <2>6, <2>7
<1>11. ASSUME NEW c \in Conns, HandleSend(c) PROVE IInv'
  <2>1. c[1] \in Lst /\ c[2] \in Addrs
    BY DEF Conns, TcpLst
  <2>2. tcpPc[c] = "send" => tcpData[c] \in DataLens
    BY DEF SendInv
  <2>3. \E e \in Entry : log' = Append(log, e)
    BY <1>11, <2>1, <2>2, LensFacts, EvType DEF HandleSend, LogConnection,
                                               Status
  <2>4. log' \in Seq(Entry)
    BY <2>3, AppendProperties DEF TypeOK
  <2>5. QED
    BY <1>11, <2>4 DEF HandleSend, LogConnection, TypeOK, SendInv, LockInv
<1>12. ASSUME NEW l \in UdpLst, UdpRecv(l) PROVE IInv'
  <2>1. PICK a \in Addrs, n \in {0} \cup DataLens :
          /\ LogConnection(Ev(l, a, n, "RECEIVED"))
          /\ udpCur' = [udpCur EXCEPT ![l] = [client |-> a, len |-> n]]
          /\ udpPc' = [udpPc EXCEPT ![l] = IF n > 0 THEN "send" ELSE "recv"]
    BY <1>12 DEF UdpRecv
  <2>2. Ev(l, a, n, "RECEIVED") \in Entry
    BY LensFacts, EvType DEF UdpLst, Status
  <2>3. log' \in Seq(Entry)
    BY <2>1, <2>2, AppendProperties DEF LogConnection, TypeOK
  <2>4. QED
    BY <1>12, <2>1, <2>3 DEF UdpRecv, LogConnection, TypeOK, SendInv, LockInv
<1>13. ASSUME NEW l \in UdpLst, UdpSend(l) PROVE IInv'
  <2>1. l \in Lst /\ udpCur[l].client \in Addrs /\ udpCur[l].len \in DataLens
    BY <1>13 DEF UdpSend, UdpLst, TypeOK, SendInv
  <2>2. Ev(l, udpCur[l].client, EchoLen(l, udpCur[l].len), "SENT_ECHO")
          \in Entry
    BY <2>1, LensFacts, EvType DEF Status
  <2>3. log' \in Seq(Entry)
    <3>1. log \in Seq(Entry)
      BY DEF TypeOK
    <3>2. log' = log \/
          log' = Append(log, Ev(l, udpCur[l].client,
                                EchoLen(l, udpCur[l].len), "SENT_ECHO"))
      BY <1>13 DEF UdpSend, LogConnection
    <3>3. CASE log' = log
      BY <3>1, <3>3
    <3>4. CASE log' = Append(log, Ev(l, udpCur[l].client,
                                     EchoLen(l, udpCur[l].len), "SENT_ECHO"))
      BY <2>2, <3>1, <3>4, AppendProperties
    <3>5. QED
      BY <3>2, <3>3, <3>4
  <2>4. TypeOK'
    <3>1. udpPc' \in [UdpLst -> {"recv", "send"}]
      BY <1>13 DEF UdpSend, TypeOK
    <3>2. UNCHANGED <<report, file, lock, mainPc, nStarted, lstState, peer,
                      tcpPc, tcpData, udpCur, udpCount, statsPc, statsTotal,
                      statsIdx, saveIdx>>
      BY <1>13 DEF UdpSend
    <3>3. QED
      BY <2>3, <3>1, <3>2 DEF TypeOK
  <2>5. SendInv'
    BY <1>13 DEF UdpSend, TypeOK, SendInv
  <2>6. LockInv'
    <3>1. CASE LogConnection(Ev(l, udpCur[l].client,
                                EchoLen(l, udpCur[l].len), "SENT_ECHO"))
      BY <1>13, <3>1, <2>3 DEF UdpSend, LogConnection, TypeOK, LockInv
    <3>2. CASE UNCHANGED log
      BY <1>13, <3>2 DEF UdpSend, LockInv
    <3>3. QED
      BY <1>13, <3>1, <3>2 DEF UdpSend
  <2>7. QED
    BY <2>4, <2>5, <2>6
<1>14. CASE StatsBegin
  BY <1>14 DEF StatsBegin, TypeOK, SendInv, LockInv
<1>15. CASE StatsScan
  BY <1>15 DEF StatsScan, TypeOK, SendInv, LockInv
<1>16. CASE StatsPrint
  BY <1>16 DEF StatsPrint, TypeOK, SendInv, LockInv
<1>17. CASE Terminated \/ UNCHANGED vars
  BY <1>17 DEF Terminated, vars, TypeOK, SendInv, LockInv
<1>18. QED
  BY <1>1, <1>2, <1>3, <1>4, <1>5, <1>6, <1>7, <1>8, <1>9, <1>10, <1>11,
     <1>12, <1>13, <1>14, <1>15, <1>16, <1>17 DEF Next

(* The type invariant and the lock discipline hold in every reachable     *)
(* state of the threads of multiport_analyzer.py.                          *)
THEOREM Invariance == Spec => []IInv
<1>1. Init => IInv
  BY InitIInv
<1>2. IInv /\ [Next]_vars => IInv'
  BY NextIInv
<1>3. QED
  BY <1>1, <1>2, PTL DEF Spec

(* TypeOK: every entry appended to connection_log by handle_tcp and        *)
(* udp_listener is a well-formed event, and every thread's state stays in  *)
(* its range, for any `ports` list and any payload sizes up to 4096.       *)
THEOREM TypeCorrect == Spec => []TypeOK
<1>1. IInv => TypeOK
  BY DEF IInv
<1>2. QED
  BY Invariance, <1>1, PTL

-----------------------------------------------------------------------------
(* Every step of the threads is a step of ConnectionLog or leaves its      *)
(* variables unchanged.                                                    *)
LEMMA RefinementStep == IInv /\ [Next]_vars => [CL!Next]_CL!vars
<1> SUFFICES ASSUME IInv, [Next]_vars PROVE [CL!Next]_CL!vars
  OBVIOUS
<1> USE DEF IInv, mainVars, tcpVars, udpVars, statsVars
<1>1. CASE StartListener \/ StartStats \/ StatsBegin \/ StatsScan
           \/ Terminated \/ UNCHANGED vars
  BY <1>1 DEF StartListener, StartStats, StatsBegin, StatsScan, Terminated,
              vars, CL!vars
<1>2. CASE InterruptEarly
  BY <1>2 DEF InterruptEarly, LockInv, CL!Next, CL!Abort
<1>3. CASE Interrupt
  BY <1>3 DEF Interrupt, LockInv, CL!Next, CL!Abort, CL!vars
<1>4. CASE SaveLine
  <2>1. saveIdx \in 0..Len(log) /\ file = SubSeq(log, 1, saveIdx)
    BY <1>4 DEF SaveLine, LockInv, TypeOK
  <2>2. QED
    BY <1>4, <2>1 DEF SaveLine, CL!Next, CL!Abort, CL!vars
<1>5. CASE SaveDone
  <2>1. file = log
    BY <1>5, SubSeqFull DEF SaveDone, LockInv, TypeOK
  <2>2. QED
    BY <1>5, <2>1 DEF SaveDone, CL!Next, CL!Export
<1>6. ASSUME NEW l \in Lst, Bind(l) PROVE [CL!Next]_CL!vars
  BY <1>6 DEF Bind, CL!vars
<1>7. ASSUME NEW c \in Conns,
             Accept(c) \/ PeerSend(c) \/ PeerClose(c) \/ PeerReset(c)
      PROVE [CL!Next]_CL!vars
  BY <1>7 DEF Accept, PeerSend, PeerClose, PeerReset, CL!vars
<1>8. ASSUME NEW c \in Conns, HandleRecv(c) \/ HandleSend(c)
      PROVE [CL!Next]_CL!vars
  <2>1. log' \in Seq(Entry)
    BY NextIInv DEF TypeOK
  <2>2. PICK e : log' = Append(log, e)
    BY <1>8 DEF HandleRecv, HandleSend, LogConnection
  <2>3. e \in Entry
    BY <2>1, <2>2, AppendProperties, ElementOfSeq DEF TypeOK
  <2>4. QED
    BY <1>8, <2>2, <2>3 DEF HandleRecv, HandleSend, Running, CL!Next,
                            CL!LogAppend
<1>9. ASSUME NEW l \in UdpLst, UdpRecv(l) \/ UdpSend(l)
      PROVE [CL!Next]_CL!vars
  <2>1. CASE UNCHANGED log
    BY <1>9, <2>1 DEF UdpRecv, UdpSend, CL!vars
  <2>2. CASE log' # log
    <3>1. log' \in Seq(Entry)
      BY NextIInv DEF TypeOK
    <3>2. PICK e : log' = Append(log, e)
      BY <1>9, <2>2 DEF UdpRecv, UdpSend, LogConnection
    <3>3. e \in Entry
      BY <3>1, <3>2, AppendProperties, ElementOfSeq DEF TypeOK
    <3>4. QED
      BY <1>9, <3>2, <3>3 DEF UdpRecv, UdpSend, Running, CL!Next,
                              CL!LogAppend
  <2>3. QED
    BY <2>1, <2>2
<1>10. CASE StatsPrint
  <2>1. statsTotal = Len(log) /\ SubSeq(log, 1, statsIdx) = log
    BY <1>10, SubSeqFull DEF StatsPrint, LockInv, TypeOK
  <2>2. QED
    BY <1>10, <2>1 DEF StatsPrint, Running, CL!Next, CL!Report,
                       CL!Snapshot
<1>11. QED
  BY <1>1, <1>2, <1>3, <1>4, <1>5, <1>6, <1>7, <1>8, <1>9, <1>10 DEF Next

(* Lock discipline of connection_log: the threads implement ConnectionLog  *)
(* (property Refinement): every statistics table dump_stats prints is the  *)
(* table of the whole log at one instant, and the file saved on Ctrl+C is  *)
(* the log at exit, or a prefix of it when a write fails.                  *)
THEOREM RefinementCorrect == Spec => Refinement
<1>1. Init => CL!Init
  BY DEF Init, CL!Init
<1>2. IInv /\ [Next]_vars => [CL!Next]_CL!vars
  BY RefinementStep
<1>3. QED
  BY <1>1, <1>2, Invariance, PTL DEF Spec, Refinement, CL!Spec

=============================================================================
