------------------- MODULE MultiportAnalyzerEventsProofs -------------------
(***************************************************************************)
(* Proof of the per-connection event contract ConnEventProtocol of        *)
(* multiport_analyzer.py for every value of the constants.                 *)
(*                                                                         *)
(* The events of a connection are the entries of connection_log that       *)
(* belong to it, in order (EventsOf).  The first part proves what a        *)
(* log_connection call does to them: appending an entry of connection c    *)
(* appends it to c's events, appending any other entry leaves them alone   *)
(* (EventsOfAppend).  Its argument is by counting: the k-th event of c is  *)
(* the one entry of c with k entries of c up to it, and such an entry      *)
(* exists for every k up to the total (EvCountOnto, by a least index).     *)
(*                                                                         *)
(* The second part states, per connection, what its handler has logged at *)
(* each point of handle_tcp (ConnInv), and proves it inductive together    *)
(* with IInv: an entry is only ever appended by its own connection's       *)
(* handler, because listeners differ in (proto, name, port).               *)
(***************************************************************************)
EXTENDS MultiportAnalyzerProofs, FiniteSetTheorems, WellFoundedInduction

(* The entries of c among the first i of s.                                *)
CntSet(s, c, i) == {j \in 1..i : IsConnEv(s[j], c)}

-----------------------------------------------------------------------------
(* Counting the entries of c: a natural number, starting at 0, growing by *)
(* one at an entry of c and staying the same at any other.                 *)
LEMMA EvCountStep ==
  ASSUME NEW S, NEW s \in Seq(S), NEW c
  PROVE  /\ EvCount(s, c, 0) = 0
         /\ \A i \in 0..Len(s) : /\ IsFiniteSet(CntSet(s, c, i))
                                 /\ EvCount(s, c, i) \in Nat
         /\ \A i \in 1..Len(s) :
              EvCount(s, c, i) =
                IF IsConnEv(s[i], c) THEN EvCount(s, c, i - 1) + 1
                                     ELSE EvCount(s, c, i - 1)
<1>1. EvCount(s, c, 0) = 0
  <2>1. CntSet(s, c, 0) = {}
    BY DEF CntSet
  <2>2. QED
    BY <2>1, FS_EmptySet DEF EvCount, CntSet
<1>2. ASSUME NEW i \in 0..Len(s)
      PROVE  IsFiniteSet(CntSet(s, c, i)) /\ EvCount(s, c, i) \in Nat
  <2>1. IsFiniteSet(1..i)
    BY FS_Interval
  <2>2. IsFiniteSet(CntSet(s, c, i))
    BY <2>1, FS_Subset DEF CntSet
  <2>3. QED
    BY <2>2, FS_CardinalityType DEF EvCount, CntSet
<1>3. ASSUME NEW i \in 1..Len(s)
      PROVE  EvCount(s, c, i) =
               IF IsConnEv(s[i], c) THEN EvCount(s, c, i - 1) + 1
                                    ELSE EvCount(s, c, i - 1)
  <2>1. IsFiniteSet(CntSet(s, c, i - 1)) /\ i \notin CntSet(s, c, i - 1)
    BY <1>2 DEF CntSet
  <2>2. CASE IsConnEv(s[i], c)
    <3>1. CntSet(s, c, i) = CntSet(s, c, i - 1) \cup {i}
      BY <2>2 DEF CntSet
    <3>2. QED
      BY <2>1, <2>2, <3>1, FS_AddElement DEF EvCount, CntSet
  <2>3. CASE ~IsConnEv(s[i], c)
    <3>1. CntSet(s, c, i) = CntSet(s, c, i - 1)
      BY <2>3 DEF CntSet
    <3>2. QED
      BY <2>3, <3>1 DEF EvCount, CntSet
  <2>4. QED
    BY <2>2, <2>3
<1>4. QED
  BY <1>1, <1>2, <1>3

(* The count never decreases along the log, and rises strictly past an   *)
(* entry of c.                                                             *)
LEMMA EvCountMono ==
  ASSUME NEW S, NEW s \in Seq(S), NEW c,
         NEW i \in 0..Len(s), NEW j \in 0..Len(s), i <= j
  PROVE  /\ EvCount(s, c, i) <= EvCount(s, c, j)
         /\ (i < j /\ i > 0 /\ IsConnEv(s[j], c))
              => EvCount(s, c, i) < EvCount(s, c, j)
<1>1. IsFiniteSet(CntSet(s, c, j))
  <2>1. \A k \in 0..Len(s) : IsFiniteSet(CntSet(s, c, k))
    BY EvCountStep
  <2>2. QED
    BY <2>1
<1>2. CntSet(s, c, i) \subseteq CntSet(s, c, j)
  BY DEF CntSet
<1>3. EvCount(s, c, i) <= EvCount(s, c, j)
  BY <1>1, <1>2, FS_Subset DEF EvCount, CntSet
<1>4. ASSUME i < j, i > 0, IsConnEv(s[j], c)
      PROVE  EvCount(s, c, i) < EvCount(s, c, j)
  <2>1. \A k \in 0..Len(s) : IsFiniteSet(CntSet(s, c, k))
                             /\ EvCount(s, c, k) \in Nat
    BY EvCountStep
  <2>2. \A k \in 1..Len(s) :
          EvCount(s, c, k) =
            IF IsConnEv(s[k], c) THEN EvCount(s, c, k - 1) + 1
                                 ELSE EvCount(s, c, k - 1)
    BY EvCountStep
  <2>3. CntSet(s, c, i) \subseteq CntSet(s, c, j - 1)
    BY <1>4 DEF CntSet
  <2>4. EvCount(s, c, i) <= EvCount(s, c, j - 1)
    BY <1>4, <2>1, <2>3, FS_Subset DEF EvCount, CntSet
  <2>5. EvCount(s, c, j) = EvCount(s, c, j - 1) + 1
    BY <1>4, <2>2
  <2>6. QED
    BY <1>4, <2>1, <2>4, <2>5
<1>5. QED
  BY <1>3, <1>4

(* Every count up to the total is reached at an entry of c: the least     *)
(* index whose count is at least k carries the k-th entry of c.            *)
LEMMA EvCountOnto ==
  ASSUME NEW S, NEW s \in Seq(S), NEW c,
         NEW k \in 1..EvCount(s, c, Len(s))
  PROVE  \E i \in 1..Len(s) : IsConnEv(s[i], c) /\ EvCount(s, c, i) = k
<1> DEFINE T == {i \in 0..Len(s) : EvCount(s, c, i) >= k}
           R == OpToRel(<, Nat)
<1>1. \A i \in 0..Len(s) : EvCount(s, c, i) \in Nat
  BY EvCountStep
<1>2. \A i \in 1..Len(s) :
        EvCount(s, c, i) =
          IF IsConnEv(s[i], c) THEN EvCount(s, c, i - 1) + 1
                               ELSE EvCount(s, c, i - 1)
  BY EvCountStep
<1>3. T \subseteq Nat /\ T # {}
  BY <1>1
<1>4. PICK m \in T : \A y \in T : ~(<<y, m>> \in R)
  BY <1>3, NatLessThanWellFounded, WFMin
<1>5. \A y \in T : ~(y < m)
  BY <1>3, <1>4 DEF OpToRel
<1>6. m # 0
  BY EvCountStep
<1>7. EvCount(s, c, m - 1) < k
  BY <1>1, <1>5, <1>6
<1>8. IsConnEv(s[m], c) /\ EvCount(s, c, m) = k
  BY <1>1, <1>2, <1>6, <1>7
<1>9. QED
  BY <1>6, <1>8

(* The entry of c at index i is the EvCount(s, c, i)-th event of c.       *)
LEMMA EventsOfAt ==
  ASSUME NEW S, NEW s \in Seq(S), NEW c,
         NEW i \in 1..Len(s), IsConnEv(s[i], c)
  PROVE  /\ EvCount(s, c, i) \in 1..EvCount(s, c, Len(s))
         /\ EventsOf(s, c)[EvCount(s, c, i)] = s[i]
<1> DEFINE k == EvCount(s, c, i)
           P(j) == IsConnEv(s[j], c) /\ EvCount(s, c, j) = k
<1>1. \A j \in 0..Len(s) : EvCount(s, c, j) \in Nat
  BY EvCountStep
<1>2. k \in 1..EvCount(s, c, Len(s))
  <2>1. k = EvCount(s, c, i - 1) + 1
    BY EvCountStep
  <2>2. QED
    BY <1>1, <2>1, EvCountMono
<1>3. ASSUME NEW j \in 1..Len(s), P(j) PROVE j = i
  <2>1. EvCount(s, c, j) = EvCount(s, c, i) /\ IsConnEv(s[j], c)
    BY <1>3 DEF P, k
  <2>2. \A a, b \in 1..Len(s) :
          a < b /\ IsConnEv(s[b], c) => EvCount(s, c, a) < EvCount(s, c, b)
    <3>1. SUFFICES ASSUME NEW a \in 1..Len(s), NEW b \in 1..Len(s), a < b,
                          IsConnEv(s[b], c)
                   PROVE  EvCount(s, c, a) < EvCount(s, c, b)
      OBVIOUS
    <3>2. a \in 0..Len(s) /\ b \in 0..Len(s) /\ a <= b /\ a > 0
      BY <3>1
    <3>3. QED
      BY <3>1, <3>2, EvCountMono
  <2>3. ~(j < i)
    <3>1. j < i => EvCount(s, c, j) < EvCount(s, c, i)
      BY <2>2
    <3>2. QED
      BY <1>1, <2>1, <3>1
  <2>4. ~(i < j)
    <3>1. i < j => EvCount(s, c, i) < EvCount(s, c, j)
      BY <2>1, <2>2
    <3>2. QED
      BY <1>1, <2>1, <3>1
  <2>5. QED
    BY <2>3, <2>4
<1>4. (CHOOSE j \in 1..Len(s) : P(j)) = i
  BY <1>3
<1>5. QED
  BY <1>2, <1>4 DEF EventsOf
(* The events of c are entries of the log's type.                         *)
LEMMA EventsOfType ==
  ASSUME NEW S, NEW s \in Seq(S), NEW c
  PROVE  EventsOf(s, c) \in Seq(S)
<1> DEFINE N == EvCount(s, c, Len(s))
<1>1. N \in Nat
  <2>1. \A i \in 0..Len(s) : EvCount(s, c, i) \in Nat
    BY EvCountStep
  <2>2. QED
    BY <2>1 DEF N
<1>2. \A k \in 1..N : EventsOf(s, c)[k] \in S
  <2>1. SUFFICES ASSUME NEW k \in 1..N PROVE EventsOf(s, c)[k] \in S
    OBVIOUS
  <2>2. PICK i \in 1..Len(s) : IsConnEv(s[i], c) /\ EvCount(s, c, i) = k
    BY <2>1, EvCountOnto
  <2>3. QED
    BY <2>2, EventsOfAt
<1>3. EventsOf(s, c) \in [1..N -> S]
  BY <1>2 DEF EventsOf, N
<1>4. QED
  BY <1>1, <1>3

(* An empty log holds no events of any connection.                        *)
LEMMA EventsOfEmpty ==
  ASSUME NEW c
  PROVE  EventsOf(<<>>, c) = <<>>
<1>1. EvCount(<<>>, c, 0) = 0
  BY EvCountStep, EmptySeq
<1>2. QED
  BY <1>1 DEF EventsOf

(* log_connection appends e to connection_log: the events of c gain e at  *)
(* their end when e belongs to c, and are unchanged otherwise.             *)
LEMMA EventsOfAppend ==
  ASSUME NEW S, NEW s \in Seq(S), NEW e \in S, NEW c
  PROVE  EventsOf(Append(s, e), c) =
           IF IsConnEv(e, c) THEN Append(EventsOf(s, c), e)
                             ELSE EventsOf(s, c)
<1> DEFINE t == Append(s, e)
           n == Len(s)
           N == EvCount(s, c, n)
<1>1. /\ t \in Seq(S) /\ Len(t) = n + 1 /\ t[n + 1] = e
      /\ \A j \in 1..n : t[j] = s[j]
  BY AppendProperties
<1>2. \A i \in 0..n : EvCount(t, c, i) = EvCount(s, c, i)
  <2>1. SUFFICES ASSUME NEW i \in 0..n
                 PROVE  EvCount(t, c, i) = EvCount(s, c, i)
    OBVIOUS
  <2>2. CntSet(t, c, i) = CntSet(s, c, i)
    BY <1>1, <2>1 DEF CntSet
  <2>3. QED
    BY <2>2 DEF EvCount, CntSet
<1>3. /\ N \in Nat
      /\ EvCount(t, c, n + 1) = IF IsConnEv(e, c) THEN N + 1 ELSE N
  <2>1. \A i \in 1..Len(t) :
          EvCount(t, c, i) =
            IF IsConnEv(t[i], c) THEN EvCount(t, c, i - 1) + 1
                                 ELSE EvCount(t, c, i - 1)
    BY <1>1, EvCountStep
  <2>2. \A i \in 0..n : EvCount(s, c, i) \in Nat
    BY EvCountStep
  <2>3. QED
    BY <1>1, <1>2, <2>1, <2>2
<1>4. \A k \in 1..N : EventsOf(t, c)[k] = EventsOf(s, c)[k]
  <2>1. SUFFICES ASSUME NEW k \in 1..N
                 PROVE  EventsOf(t, c)[k] = EventsOf(s, c)[k]
    OBVIOUS
  <2>2. PICK i \in 1..n : IsConnEv(s[i], c) /\ EvCount(s, c, i) = k
    BY <2>1, EvCountOnto
  <2>3. EventsOf(s, c)[k] = s[i]
    BY <2>2, EventsOfAt
  <2>4. IsConnEv(t[i], c) /\ EvCount(t, c, i) = k /\ t[i] = s[i]
    BY <1>1, <1>2, <2>2
  <2>5. EventsOf(t, c)[k] = t[i]
    <3>1. i \in 1..Len(t)
      BY <1>1
    <3>2. QED
      BY <1>1, <2>4, <3>1, EventsOfAt
  <2>6. QED
    BY <2>3, <2>4, <2>5
<1>5. /\ EventsOf(s, c) \in Seq(S)
      /\ Len(EventsOf(s, c)) = N
      /\ DOMAIN EventsOf(t, c) = 1..EvCount(t, c, n + 1)
  <2>1. EventsOf(s, c) \in Seq(S)
    BY EventsOfType
  <2>2. DOMAIN EventsOf(s, c) = 1..N
    BY DEF EventsOf, N, n
  <2>3. QED
    BY <1>3, <2>1, <2>2 DEF EventsOf, N, n, t
<1>6. EventsOf(t, c) \in Seq(S) /\ Len(EventsOf(t, c)) = EvCount(t, c, n + 1)
  <2>1. EventsOf(t, c) \in Seq(S)
    BY <1>1, EventsOfType
  <2>2. QED
    BY <1>3, <1>5, <2>1
<1>7. CASE IsConnEv(e, c)
  <2>1. EventsOf(t, c)[N + 1] = e
    <3>1. \A i \in 1..Len(t) :
            IsConnEv(t[i], c) => EventsOf(t, c)[EvCount(t, c, i)] = t[i]
      BY <1>1, EventsOfAt
    <3>2. QED
      BY <1>1, <1>3, <1>7, <3>1
  <2>2. /\ Append(EventsOf(s, c), e) \in Seq(S)
        /\ Len(Append(EventsOf(s, c), e)) = N + 1
        /\ \A k \in 1..N : Append(EventsOf(s, c), e)[k] = EventsOf(s, c)[k]
        /\ Append(EventsOf(s, c), e)[N + 1] = e
    BY <1>5, AppendProperties
  <2>3. \A k \in 1..N + 1 : EventsOf(t, c)[k] = Append(EventsOf(s, c), e)[k]
    BY <1>3, <1>4, <2>1, <2>2
  <2>4. EventsOf(t, c) = Append(EventsOf(s, c), e)
    BY <1>3, <1>6, <1>7, <2>2, <2>3, SeqEqual
  <2>5. QED
    BY <1>7, <2>4
<1>8. CASE ~IsConnEv(e, c)
  <2>1. Len(EventsOf(t, c)) = Len(EventsOf(s, c))
    BY <1>3, <1>5, <1>6, <1>8
  <2>2. EventsOf(t, c) = EventsOf(s, c)
    BY <1>4, <1>5, <1>6, <2>1, SeqEqual
  <2>3. QED
    BY <1>8, <2>2
<1>9. QED
  BY <1>7, <1>8

-----------------------------------------------------------------------------
(* What handle_tcp has logged for connection c at each point of its run:  *)
(* nothing before its recv returns; the RECEIVED of the data it holds      *)
(* while it echoes; a complete trace once closed.  A connection whose peer *)
(* has not connected has no handler yet.                                   *)
ConnOK(c) ==
  /\ peer[c].st = "absent" => tcpPc[c] = "idle"
  /\ tcpPc[c] \in {"idle", "recv"} => ConnEvents(c) = <<>>
  /\ tcpPc[c] = "send" =>
       /\ Len(ConnEvents(c)) = 1
       /\ ConnEvents(c)[1] = Ev(c[1], c[2], tcpData[c], "RECEIVED")
  /\ tcpPc[c] = "closed" => CompleteTrace(c[1], ConnEvents(c))

ConnInv == \A c \in Conns : ConnOK(c)

(* An entry logged by a listener's thread belongs to connection c exactly *)
(* when the listener is c's TCP listener and the client is c's: no two    *)
(* listeners share (proto, name, port).                                    *)
LEMMA EvOwner ==
  ASSUME NEW l \in Lst, NEW a, NEW n, NEW st, NEW c \in Conns
  PROVE  IsConnEv(Ev(l, a, n, st), c) <=> (Ports[l].proto = "tcp" /\ c = <<l, a>>)
<1>1. c = <<c[1], c[2]>> /\ c[1] \in Lst /\ Ports[c[1]].proto = "tcp"
  BY DEF Conns, TcpLst
<1>2. ASSUME IsConnEv(Ev(l, a, n, st), c)
      PROVE  Ports[l].proto = "tcp" /\ c = <<l, a>>
  <2>1. /\ Ports[l].proto = Ports[c[1]].proto
        /\ Ports[l].name = Ports[c[1]].name
        /\ Ports[l].port = Ports[c[1]].port
        /\ a = c[2]
    BY <1>1, <1>2 DEF IsConnEv, Ev
  <2>2. l = c[1]
    BY <1>1, <2>1, PortsAssumption DEF Lst
  <2>3. QED
    BY <1>1, <2>1, <2>2
<1>3. QED
  BY <1>1, <1>2 DEF IsConnEv, Ev

(* log_connection as seen by the events of each connection.                *)
LEMMA ConnEventsAppend ==
  ASSUME TypeOK, NEW e \in Entry, log' = Append(log, e), NEW c
  PROVE  ConnEvents(c)' = IF IsConnEv(e, c) THEN Append(ConnEvents(c), e)
                                            ELSE ConnEvents(c)
<1>1. \A s \in Seq(Entry), x \in Entry :
        EventsOf(Append(s, x), c) = IF IsConnEv(x, c) THEN Append(EventsOf(s, c), x)
                                                      ELSE EventsOf(s, c)
  BY EventsOfAppend
<1>2. QED
  BY <1>1 DEF TypeOK, ConnEvents

(* An entry handle_tcp logs for c0 is appended to c0's events and to no    *)
(* other connection's.                                                     *)
LEMMA OwnAppend ==
  ASSUME TypeOK, NEW c0 \in Conns, NEW n \in Lens, NEW st \in Status,
         log' = Append(log, Ev(c0[1], c0[2], n, st))
  PROVE  /\ ConnEvents(c0)' = Append(ConnEvents(c0), Ev(c0[1], c0[2], n, st))
         /\ \A c \in Conns \ {c0} : ConnEvents(c)' = ConnEvents(c)
<1>1. c0[1] \in Lst /\ c0[2] \in Addrs /\ Ports[c0[1]].proto = "tcp"
      /\ c0 = <<c0[1], c0[2]>>
  BY DEF Conns, TcpLst
<1>2. Ev(c0[1], c0[2], n, st) \in Entry
  BY <1>1, EvType
<1>3. \A c \in Conns : IsConnEv(Ev(c0[1], c0[2], n, st), c) <=> c = c0
  BY <1>1, EvOwner
<1>4. \A c \in Conns :
        ConnEvents(c)' = IF IsConnEv(Ev(c0[1], c0[2], n, st), c)
                           THEN Append(ConnEvents(c), Ev(c0[1], c0[2], n, st))
                           ELSE ConnEvents(c)
  BY <1>2, ConnEventsAppend
<1>5. QED
  BY <1>3, <1>4

(* An entry a UDP listener logs belongs to no TCP connection.              *)
LEMMA UdpAppend ==
  ASSUME TypeOK, NEW l \in UdpLst, NEW a \in Addrs, NEW n \in Lens,
         NEW st \in Status, log' = Append(log, Ev(l, a, n, st))
  PROVE  \A c \in Conns : ConnEvents(c)' = ConnEvents(c)
<1>1. l \in Lst /\ Ports[l].proto = "udp"
  BY DEF UdpLst
<1>2. Ev(l, a, n, st) \in Entry
  BY <1>1, EvType
<1>3. \A c \in Conns : ~IsConnEv(Ev(l, a, n, st), c)
  BY <1>1, EvOwner
<1>4. QED
  BY <1>2, <1>3, ConnEventsAppend

LEMMA InitConnInv == Init => ConnInv
  BY EventsOfEmpty DEF Init, ConnInv, ConnOK, ConnEvents


-----------------------------------------------------------------------------
(* Every step of Next preserves ConnInv, given IInv, one step per action. *)
LEMMA NextConnInv == IInv /\ ConnInv /\ [Next]_vars => ConnInv'
<1> SUFFICES ASSUME IInv, ConnInv, [Next]_vars PROVE ConnInv'
  OBVIOUS
<1> USE DEF IInv, mainVars, tcpVars, udpVars, statsVars
<1>1. ASSUME UNCHANGED <<log, peer, tcpPc, tcpData>> PROVE ConnInv'
  BY <1>1 DEF ConnInv, ConnOK, ConnEvents
<1>2. CASE StartListener \/ StartStats \/ InterruptEarly \/ Interrupt
           \/ SaveLine \/ SaveDone \/ StatsBegin \/ StatsScan \/ StatsPrint
           \/ Terminated \/ UNCHANGED vars
  BY <1>1, <1>2 DEF StartListener, StartStats, InterruptEarly, Interrupt,
                    SaveLine, SaveDone, StatsBegin, StatsScan, StatsPrint,
                    Terminated, vars
<1>3. ASSUME NEW l \in Lst, Bind(l) PROVE ConnInv'
  BY <1>1, <1>3 DEF Bind
<1>4. ASSUME NEW c0 \in Conns, Accept(c0) PROVE ConnInv'
  <2>1. tcpPc[c0] = "idle"
    BY <1>4 DEF Accept, ConnInv, ConnOK
  <2>2. \A c \in Conns : ConnEvents(c)' = ConnEvents(c)
    BY <1>4 DEF Accept, ConnEvents
  <2>3. QED
    BY <1>4, <2>1, <2>2 DEF Accept, ConnInv, ConnOK, TypeOK
<1>5. ASSUME NEW c0 \in Conns, PeerSend(c0) \/ PeerClose(c0) \/ PeerReset(c0)
      PROVE  ConnInv'
  <2>1. \A c \in Conns : ConnEvents(c)' = ConnEvents(c)
    BY <1>5 DEF PeerSend, PeerClose, PeerReset, ConnEvents
  <2>2. peer'[c0].st # "absent" /\ \A c \in Conns \ {c0} : peer'[c] = peer[c]
    <3>1. CASE PeerSend(c0)
      BY <3>1 DEF PeerSend, TypeOK
    <3>2. CASE PeerClose(c0)
      BY <3>2 DEF PeerClose, TypeOK
    <3>3. CASE PeerReset(c0)
      BY <3>3 DEF PeerReset, TypeOK
    <3>4. QED
      BY <1>5, <3>1, <3>2, <3>3
  <2>3. QED
    BY <1>5, <2>1, <2>2 DEF PeerSend, PeerClose, PeerReset, ConnInv, ConnOK
<1>6. ASSUME NEW c0 \in Conns, HandleRecv(c0) PROVE ConnInv'
  <2>1. tcpPc[c0] = "recv" /\ ConnEvents(c0) = <<>>
        /\ UNCHANGED peer /\ peer[c0].sent \in {0} \cup DataLens
    BY <1>6 DEF HandleRecv, ConnInv, ConnOK, TypeOK
  <2>2. ASSUME NEW m \in Lens, NEW st \in Status, NEW pc,
               log' = Append(log, Ev(c0[1], c0[2], m, st)),
               tcpPc' = [tcpPc EXCEPT ![c0] = pc],
               pc = "send" => m \in DataLens /\ st = "RECEIVED"
                              /\ tcpData' = [tcpData EXCEPT ![c0] = m],
               pc = "closed" => /\ m = 0
                                /\ st \in {"TIMEOUT", "ERROR", "RECEIVED"}
                                /\ UNCHANGED tcpData,
               pc \in {"send", "closed"}
        PROVE  ConnInv'
    <3>0. /\ ConnEvents(c0)' = Append(ConnEvents(c0), Ev(c0[1], c0[2], m, st))
          /\ \A c \in Conns \ {c0} : ConnEvents(c)' = ConnEvents(c)
      BY <2>2, OwnAppend DEF TypeOK
    <3>1. /\ ConnEvents(c0)' = Append(<<>>, Ev(c0[1], c0[2], m, st))
          /\ \A c \in Conns \ {c0} : ConnEvents(c)' = ConnEvents(c)
      BY <2>1, <3>0
    <3>2. Len(ConnEvents(c0)') = 1 /\ ConnEvents(c0)'[1] = Ev(c0[1], c0[2], m, st)
      BY <3>1
    <3>3. Ev(c0[1], c0[2], m, st).len = m /\ Ev(c0[1], c0[2], m, st).status = st
      BY DEF Ev
    <3>4. QED
      BY <2>1, <2>2, <3>1, <3>2, <3>3 DEF ConnInv, ConnOK, CompleteTrace, TypeOK
  <2>3. c0[1] \in Lst /\ c0[2] \in Addrs /\ 0 \in Lens /\ DataLens \subseteq Lens
    BY LensFacts DEF Conns, TcpLst
  <2>4. CASE /\ peer[c0].st # "rst" /\ peer[c0].sent > 0
             /\ LogConnection(Ev(c0[1], c0[2], peer[c0].sent, "RECEIVED"))
             /\ tcpPc' = [tcpPc EXCEPT ![c0] = "send"]
             /\ tcpData' = [tcpData EXCEPT ![c0] = peer[c0].sent]
    <3>1. peer[c0].sent \in DataLens /\ peer[c0].sent \in Lens
      BY <2>1, <2>3, <2>4
    <3>2. QED
      BY <2>2, <2>4, <3>1 DEF LogConnection, Status
  <2>5. CASE /\ peer[c0].st = "eof" /\ peer[c0].sent = 0
             /\ LogConnection(Ev(c0[1], c0[2], 0, "RECEIVED"))
             /\ tcpPc' = [tcpPc EXCEPT ![c0] = "closed"]
             /\ UNCHANGED tcpData
    BY <2>2, <2>3, <2>5 DEF LogConnection, Status
  <2>6. CASE /\ peer[c0].st = "rst"
             /\ LogConnection(Ev(c0[1], c0[2], 0, "ERROR"))
             /\ tcpPc' = [tcpPc EXCEPT ![c0] = "closed"]
             /\ UNCHANGED tcpData
    BY <2>2, <2>3, <2>6 DEF LogConnection, Status
  <2>7. CASE /\ peer[c0].st = "open" /\ peer[c0].sent = 0
             /\ LogConnection(Ev(c0[1], c0[2], 0, "TIMEOUT"))
             /\ tcpPc' = [tcpPc EXCEPT ![c0] = "closed"]
             /\ UNCHANGED tcpData
    BY <2>2, <2>3, <2>7 DEF LogConnection, Status
  <2>8. QED
    BY <1>6, <2>4, <2>5, <2>6, <2>7 DEF HandleRecv
<1>7. ASSUME NEW c0 \in Conns, HandleSend(c0) PROVE ConnInv'
  <2>1. /\ tcpPc[c0] = "send" /\ UNCHANGED <<peer, tcpData>>
        /\ tcpData[c0] \in DataLens /\ tcpData[c0] \in 1..RecvSize
        /\ Len(ConnEvents(c0)) = 1 /\ ConnEvents(c0)[1] = Ev(c0[1], c0[2], tcpData[c0], "RECEIVED")
        /\ ConnEvents(c0) \in Seq(Entry)
    <3>1. ConnEvents(c0) \in Seq(Entry)
      <4>1. \A c \in Conns : EventsOf(log, c) \in Seq(Entry)
        BY EventsOfType DEF TypeOK
      <4>2. QED
        BY <4>1 DEF ConnEvents
    <3>2. QED
      BY <1>7, <3>1, DataAssumption DEF HandleSend, ConnInv, ConnOK, SendInv
  <2>2. ASSUME NEW m \in Lens, NEW st \in Status,
               log' = Append(log, Ev(c0[1], c0[2], m, st)),
               \/ st = "SENT_ECHO" /\ m = EchoLen(c0[1], tcpData[c0])
               \/ st = "ERROR" /\ m = 0
        PROVE  ConnInv'
    <3>1. /\ ConnEvents(c0)' = Append(ConnEvents(c0), Ev(c0[1], c0[2], m, st))
          /\ \A c \in Conns \ {c0} : ConnEvents(c)' = ConnEvents(c)
      BY <2>2, OwnAppend DEF TypeOK
    <3>2. /\ Len(ConnEvents(c0)') = 2
          /\ ConnEvents(c0)'[1] = Ev(c0[1], c0[2], tcpData[c0], "RECEIVED")
          /\ ConnEvents(c0)'[2] = Ev(c0[1], c0[2], m, st)
      <4>1. Ev(c0[1], c0[2], m, st) \in Entry
        <5>1. c0[1] \in Lst /\ c0[2] \in Addrs
          BY DEF Conns, TcpLst
        <5>2. QED
          BY <5>1, EvType
      <4>2. \A s \in Seq(Entry), x \in Entry :
              /\ Len(Append(s, x)) = Len(s) + 1
              /\ \A i \in 1..Len(s) : Append(s, x)[i] = s[i]
              /\ Append(s, x)[Len(s) + 1] = x
        BY AppendProperties
      <4>3. /\ Len(Append(ConnEvents(c0), Ev(c0[1], c0[2], m, st))) = 2
            /\ Append(ConnEvents(c0), Ev(c0[1], c0[2], m, st))[1]
                 = ConnEvents(c0)[1]
            /\ Append(ConnEvents(c0), Ev(c0[1], c0[2], m, st))[2]
                 = Ev(c0[1], c0[2], m, st)
        <5>1. ConnEvents(c0) \in Seq(Entry) /\ Len(ConnEvents(c0)) = 1
          BY <2>1
        <5>2. /\ Len(Append(ConnEvents(c0), Ev(c0[1], c0[2], m, st)))
                   = Len(ConnEvents(c0)) + 1
              /\ \A i \in 1..Len(ConnEvents(c0)) :
                   Append(ConnEvents(c0), Ev(c0[1], c0[2], m, st))[i]
                     = ConnEvents(c0)[i]
              /\ Append(ConnEvents(c0), Ev(c0[1], c0[2], m, st))
                   [Len(ConnEvents(c0)) + 1] = Ev(c0[1], c0[2], m, st)
          BY <4>1, <4>2, <5>1, Zenon
        <5>3. QED
          BY <5>1, <5>2
      <4>4. QED
        BY <2>1, <3>1, <4>3
    <3>3. CompleteTrace(c0[1], ConnEvents(c0)')
      BY <2>1, <2>2, <3>2 DEF CompleteTrace, Ev
    <3>4. tcpPc' = [tcpPc EXCEPT ![c0] = "closed"] /\ UNCHANGED <<peer, tcpData>>
      BY <1>7 DEF HandleSend
    <3>5. ConnOK(c0)'
      <4>1. peer[c0].st # "absent"
        BY <2>1 DEF ConnInv, ConnOK
      <4>2. QED
        BY <3>3, <3>4, <4>1 DEF ConnOK, TypeOK
    <3>6. \A c \in Conns \ {c0} : ConnOK(c)'
      BY <3>1, <3>4 DEF ConnInv, ConnOK, TypeOK
    <3>7. QED
      BY <3>5, <3>6 DEF ConnInv
  <2>3. tcpData[c0] \in DataLens /\ c0[1] \in Lst
    BY <2>1 DEF Conns, TcpLst
  <2>4. QED
    BY <1>7, <2>2, <2>3, LensFacts DEF HandleSend, LogConnection, Status
<1>8. ASSUME NEW l \in UdpLst, UdpRecv(l) \/ UdpSend(l) PROVE ConnInv'
  <2>1. CASE UNCHANGED log
    BY <1>1, <1>8, <2>1 DEF UdpRecv, UdpSend
  <2>2. CASE \E a \in Addrs, m \in Lens, st \in Status :
               log' = Append(log, Ev(l, a, m, st))
    <3>1. \A c \in Conns : ConnEvents(c)' = ConnEvents(c)
      BY <2>2, UdpAppend DEF TypeOK
    <3>2. QED
      BY <1>8, <3>1 DEF UdpRecv, UdpSend, ConnInv, ConnOK
  <2>3. QED
    <3>1. \/ l \in Lst /\ udpCur[l].client \in Addrs /\ udpCur[l].len \in DataLens
          \/ UdpRecv(l)
      BY <1>8 DEF UdpSend, UdpLst, TypeOK, SendInv
    <3>2. QED
      BY <1>8, <2>1, <2>2, <3>1, LensFacts DEF UdpRecv, UdpSend,
                                               LogConnection, Status, UdpLst
<1>9. QED
  BY <1>2, <1>3, <1>4, <1>5, <1>6, <1>7, <1>8 DEF Next


(* What ConnInv records per connection is what the contract allows.        *)
LEMMA ConnInvSound == IInv /\ ConnInv => ConnEventProtocol
<1> SUFFICES ASSUME IInv, ConnInv, NEW c \in Conns
             PROVE  IF tcpPc[c] = "closed" THEN CompleteTrace(c[1], ConnEvents(c))
                                           ELSE PendingTrace(ConnEvents(c))
  BY DEF ConnEventProtocol
<1>1. tcpPc[c] \in {"idle", "recv", "send", "closed"} /\ ConnOK(c)
  BY DEF IInv, TypeOK, ConnInv
<1>2. tcpPc[c] = "send" => tcpData[c] \in 1..RecvSize
  BY DataAssumption DEF IInv, SendInv
<1>3. QED
  BY <1>1, <1>2 DEF ConnOK, PendingTrace, Ev

(* Per-connection event contract of handle_tcp (ConnEventProtocol), for   *)
(* any list of ports with distinct (proto, name, port), any client         *)
(* addresses and any payload sizes up to 4096: however the handlers, the   *)
(* UDP loops, the peers and the stats thread interleave, the entries       *)
(* connection_log holds for one connection are a prefix of one legal run   *)
(* of its handler, complete once it has closed, and its SENT_ECHO carries  *)
(* the echo length of exactly the bytes it received.                       *)
THEOREM ConnEventsCorrect == Spec => []ConnEventProtocol
<1>1. Init => IInv /\ ConnInv
  BY InitIInv, InitConnInv
<1>2. IInv /\ ConnInv /\ [Next]_vars => (IInv /\ ConnInv)'
  BY NextIInv, NextConnInv
<1>3. IInv /\ ConnInv => ConnEventProtocol
  BY ConnInvSound
<1>4. QED
  BY <1>1, <1>2, <1>3, PTL DEF Spec

=============================================================================
