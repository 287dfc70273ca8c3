------------------------- MODULE MultiportAnalyzer -------------------------
(***************************************************************************)
(* src/multiport_analyzer.py: a fleet of TCP and UDP listener threads, one *)
(* handler thread per accepted TCP connection, a statistics thread, and    *)
(* the main thread that saves the log on Ctrl+C.  All of them share the    *)
(* global list connection_log, guarded by one threading.Lock.              *)
(*                                                                         *)
(* log_connection's critical section (build the entry, append, print) is   *)
(* one step: it only runs when the lock is free and nothing else reads or  *)
(* writes the log while it is held.  The two other critical sections, the  *)
(* scan of dump_stats and the save loop of __main__, go entry by entry, so *)
(* that what the lock excludes is visible.                                 *)
(*                                                                         *)
(* A remote peer is environment: it connects, sends, half-closes or resets *)
(* at any time.  Payload bytes are abstracted to their count.              *)
(***************************************************************************)
EXTENDS Naturals, Sequences, FiniteSets

CONSTANTS
  Ports,        \* the `ports` list of __main__: <<[port, name, proto], ...>>
  Addrs,        \* client addresses (ip, ephemeral port) of remote peers
  DataLens,     \* byte counts a peer may send in one segment
  MaxDatagrams, \* bound: datagrams each UDP listener receives
  NoReport,     \* no statistics table printed yet
  NoFile        \* no log file written

RecvSize == 4096    \* conn.recv(4096), sock.recvfrom(4096)

Lst == 1..Len(Ports)
TcpLst == {l \in Lst : Ports[l].proto = "tcp"}
UdpLst == {l \in Lst : Ports[l].proto = "udp"}
Conns == TcpLst \X Addrs

ASSUME PortsAssumption ==
  /\ Ports \in Seq([port : Nat, name : STRING, proto : {"tcp", "udp"}])
  /\ \A i, j \in 1..Len(Ports) :
       i # j => <<Ports[i].proto, Ports[i].name, Ports[i].port>>
                  # <<Ports[j].proto, Ports[j].name, Ports[j].port>>
MaxNameLen == 16   \* the longest name in `ports` is 'HTTPS-ALT'

ASSUME NameAssumption ==
  \A l \in Lst : Len(Ports[l].name) \in 1..MaxNameLen
ASSUME DataAssumption ==
  /\ Addrs # {}
  /\ DataLens \subseteq 1..RecvSize
  /\ MaxDatagrams \in Nat

Status == {"RECEIVED", "SENT_ECHO", "TIMEOUT", "ERROR"}

(* An entry of connection_log; protocol f"TCP-{name}" is kept as the pair  *)
(* (transport, name), data_hex and the timestamp are left out.             *)
Ev(l, a, n, s) ==
  [port |-> Ports[l].port, transport |-> Ports[l].proto,
   name |-> Ports[l].name, client |-> a, len |-> n, status |-> s]

(* len(f"ECHO:{protocol_name}:".encode() + data)                           *)
EchoLen(l, n) == 6 + Len(Ports[l].name) + n

(* The lengths an entry can carry: 0, a payload size, or an echo's size.   *)
Lens == {0} \cup DataLens \cup {EchoLen(l, n) : l \in Lst, n \in DataLens}

Entry == [port : {Ports[l].port : l \in Lst}, transport : {"tcp", "udp"},
          name : {Ports[l].name : l \in Lst}, client : Addrs, len : Lens,
          status : Status]


VARIABLES
  log,          \* connection_log
  report,       \* the last statistics table dump_stats printed
  file,         \* contents of /tmp/multiport_analysis_*.log
  lock,         \* holder of `lock`: "free", "stats" or "main"
  mainPc,       \* main thread: "start", "run", "save", "exited"
  nStarted,     \* listener threads started so far (in list order)
  lstState,     \* per listener thread: "init", "listening", "failed"
  peer,         \* per TCP connection: remote peer [st, sent]
  tcpPc,        \* per TCP connection: handler "idle", "recv", "send", "closed"
  tcpData,      \* per TCP connection: len(data) read by the handler
  udpPc,        \* per UDP listener loop: "recv" or "send"
  udpCur,       \* per UDP listener: the datagram being answered
  udpCount,     \* per UDP listener: datagrams received so far
  statsPc,      \* stats thread: "off", "sleep", "scan"
  statsTotal,   \* len(connection_log) printed in the statistics header
  statsIdx,     \* position of the `for entry in connection_log` loop
  saveIdx       \* position of the save loop

mainVars  == <<mainPc, nStarted, file, saveIdx>>
tcpVars   == <<peer, tcpPc, tcpData>>
udpVars   == <<udpPc, udpCur, udpCount>>
statsVars == <<statsPc, statsTotal, statsIdx, report>>
vars == <<log, lock, lstState, mainVars, tcpVars, udpVars, statsVars>>

(* The connection log as ConnectionLog specifies it: the file counts only  *)
(* once the process has ended.                                             *)
CL == INSTANCE ConnectionLog
        WITH file <- IF mainPc = "exited" THEN file ELSE NoFile,
             exited <- mainPc = "exited"

Running == mainPc # "exited"

(* log_connection: `with lock:` append the entry.                          *)
LogConnection(e) ==
  /\ lock = "free"
  /\ log' = Append(log, e)

-----------------------------------------------------------------------------
Init ==
  /\ log = <<>>
  /\ report = NoReport
  /\ file = NoFile
  /\ lock = "free"
  /\ mainPc = "start"
  /\ nStarted = 0
  /\ lstState = [l \in Lst |-> "init"]
  /\ peer = [c \in Conns |-> [st |-> "absent", sent |-> 0]]
  /\ tcpPc = [c \in Conns |-> "idle"]
  /\ tcpData = [c \in Conns |-> 0]
  /\ udpPc = [l \in UdpLst |-> "recv"]
  /\ udpCur = [l \in UdpLst |-> [client |-> CHOOSE a \in Addrs : TRUE, len |-> 0]]
  /\ udpCount = [l \in UdpLst |-> 0]
  /\ statsPc = "off"
  /\ statsTotal = 0
  /\ statsIdx = 0
  /\ saveIdx = 0

-----------------------------------------------------------------------------
(* __main__: start the listener threads in list order, then dump_stats.    *)
StartListener ==
  /\ mainPc = "start"
  /\ nStarted < Len(Ports)
  /\ nStarted' = nStarted + 1
  /\ UNCHANGED <<log, lock, lstState, mainPc, file, saveIdx, tcpVars,
                 udpVars, statsVars>>

StartStats ==
  /\ mainPc = "start"
  /\ nStarted = Len(Ports)
  /\ mainPc' = "run"
  /\ statsPc' = "sleep"
  /\ UNCHANGED <<log, lock, lstState, nStarted, file, saveIdx, tcpVars,
                 udpVars, statsTotal, statsIdx, report>>

(* Ctrl+C before the try block: KeyboardInterrupt ends the process and     *)
(* nothing is saved.                                                       *)
InterruptEarly ==
  /\ mainPc = "start"
  /\ mainPc' = "exited"
  /\ UNCHANGED <<log, lock, lstState, nStarted, file, saveIdx, tcpVars,
                 udpVars, statsVars>>

(* Ctrl+C in the sleep loop: `with lock:` open the log file.  A failing    *)
(* open raises out of the with block and ends the process unsaved.         *)
Interrupt ==
  /\ mainPc = "run"
  /\ lock = "free"
  /\ \/ /\ lock' = "main"
        /\ file' = <<>>
        /\ saveIdx' = 0
        /\ mainPc' = "save"
     \/ /\ mainPc' = "exited"
        /\ UNCHANGED <<lock, file, saveIdx>>
  /\ UNCHANGED <<log, lstState, nStarted, tcpVars, udpVars, statsVars>>

(* One f.write of the save loop; a failing write leaves a partial file.    *)
SaveLine ==
  /\ mainPc = "save"
  /\ saveIdx < Len(log)
  /\ \/ /\ file' = Append(file, log[saveIdx + 1])
        /\ saveIdx' = saveIdx + 1
        /\ UNCHANGED <<lock, mainPc>>
     \/ /\ lock' = "free"
        /\ mainPc' = "exited"
        /\ UNCHANGED <<file, saveIdx>>
  /\ UNCHANGED <<log, lstState, nStarted, tcpVars, udpVars, statsVars>>

(* The loop is done: print the totals, leave the with block, exit.         *)
SaveDone ==
  /\ mainPc = "save"
  /\ saveIdx = Len(log)
  /\ lock' = "free"
  /\ mainPc' = "exited"
  /\ UNCHANGED <<log, lstState, nStarted, file, saveIdx, tcpVars, udpVars,
                 statsVars>>

-----------------------------------------------------------------------------
(* tcp_listener / udp_listener: bind; a bind error ends only this thread.  *)
Bind(l) ==
  /\ Running
  /\ l <= nStarted
  /\ lstState[l] = "init"
  /\ lstState' \in {[lstState EXCEPT ![l] = "listening"],
                     [lstState EXCEPT ![l] = "failed"]}
  /\ UNCHANGED <<log, lock, mainVars, tcpVars, udpVars, statsVars>>

(* A peer connects to a listening TCP port; sock.accept() returns and a    *)
(* handle_tcp thread is started for the connection.                        *)
Accept(c) ==
  /\ Running
  /\ lstState[c[1]] = "listening"
  /\ peer[c].st = "absent"
  /\ peer' = [peer EXCEPT ![c] = [st |-> "open", sent |-> 0]]
  /\ tcpPc' = [tcpPc EXCEPT ![c] = "recv"]
  /\ UNCHANGED <<log, lock, lstState, mainVars, tcpData, udpVars, statsVars>>

(* The remote peer sends bytes, half-closes (FIN) or resets (RST).  What a *)
(* peer does once its handler has read (a FIN) or closed changes nothing   *)
(* the server sees, and is left out.                                       *)
PeerSend(c) ==
  /\ Running
  /\ tcpPc[c] = "recv"
  /\ peer[c].st = "open"
  /\ peer[c].sent = 0
  /\ \E n \in DataLens : peer' = [peer EXCEPT ![c].sent = n]
  /\ UNCHANGED <<log, lock, lstState, mainVars, tcpPc, tcpData, udpVars,
                 statsVars>>

PeerClose(c) ==
  /\ Running
  /\ tcpPc[c] = "recv"
  /\ peer[c].st = "open"
  /\ peer' = [peer EXCEPT ![c].st = "eof"]
  /\ UNCHANGED <<log, lock, lstState, mainVars, tcpPc, tcpData, udpVars,
                 statsVars>>

PeerReset(c) ==
  /\ Running
  /\ tcpPc[c] \in {"recv", "send"}
  /\ peer[c].st \in {"open", "eof"}
  /\ peer' = [peer EXCEPT ![c].st = "rst"]
  /\ UNCHANGED <<log, lock, lstState, mainVars, tcpPc, tcpData, udpVars,
                 statsVars>>

(* Mutants of HandleRecv.  HandleRecvNoDataCheck drops the `if data:`    *)
(* guard: an empty read is echoed as well.  HandleRecvNoTimeout drops      *)
(* conn.settimeout(5): recv waits for a silent peer for ever.              *)
HandleRecvNoDataCheck(c) ==
  LET l == c[1]  a == c[2]  n == peer[c].sent IN
  /\ Running
  /\ tcpPc[c] = "recv"
  /\ \/ /\ peer[c].st # "rst" /\ (n > 0 \/ peer[c].st = "eof")
        /\ LogConnection(Ev(l, a, n, "RECEIVED"))
        /\ tcpPc' = [tcpPc EXCEPT ![c] = "send"]
        /\ tcpData' = [tcpData EXCEPT ![c] = n]
     \/ /\ peer[c].st = "rst"
        /\ LogConnection(Ev(l, a, 0, "ERROR"))
        /\ tcpPc' = [tcpPc EXCEPT ![c] = "closed"]
        /\ UNCHANGED tcpData
     \/ /\ peer[c].st = "open" /\ n = 0
        /\ LogConnection(Ev(l, a, 0, "TIMEOUT"))
        /\ tcpPc' = [tcpPc EXCEPT ![c] = "closed"]
        /\ UNCHANGED tcpData
  /\ UNCHANGED <<lock, lstState, mainVars, peer, udpVars, statsVars>>

HandleRecvNoTimeout(c) ==
  LET l == c[1]  a == c[2]  n == peer[c].sent IN
  /\ Running
  /\ tcpPc[c] = "recv"
  /\ \/ /\ peer[c].st # "rst" /\ n > 0
        /\ LogConnection(Ev(l, a, n, "RECEIVED"))
        /\ tcpPc' = [tcpPc EXCEPT ![c] = "send"]
        /\ tcpData' = [tcpData EXCEPT ![c] = n]
     \/ /\ peer[c].st = "eof" /\ n = 0
        /\ LogConnection(Ev(l, a, 0, "RECEIVED"))
        /\ tcpPc' = [tcpPc EXCEPT ![c] = "closed"]
        /\ UNCHANGED tcpData
     \/ /\ peer[c].st = "rst"
        /\ LogConnection(Ev(l, a, 0, "ERROR"))
        /\ tcpPc' = [tcpPc EXCEPT ![c] = "closed"]
        /\ UNCHANGED tcpData
  /\ UNCHANGED <<lock, lstState, mainVars, peer, udpVars, statsVars>>

(* handle_tcp, up to the first log_connection: conn.recv(4096) under the  *)
(* 5 s timeout set by conn.settimeout(5), then log what it gave.  Data     *)
(* already sent is read even after a FIN; a reset raises (ERROR); an EOF   *)
(* gives b'' (RECEIVED, 0 bytes, no echo); a silent peer times out.        *)
HandleRecv(c) ==
  LET l == c[1]  a == c[2]  n == peer[c].sent IN
  /\ Running
  /\ tcpPc[c] = "recv"
  /\ \/ /\ peer[c].st # "rst" /\ n > 0
        /\ LogConnection(Ev(l, a, n, "RECEIVED"))
        /\ tcpPc' = [tcpPc EXCEPT ![c] = "send"]
        /\ tcpData' = [tcpData EXCEPT ![c] = n]
     \/ /\ peer[c].st = "eof" /\ n = 0
        /\ LogConnection(Ev(l, a, 0, "RECEIVED"))
        /\ tcpPc' = [tcpPc EXCEPT ![c] = "closed"]
        /\ UNCHANGED tcpData
     \/ /\ peer[c].st = "rst"
        /\ LogConnection(Ev(l, a, 0, "ERROR"))
        /\ tcpPc' = [tcpPc EXCEPT ![c] = "closed"]
        /\ UNCHANGED tcpData
     \/ /\ peer[c].st = "open" /\ n = 0
        /\ LogConnection(Ev(l, a, 0, "TIMEOUT"))
        /\ tcpPc' = [tcpPc EXCEPT ![c] = "closed"]
        /\ UNCHANGED tcpData
  /\ UNCHANGED <<lock, lstState, mainVars, peer, udpVars, statsVars>>

(* Mutant of HandleSend: the echo is built from the log label            *)
(* f"TCP-{protocol_name}" instead of protocol_name.                        *)
HandleSendProtocolLabel(c) ==
  LET l == c[1]  a == c[2] IN
  /\ Running
  /\ tcpPc[c] = "send"
  /\ \/ /\ peer[c].st # "rst"
        /\ LogConnection(Ev(l, a, 10 + Len(Ports[l].name) + tcpData[c],
                             "SENT_ECHO"))
     \/ /\ peer[c].st = "rst"
        /\ LogConnection(Ev(l, a, 0, "ERROR"))
  /\ tcpPc' = [tcpPc EXCEPT ![c] = "closed"]
  /\ UNCHANGED <<lock, lstState, mainVars, peer, tcpData, udpVars, statsVars>>

(* handle_tcp, `if data:` branch: conn.sendall(ECHO:name:data), log        *)
(* SENT_ECHO with len(response); sending to a reset peer raises (ERROR).   *)
(* The finally clause closes the connection.                               *)
HandleSend(c) ==
  LET l == c[1]  a == c[2] IN
  /\ Running
  /\ tcpPc[c] = "send"
  /\ \/ /\ peer[c].st # "rst"
        /\ LogConnection(Ev(l, a, EchoLen(l, tcpData[c]), "SENT_ECHO"))
     \/ /\ peer[c].st = "rst"
        /\ LogConnection(Ev(l, a, 0, "ERROR"))
  /\ tcpPc' = [tcpPc EXCEPT ![c] = "closed"]
  /\ UNCHANGED <<lock, lstState, mainVars, peer, tcpData, udpVars, statsVars>>

(* udp_listener loop: sock.recvfrom(4096) returns a datagram (possibly     *)
(* empty) from some address; log RECEIVED.                                 *)
UdpRecv(l) ==
  /\ Running
  /\ lstState[l] = "listening"
  /\ udpPc[l] = "recv"
  /\ udpCount[l] < MaxDatagrams
  /\ \E a \in Addrs, n \in {0} \cup DataLens :
       /\ LogConnection(Ev(l, a, n, "RECEIVED"))
       /\ udpCur' = [udpCur EXCEPT ![l] = [client |-> a, len |-> n]]
       /\ udpPc' = [udpPc EXCEPT ![l] = IF n > 0 THEN "send" ELSE "recv"]
  /\ udpCount' = [udpCount EXCEPT ![l] = @ + 1]
  /\ UNCHANGED <<lock, lstState, mainVars, tcpVars, statsVars>>

(* `if data:` sock.sendto(ECHO:name:data, addr) and log SENT_ECHO; when    *)
(* sendto raises, the except clause only prints: nothing is logged.        *)
UdpSend(l) ==
  /\ Running
  /\ udpPc[l] = "send"
  /\ \/ LogConnection(Ev(l, udpCur[l].client, EchoLen(l, udpCur[l].len),
                         "SENT_ECHO"))
     \/ UNCHANGED log
  /\ udpPc' = [udpPc EXCEPT ![l] = "recv"]
  /\ UNCHANGED <<lock, lstState, mainVars, tcpVars, udpCur, udpCount,
                 statsVars>>

-----------------------------------------------------------------------------
(* Mutant of StatsBegin: dump_stats without `with lock:`.                 *)
StatsBeginUnlocked ==
  /\ Running
  /\ statsPc = "sleep"
  /\ statsTotal' = Len(log)
  /\ statsIdx' = 0
  /\ statsPc' = "scan"
  /\ UNCHANGED <<log, lock, lstState, mainVars, tcpVars, udpVars, report>>

(* dump_stats: after the sleep, `with lock:` print len(connection_log),    *)
(* then group the entries one by one, then print the table.                *)
StatsBegin ==
  /\ Running
  /\ statsPc = "sleep"
  /\ lock = "free"
  /\ lock' = "stats"
  /\ statsTotal' = Len(log)
  /\ statsIdx' = 0
  /\ statsPc' = "scan"
  /\ UNCHANGED <<log, lstState, mainVars, tcpVars, udpVars, report>>

StatsScan ==
  /\ Running
  /\ statsPc = "scan"
  /\ statsIdx < Len(log)
  /\ statsIdx' = statsIdx + 1
  /\ UNCHANGED <<log, lock, lstState, mainVars, tcpVars, udpVars, statsPc,
                 statsTotal, report>>

StatsPrint ==
  /\ Running
  /\ statsPc = "scan"
  /\ statsIdx = Len(log)
  /\ report' = [total |-> statsTotal,
                stats |-> CL!Stats(SubSeq(log, 1, statsIdx))]
  /\ lock' = "free"
  /\ statsPc' = "sleep"
  /\ UNCHANGED <<log, lstState, mainVars, tcpVars, udpVars, statsTotal,
                 statsIdx>>

(* The process has ended: daemon threads die with it.                      *)
Terminated ==
  /\ mainPc = "exited"
  /\ UNCHANGED vars

Next ==
  \/ StartListener \/ StartStats \/ InterruptEarly \/ Interrupt
  \/ SaveLine \/ SaveDone
  \/ \E l \in Lst : Bind(l)
  \/ \E c \in Conns : Accept(c) \/ PeerSend(c) \/ PeerClose(c) \/ PeerReset(c)
  \/ \E c \in Conns : HandleRecv(c) \/ HandleSend(c)
  \/ \E l \in UdpLst : UdpRecv(l) \/ UdpSend(l)
  \/ StatsBegin \/ StatsScan \/ StatsPrint
  \/ Terminated

(* Threads of the process are scheduled fairly; a handler waiting for the  *)
(* lock gets it, since the stats thread takes it once per 30 s for a       *)
(* bounded scan.  Peers and the user (Ctrl+C) are not fair.                *)
Fairness ==
  /\ \A c \in Conns : SF_vars(HandleRecv(c)) /\ SF_vars(HandleSend(c))
  /\ WF_vars(StatsScan) /\ WF_vars(StatsPrint)
  /\ WF_vars(SaveLine) /\ WF_vars(SaveDone)

Spec == Init /\ [][Next]_vars /\ Fairness

-----------------------------------------------------------------------------
(* Type invariant.                                                         *)
TypeOK ==
  /\ log \in Seq(Entry)
  /\ report = NoReport \/ report.total \in Nat
  /\ file \in {NoFile} \cup Seq(Entry)
  /\ lock \in {"free", "stats", "main"}
  /\ mainPc \in {"start", "run", "save", "exited"}
  /\ nStarted \in 0..Len(Ports)
  /\ lstState \in [Lst -> {"init", "listening", "failed"}]
  /\ peer \in [Conns -> [st : {"absent", "open", "eof", "rst"},
                          sent : {0} \cup DataLens]]
  /\ tcpPc \in [Conns -> {"idle", "recv", "send", "closed"}]
  /\ tcpData \in [Conns -> {0} \cup DataLens]
  /\ udpPc \in [UdpLst -> {"recv", "send"}]
  /\ udpCur \in [UdpLst -> [client : Addrs, len : {0} \cup DataLens]]
  /\ udpCount \in [UdpLst -> 0..MaxDatagrams]
  /\ statsPc \in {"off", "sleep", "scan"}
  /\ statsTotal \in Nat
  /\ statsIdx \in Nat
  /\ saveIdx \in Nat

(* An entry of connection c: logged by handle_tcp for its listener's       *)
(* protocol and its client address.                                        *)
IsConnEv(e, c) ==
  /\ e.transport = "tcp"
  /\ e.port = Ports[c[1]].port
  /\ e.name = Ports[c[1]].name
  /\ e.client = c[2]

(* How many of the first i entries of s belong to connection c.            *)
EvCount(s, c, i) == Cardinality({j \in 1..i : IsConnEv(s[j], c)})

(* The entries of s that belong to c, in order: SelectSeq(s, IsConnEv(_, c))*)
(* written without recursion, the k-th being the entry of c that is the    *)
(* k-th of c counted from the start.                                       *)
EventsOf(s, c) ==
  [k \in 1..EvCount(s, c, Len(s)) |->
     s[CHOOSE i \in 1..Len(s) : IsConnEv(s[i], c) /\ EvCount(s, c, i) = k]]

(* The events logged for one TCP connection, in log order.                 *)
ConnEvents(c) == EventsOf(log, c)

(* What the handler contract of handle_tcp allows a finished connection to *)
(* have logged: one TIMEOUT or ERROR; an empty RECEIVED; or RECEIVED of n  *)
(* bytes followed by SENT_ECHO of the echo's length, TIMEOUT or ERROR.     *)
CompleteTrace(l, ev) ==
  \/ /\ Len(ev) = 1
     /\ ev[1].len = 0
     /\ ev[1].status \in {"TIMEOUT", "ERROR", "RECEIVED"}
  \/ /\ Len(ev) = 2
     /\ ev[1].status = "RECEIVED"
     /\ ev[1].len \in 1..RecvSize
     /\ \/ ev[2].status = "SENT_ECHO" /\ ev[2].len = EchoLen(l, ev[1].len)
        \/ ev[2].status \in {"TIMEOUT", "ERROR"} /\ ev[2].len = 0

(* ... and a connection still being handled: nothing, or the RECEIVED of   *)
(* data still to be echoed.                                                *)
PendingTrace(ev) ==
  \/ ev = <<>>
  \/ Len(ev) = 1 /\ ev[1].status = "RECEIVED" /\ ev[1].len \in 1..RecvSize

(* Per-connection event contract (handle_tcp with log_connection): however *)
(* the handlers of different connections, the UDP loops, the peers and the *)
(* stats thread interleave, the events the log holds for one connection    *)
(* are a prefix of one legal handler run, complete once it has closed, and *)
(* a SENT_ECHO carries the length of the echo of exactly the bytes its     *)
(* connection received.                                                    *)
ConnEventProtocol ==
  \A c \in Conns :
    IF tcpPc[c] = "closed" THEN CompleteTrace(c[1], ConnEvents(c))
                          ELSE PendingTrace(ConnEvents(c))

(* Lock discipline of connection_log: the process implements the abstract  *)
(* ConnectionLog.  Every statistics table dump_stats prints is the table   *)
(* of the whole log at one instant, with the header counting exactly the   *)
(* entries tabulated, and the file saved on Ctrl+C holds the log as it was *)
(* when the process ended (a prefix of it when a write failed): the scan   *)
(* of dump_stats and the save loop are never interleaved with an append.   *)
Refinement == CL!Spec

(* Every accepted TCP connection is eventually closed by its handler       *)
(* (conn.settimeout(5) bounds the recv), unless the process ends first.    *)
HandlersFinish ==
  \A c \in Conns :
    tcpPc[c] \in {"recv", "send"} ~> (tcpPc[c] = "closed" \/ mainPc = "exited")

(* The events of one UDP listener, in log order.                           *)
UdpEvents(l) ==
  SelectSeq(log, LAMBDA e : /\ e.transport = "udp"
                            /\ e.port = Ports[l].port
                            /\ e.name = Ports[l].name)

(* Spec 4.3/7: a UDP listener follows the same log/respond contract as TCP *)
(* and converts every failure into an ERROR event: a RECEIVED with data is *)
(* followed by its SENT_ECHO or by an ERROR before the next datagram's     *)
(* RECEIVED.  udp_listener's except clause prints a failed sendto instead. *)
UdpFailuresLogged ==
  \A l \in UdpLst :
    LET ev == UdpEvents(l) IN
    \A i \in 1..(Len(ev) - 1) :
      (ev[i].status = "RECEIVED" /\ ev[i].len > 0)
        => ev[i + 1].status \in {"SENT_ECHO", "ERROR"}
=============================================================================
