--------------------------- MODULE ConnectionLog ---------------------------
(***************************************************************************)
(* What the connection log of src/multiport_analyzer.py promises, stated  *)
(* without threads or locks: an append-only sequence of events, periodic  *)
(* statistics reports that each summarise the whole log as it stood at   *)
(* one instant, and, at shutdown, a saved file that holds the whole log   *)
(* (or, when saving fails, a prefix of it) after which nothing more is     *)
(* logged.  MultiportAnalyzer implements this specification.               *)
(***************************************************************************)
EXTENDS Naturals, Sequences, FiniteSets

CONSTANTS
  Entry,      \* the events that may be logged
  NoReport,   \* no statistics report printed yet
  NoFile      \* no log file written

VARIABLES
  log,        \* the global list connection_log
  report,     \* the last statistics table printed by dump_stats
  file,       \* the contents of the saved log file
  exited      \* the process has ended

vars == <<log, report, file, exited>>

-----------------------------------------------------------------------------
(* Statistics as dump_stats computes them: entries grouped by the key      *)
(* f"{protocol}:{port}", kept as the structured triple it is built from.   *)

KeyOf(e) == <<e.transport, e.name, e.port>>

EntriesOf(s, k) == {i \in DOMAIN s : KeyOf(s[i]) = k}

BytesOf(s, k) ==
  LET acc[j \in 0..Len(s)] ==
        IF j = 0 THEN 0
        ELSE acc[j - 1] + (IF KeyOf(s[j]) = k THEN s[j].len ELSE 0)
  IN  acc[Len(s)]

Stats(s) ==
  [k \in {KeyOf(s[i]) : i \in DOMAIN s} |->
     [count   |-> Cardinality(EntriesOf(s, k)),
      bytes   |-> BytesOf(s, k),
      clients |-> {s[i].client : i \in EntriesOf(s, k)}]]

(* The report printed for a log: its length (the header) and its table.    *)
Snapshot(s) == [total |-> Len(s), stats |-> Stats(s)]

-----------------------------------------------------------------------------
Init ==
  /\ log = <<>>
  /\ report = NoReport
  /\ file = NoFile
  /\ exited = FALSE

LogAppend(e) ==
  /\ ~exited
  /\ log' = Append(log, e)
  /\ UNCHANGED <<report, file, exited>>

Report ==
  /\ ~exited
  /\ report' = Snapshot(log)
  /\ UNCHANGED <<log, file, exited>>

Export ==
  /\ ~exited
  /\ file' = log
  /\ exited' = TRUE
  /\ UNCHANGED <<log, report>>

Abort ==
  /\ ~exited
  /\ file' \in {NoFile} \cup {SubSeq(log, 1, j) : j \in 0..Len(log)}
  /\ exited' = TRUE
  /\ UNCHANGED <<log, report>>

Next ==
  \/ \E e \in Entry : LogAppend(e)
  \/ Report
  \/ Export
  \/ Abort

Spec == Init /\ [][Next]_vars
=============================================================================
