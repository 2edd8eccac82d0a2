------------------------------ MODULE Storage ------------------------------
(***************************************************************************)
(* internal/storage: the telemetry tables behind one database connection,  *)
(* written by single statements and by the event router's transactions,    *)
(* and pruned once a day by aegisd's background goroutine in three         *)
(* statements.  Rows are abstracted to what pruning and the foreign keys   *)
(* look at: the child tables are one set of rows tagged with their table,  *)
(* and rows that agree in table, process and time are one row.             *)
(***************************************************************************)
EXTENDS Integers, FiniteSets

CONSTANTS Pids,       \* the operating system's process ids, which callers give as process_id
          Retention,  \* 7 days in aegisd
          Zones,      \* how far the host's local time may be ahead of UTC
          MaxProcs,   \* bound: the process rows ever inserted
          MaxRows,    \* bound: the child rows present at once
          MaxTime,    \* bound: the clock
          Faults      \* whether statements may fail on an I/O error

Children == {"file_modifications", "network_connections", "alert_logs"}

ASSUME StorageAssumption ==
  /\ Pids \subseteq Nat \ {0} /\ Faults \in BOOLEAN
  /\ Retention \in Nat \ {0} /\ Zones \subseteq Int /\ \A z \in Zones : z < Retention
  /\ MaxProcs \in Nat /\ MaxRows \in Nat /\ MaxTime \in Nat

VARIABLES
  now,       \* the clock
  procs,     \* the table processes: [pid, at] by row id
  rows,      \* the rows of the three child tables
  sequence,  \* AUTOINCREMENT's counter of processes
  undo,      \* the tables as they were before the open transaction
  conn,      \* "free", or "tx" while a transaction has the only connection
  prune,     \* the next statement of the pruner: "files", "nets", "procs", "wait", "off"
  cutoff,    \* its cutoff, as the text of it compares with the times of the rows
  clean,     \* whether its last cycle ran all three statements without an error
  evidence   \* history: the rows of a process present when an alert for it was committed

tables == <<procs, rows, sequence>>
pruner == <<prune, cutoff, clean>>
vars   == <<now, tables, undo, conn, pruner, evidence>>

-----------------------------------------------------------------------------
None == [procs |-> <<>>, rows |-> {}, sequence |-> 0]

(* "process_id NOT IN (SELECT process_id FROM alert_logs ...)" *)
Alerted == {r.proc : r \in {a \in rows : a.table = "alert_logs"}}

RowsOf(i) == {r \in rows : r.proc = i}

Linked == {[table |-> "processes", proc |-> i, at |-> procs[i].at] : i \in Alerted}
          \cup {r \in rows : r.proc \in Alerted}

Init ==
  /\ now = 0 /\ procs = <<>> /\ rows = {} /\ sequence = 0
  /\ undo = None /\ conn = "free"
  /\ prune = "wait" /\ cutoff = 0 - Retention /\ clean = FALSE
  /\ evidence = {}

-----------------------------------------------------------------------------
(* The writers.  Outside a transaction a statement commits by itself, so it needs *)
(* the connection; inside one, only the transaction runs statements.              *)

Autocommit == conn = "free" /\ prune # "off" /\ evidence' = evidence \cup Linked'

InTx == conn = "tx" /\ UNCHANGED evidence

BugInsertProcess(pid) ==
  /\ sequence < MaxProcs
  /\ procs' = [i \in DOMAIN procs \cup {sequence + 1} |->
                 IF i = sequence + 1 THEN [pid |-> pid, at |-> now] ELSE procs[i]]
  /\ UNCHANGED <<rows, sequence>>

InsertProcess(pid) ==
  /\ sequence < MaxProcs
  /\ sequence' = sequence + 1
  /\ procs' = [i \in DOMAIN procs \cup {sequence + 1} |->
                 IF i = sequence + 1 THEN [pid |-> pid, at |-> now] ELSE procs[i]]
  /\ UNCHANGED rows

(* Refused by the foreign key when there is no process row of that id. *)
InsertChild(table, id) ==
  /\ id \in DOMAIN procs /\ Cardinality(rows) < MaxRows
  /\ rows' = rows \cup {[table |-> table, proc |-> id, at |-> now]}
  /\ UNCHANGED <<procs, sequence>>

(* Callers name the process of a child row by the PID of the event. *)
Insert == /\ \E pid \in Pids : InsertProcess(pid)
                               \/ \E t \in Children : InsertChild(t, pid)
          /\ Autocommit \/ InTx
          /\ UNCHANGED <<now, undo, conn, pruner>>

Begin == /\ conn = "free" /\ prune # "off" /\ conn' = "tx"
         /\ undo' = [procs |-> procs, rows |-> rows, sequence |-> sequence]
         /\ UNCHANGED <<now, tables, pruner, evidence>>

Commit == /\ conn = "tx" /\ conn' = "free" /\ undo' = None
          /\ evidence' = evidence \cup Linked
          /\ UNCHANGED <<now, tables, pruner>>

(* What a failed COMMIT, and opening the file again after a kill, go back to. *)
Restore == /\ procs' = undo.procs /\ rows' = undo.rows /\ sequence' = undo.sequence

Rollback == /\ conn = "tx" /\ Restore /\ conn' = "free" /\ undo' = None
            /\ UNCHANGED <<now, pruner, evidence>>

Kill == /\ IF conn = "tx" THEN Restore ELSE UNCHANGED tables
        /\ conn' = "free" /\ undo' = None
        /\ prune' = "off" /\ clean' = FALSE
        /\ UNCHANGED <<now, cutoff, evidence>>

(* aegisd starts: NewStorage opens the file, or renames a corrupt one away and *)
(* starts with empty tables; the pruner starts with a cycle.                   *)
Launch == /\ prune = "off" /\ prune' = "wait"
          /\ \/ UNCHANGED <<tables, evidence>>
             \/ Faults /\ procs' = <<>> /\ rows' = {} /\ sequence' = 0 /\ evidence' = {}
          /\ cutoff' = 0 - Retention
          /\ UNCHANGED <<now, undo, conn, clean>>

-----------------------------------------------------------------------------
(* The pruner: one statement at a time, an error or a cancelled context ends the cycle. *)

(* The rows have UTC, to the second.  The driver writes the cutoff as the host's local *)
(* time with its zone behind it, and SQLite compares the two texts, so that the zone   *)
(* moves the cutoff, and a row of the cutoff's own second sorts before it.             *)
BugCutoffLate == \E z \in Zones : cutoff' = now + z
SetCutoff == \E z \in Zones : cutoff' = now - Retention + z

Past(at) == at <= cutoff

Cycle == /\ prune = "wait" /\ prune' = "files" /\ clean' = FALSE
         /\ SetCutoff
         /\ UNCHANGED <<now, tables, undo, conn, evidence>>

BugOldAny(r) == Past(r.at)
Old(r) == Past(r.at) /\ r.proc \notin Alerted

PruneChildren(statement, table, following) ==
  /\ prune = statement /\ conn = "free"
  /\ rows' = {r \in rows : ~(r.table = table /\ Old(r))}
  /\ prune' = following
  /\ UNCHANGED <<now, procs, sequence, undo, conn, cutoff, clean, evidence>>

BugOldUnreferenced == {i \in DOMAIN procs : Past(procs[i].at) /\ RowsOf(i) = {}}
OldProcs == {i \in DOMAIN procs : Past(procs[i].at) /\ i \notin Alerted}

(* The foreign keys refuse the whole DELETE when one of the rows is still referenced. *)
BugBlocked == FALSE
Blocked == \E i \in OldProcs : RowsOf(i) # {}

PruneProcesses ==
  /\ prune = "procs" /\ conn = "free"
  /\ \/ /\ ~Blocked
        /\ procs' = [i \in DOMAIN procs \ OldProcs |-> procs[i]] /\ clean' = TRUE
     \/ Blocked /\ UNCHANGED <<procs, clean>>
  /\ prune' = "wait"
  /\ UNCHANGED <<now, rows, sequence, undo, conn, cutoff, evidence>>

PruneError == /\ Faults /\ prune \in {"files", "nets", "procs"}
              /\ prune' = "wait"
              /\ UNCHANGED <<now, tables, undo, conn, cutoff, clean, evidence>>

Pruner == \/ Cycle \/ PruneChildren("files", "file_modifications", "nets")
          \/ PruneChildren("nets", "network_connections", "procs")
          \/ PruneProcesses \/ PruneError

Clock == now < MaxTime /\ now' = now + 1 /\ UNCHANGED <<tables, undo, conn, pruner, evidence>>

Next == Insert \/ Begin \/ Commit \/ Rollback \/ Kill \/ Launch \/ Pruner \/ Clock

Spec == Init /\ [][Next]_vars

-----------------------------------------------------------------------------
Row == [table : Children, proc : Nat, at : Nat]

(* Every variable keeps its range, and AUTOINCREMENT stays ahead of the row ids. *)
TypeOK ==
  /\ now \in Nat /\ cutoff \in Int /\ sequence \in Nat
  /\ DOMAIN procs \subseteq 1 .. sequence
  /\ procs \in [DOMAIN procs -> [pid : Pids, at : Nat]]
  /\ rows \subseteq Row
  /\ conn \in {"free", "tx"} /\ clean \in BOOLEAN
  /\ prune \in {"off", "wait", "files", "nets", "procs"}

(* Every file, network and alert row belongs to a process row: also after a rollback, *)
(* a restart, and a prune whose statements other writers come between.                *)
NoOrphans == \A r \in rows : r.proc \in DOMAIN procs

(* Once an alert for a process is committed, the process and every row it has then stay *)
(* in the database, whenever the alert came with respect to the pruner's statements.    *)
Present == {[table |-> "processes", proc |-> i, at |-> procs[i].at] : i \in DOMAIN procs} \cup rows

EvidenceKept == evidence \subseteq Present

(* The times of the rows that a step removes; only the pruner's do in a running agent, *)
(* outside a transaction.                                                              *)
Removed == {r.at : r \in rows \ rows'} \cup {procs[i].at : i \in DOMAIN procs \ DOMAIN procs'}

PrunerRuns == prune # "off" /\ prune' # "off" /\ conn = "free"

(* A statement of the pruner only removes rows as old as the retention, give or take what *)
(* local time is ahead of UTC, though it runs later than the cutoff was taken.            *)
PrunesOnlyOld ==
  [][PrunerRuns => \A at \in Removed : \E z \in Zones : at <= now - Retention + z]_vars

(* The database is a rolling window: the pruner leaves what is younger than the retention. *)
RollingWindow ==
  [][PrunerRuns => \A at \in Removed : at <= now - Retention]_vars

(* After a cycle that aegisd logs as completed, whatever is past its cutoff, in any of *)
(* the three tables, belongs to a process that has been alerted on.                    *)
EverAlerted == {r.proc : r \in evidence \cup Linked}

CleanCycle ==
  prune = "wait" /\ clean =>
    /\ \A i \in DOMAIN procs : Past(procs[i].at) => i \in EverAlerted
    /\ \A r \in rows : Past(r.at) => r.proc \in EverAlerted

(* What is past the retention is deleted daily unless linked to an alert: also for a *)
(* process that started before the cutoff and was active after it.                   *)
OldPruned ==
  prune = "wait" /\ cutoff > 0 - Retention =>
    \A i \in DOMAIN procs : Past(procs[i].at) => i \in EverAlerted

(* The process_id of a file, network or alert row is the PID of the process whose row *)
(* it refers to.                                                                      *)
Attributed == \A r \in rows : procs[r.proc].pid = r.proc
=============================================================================
