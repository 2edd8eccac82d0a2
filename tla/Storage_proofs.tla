--------------------------- MODULE Storage_proofs ---------------------------
(* Storage's safety properties hold for any set of PIDs, retention and bounds,    *)
(* and whether or not statements fail.  What a rollback or a kill goes back to    *)
(* (`undo') must satisfy the same conditions as the tables themselves, so the     *)
(* conditions are stated of any process table ps, child rows rs and counter sq.   *)
EXTENDS Storage, TLAPS

Sound(ps, rs, sq) ==
  /\ sq \in Nat /\ DOMAIN ps \subseteq 1 .. sq
  /\ ps \in [DOMAIN ps -> [pid : Pids, at : Nat]]
  /\ rs \subseteq Row
  /\ \A r \in rs : r.proc \in DOMAIN ps

HasAlert(rs, i) == \E a \in rs : a.table = "alert_logs" /\ a.proc = i

ProcItem(ps, i) == [table |-> "processes", proc |-> i, at |-> ps[i].at]

(* What is evidence is in the tables, and so is an alert for its process: this is *)
(* why no statement of the pruner takes it.                                       *)
Kept(ps, rs) ==
  \A e \in evidence : /\ e \in rs \/ \E i \in DOMAIN ps : e = ProcItem(ps, i)
                      /\ HasAlert(rs, e.proc)

Convicted(i) == \E e \in evidence : e.proc = i

(* What the statements of the running cycle that are done have left behind. *)
Swept(ps, rs) ==
  /\ prune \in {"nets", "procs"} \/ clean =>
       \A r \in rs : r.table = "file_modifications" /\ Past(r.at) => Convicted(r.proc)
  /\ prune = "procs" \/ clean =>
       \A r \in rs : r.table = "network_connections" /\ Past(r.at) => Convicted(r.proc)
  /\ clean => \A i \in DOMAIN ps : Past(ps[i].at) => Convicted(i)

(* Committed alerts have made their process and its rows evidence. *)
Recorded(ps, rs) ==
  \A i : HasAlert(rs, i) => /\ ProcItem(ps, i) \in evidence
                            /\ \A r \in rs : r.proc = i => r \in evidence

Controls ==
  /\ now \in Nat /\ cutoff \in Int /\ cutoff < now
  /\ prune \in {"files", "nets", "procs"} => \E z \in Zones : cutoff <= now - Retention + z
  /\ conn \in {"free", "tx"} /\ clean \in BOOLEAN
  /\ prune \in {"off", "wait", "files", "nets", "procs"}
  /\ clean => prune = "wait"
  /\ prune = "off" => conn = "free"

Good(ps, rs, sq) == Sound(ps, rs, sq) /\ Kept(ps, rs) /\ Swept(ps, rs)

StoreInv ==
  /\ Controls
  /\ Good(procs, rows, sequence)
  /\ conn = "free" => Recorded(procs, rows)
  /\ conn = "tx" => /\ Good(undo.procs, undo.rows, undo.sequence)
                    /\ Recorded(undo.procs, undo.rows)

-----------------------------------------------------------------------------
LEMMA AlertedIff == \A i : i \in Alerted <=> HasAlert(rows, i)
BY DEF Alerted, HasAlert

LEMMA EmptyGood ==
  /\ Sound(<<>>, {}, 0)
  /\ (evidence = {} => Kept(<<>>, {}))
  /\ Swept(<<>>, {})
  /\ Recorded(<<>>, {})
BY DEF Sound, Kept, Swept, Recorded, HasAlert

LEMMA StoreInit == Init => StoreInv
<1> SUFFICES ASSUME Init PROVE StoreInv
  OBVIOUS
<1>1. Controls
  <2>0. now = 0 /\ cutoff = 0 - Retention /\ prune = "wait"
    BY DEF Init
  <2>1. now \in Nat /\ cutoff \in Int /\ cutoff < now
    BY <2>0, StorageAssumption
  <2>2. clean \in BOOLEAN /\ (clean => prune = "wait")
    BY DEF Init
  <2>3. QED BY <2>0, <2>1, <2>2 DEF Init, Controls
<1>2. QED BY <1>1, EmptyGood DEF Init, StoreInv, Good

(* A step that leaves the evidence, the cutoff and the tables alone keeps what is *)
(* said of them, if the pruner stays where it is or has left its cycle.           *)
Aside == /\ UNCHANGED <<evidence, cutoff>>
         /\ \/ prune' = prune /\ clean' = clean
            \/ prune' \in {"off", "wait", "files"} /\ clean' = FALSE

LEMMA TablesStay ==
  ASSUME StoreInv, Aside, UNCHANGED tables
  PROVE  Good(procs, rows, sequence)' /\ Recorded(procs, rows)' = Recorded(procs, rows)
<1>1. Sound(procs, rows, sequence)' /\ Kept(procs, rows)'
  BY DEF StoreInv, Good, Sound, Kept, HasAlert, ProcItem, Aside, tables
<1>2. Swept(procs, rows)'
  BY DEF StoreInv, Good, Swept, Convicted, Aside, tables, Past
<1>3. Recorded(procs, rows)' = Recorded(procs, rows)
  BY DEF Recorded, HasAlert, ProcItem, Aside, tables
<1>4. QED BY <1>1, <1>2, <1>3 DEF Good

LEMMA UndoStays ==
  ASSUME StoreInv, conn = "tx", Aside, UNCHANGED undo
  PROVE  Good(undo.procs, undo.rows, undo.sequence)' /\ Recorded(undo.procs, undo.rows)'
<1>1. Sound(undo.procs, undo.rows, undo.sequence)' /\ Kept(undo.procs, undo.rows)'
  BY DEF StoreInv, Good, Sound, Kept, HasAlert, ProcItem, Aside
<1>2. Swept(undo.procs, undo.rows)'
  BY DEF StoreInv, Good, Swept, Convicted, Aside, Past
<1>3. Recorded(undo.procs, undo.rows)'
  BY DEF StoreInv, Recorded, HasAlert, ProcItem, Aside
<1>4. QED BY <1>1, <1>2, <1>3 DEF Good

-----------------------------------------------------------------------------
(* The writers. *)

InsertRow == (\E pid \in Pids : InsertProcess(pid))
             \/ \E t \in Children, id \in Pids : InsertChild(t, id)

Grown == /\ \A i \in DOMAIN procs : i \in DOMAIN procs' /\ procs'[i] = procs[i]
         /\ \A i \in DOMAIN procs' : i \in DOMAIN procs \/ procs'[i].at = now
         /\ rows \subseteq rows'
         /\ \A r \in rows' : r \in rows \/ r.at = now

LEMMA InsertTables ==
  ASSUME StoreInv, InsertRow
  PROVE  Sound(procs, rows, sequence)' /\ Grown
<1>0. Sound(procs, rows, sequence) /\ now \in Nat
  BY DEF StoreInv, Good, Controls
<1>1. ASSUME NEW pid \in Pids, InsertProcess(pid)
      PROVE  Sound(procs, rows, sequence)' /\ Grown
  <2>1. DOMAIN procs' = DOMAIN procs \cup {sequence + 1} /\ sequence + 1 \notin DOMAIN procs
    BY <1>0, <1>1 DEF InsertProcess, Sound
  <2>2. \A i \in DOMAIN procs : procs'[i] = procs[i]
    BY <1>1, <2>1 DEF InsertProcess
  <2>3. procs'[sequence + 1] = [pid |-> pid, at |-> now]
    BY <1>1, <2>1 DEF InsertProcess
  <2>4. procs' \in [DOMAIN procs' -> [pid : Pids, at : Nat]]
    <3>1. procs' = [i \in DOMAIN procs' |-> procs'[i]]
      BY <1>1 DEF InsertProcess
    <3>2. \A i \in DOMAIN procs : procs'[i] \in [pid : Pids, at : Nat]
      BY <1>0, <2>2 DEF Sound
    <3>3. QED BY <1>0, <2>1, <2>3, <3>1, <3>2
  <2>5. Sound(procs, rows, sequence)'
    BY <1>0, <1>1, <2>1, <2>4 DEF Sound, InsertProcess
  <2>6. Grown
    BY <1>1, <2>1, <2>2, <2>3 DEF Grown, InsertProcess
  <2>7. QED BY <2>5, <2>6
<1>2. ASSUME NEW t \in Children, NEW id \in Pids, InsertChild(t, id)
      PROVE  Sound(procs, rows, sequence)' /\ Grown
  <2>1. id \in Nat
    BY StorageAssumption
  <2>2. QED BY <1>0, <1>2, <2>1 DEF InsertChild, Sound, Grown, Row
<1>3. QED BY <1>1, <1>2, InsertRow DEF InsertRow

(* Evidence that grows by what alerts now make of the tables is still kept. *)
LEMMA GrownKept ==
  ASSUME StoreInv, Sound(procs, rows, sequence)', Grown,
         evidence' = evidence \/ evidence' = evidence \cup Linked'
  PROVE  Kept(procs, rows)'
<1> SUFFICES ASSUME NEW e \in evidence'
             PROVE  /\ e \in rows' \/ \E i \in DOMAIN procs' : e = ProcItem(procs', i)
                    /\ HasAlert(rows', e.proc)
  BY DEF Kept
<1>1. CASE e \in evidence
  <2>1. e \in rows \/ \E i \in DOMAIN procs : e = ProcItem(procs, i)
    BY <1>1 DEF StoreInv, Good, Kept
  <2>2. HasAlert(rows, e.proc)
    BY <1>1 DEF StoreInv, Good, Kept
  <2>3. QED BY <2>1, <2>2 DEF Grown, ProcItem, HasAlert
<1>2. CASE e \in Linked'
  <2>1. \A i \in Alerted' : i \in DOMAIN procs' /\ HasAlert(rows', i)
    BY DEF Alerted, HasAlert, Sound
  <2>2. CASE \E i \in Alerted' : e = ProcItem(procs', i)
    <3>1. PICK i \in Alerted' : e = ProcItem(procs', i)
      BY <2>2
    <3>2. e.proc = i
      BY <3>1 DEF ProcItem
    <3>3. QED BY <2>1, <3>1, <3>2
  <2>3. CASE e \in rows' /\ e.proc \in Alerted'
    BY <2>1, <2>3
  <2>4. QED BY <1>2, <2>2, <2>3 DEF Linked, ProcItem
<1>3. QED BY <1>1, <1>2

LEMMA GrownSwept ==
  ASSUME StoreInv, Sound(procs, rows, sequence)', Grown, UNCHANGED pruner,
         evidence \subseteq evidence'
  PROVE  Swept(procs, rows)'
<1>1. ~Past(now)
  BY DEF StoreInv, Controls, Past
<1>2. \A i : Convicted(i) => Convicted(i)'
  BY DEF Convicted
<1>3. \A r \in rows' : Past(r.at) => r \in rows
  BY <1>1 DEF Grown
<1>4. \A i \in DOMAIN procs' : Past(procs'[i].at) =>
        i \in DOMAIN procs /\ Past(procs[i].at)
  BY <1>1 DEF Grown
<1>5. QED BY <1>2, <1>3, <1>4 DEF StoreInv, Good, Swept, pruner, Past

LEMMA AutocommitRecords ==
  ASSUME evidence' = evidence \cup Linked'
  PROVE  Recorded(procs, rows)'
<1>1. \A i : HasAlert(rows', i) => i \in Alerted'
  BY DEF Alerted, HasAlert
<1>2. \A i \in Alerted' : ProcItem(procs', i) \in Linked'
  BY DEF Linked, ProcItem
<1>3. \A r \in rows' : r.proc \in Alerted' => r \in Linked'
  BY DEF Linked
<1>4. QED BY <1>1, <1>2, <1>3 DEF Recorded, HasAlert, ProcItem

LEMMA InsertStep == ASSUME StoreInv, Insert PROVE StoreInv'
<1>1. Sound(procs, rows, sequence)' /\ Grown
  BY InsertTables DEF Insert, InsertRow
<1>2. Controls'
  BY DEF StoreInv, Controls, Insert, pruner
<1>3. evidence' = evidence \/ evidence' = evidence \cup Linked'
  BY DEF Insert, Autocommit, InTx
<1>4. Kept(procs, rows)' /\ Swept(procs, rows)'
  BY <1>1, <1>3, GrownKept, GrownSwept DEF Insert
<1>5. CASE conn = "free"
  <2>1. Recorded(procs, rows)' /\ conn' = "free"
    BY <1>5, AutocommitRecords DEF Insert, Autocommit, InTx
  <2>2. QED BY <1>1, <1>2, <1>4, <2>1 DEF StoreInv, Good
<1>6. CASE conn = "tx"
  <2>1. Aside /\ UNCHANGED undo /\ conn' = "tx"
    BY <1>6 DEF Insert, Autocommit, InTx, Aside, pruner
  <2>2. Good(undo.procs, undo.rows, undo.sequence)' /\ Recorded(undo.procs, undo.rows)'
    BY <1>6, <2>1, UndoStays
  <2>3. QED BY <1>1, <1>2, <1>4, <2>1, <2>2 DEF StoreInv, Good
<1>7. QED BY <1>5, <1>6 DEF StoreInv, Controls

LEMMA BeginStep == ASSUME StoreInv, Begin PROVE StoreInv'
<1>1. Aside /\ UNCHANGED tables /\ conn = "free" /\ conn' = "tx"
  BY DEF Begin, Aside, pruner
<1>2. Good(procs, rows, sequence)' /\ Recorded(procs, rows)'
  BY <1>1, TablesStay DEF StoreInv
<1>3. undo'.procs = procs' /\ undo'.rows = rows' /\ undo'.sequence = sequence'
  BY DEF Begin, tables
<1>4. Good(undo.procs, undo.rows, undo.sequence)' /\ Recorded(undo.procs, undo.rows)'
  BY <1>2, <1>3
<1>5. Controls'
  BY DEF StoreInv, Controls, Begin, pruner
<1>6. QED BY <1>1, <1>2, <1>4, <1>5 DEF StoreInv

LEMMA CommitStep == ASSUME StoreInv, Commit PROVE StoreInv'
<1>1. Sound(procs, rows, sequence)' /\ Grown
  BY DEF StoreInv, Good, Commit, Sound, Grown, tables
<1>2. evidence' = evidence \cup Linked' /\ evidence \subseteq evidence' /\ UNCHANGED pruner
  BY DEF Commit, Linked, Alerted, tables
<1>3. Kept(procs, rows)' /\ Swept(procs, rows)' /\ Recorded(procs, rows)'
  BY <1>1, <1>2, GrownKept, GrownSwept, AutocommitRecords
<1>4. Controls' /\ conn' = "free"
  BY DEF StoreInv, Controls, Commit, pruner
<1>5. QED BY <1>1, <1>3, <1>4 DEF StoreInv, Good

(* A rollback, and a kill, go back to tables of which the same is known. *)
LEMMA RestoreStep ==
  ASSUME StoreInv, conn = "tx", Restore, Aside, conn' = "free", Controls'
  PROVE  StoreInv'
<1>1. /\ Good(undo.procs, undo.rows, undo.sequence) /\ Recorded(undo.procs, undo.rows)
      /\ procs' = undo.procs /\ rows' = undo.rows /\ sequence' = undo.sequence
  BY DEF StoreInv, Restore
<1>2. Sound(procs, rows, sequence)' /\ Kept(procs, rows)'
  BY <1>1 DEF Good, Sound, Kept, HasAlert, ProcItem, Aside
<1>3. Swept(procs, rows)'
  BY <1>1 DEF Good, Swept, Convicted, Aside, Past
<1>4. Recorded(procs, rows)'
  BY <1>1 DEF Recorded, HasAlert, ProcItem, Aside
<1>5. QED BY <1>2, <1>3, <1>4 DEF StoreInv, Good

LEMMA RollbackStep == ASSUME StoreInv, Rollback PROVE StoreInv'
<1>1. Aside /\ Controls'
  BY DEF StoreInv, Controls, Rollback, Aside, pruner
<1>2. QED BY <1>1, RestoreStep DEF Rollback

LEMMA KillStep == ASSUME StoreInv, Kill PROVE StoreInv'
<1>1. clean' = FALSE /\ prune' = "off" /\ conn' = "free"
  BY DEF Kill
<1>2. Aside
  BY <1>1 DEF Kill, Aside
<1>3. Controls'
  BY <1>1 DEF StoreInv, Controls, Kill
<1>4. CASE conn = "tx"
  BY <1>1, <1>2, <1>3, <1>4, RestoreStep DEF Kill
<1>5. CASE conn = "free"
  <2>1. UNCHANGED tables
    BY <1>5 DEF Kill
  <2>2. QED BY <1>1, <1>2, <1>3, <1>5, <2>1, TablesStay DEF StoreInv
<1>6. QED BY <1>4, <1>5 DEF StoreInv, Controls

LEMMA LaunchStep == ASSUME StoreInv, Launch PROVE StoreInv'
<1>0. prune = "off" /\ conn = "free" /\ conn' = "free" /\ prune' = "wait" /\ clean = FALSE
  BY DEF StoreInv, Controls, Launch
<1>1. clean' = FALSE
  BY <1>0 DEF Launch
<1>2. cutoff' < now' /\ cutoff' \in Int /\ now' \in Nat
  BY StorageAssumption DEF StoreInv, Controls, Launch
<1>3. Controls'
  BY <1>0, <1>1, <1>2 DEF Controls
<1>4. CASE UNCHANGED <<tables, evidence>>
  <2>1. Sound(procs, rows, sequence)' /\ Kept(procs, rows)'
    BY <1>4 DEF StoreInv, Good, Sound, Kept, HasAlert, ProcItem, tables
  <2>2. Swept(procs, rows)'
    BY <1>0, <1>1 DEF Swept
  <2>3. Recorded(procs, rows)'
    BY <1>0, <1>4 DEF StoreInv, Recorded, HasAlert, ProcItem, tables
  <2>4. QED BY <1>0, <1>3, <2>1, <2>2, <2>3 DEF StoreInv, Good
<1>5. CASE procs' = <<>> /\ rows' = {} /\ sequence' = 0 /\ evidence' = {}
  <2>1. Sound(procs, rows, sequence)'
    BY <1>5, EmptyGood DEF Sound
  <2>2. Kept(procs, rows)' /\ Swept(procs, rows)' /\ Recorded(procs, rows)'
    BY <1>0, <1>1, <1>5 DEF Kept, Swept, Recorded, HasAlert
  <2>3. QED BY <1>0, <1>3, <2>1, <2>2 DEF StoreInv, Good
<1>6. QED BY <1>4, <1>5 DEF Launch

-----------------------------------------------------------------------------
(* The pruner. *)

LEMMA CycleStep == ASSUME StoreInv, Cycle PROVE StoreInv'
<1>1. /\ prune' = "files" /\ clean' = FALSE
      /\ UNCHANGED <<now, tables, undo, conn, evidence>>
  BY DEF Cycle
<1>2. /\ cutoff' \in Int /\ cutoff' < now'
      /\ \E z \in Zones : cutoff' <= now' - Retention + z
  <2>1. PICK z \in Zones : cutoff' = now - Retention + z
    BY DEF Cycle, SetCutoff
  <2>2. now \in Nat /\ now' = now /\ z \in Int /\ z < Retention /\ Retention \in Nat
    BY <1>1, StorageAssumption DEF StoreInv, Controls
  <2>3. QED BY <2>1, <2>2
<1>3. Controls'
  BY <1>1, <1>2 DEF StoreInv, Controls
<1>4. Good(procs, rows, sequence)'
  BY <1>1 DEF StoreInv, Good, Sound, Kept, Swept, HasAlert, ProcItem, tables
<1>5. conn' = "free" => Recorded(procs, rows)'
  BY <1>1 DEF StoreInv, Recorded, HasAlert, ProcItem, tables
<1>6. conn' = "tx" => /\ Good(undo.procs, undo.rows, undo.sequence)'
                      /\ Recorded(undo.procs, undo.rows)'
  BY <1>1 DEF StoreInv, Good, Sound, Kept, Swept, Recorded, HasAlert, ProcItem
<1>7. QED BY <1>3, <1>4, <1>5, <1>6 DEF StoreInv

LEMMA PruneErrorStep == ASSUME StoreInv, PruneError PROVE StoreInv'
<1>1. clean = FALSE
  BY DEF StoreInv, Controls, PruneError
<1>2. Aside /\ UNCHANGED <<tables, undo, conn>>
  BY <1>1 DEF PruneError, Aside
<1>3. Controls'
  BY DEF StoreInv, Controls, PruneError
<1>4. QED BY <1>2, <1>3, TablesStay, UndoStays DEF StoreInv

(* What a DELETE on a child table leaves: the evidence, every alert, and of what is *)
(* past the cutoff only rows of processes with an alert.                            *)
LEMMA PruneChildrenStep ==
  ASSUME StoreInv, NEW statement, NEW table, NEW following,
         PruneChildren(statement, table, following),
         \/ <<statement, table, following>> = <<"files", "file_modifications", "nets">>
         \/ <<statement, table, following>> = <<"nets", "network_connections", "procs">>
  PROVE  StoreInv'
<1>0. /\ table # "alert_logs" /\ following \in {"nets", "procs"} /\ prune = statement
      /\ statement \in {"files", "nets"}
      /\ conn = "free" /\ conn' = "free" /\ prune' = following
      /\ UNCHANGED <<now, procs, sequence, cutoff, clean, evidence>>
  BY DEF PruneChildren
<1>1. clean = FALSE
  BY <1>0 DEF StoreInv, Controls
<1>2. \A r : r \in rows' <=> r \in rows /\ ~(r.table = table /\ Old(r))
  BY DEF PruneChildren
<1>3. \A i : HasAlert(rows', i) <=> HasAlert(rows, i)
  BY <1>0, <1>2 DEF HasAlert
<1>4. Controls'
  BY <1>0, <1>1 DEF StoreInv, Controls
<1>5. Sound(procs, rows, sequence)'
  BY <1>0, <1>2 DEF StoreInv, Good, Sound
<1>6. Kept(procs, rows)'
  <2>1. \A e \in evidence : HasAlert(rows', e.proc) /\ ~Old(e)
    BY <1>3, AlertedIff DEF StoreInv, Good, Kept, Old
  <2>2. QED BY <1>0, <1>2, <2>1 DEF StoreInv, Good, Kept, ProcItem
<1>7. Recorded(procs, rows)'
  BY <1>0, <1>2, <1>3 DEF StoreInv, Recorded, ProcItem
<1>8. Swept(procs, rows)'
  <2>1. \A r \in rows' : r.table = table /\ Past(r.at) => Convicted(r.proc)
    <3>1. SUFFICES ASSUME NEW r \in rows', r.table = table, Past(r.at)
                   PROVE  Convicted(r.proc)
      OBVIOUS
    <3>2. HasAlert(rows, r.proc) /\ r \in rows
      BY <1>2, <3>1, AlertedIff DEF Old
    <3>3. r \in evidence
      BY <1>0, <3>2 DEF StoreInv, Recorded
    <3>4. QED BY <3>3 DEF Convicted
  <2>2. \A i : Convicted(i)' <=> Convicted(i)
    BY <1>0 DEF Convicted
  <2>3. following = "procs" =>
          \A r \in rows' : r.table = "file_modifications" /\ Past(r.at) => Convicted(r.proc)
    BY <1>0, <1>2 DEF StoreInv, Good, Swept
  <2>4. QED BY <1>0, <1>1, <2>1, <2>2, <2>3 DEF Swept, Past
<1>9. QED BY <1>0, <1>4, <1>5, <1>6, <1>7, <1>8 DEF StoreInv, Good

LEMMA PruneProcessesStep == ASSUME StoreInv, PruneProcesses PROVE StoreInv'
<1>0. /\ prune = "procs" /\ prune' = "wait" /\ conn = "free" /\ conn' = "free"
      /\ UNCHANGED <<now, rows, sequence, cutoff, evidence>>
  BY DEF PruneProcesses
<1>1. clean = FALSE
  BY <1>0 DEF StoreInv, Controls
<1>2. CASE Blocked /\ UNCHANGED <<procs, clean>>
  <2>1. Aside /\ UNCHANGED tables
    BY <1>0, <1>1, <1>2 DEF Aside, tables
  <2>2. Controls'
    BY <1>0, <1>1, <1>2 DEF StoreInv, Controls
  <2>3. QED BY <1>0, <2>1, <2>2, TablesStay DEF StoreInv
<1>3. CASE /\ ~Blocked /\ clean' = TRUE
           /\ procs' = [i \in DOMAIN procs \ OldProcs |-> procs[i]]
  <2>1. \A i : i \in DOMAIN procs' <=> i \in DOMAIN procs /\ i \notin OldProcs
    BY <1>3
  <2>2. \A i \in DOMAIN procs' : procs'[i] = procs[i]
    BY <1>3
  <2>3. Sound(procs, rows, sequence)'
    <3>1. \A r \in rows : r.proc \notin OldProcs
      BY <1>3 DEF Blocked, RowsOf
    <3>2. procs' \in [DOMAIN procs' -> [pid : Pids, at : Nat]]
      BY <1>3, <2>1 DEF StoreInv, Good, Sound
    <3>3. QED BY <1>0, <2>1, <3>1, <3>2 DEF StoreInv, Good, Sound
  <2>4. \A i : HasAlert(rows, i) => i \notin OldProcs
    BY AlertedIff DEF OldProcs
  <2>5. Kept(procs, rows)'
    <3>1. \A e \in evidence : e \in rows \/ \E i \in DOMAIN procs : e = ProcItem(procs, i) /\ e.proc = i
      BY DEF StoreInv, Good, Kept, ProcItem
    <3>2. QED BY <1>0, <2>1, <2>2, <2>4, <3>1 DEF StoreInv, Good, Kept, ProcItem, HasAlert
  <2>6. \A i : HasAlert(rows, i) => i \in DOMAIN procs /\ i \in DOMAIN procs'
    BY <2>1, <2>4 DEF StoreInv, Good, Sound, HasAlert
  <2>7. Recorded(procs, rows)'
    BY <1>0, <2>2, <2>6 DEF StoreInv, Recorded, ProcItem, HasAlert
  <2>8. Swept(procs, rows)'
    <3>1. \A i \in DOMAIN procs' : Past(procs'[i].at) => Convicted(i)
      <4>1. SUFFICES ASSUME NEW i \in DOMAIN procs', Past(procs'[i].at)
                     PROVE  Convicted(i)
        OBVIOUS
      <4>2. HasAlert(rows, i)
        BY <2>1, <2>2, <4>1, AlertedIff DEF OldProcs
      <4>3. ProcItem(procs, i) \in evidence /\ ProcItem(procs, i).proc = i
        BY <1>0, <4>2 DEF StoreInv, Recorded, ProcItem
      <4>4. QED BY <4>3 DEF Convicted
    <3>2. \A i : Convicted(i)' <=> Convicted(i)
      BY <1>0 DEF Convicted
    <3>3. QED BY <1>0, <3>1, <3>2 DEF StoreInv, Good, Swept, Past
  <2>9. Controls'
    BY <1>0, <1>3 DEF StoreInv, Controls
  <2>10. QED BY <1>0, <2>3, <2>5, <2>7, <2>8, <2>9 DEF StoreInv, Good
<1>4. QED BY <1>2, <1>3 DEF PruneProcesses

LEMMA StoreNext == ASSUME StoreInv, [Next]_vars PROVE StoreInv'
<1>1. CASE Pruner
  BY <1>1, CycleStep, PruneErrorStep, PruneChildrenStep, PruneProcessesStep DEF Pruner
<1>2. CASE Clock \/ UNCHANGED vars
  <2>1. Aside /\ UNCHANGED <<tables, undo, conn>>
    BY <1>2 DEF Clock, vars, Aside, pruner
  <2>2. Controls'
    BY <1>2, StorageAssumption DEF StoreInv, Controls, Clock, vars, pruner
  <2>3. QED BY <2>1, <2>2, TablesStay, UndoStays DEF StoreInv
<1>3. QED BY <1>1, <1>2, InsertStep, BeginStep, CommitStep, RollbackStep, KillStep, LaunchStep
          DEF Next

-----------------------------------------------------------------------------
(* The inductive invariant: the tables, and what a rollback would go back to, are *)
(* sound, keep the evidence, and are as swept as the pruner's place says.         *)
THEOREM StoreInvariant == Spec => []StoreInv
<1>1. StoreInv /\ [Next]_vars => StoreInv'
  BY StoreNext
<1>2. QED BY StoreInit, <1>1, PTL DEF Spec

(* Type correctness, and row ids within AUTOINCREMENT's counter. *)
THEOREM StoreTypeOK == Spec => []TypeOK
<1>1. StoreInv => TypeOK
  BY DEF StoreInv, Controls, Good, Sound, TypeOK
<1>2. QED BY <1>1, StoreInvariant, PTL

(* No file, network or alert row ever refers to a process row that is not there, *)
(* whatever comes between the pruner's statements and wherever a kill falls.     *)
THEOREM StoreNoOrphans == Spec => []NoOrphans
<1>1. StoreInv => NoOrphans
  BY DEF StoreInv, Good, Sound, NoOrphans
<1>2. QED BY <1>1, StoreInvariant, PTL

(* What a committed alert is about is never removed. *)
THEOREM StoreEvidenceKept == Spec => []EvidenceKept
<1>1. ASSUME StoreInv PROVE EvidenceKept
  <2>1. \A e \in evidence : e \in rows \/ \E i \in DOMAIN procs : e = ProcItem(procs, i)
    BY <1>1 DEF StoreInv, Good, Kept
  <2>2. QED BY <2>1 DEF EvidenceKept, Present, ProcItem
<1>2. QED BY <1>1, StoreInvariant, PTL

(* A cycle that ends without an error leaves nothing past its cutoff but what belongs *)
(* to a process with an alert.                                                        *)
THEOREM StoreCleanCycle == Spec => []CleanCycle
<1>1. StoreInv => CleanCycle
  <2>1. SUFFICES ASSUME StoreInv, prune = "wait", clean
                 PROVE  /\ \A i \in DOMAIN procs : Past(procs[i].at) => i \in EverAlerted
                        /\ \A r \in rows : Past(r.at) => r.proc \in EverAlerted
    BY DEF CleanCycle
  <2>2. \A i : Convicted(i) => i \in EverAlerted
    BY DEF Convicted, EverAlerted
  <2>3. \A r \in rows : r.table = "alert_logs" => r.proc \in EverAlerted
    <3>1. \A r \in rows : r.table = "alert_logs" => r \in Linked
      BY DEF Linked, Alerted
    <3>2. QED BY <3>1 DEF EverAlerted
  <2>4. \A r \in rows : r.table \in Children
    BY <2>1 DEF StoreInv, Good, Sound, Row
  <2>5. \A r \in rows : r.table # "alert_logs" /\ Past(r.at) => Convicted(r.proc)
    BY <2>1, <2>4 DEF StoreInv, Good, Swept, Children
  <2>6. \A i \in DOMAIN procs : Past(procs[i].at) => Convicted(i)
    BY <2>1 DEF StoreInv, Good, Swept
  <2>7. QED BY <2>2, <2>3, <2>5, <2>6
<1>2. QED BY <1>1, StoreInvariant, PTL

(* The step of the pruner that removes a row does so within a cycle, whose cutoff is the *)
(* retention in one of the host's zones, taken then or before; and no other step of a    *)
(* running agent, outside a transaction, removes one.                                    *)
LEMMA RemovedPast ==
  ASSUME StoreInv, [Next]_vars, PrunerRuns, NEW at \in Removed
  PROVE  prune \in {"files", "nets", "procs"} /\ Past(at)
<1>1. CASE Insert
  <2>1. Grown
    BY <1>1, InsertTables DEF Insert, InsertRow
  <2>2. QED BY <2>1 DEF Grown, Removed
<1>2. CASE UNCHANGED tables
  BY <1>2 DEF tables, Removed
<1>3. CASE \/ PruneChildren("files", "file_modifications", "nets")
           \/ PruneChildren("nets", "network_connections", "procs")
  BY <1>3 DEF PruneChildren, Old, Removed
<1>4. CASE PruneProcesses
  BY <1>4 DEF PruneProcesses, OldProcs, Removed
<1>5. CASE Pruner
  BY <1>2, <1>3, <1>4, <1>5 DEF Pruner, Cycle, PruneError
<1>6. CASE Begin \/ Commit \/ Rollback \/ Kill \/ Launch \/ Clock \/ UNCHANGED vars
  BY <1>2, <1>6 DEF PrunerRuns, Begin, Commit, Rollback, Kill, Launch, Clock, vars
<1>7. QED BY <1>1, <1>5, <1>6 DEF Next

(* Whatever zones the host's clock is set to, and however late a statement runs after its *)
(* cycle took the cutoff: a row that the running agent removes is as old as the retention *)
(* less what local time is ahead of UTC in one of them.                                   *)
THEOREM StorePrunesOnlyOld == Spec => PrunesOnlyOld
<1>1. ASSUME StoreInv, [Next]_vars, PrunerRuns, NEW at \in Removed
      PROVE  \E z \in Zones : at <= now - Retention + z
  <2>1. Past(at) /\ \E z \in Zones : cutoff <= now - Retention + z
    BY <1>1, RemovedPast DEF StoreInv, Controls
  <2>2. PICK z \in Zones : cutoff <= now - Retention + z
    BY <2>1
  <2>3. now \in Nat /\ cutoff \in Int /\ Retention \in Nat /\ z \in Int
    BY <1>1, StorageAssumption DEF StoreInv, Controls
  <2>4. at \in Nat
    BY <1>1 DEF StoreInv, Good, Sound, Row, Removed
  <2>5. QED BY <2>1, <2>2, <2>3, <2>4 DEF Past
<1>2. StoreInv /\ [Next]_vars =>
        [PrunerRuns => \A at \in Removed : \E z \in Zones : at <= now - Retention + z]_vars
  BY <1>1
<1>3. QED BY <1>2, StoreInvariant, PTL DEF Spec, PrunesOnlyOld
=============================================================================
