------------------------------ MODULE KillTree ------------------------------
(***************************************************************************)
(* internal/response/process: KillTree asks pgrep for the children of a    *)
(* PID, kills their trees one after the other and then the PID itself,     *)
(* while processes fork and exit.                                          *)
(*                                                                         *)
(* A process is its index in `procs'; the code only knows its PID, which   *)
(* another one may have taken over.  The fields `born', `meant', `root',   *)
(* `listed' and `excused' are history.                                     *)
(***************************************************************************)
EXTENDS Host, Integers, Sequences

CONSTANTS KillCallers,  \* goroutines that call KillTree
          KillPids,     \* process ids
          MaxProcs      \* bound: the processes ever forked

ASSUME KillAssumption == MaxProcs \in Nat /\ KillPids # {}

VARIABLES procs,  \* every process: its PID, its parent at birth and now (0 is init), whether it lives
          kcall   \* what a caller is doing

killVars == <<procs, kcall>>

NoKill == [stack |-> <<>>, root |-> 0, listed |-> {}, excused |-> {}]

KillInit == /\ \E p \in KillPids : procs = <<[pid |-> p, born |-> 0, parent |-> 0, alive |-> TRUE]>>
            /\ kcall = [c \in KillCallers |-> NoKill]

-----------------------------------------------------------------------------
Holder(pid) == {x \in DOMAIN procs : procs[x].alive /\ procs[x].pid = pid}

Killing(c) == kcall[c].stack # <<>>

(* What was forked by a process already listed can no longer be found. *)
Fork(x) ==
  /\ procs[x].alive /\ Len(procs) < MaxProcs
  /\ \E pid \in {p \in KillPids : Holder(p) = {}} :
       procs' = Append(procs, [pid |-> pid, born |-> x, parent |-> x, alive |-> TRUE])
  /\ kcall' = [c \in KillCallers |->
       IF Killing(c) /\ x \in kcall[c].listed
       THEN [kcall[c] EXCEPT !.excused = @ \cup {Len(procs) + 1}] ELSE kcall[c]]

(* The children of a process that dies are init's. *)
Dead(x) == [y \in DOMAIN procs |->
  [procs[y] EXCEPT !.alive = @ /\ y # x, !.parent = IF @ = x THEN 0 ELSE @]]

(* A death that a call neither caused nor came before excuses it. *)
Gone(x) == [c \in KillCallers |->
  IF Killing(c) /\ x \notin kcall[c].listed
  THEN [kcall[c] EXCEPT !.excused = @ \cup {x}] ELSE kcall[c]]

Exit(x) == procs[x].alive /\ procs' = Dead(x) /\ kcall' = Gone(x)

-----------------------------------------------------------------------------
(* Windows kills the process alone. *)
Frame(pid, meant) == [pid |-> pid, meant |-> meant, asked |-> platform = "windows", todo |-> {}]

BeginKill(c, pid) ==
  /\ ~Killing(c)
  /\ kcall' = [kcall EXCEPT ![c] =
       [stack |-> <<Frame(pid, Holder(pid))>>,
        root |-> IF Holder(pid) = {} THEN 0 ELSE CHOOSE x \in Holder(pid) : TRUE,
        listed |-> {}, excused |-> {x \in DOMAIN procs : ~procs[x].alive}]]
  /\ UNCHANGED procs

Depth(c) == Len(kcall[c].stack)

Top(c) == kcall[c].stack[Depth(c)]

SetTop(c, f) == [kcall[c].stack EXCEPT ![Depth(c)] = f]

(* pgrep names the children there are, or fails. *)
ListChildren(c) == LET holder == Holder(Top(c).pid) IN
  /\ Killing(c) /\ ~Top(c).asked
  /\ \/ LET children == {y \in DOMAIN procs : procs[y].alive /\ procs[y].parent \in holder} IN
        kcall' = [kcall EXCEPT
          ![c].stack = SetTop(c, [Top(c) EXCEPT !.asked = TRUE, !.todo = children]),
          ![c].listed = @ \cup holder]
     \/ kcall' = [kcall EXCEPT ![c].stack = SetTop(c, [Top(c) EXCEPT !.asked = TRUE]),
                               ![c].excused = @ \cup holder]
  /\ UNCHANGED procs

BugReadyToKill(f) == f.todo = {}
ReadyToKill(f) == f.asked /\ f.todo = {}

(* In the order of the PIDs. *)
Descend(c) ==
  /\ Killing(c) /\ ~ReadyToKill(Top(c))
  /\ \E y \in Top(c).todo :
       /\ \A z \in Top(c).todo : procs[y].pid <= procs[z].pid
       /\ kcall' = [kcall EXCEPT ![c].stack =
            Append(SetTop(c, [Top(c) EXCEPT !.todo = @ \ {y}]), Frame(procs[y].pid, {y}))]
  /\ UNCHANGED procs

(* SIGKILL reaches whoever has the PID by now.  It may find nobody, be refused, or do *)
(* nothing to its process, as to init and to the kernel's threads: that one is left    *)
(* alive, and a caller above ignores the error.                                        *)
Signal(c) ==
  /\ Killing(c) /\ ReadyToKill(Top(c))
  /\ LET holder == Holder(Top(c).pid)
         popped(k) == [k EXCEPT ![c].stack = SubSeq(@, 1, Depth(c) - 1)] IN
     \/ kcall' = popped([kcall EXCEPT ![c].excused = @ \cup holder]) /\ UNCHANGED procs
     \/ \E x \in holder :
          /\ procs' = Dead(x)
          /\ kcall' = popped(IF x \in Top(c).meant
                             THEN [Gone(x) EXCEPT ![c].excused = kcall[c].excused] ELSE Gone(x))

(* The outermost call returns with its last signal; never with an error when that has *)
(* killed somebody, and without one also for what is dead but not yet reaped.         *)
KillReturns(c, ok) == Depth(c) = 1 /\ Signal(c) /\ (ok \/ procs' = procs)

KillStep(c) == ListChildren(c) \/ Descend(c) \/ (Depth(c) > 1 /\ Signal(c))

ProcessStep == \E x \in DOMAIN procs : Fork(x) \/ Exit(x)

-----------------------------------------------------------------------------
KillTypeOK ==
  /\ \A x, y \in DOMAIN procs : procs[x].alive /\ procs[y].alive /\ procs[x].pid = procs[y].pid => x = y
  /\ \A c \in KillCallers : /\ kcall[c].root \in 0 .. Len(procs)
                            /\ kcall[c].listed \cup kcall[c].excused \subseteq DOMAIN procs

(* A process with those it descends from. *)
Lines(table) == LET f[y \in 0 .. Len(table)] == IF y = 0 THEN {} ELSE {y} \cup f[table[y].born] IN f

Line(x) == Lines(procs)[x]

(* When KillTree has returned, a process that descends from the target and still   *)
(* lives got away at a fork, a death or a signal: one of its line was forked by a  *)
(* process already asked about, or had died before it was, or pgrep failed on it,  *)
(* or a signal to it left it alive.                                                *)
SurvivorsEscaped ==
  platform # "windows" => \A c \in KillCallers : ~Killing(c) =>
    \A x \in DOMAIN procs : procs[x].alive /\ kcall[c].root \in Line(x) =>
      Line(x) \cap kcall[c].excused # {}
=============================================================================
