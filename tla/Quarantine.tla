----------------------------- MODULE Quarantine -----------------------------
(***************************************************************************)
(* internal/response/quarantine: QuarantineFile reads a file, writes what  *)
(* it read, encrypted, to the vault under the file's base name, and        *)
(* removes the file; with no lock, and no look at what the vault holds.    *)
(*                                                                         *)
(* `lastWriter', `removed' and the field `shared' are history.             *)
(***************************************************************************)
EXTENDS Integers, Sequences, FiniteSets

CONSTANTS QCallers,      \* goroutines that call QuarantineFile
          Paths,         \* files
          BaseOf,        \* [Paths -> Bases]: filepath.Base
          Bases,
          MaxContents    \* bound: the contents ever written to files

ASSUME QuarantineAssumption == BaseOf \in [Paths -> Bases] /\ MaxContents \in Nat

Absent == -1    \* no file
Cut == 0        \* a vault file that was truncated, cut short or mixed: it cannot be decrypted

VARIABLES file,        \* what a path holds; contents are numbered
          vault,       \* what was encrypted into the vault's file of a base name
          contents,    \* how many contents there have been
          qcall,       \* what a caller is doing
          quarantines, \* how many calls have been made
          lastWriter,  \* history: the call that opened or wrote a vault file last
          removed      \* history: the calls that removed their file, and what it held

qVars == <<file, vault, contents, qcall, quarantines, lastWriter, removed>>

NoQuarantine == [at |-> "idle"]

QInit == /\ file = [p \in Paths |-> Absent] /\ vault = [b \in Bases |-> Absent]
         /\ contents = 0 /\ quarantines = 0 /\ removed = {}
         /\ qcall = [c \in QCallers |-> NoQuarantine] /\ lastWriter = [b \in Bases |-> 0]

-----------------------------------------------------------------------------
(* Somebody else writes a file. *)
WriteSource(p) ==
  /\ contents < MaxContents /\ contents' = contents + 1
  /\ file' = [file EXCEPT ![p] = contents']
  /\ UNCHANGED <<vault, qcall, quarantines, lastWriter, removed>>

BeginQuarantine(c, p) ==
  /\ qcall[c] = NoQuarantine /\ file[p] # Absent
  /\ quarantines' = quarantines + 1
  /\ qcall' = [qcall EXCEPT ![c] =
       [at |-> "read", path |-> p, data |-> file[p], id |-> quarantines', shared |-> FALSE]]
  /\ UNCHANGED <<file, vault, contents, lastWriter, removed>>

(* The cipher, the nonce, MkdirAll, the open or Remove fails: QuarantineFile returns. *)
QuarantineFails(c) ==
  /\ qcall[c].at \in {"read", "written"} /\ qcall' = [qcall EXCEPT ![c] = NoQuarantine]
  /\ UNCHANGED <<file, vault, contents, quarantines, lastWriter, removed>>

VaultFile(c) == BaseOf[qcall[c].path]

Touch(c, at) ==
  /\ qcall' = [d \in QCallers |->
       IF d = c THEN IF at = "idle" THEN NoQuarantine ELSE [qcall[c] EXCEPT !.at = at]
       ELSE IF qcall[d].at = "open" /\ VaultFile(d) = VaultFile(c)
       THEN [qcall[d] EXCEPT !.shared = TRUE] ELSE qcall[d]]
  /\ lastWriter' = [lastWriter EXCEPT ![VaultFile(c)] = qcall[c].id]
  /\ UNCHANGED <<file, contents, quarantines, removed>>

(* WriteFile opens the file, empty, and writes from its beginning. *)
OpenVault(c) ==
  /\ qcall[c].at = "read" /\ Touch(c, "open") /\ vault' = [vault EXCEPT ![VaultFile(c)] = Cut]

(* Over the longer text of another writer, the end of that one stays. *)
WriteVault(c) ==
  /\ qcall[c].at = "open" /\ Touch(c, "written")
  /\ \E v \in {qcall[c].data} \cup (IF qcall[c].shared THEN {Cut} ELSE {}) :
       vault' = [vault EXCEPT ![VaultFile(c)] = v]

(* The write stops short. *)
WriteFails(c) ==
  /\ qcall[c].at = "open" /\ Touch(c, "idle")
  /\ vault' = [vault EXCEPT ![VaultFile(c)] = Cut]

BugStored(c) == qcall[c].at \in {"open", "written"}
Stored(c) == qcall[c].at = "written"

(* Remove takes what the path holds by now. *)
RemoveSource(c) ==
  /\ Stored(c) /\ file[qcall[c].path] # Absent
  /\ removed' = removed \cup {[id |-> qcall[c].id, base |-> VaultFile(c), data |-> qcall[c].data,
                               held |-> file[qcall[c].path], shared |-> qcall[c].shared]}
  /\ file' = [file EXCEPT ![qcall[c].path] = Absent]
  /\ qcall' = [qcall EXCEPT ![c] = NoQuarantine]
  /\ UNCHANGED <<vault, contents, quarantines, lastWriter>>

(* The agent dies. *)
QuarantineCrash ==
  /\ qcall' = [c \in QCallers |-> NoQuarantine]
  /\ UNCHANGED <<file, vault, contents, quarantines, lastWriter, removed>>

QuarantineStep(c) == QuarantineFails(c) \/ OpenVault(c) \/ WriteVault(c) \/ WriteFails(c) \/ RemoveSource(c)

-----------------------------------------------------------------------------
QuarantineTypeOK ==
  /\ file \in [Paths -> Nat \cup {Absent}] /\ vault \in [Bases -> Nat \cup {Absent, Cut}]
  /\ contents \in Nat /\ quarantines \in Nat
  /\ \A c \in QCallers : qcall[c].at \in {"idle", "read", "open", "written"}
  /\ \A b \in Bases : lastWriter[b] \in 0 .. quarantines

(* Evidence leaves the disk only once it is in the vault, and stays there: whatever    *)
(* failed or died in between, what a call read is whole in the vault when its file is  *)
(* removed and afterwards, unless another call wrote under the same base name at the   *)
(* same time or later; and what it removed is what it read, or was written meanwhile.  *)
QuarantineKeeps ==
  \A r \in removed :
    /\ r.held >= r.data
    /\ vault[r.base] = r.data \/ r.shared \/ lastWriter[r.base] # r.id
=============================================================================
