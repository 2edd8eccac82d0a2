----------------------------- MODULE Isolation -----------------------------
(***************************************************************************)
(* internal/response/network: IsolateHost and RestoreHost run the host's   *)
(* firewall tool, once or several times, without a lock.  On Linux only    *)
(* the last command's error is returned.                                   *)
(*                                                                         *)
(* `mishap' is history.                                                    *)
(***************************************************************************)
EXTENDS Host, Integers, Sequences

CONSTANTS NetCallers,  \* goroutines that isolate and restore
          Standing     \* the rules that a Linux host's OUTPUT chain may hold before any isolation

VARIABLES fw,      \* the OUTPUT chain: whether its policy drops, and its rules in their order
          ncall,   \* the operation a caller is in, and the commands it has left
          mishap   \* history: an error was ignored, or an isolation met a restoration

netVars == <<fw, ncall, mishap>>

NoNetCall == [op |-> "none", todo |-> <<>>]

(* What the host sends: to TCP port 8443, through the loopback interface, or anything *)
(* else, as to DNS and DHCP servers.  A rule is about some of it.                     *)
Whitelist == {"agent port", "loopback"}

Traffic == Whitelist \cup {"other"}

Rule == [of : SUBSET Traffic, pass : BOOLEAN]

ASSUME IsolationAssumption == Standing \subseteq Seq(Rule)

(* The policy is the one that a chain has when nobody has changed it. *)
IsolationInit == /\ fw \in [drop : {FALSE}, chain : IF platform = "linux" THEN Standing ELSE {<<>>}]
                 /\ mishap = FALSE /\ ncall = [c \in NetCallers |-> NoNetCall]

-----------------------------------------------------------------------------
(* The commands of an operation.  macOS turns the packet filter on, with whatever *)
(* rules it was given, and off.                                                   *)
BugScript(op) == IF op = "isolate" THEN <<"drop", "agent port", "loopback">>
                                   ELSE <<"flush", "accept">>

Script(op) ==
  CASE platform = "linux"   -> IF op = "isolate" THEN <<"agent port", "loopback", "drop">>
                                                 ELSE <<"accept", "flush">>
    [] platform = "darwin"  -> IF op = "isolate" THEN <<"enable">> ELSE <<"disable">>
    [] platform = "windows" -> IF op = "isolate" THEN <<"drop">> ELSE <<"accept">>

LetThrough(t) == [of |-> {t}, pass |-> TRUE]

Holds(rule) == \E i \in DOMAIN fw.chain : fw.chain[i] = rule

(* iptables -A puts a rule at the end, where a second copy of it decides nothing; -F *)
(* takes out every rule, the host's own too.                                         *)
Effect(cmd) ==
  CASE cmd \in Whitelist             -> IF Holds(LetThrough(cmd)) THEN fw
                                        ELSE [fw EXCEPT !.chain = Append(@, LetThrough(cmd))]
    [] cmd = "drop"                  -> [fw EXCEPT !.drop = TRUE]
    [] cmd = "accept"                -> [fw EXCEPT !.drop = FALSE]
    [] cmd = "flush"                 -> [fw EXCEPT !.chain = <<>>]
    [] cmd \in {"enable", "disable"} -> fw

Opposed(op) == \E d \in NetCallers : ncall[d].op \notin {"none", op}

BeginNet(c, op) == /\ ncall[c] = NoNetCall
                   /\ ncall' = [ncall EXCEPT ![c] = [op |-> op, todo |-> Script(op)]]
                   /\ mishap' = (mishap \/ Opposed(op))
                   /\ UNCHANGED fw

NetEnds(c) == Len(ncall[c].todo) = 1

(* A command that is not the last may fail and nobody knows. *)
NetCommand(c, ok) ==
  /\ ncall[c] # NoNetCall
  /\ fw' = IF ok THEN Effect(Head(ncall[c].todo)) ELSE fw
  /\ mishap' = (mishap \/ (~ok /\ ~NetEnds(c)))
  /\ ncall' = [ncall EXCEPT ![c] = IF NetEnds(c) THEN NoNetCall ELSE
               [op |-> ncall[c].op, todo |-> Tail(ncall[c].todo)]]

-----------------------------------------------------------------------------
(* The first rule that is about some traffic decides; where there is none, the policy. *)
Decisive(i, t) == /\ i \in DOMAIN fw.chain /\ t \in fw.chain[i].of
                  /\ \A j \in 1 .. i - 1 : t \notin fw.chain[j].of

Passes(t) == IF \E i \in DOMAIN fw.chain : Decisive(i, t)
             THEN \E i \in DOMAIN fw.chain : Decisive(i, t) /\ fw.chain[i].pass
             ELSE ~fw.drop

IsolationTypeOK ==
  /\ fw \in [drop : BOOLEAN, chain : Seq(Rule)] /\ mishap \in BOOLEAN
  /\ \A c \in NetCallers : /\ ncall[c].op \in {"none", "isolate", "restore"}
                           /\ (ncall[c].op = "none") <=> (ncall[c].todo = <<>>)

(* A Linux host that drops its output still talks to its operator and to itself, if it *)
(* had no rule of its own against that: the two rules are there before the policy and  *)
(* leave after it, unless a failed command was passed over, or a RestoreHost flushed   *)
(* what a concurrent IsolateHost had put there.                                        *)
WhitelistUnlessRaced ==
  platform = "linux" /\ fw.drop /\ ~mishap =>
    \A t \in Whitelist : Passes(t) \/ \E i \in DOMAIN fw.chain : Decisive(i, t) /\ ~fw.chain[i].pass
=============================================================================
