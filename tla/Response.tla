------------------------------ MODULE Response ------------------------------
(***************************************************************************)
(* What makes the response engines act: requests to the API server, and    *)
(* the policy engine's EvaluateAndMitigate, which goes through the actions *)
(* of the configuration and gives up at the first error.  Each caller has  *)
(* engines of its own; the firewall, the processes, the files and the      *)
(* vault are the host's.                                                   *)
(***************************************************************************)
EXTENDS Isolation, KillTree, Quarantine

CONSTANTS Responders,    \* goroutines of the API server and of the policy engine
          Configured,    \* ResponseConfig
          Scores,        \* the scores EvaluateAndMitigate is given
          MaxResponses   \* bound: the requests and evaluations

ASSUME ResponseAssumption ==
  /\ NetCallers = Responders /\ KillCallers = Responders /\ QCallers = Responders
  /\ Configured \in [auto : BOOLEAN, threshold : Int,
                     actions : Seq([name : STRING, enabled : BOOLEAN])]
  /\ MaxResponses \in Nat

VARIABLES todo,      \* the actions a caller's call has left, the first one perhaps under way
          responses  \* how many calls have been made

engineVars == <<platform, netVars, killVars, qVars>>

responseVars == <<engineVars, todo, responses>>

ResponseInit == /\ HostInit /\ IsolationInit /\ KillInit /\ QInit
                /\ todo = [c \in Responders |-> <<>>] /\ responses = 0

-----------------------------------------------------------------------------
Busy(c) == ncall[c] # NoNetCall \/ Killing(c) \/ qcall[c] # NoQuarantine

Answer(c, actions) == /\ todo[c] = <<>> /\ responses < MaxResponses /\ responses' = responses + 1
                      /\ todo' = [todo EXCEPT ![c] = actions] /\ UNCHANGED engineVars

(* TriggerResponse refuses a PID that is not positive, no file and any other action. *)
TriggerResponse(c) ==
  \/ \E pid \in KillPids : Answer(c, <<[name |-> "kill", pid |-> pid]>>)
  \/ \E op \in {"isolate", "restore"} : Answer(c, <<[name |-> op]>>)
  \/ \E p \in Paths : Answer(c, <<[name |-> "quarantine", path |-> p]>>)
  \/ Answer(c, <<>>)

(* What a configured action needs of the details; another name means nothing. *)
Applies(action, details) ==
  /\ action.enabled
  /\ \/ action.name = "isolate"
     \/ action.name = "kill" /\ "pid" \in DOMAIN details
     \/ action.name = "quarantine" /\ "path" \in DOMAIN details

Planned(action, details) ==
  CASE action.name = "isolate"    -> [name |-> "isolate"]
    [] action.name = "kill"       -> [name |-> "kill", pid |-> details.pid]
    [] action.name = "quarantine" -> [name |-> "quarantine", path |-> details.path]

(* The first n of the configured actions, those that the details allow. *)
Chosen(details) ==
  LET chosen[n \in 0 .. Len(Configured.actions)] ==
        IF n = 0 THEN <<>>
        ELSE IF Applies(Configured.actions[n], details)
             THEN Append(chosen[n - 1], Planned(Configured.actions[n], details))
             ELSE chosen[n - 1]
  IN chosen

EvaluateAndMitigate(c, score, details) ==
  Answer(c, IF Configured.auto /\ score >= Configured.threshold
            THEN Chosen(details)[Len(Configured.actions)] ELSE <<>>)

(* Details that name a process and a file, or one of them, or neither. *)
Details == {<<>>} \cup [{"pid"} -> KillPids] \cup [{"path"} -> Paths]
           \cup {[pid |-> i, path |-> p] : i \in KillPids, p \in Paths}

-----------------------------------------------------------------------------
Now(c) == Head(todo[c])

(* An action has succeeded, and the next one comes; or failed, and none does. *)
Over(c, ok) == todo' = [todo EXCEPT ![c] = IF ok THEN Tail(@) ELSE <<>>]

Ready(c, name) == todo[c] # <<>> /\ ~Busy(c) /\ Now(c).name = name

Isolating(c) ==
  /\ \/ \E op \in {"isolate", "restore"} :
          Ready(c, op) /\ BeginNet(c, op) /\ UNCHANGED todo
     \/ \E ok \in BOOLEAN :
          NetCommand(c, ok) /\ IF NetEnds(c) THEN Over(c, ok) ELSE UNCHANGED todo
  /\ UNCHANGED <<platform, killVars, qVars, responses>>

KillingTree(c) ==
  /\ \/ Ready(c, "kill") /\ BeginKill(c, Now(c).pid) /\ UNCHANGED todo
     \/ \E ok \in BOOLEAN : KillReturns(c, ok) /\ Over(c, ok)
     \/ KillStep(c) /\ UNCHANGED todo
  /\ UNCHANGED <<platform, netVars, qVars, responses>>

Quarantining(c) ==
  /\ \/ Ready(c, "quarantine") /\ BeginQuarantine(c, Now(c).path) /\ UNCHANGED todo
     \/ /\ Ready(c, "quarantine") /\ file[Now(c).path] = Absent
        /\ Over(c, FALSE) /\ UNCHANGED qVars
     \/ (OpenVault(c) \/ WriteVault(c)) /\ UNCHANGED todo
     \/ (QuarantineFails(c) \/ WriteFails(c)) /\ Over(c, FALSE)
     \/ RemoveSource(c) /\ Over(c, TRUE)
  /\ UNCHANGED <<platform, netVars, killVars, responses>>

(* The agent dies and is started again; the host stays as it is. *)
ResponseCrash ==
  /\ QuarantineCrash
  /\ ncall' = [c \in Responders |-> NoNetCall] /\ kcall' = [c \in Responders |-> NoKill]
  /\ todo' = [c \in Responders |-> <<>>]
  /\ UNCHANGED <<platform, fw, mishap, procs, responses>>

Environment == \/ ProcessStep /\ UNCHANGED <<platform, netVars, qVars, todo, responses>>
               \/ /\ \E p \in Paths : WriteSource(p)
                  /\ UNCHANGED <<platform, netVars, killVars, todo, responses>>

ResponseNext ==
  \/ Environment \/ ResponseCrash
  \/ \E c \in Responders :
       \/ TriggerResponse(c)
       \/ \E score \in Scores, d \in Details : EvaluateAndMitigate(c, score, d)
       \/ Isolating(c) \/ KillingTree(c) \/ Quarantining(c)

ResponseSpec == ResponseInit /\ [][ResponseNext]_responseVars

-----------------------------------------------------------------------------
Action == [name : {"isolate", "restore"}] \cup [name : {"kill"}, pid : KillPids]
          \cup [name : {"quarantine"}, path : Paths]

ResponseTypeOK ==
  /\ IsolationTypeOK /\ KillTypeOK /\ QuarantineTypeOK
  /\ todo \in [Responders -> Seq(Action)]
  /\ \A c \in Responders : Busy(c) => todo[c] # <<>>
=============================================================================
