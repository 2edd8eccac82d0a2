----------------------------- MODULE MCResponse -----------------------------
(***************************************************************************)
(* A small instance of the way from an event to a response.  The detection *)
(* stages and the policies share no state with the rest, and the response  *)
(* engines none with each other: a run lets one of them move, or all the   *)
(* engines on a host that stays nearly still, and so explores the sum of   *)
(* their states in place of the product.                                   *)
(***************************************************************************)
EXTENDS Response, Policy, Detection

VARIABLE part

(* The stages of the pipeline's test. *)
MCStages == <<"Normalizer", "BehaviorAnalysis", "Heuristic", "IOCMatching", "YARA", "Sigma",
              "ThreatIntelligence", "Correlation", "RiskScoring", "Alert">>

MCIncoming == SUBSET {"process", "child of init", "encoded command", "listed hash",
                      "listed hash, capitals", "listed path, blanks", "sigma pattern"}

Pol(id, parent, rules) == [id |-> id, parent |-> parent, rules |-> rules]

BinRule(action) == [id |-> "r", path |-> "/bin", action |-> action]
ShRule(action)  == [id |-> "s", path |-> "sh", action |-> action]

(* Policies in a line, in a circle, without a parent, and two that are not valid. *)
MCOffered == {Pol("base", "none", <<ShRule("Deny")>>), Pol("base", "leaf", <<>>),
              Pol("site", "base", <<BinRule("Audit"), ShRule("Allow")>>), Pol("site", "gone", <<>>),
              Pol("leaf", "site", <<>>), Pol("leaf", "leaf", <<ShRule("Ignore"), BinRule("Deny")>>),
              Pol("none", "base", <<>>), Pol("leaf", "base", <<BinRule("Shout")>>)}

MCPathHas == {<<"/bin/sh", "/bin">>, <<"/bin/sh", "sh">>, <<"/bin/ls", "/bin">>, <<"/usr/ssh", "sh">>}

MCConfigured ==
  [auto |-> TRUE, threshold |-> 8,
   actions |-> <<[name |-> "isolate", enabled |-> TRUE], [name |-> "kill_process", enabled |-> TRUE],
                 [name |-> "quarantine", enabled |-> TRUE], [name |-> "kill", enabled |-> TRUE]>>]

MCBaseOf == [p \in Paths |-> CHOOSE b \in Bases : TRUE]

(* No rules, one that accepts the rest, and one that refuses the agent's port. *)
MCStanding == {<<>>, <<[of |-> {"other"}, pass |-> TRUE]>>, <<[of |-> {"agent port"}, pass |-> FALSE]>>}

(* The system only matters to the firewall and to KillTree, which is the same on macOS as *)
(* on Linux; the chain only to the firewall.                                             *)
MCInit ==
  /\ ResponseInit /\ PolicyInit /\ DetectInit
  /\ procs[1].pid = 1
  /\ \/ part \in {"network", "process", "mitigation"}
     \/ part \in {"detection", "policy", "quarantine"} /\ platform = "linux"
  /\ part # "network" => fw.chain = <<>> /\ platform # "darwin"

MCResponding ==
  /\ \/ part = "network" /\ UNCHANGED <<killVars, qVars>>
     \/ part = "process" /\ UNCHANGED <<netVars, qVars>>
     \/ part = "quarantine" /\ UNCHANGED <<netVars, killVars>>
     \/ part = "mitigation"
  /\ ResponseNext
  /\ part = "mitigation" => Len(procs') = 1 /\ contents' <= 1
  /\ part \in {"process", "mitigation"} => responses' <= 2
  /\ responses' = 2 => Len(procs') <= 3

MCNext == /\ UNCHANGED part
          /\ \/ part = "detection" /\ DetectNext /\ UNCHANGED <<responseVars, policyVars>>
             \/ part = "policy" /\ PolicyNext /\ UNCHANGED <<responseVars, detectVars>>
             \/ MCResponding /\ UNCHANGED <<policyVars, detectVars>>

MCSpec == MCInit /\ [][MCNext]_<<part, responseVars, policyVars, detectVars>>

(* The state of the detection, the policies and the responses has its type. *)
MCTypeOK == ResponseTypeOK /\ PolicyTypeOK /\ DetectTypeOK
=============================================================================
