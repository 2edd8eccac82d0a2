----------------------------- MODULE Detection -----------------------------
(***************************************************************************)
(* internal/detect/pipeline and internal/scoring: an event goes through    *)
(* the stages in their order; engines add their verdicts, which are then   *)
(* scored together, and an alert is offered to a channel that may be full. *)
(*                                                                         *)
(* An event is the set of signs the engines look for in its fields.        *)
(* Severities and weights are in tenths, a score in units of 10^-7, which  *)
(* up to seven verdicts do not round.  `examined' is history.              *)
(***************************************************************************)
EXTENDS Integers, Sequences

CONSTANTS Stages,        \* the names of the stages NewDetectionPipeline was given, in order and each once
          Incoming,      \* the events
          Threshold,     \* NewRiskScoringStage's argument
          AlertCapacity, \* the capacity of the alert channel
          MaxExamined    \* bound: the events

(* What an engine wants to see in an event, all of it. *)
Wants == [BehaviorAnalysis   |-> {"process", "child of init"},
          Heuristic          |-> {"encoded command"},
          IOCMatching        |-> {"listed hash"},
          YARA               |-> {"process", "listed path"},
          Sigma              |-> {"sigma pattern"},
          ThreatIntelligence |-> {"listed address"}]

Severity == [BehaviorAnalysis |-> 30, Heuristic |-> 65, IOCMatching |-> 95, YARA |-> 80,
             Sigma |-> 70, ThreatIntelligence |-> 90, Correlation |-> 50]

Weight == [BehaviorAnalysis |-> 5, Heuristic |-> 7, IOCMatching |-> 9, YARA |-> 8,
           Sigma |-> 8, ThreatIntelligence |-> 9, Correlation |-> 5]

ASSUME DetectionAssumption ==
  /\ Stages \in Seq(DOMAIN Severity \cup {"Normalizer", "RiskScoring", "Alert"})
  /\ Threshold \in Int /\ AlertCapacity \in Nat /\ MaxExamined \in Nat

VARIABLES alerts,   \* the alert channel: the scores of the alerts
          examined  \* history: the events, their scores and whether an alert was triggered

detectVars == <<alerts, examined>>

DetectInit == alerts = <<>> /\ examined = <<>>

-----------------------------------------------------------------------------
One == 10000000

(* A severity is cut down to 1: all those the engines give are above. *)
Clamp(tenths) == IF tenths > 10 THEN 10 ELSE IF tenths < 0 THEN 0 ELSE tenths

Risk(engine) == (Clamp(Severity[engine]) * Weight[engine]) \div 10

(* What the verdicts, each cutting its share off, leave of 1. *)
Spared(results) ==
  LET f[n \in 0 .. Len(results)] ==
        IF n = 0 THEN One ELSE (f[n - 1] \div 10) * (10 - Risk(results[n]))
  IN f[Len(results)]

BugCompoundScore(results) ==
  LET sum[n \in 0 .. Len(results)] == IF n = 0 THEN 0 ELSE sum[n - 1] + Risk(results[n])
  IN IF results = <<>> THEN 0 ELSE (sum[Len(results)] * (One \div 10)) \div Len(results)
CalculateCompoundScore(results) == One - Spared(results)

(* NormalizerStage trims the path and puts the hash in small letters. *)
Normalize(signs) ==
  {CASE s = "listed path, blanks" -> "listed path"
     [] s = "listed hash, capitals" -> "listed hash"
     [] OTHER -> s : s \in signs}

NewContext(e) == [event |-> e, results |-> <<>>, score |-> 0,
                  triggered |-> FALSE, raised |-> FALSE]

AddResult(ctx, engine) == [ctx EXCEPT !.results = Append(@, engine)]

StageProcess(ctx, stage) ==
  CASE stage = "Normalizer"  -> [ctx EXCEPT !.event = Normalize(@)]
    [] stage \in DOMAIN Wants -> IF Wants[stage] \subseteq ctx.event THEN AddResult(ctx, stage) ELSE ctx
    [] stage = "Correlation" -> IF Len(ctx.results) >= 2 THEN AddResult(ctx, stage) ELSE ctx
    [] stage = "RiskScoring" -> IF ctx.results = <<>> THEN ctx
                                ELSE LET score == CalculateCompoundScore(ctx.results) IN
                                     [ctx EXCEPT !.score = score, !.triggered = @ \/ score >= Threshold]
    [] stage = "Alert"       -> [ctx EXCEPT !.raised = ctx.triggered]

BugChannelFull == Len(alerts) > AlertCapacity
ChannelFull == Len(alerts) >= AlertCapacity

(* The context by the number of stages it has been through. *)
Passing(e) ==
  LET f[n \in 0 .. Len(Stages)] == IF n = 0 THEN NewContext(e) ELSE StageProcess(f[n - 1], Stages[n])
  IN f

Process(e) ==
  LET ctx == Passing(e)[Len(Stages)] IN
     /\ Len(examined) < MaxExamined
     /\ examined' = Append(examined, [event |-> e, score |-> ctx.score, triggered |-> ctx.triggered])
     /\ alerts' = IF ctx.raised /\ ~ChannelFull THEN Append(alerts, ctx.score) ELSE alerts

ReceiveAlert == alerts # <<>> /\ alerts' = Tail(alerts) /\ UNCHANGED examined

DetectNext == ReceiveAlert \/ \E e \in Incoming : Process(e)

DetectSpec == DetectInit /\ [][DetectNext]_detectVars

-----------------------------------------------------------------------------
DetectTypeOK == /\ Len(alerts) <= AlertCapacity
                /\ \A i \in DOMAIN examined : examined[i].score \in 0 .. One
                /\ \A i \in DOMAIN alerts : alerts[i] \in Threshold .. One

(* More evidence never calms the agent: an event that shows whatever another one shows  *)
(* has at least its score, and an alert if that one has, however both are spelled, for  *)
(* all that the verdicts, and the one for there being several, are multiplied up.       *)
VerdictMonotone ==
  \A i, j \in DOMAIN examined : Normalize(examined[i].event) \subseteq Normalize(examined[j].event) =>
    /\ examined[i].score <= examined[j].score
    /\ examined[i].triggered => examined[j].triggered
=============================================================================
