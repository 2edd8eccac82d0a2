-------------------------- MODULE Decisions_proofs --------------------------
(* How the agent makes up its mind: the policy engine, for any policies and any order *)
(* of loading them, and the detection pipeline, for any stages and events.            *)
EXTENDS Policy, Detection, LeastElement, FiniteSetTheorems, SequenceTheorems

PolicyInv == PolicyTypeOK /\ \A id \in DOMAIN policies : policies[id].parent \in PolicyIds \cup {NoPolicy}

LEMMA PolicyInitOK == PolicyInit => PolicyInv
BY DEF PolicyInit, PolicyInv, PolicyTypeOK

LEMMA PolicyStep == PolicyInv /\ [PolicyNext]_policyVars => PolicyInv'
<1> SUFFICES ASSUME PolicyInv, [PolicyNext]_policyVars PROVE PolicyInv'
  OBVIOUS
<1>1. ASSUME NEW p \in Offered, LoadPolicy(p) PROVE PolicyInv'
  <2>1. p.id \in PolicyIds /\ p.parent \in PolicyIds \cup {NoPolicy}
    BY <1>1, PolicyAssumption DEF LoadPolicy, ValidatePolicy
  <2>2. /\ DOMAIN policies' = DOMAIN policies \cup {p.id} /\ activePolicy' = activePolicy
        /\ \A i \in DOMAIN policies' : policies'[i] = IF i = p.id THEN p ELSE policies[i]
    BY <1>1 DEF LoadPolicy
  <2>3. QED BY <2>1, <2>2 DEF PolicyInv, PolicyTypeOK
<1>2. ASSUME NEW id \in PolicyIds, SetActivePolicy(id) PROVE PolicyInv'
  BY <1>2 DEF SetActivePolicy, PolicyInv, PolicyTypeOK
<1>3. CASE UNCHANGED policyVars
  BY <1>3 DEF policyVars, PolicyInv, PolicyTypeOK
<1>4. QED BY <1>1, <1>2, <1>3 DEF PolicyNext

-----------------------------------------------------------------------------
(* The answers by the number of policies that may still be asked. *)
Row(path, n, parents) ==
  [id \in PolicyIds \cup {NoPolicy} |-> IF n = 0 THEN "endless" ELSE Evaluated(id, path, parents)]

LEMMA NoParents == ASSUME NEW path, NEW x, NEW y PROVE Row(path, 0, x) = Row(path, 0, y)
BY DEF Row

LEMMA AnswersExist ==
  ASSUME NEW path, NEW N \in Nat
  PROVE  \E f : f = [n \in 0 .. N |-> Row(path, n, f[n - 1])]
<1> DEFINE R(n, x) == Row(path, n, x)
           Fits(f, m) == f = [n \in 0 .. m |-> R(n, f[n - 1])]
           T == {m \in 0 .. N : ~ \E f : Fits(f, m)}
<1>0. \A x, y : R(0, x) = R(0, y)
  BY NoParents
<1> HIDE DEF R
<1>1. T = {}
  <2>1. SUFFICES ASSUME T # {} PROVE FALSE
    OBVIOUS
  <2>2. PICK m \in T : \A u \in T : m <= u
    <3>1. T \in SUBSET Nat
      OBVIOUS
    <3>2. QED BY <2>1, <3>1, LeastNat
  <2>3. m \in 0 .. N /\ ~ \E f : Fits(f, m)
    OBVIOUS
  <2>4. CASE m = 0
    <3> DEFINE g == [n \in 0 .. 0 |-> R(0, 0)]
    <3>1. ASSUME NEW n \in 0 .. 0 PROVE g[n] = R(n, g[n - 1])
      <4>1. n = 0 /\ R(0, 0) = R(0, g[n - 1])
        BY <1>0
      <4>2. QED BY <4>1
    <3>2. g = [n \in 0 .. 0 |-> g[n]]
      OBVIOUS
    <3> HIDE DEF g
    <3>3. Fits(g, m)
      BY <2>4, <3>1, <3>2
    <3>4. QED BY <2>3, <3>3
  <2>5. CASE m # 0
    <3>1. m - 1 \in 0 .. N /\ ~ (m <= m - 1)
      BY <2>3, <2>5
    <3>2. m - 1 \notin T
      BY <2>2, <3>1
    <3>3. PICK f : Fits(f, m - 1)
      BY <3>1, <3>2
    <3>4. \A n \in 0 .. m - 1 : f[n] = R(n, f[n - 1])
      BY <2>3, <2>5, <3>3
    <3> DEFINE g == [n \in 0 .. m |-> IF n = m THEN R(m, f[m - 1]) ELSE f[n]]
    <3>5. ASSUME NEW n \in 0 .. m PROVE g[n] = R(n, g[n - 1])
      <4>1. g[n] = R(n, f[n - 1])
        <5>1. n = m \/ n \in 0 .. m - 1
          BY <2>3
        <5>2. QED BY <3>4, <5>1
      <4>2. CASE n = 0
        BY <1>0, <4>1, <4>2
      <4>3. CASE n # 0
        <5>1. n - 1 \in 0 .. m /\ n - 1 # m
          BY <2>3, <4>3
        <5>2. g[n - 1] = f[n - 1]
          BY <5>1
        <5>3. QED BY <4>1, <5>2
      <4>4. QED BY <4>2, <4>3
    <3>6. g = [n \in 0 .. m |-> g[n]]
      OBVIOUS
    <3> HIDE DEF g
    <3>7. Fits(g, m)
      BY <3>5, <3>6
    <3>8. QED BY <2>3, <3>7
  <2>6. QED BY <2>4, <2>5
<1>2. N \in 0 .. N
  OBVIOUS
<1>3. \E f : Fits(f, N)
  BY <1>1, <1>2
<1>4. QED BY <1>3, Zenon DEF R

LEMMA AnswersUnfold ==
  ASSUME NEW path, NEW id \in PolicyIds \cup {NoPolicy}
  PROVE  /\ evaluateChain(path)[0][id] = "endless"
         /\ \A n \in 1 .. Cardinality(PolicyIds) + 1 :
              evaluateChain(path)[n][id] = Evaluated(id, path, evaluateChain(path)[n - 1])
<1> DEFINE N == Cardinality(PolicyIds) + 1
           W == evaluateChain(path)
<1>1. N \in Nat
  BY PolicyAssumption, FS_CardinalityType
<1>2. \E f : f = [n \in 0 .. N |-> Row(path, n, f[n - 1])]
  BY <1>1, AnswersExist
<1>3. \E f : f = [n \in 0 .. Cardinality(PolicyIds) + 1 |->
                    [i \in PolicyIds \cup {NoPolicy} |->
                       IF n = 0 THEN "endless" ELSE Evaluated(i, path, f[n - 1])]]
  BY <1>2, Zenon DEF Row, N
<1>4. W = [n \in 0 .. Cardinality(PolicyIds) + 1 |->
             [i \in PolicyIds \cup {NoPolicy} |->
                IF n = 0 THEN "endless" ELSE Evaluated(i, path, W[n - 1])]]
  BY <1>3, Zenon DEF evaluateChain
<1> HIDE DEF W, N
<1>5. ASSUME NEW n \in 0 .. Cardinality(PolicyIds) + 1
      PROVE  W[n][id] = IF n = 0 THEN "endless" ELSE Evaluated(id, path, W[n - 1])
  <2>1. W[n] = [i \in PolicyIds \cup {NoPolicy} |->
                  IF n = 0 THEN "endless" ELSE Evaluated(i, path, W[n - 1])]
    BY <1>4, Zenon
  <2>2. QED BY <2>1, Zenon
<1>6. N = Cardinality(PolicyIds) + 1 /\ 0 \in 0 .. N /\ \A n \in 1 .. N : n \in 0 .. N /\ n # 0
  BY <1>1 DEF N
<1>7. QED BY <1>5, <1>6 DEF W

-----------------------------------------------------------------------------
(* Who is asked: the least set that holds a loaded policy and the parent of each that passes on. *)
LEMMA AskedClosed ==
  ASSUME NEW path, NEW id
  PROVE  /\ AskedFrom(id, path) \subseteq DOMAIN policies
         /\ ClosedFrom(id, path, AskedFrom(id, path))
         /\ \A S \in SUBSET DOMAIN policies : ClosedFrom(id, path, S) => AskedFrom(id, path) \subseteq S
BY DEF AskedFrom, ClosedFrom, PassedOn

LEMMA AskedNobody ==
  ASSUME NEW path, NEW id, id \notin DOMAIN policies
  PROVE  AskedFrom(id, path) = {}
<1>1. {} \in SUBSET DOMAIN policies /\ ClosedFrom(id, path, {})
  BY DEF ClosedFrom
<1>2. AskedFrom(id, path) \subseteq {}
  BY <1>1, AskedClosed
<1>3. QED BY <1>2

LEMMA AskedAlone ==
  ASSUME NEW path, NEW id \in DOMAIN policies, ~ PassedOn(id, path)
  PROVE  AskedFrom(id, path) = {id}
<1>1. ClosedFrom(id, path, {id})
  BY DEF ClosedFrom
<1>2. AskedFrom(id, path) \subseteq {id}
  BY <1>1, AskedClosed
<1>3. ClosedFrom(id, path, AskedFrom(id, path))
  BY AskedClosed
<1>4. id \in AskedFrom(id, path)
  BY <1>3 DEF ClosedFrom
<1>5. QED BY <1>2, <1>4

LEMMA AskedOn ==
  ASSUME NEW path, NEW id \in DOMAIN policies, PassedOn(id, path)
  PROVE  AskedFrom(id, path) = {id} \cup AskedFrom(policies[id].parent, path)
<1> DEFINE q == policies[id].parent
           X == AskedFrom(id, path)
           Y == AskedFrom(q, path)
<1>1. q \in DOMAIN policies
  BY DEF PassedOn
<1>2. /\ X \subseteq DOMAIN policies /\ ClosedFrom(id, path, X)
      /\ \A S \in SUBSET DOMAIN policies : ClosedFrom(id, path, S) => X \subseteq S
  BY AskedClosed
<1>3. /\ Y \subseteq DOMAIN policies /\ ClosedFrom(q, path, Y)
      /\ \A S \in SUBSET DOMAIN policies : ClosedFrom(q, path, S) => Y \subseteq S
  BY AskedClosed
<1> HIDE DEF X, Y
<1>4. id \in X /\ q \in X
  BY <1>2 DEF ClosedFrom
<1>5. Y \subseteq X
  <2>1. ClosedFrom(q, path, X)
    BY <1>2, <1>4 DEF ClosedFrom
  <2>2. QED BY <1>2, <1>3, <2>1
<1>6. X \subseteq {id} \cup Y
  <2>1. ClosedFrom(id, path, {id} \cup Y)
    BY <1>1, <1>3 DEF ClosedFrom
  <2>2. QED BY <1>2, <1>3, <2>1
<1>7. X = {id} \cup Y
  BY <1>4, <1>5, <1>6
<1>8. QED BY <1>7 DEF X, Y

(* A question that comes to an end never comes back to a policy that passed it on. *)
LEMMA AskedOnce ==
  ASSUME NEW path, NEW id \in DOMAIN policies, PassedOn(id, path),
         NEW t \in AskedFrom(id, path), ~ PassedOn(t, path)
  PROVE  id \notin AskedFrom(policies[id].parent, path)
<1> SUFFICES ASSUME id \in AskedFrom(policies[id].parent, path) PROVE FALSE
  OBVIOUS
<1> DEFINE X == AskedFrom(id, path)
           C == {m \in X : id \in AskedFrom(m, path)}
<1>1. /\ X \subseteq DOMAIN policies /\ ClosedFrom(id, path, X)
      /\ \A S \in SUBSET DOMAIN policies : ClosedFrom(id, path, S) => X \subseteq S
  BY AskedClosed
<1>2. id \in X /\ t \in X
  BY <1>1 DEF ClosedFrom
<1>3. ASSUME NEW m \in C, PassedOn(m, path) PROVE policies[m].parent \in C
  <2>1. m \in X /\ m \in DOMAIN policies /\ id \in AskedFrom(m, path)
    BY <1>1
  <2>2. policies[m].parent \in X
    BY <1>1, <1>3, <2>1 DEF ClosedFrom
  <2>3. id \in AskedFrom(policies[m].parent, path)
    BY <1>3, <2>1, AskedOn
  <2>4. QED BY <2>2, <2>3
<1>4. ClosedFrom(id, path, C)
  BY <1>2, <1>3 DEF ClosedFrom
<1>5. t \in C
  BY <1>1, <1>2, <1>4
<1>6. t \in DOMAIN policies /\ id \in AskedFrom(t, path)
  BY <1>1, <1>2, <1>5
<1>7. id = t
  BY <1>6, AskedAlone
<1>8. QED BY <1>7

-----------------------------------------------------------------------------
(* Where everybody asked passes the question on, nobody ever answers it. *)
LEMMA NeverAnswered ==
  ASSUME PolicyInv, NEW path
  PROVE  \A n \in 0 .. Cardinality(PolicyIds) + 1 : \A id \in DOMAIN policies :
           (\A m \in AskedFrom(id, path) : PassedOn(m, path)) => evaluateChain(path)[n][id] = "endless"
<1> DEFINE N == Cardinality(PolicyIds) + 1
           W == evaluateChain(path)
           OnAndOn(id) == \A m \in AskedFrom(id, path) : PassedOn(m, path)
           T == {n \in 0 .. N : \E id \in DOMAIN policies : OnAndOn(id) /\ W[n][id] # "endless"}
<1>1. N \in Nat
  BY PolicyAssumption, FS_CardinalityType
<1>2. ASSUME NEW id \in DOMAIN policies
      PROVE  /\ id \in PolicyIds /\ W[0][id] = "endless"
             /\ \A n \in 1 .. N : W[n][id] = Evaluated(id, path, W[n - 1])
  <2>1. id \in PolicyIds
    BY DEF PolicyInv, PolicyTypeOK
  <2>2. QED BY <2>1, AnswersUnfold
<1> HIDE DEF N, W
<1>3. SUFFICES ASSUME T # {} PROVE FALSE
  BY DEF N, W
<1>4. PICK n \in T : \A u \in T : n <= u
  <2>1. T \in SUBSET Nat
    BY <1>1
  <2>2. QED BY <1>3, <2>1, LeastNat
<1>5. PICK id \in DOMAIN policies : OnAndOn(id) /\ W[n][id] # "endless"
  OBVIOUS
<1>6. n \in 1 .. N /\ n - 1 \in 0 .. N /\ ~ (n <= n - 1)
  BY <1>1, <1>2, <1>5
<1> DEFINE q == policies[id].parent
<1>7. PassedOn(id, path) /\ q \in DOMAIN policies
  <2>1. id \in AskedFrom(id, path)
    BY AskedClosed DEF ClosedFrom
  <2>2. QED BY <1>5, <2>1 DEF PassedOn
<1>8. OnAndOn(q)
  BY <1>5, <1>7, AskedOn
<1>9. W[n][id] = W[n - 1][q]
  <2>1. W[n][id] = Evaluated(id, path, W[n - 1])
    BY <1>2, <1>6
  <2>2. q # NoPolicy
    BY <1>2, <1>7, PolicyAssumption
  <2>3. QED BY <1>7, <2>1, <2>2 DEF Evaluated, Decides, PassedOn
<1>10. n - 1 \in T
  BY <1>5, <1>6, <1>7, <1>8, <1>9
<1>11. QED BY <1>4, <1>6, <1>10

Verdict(t, path) == IF Decides(t, path) THEN RuleOf(t, path) ELSE "Monitor"

(* Where somebody asked does not pass the question on, that one's answer comes back, *)
(* after one call more than policies are asked.                                      *)
LEMMA AnsweredInTime ==
  ASSUME PolicyInv, NEW path
  PROVE  \A n \in 0 .. Cardinality(PolicyIds) + 1 : \A id \in DOMAIN policies :
           \A t \in AskedFrom(id, path) :
             (~ PassedOn(t, path) /\ n > Cardinality(AskedFrom(id, path)))
               => evaluateChain(path)[n][id] = Verdict(t, path)
<1> DEFINE N == Cardinality(PolicyIds) + 1
           W == evaluateChain(path)
           K(id) == Cardinality(AskedFrom(id, path))
           Wrong(n, id, t) == ~ PassedOn(t, path) /\ n > K(id) /\ W[n][id] # Verdict(t, path)
           T == {n \in 0 .. N : \E id \in DOMAIN policies : \E t \in AskedFrom(id, path) : Wrong(n, id, t)}
<1>1. N \in Nat
  BY PolicyAssumption, FS_CardinalityType
<1>2. ASSUME NEW id \in PolicyIds \cup {NoPolicy}, NEW n \in 1 .. N
      PROVE  W[n][id] = Evaluated(id, path, W[n - 1])
  BY AnswersUnfold
<1>3. DOMAIN policies \subseteq PolicyIds
      /\ \A id \in DOMAIN policies : policies[id].parent \in PolicyIds \cup {NoPolicy}
  BY DEF PolicyInv, PolicyTypeOK
<1>4. \A id : IsFiniteSet(AskedFrom(id, path)) /\ K(id) \in Nat
  <2>1. \A id : AskedFrom(id, path) \subseteq PolicyIds
    BY <1>3, AskedClosed
  <2>2. QED BY <2>1, PolicyAssumption, FS_Subset, FS_CardinalityType
<1> HIDE DEF N, W
<1>5. SUFFICES ASSUME T # {} PROVE FALSE
  BY DEF N, W
<1>6. PICK n \in T : \A u \in T : n <= u
  <2>1. T \in SUBSET Nat
    BY <1>1
  <2>2. QED BY <1>5, <2>1, LeastNat
<1>7a. PICK id \in DOMAIN policies : \E t \in AskedFrom(id, path) : Wrong(n, id, t)
  OBVIOUS
<1>7. PICK t \in AskedFrom(id, path) : Wrong(n, id, t)
  BY <1>7a
<1> DEFINE q == policies[id].parent
<1>8. q \in PolicyIds \cup {NoPolicy} /\ id \in PolicyIds
  BY <1>3
<1>9. n \in 1 .. N /\ n - 1 \in 0 .. N /\ ~ (n <= n - 1)
  BY <1>1, <1>4, <1>7
<1>10. W[n][id] = Evaluated(id, path, W[n - 1])
  BY <1>2, <1>8, <1>9
<1>11. CASE ~ PassedOn(id, path)
  <2>1. AskedFrom(id, path) = {id}
    BY <1>11, AskedAlone
  <2>2. t = id /\ K(id) = 1
    BY <2>1, FS_Singleton
  <2>3. n - 1 \in 1 .. N
    BY <1>4, <1>7, <1>9, <2>2
  <2>4. W[n - 1][q] = Evaluated(q, path, W[n - 2])
    <3>1. n - 1 - 1 = n - 2
      BY <2>3
    <3>2. QED BY <1>2, <1>8, <2>3, <3>1
  <2>5. CASE Decides(id, path)
    BY <1>7, <1>10, <2>2, <2>5 DEF Evaluated, Verdict
  <2>6. CASE ~ Decides(id, path)
    <3>1. q \notin DOMAIN policies
      BY <1>11, <2>6 DEF PassedOn, Decides
    <3>2. W[n - 1][q] = "Monitor"
      BY <2>4, <3>1 DEF Evaluated
    <3>3. W[n][id] = "Monitor"
      BY <1>10, <2>6, <3>2 DEF Evaluated
    <3>4. QED BY <1>7, <2>2, <2>6, <3>3 DEF Verdict
  <2>7. QED BY <2>5, <2>6
<1>12. CASE PassedOn(id, path)
  <2>1. q \in DOMAIN policies /\ q # NoPolicy
    BY <1>3, <1>12, PolicyAssumption DEF PassedOn
  <2>2. AskedFrom(id, path) = {id} \cup AskedFrom(q, path)
    BY <1>12, AskedOn
  <2>3. id \notin AskedFrom(q, path)
    BY <1>7, <1>12, AskedOnce
  <2>4. t \in AskedFrom(q, path)
    BY <1>7, <1>12, <2>2
  <2>5. K(id) = K(q) + 1
    <3>1. IsFiniteSet(AskedFrom(q, path))
      BY <1>4
    <3>2. Cardinality(AskedFrom(q, path) \cup {id}) = Cardinality(AskedFrom(q, path)) + 1
      BY <2>3, <3>1, FS_AddElement
    <3>3. AskedFrom(id, path) = AskedFrom(q, path) \cup {id}
      BY <2>2
    <3>4. QED BY <3>2, <3>3
  <2>6. n - 1 > K(q)
    BY <1>4, <1>7, <1>9, <2>5
  <2>7. W[n][id] = W[n - 1][q]
    BY <1>10, <1>12, <2>1 DEF Evaluated, Decides, PassedOn
  <2>8. Wrong(n - 1, q, t)
    BY <1>7, <2>6, <2>7
  <2>9. n - 1 \in T
    BY <1>9, <2>1, <2>4, <2>8
  <2>10. QED BY <1>6, <1>9, <2>9
<1>13. QED BY <1>11, <1>12

LEMMA ClosestRuleHolds == PolicyInv => ClosestRule
<1> SUFFICES ASSUME PolicyInv, NEW path \in ProcPaths
             PROVE  LET deciding == {id \in Asked(path) : MatchingRules(id, path) # <<>>}
                        answer   == EvaluateRule(path)
                    IN /\ \A id \in deciding : answer = MatchingRules(id, path)[1].action
                       /\ deciding = {} =>
                            answer = IF \A id \in Asked(path) : policies[id].parent \in DOMAIN policies
                                     THEN IF Asked(path) = {} THEN "Monitor" ELSE "endless"
                                     ELSE "Monitor"
  BY DEF ClosestRule
<1> DEFINE N == Cardinality(PolicyIds) + 1
           W == evaluateChain(path)
           a == activePolicy
           A == Asked(path)
<1>1. N \in 0 .. N /\ N \in 1 .. N /\ Cardinality(PolicyIds) \in Nat
  BY PolicyAssumption, FS_CardinalityType
<1>2. a \in DOMAIN policies \cup {NoPolicy} /\ DOMAIN policies \subseteq PolicyIds
  BY DEF PolicyInv, PolicyTypeOK
<1>3. A = AskedFrom(a, path) /\ EvaluateRule(path) = W[N][a]
  BY DEF Asked, EvaluateRule
<1>4. A \subseteq DOMAIN policies /\ (A # {} => a \in DOMAIN policies)
  BY <1>3, AskedClosed, AskedNobody
<1>5. N > Cardinality(A)
  <2>1. A \subseteq PolicyIds
    BY <1>2, <1>4
  <2>2. Cardinality(A) <= Cardinality(PolicyIds) /\ Cardinality(A) \in Nat
    BY <2>1, PolicyAssumption, FS_Subset, FS_CardinalityType
  <2>3. QED BY <1>1, <2>2
<1>6. ASSUME NEW t \in A, ~ PassedOn(t, path) PROVE EvaluateRule(path) = Verdict(t, path)
  <2>1. a \in DOMAIN policies
    BY <1>4, <1>6
  <2>2. QED BY <1>1, <1>3, <1>5, <1>6, <2>1, AnsweredInTime
<1>7. ASSUME NEW id \in A, MatchingRules(id, path) # <<>>
      PROVE  EvaluateRule(path) = MatchingRules(id, path)[1].action
  BY <1>6, <1>7 DEF PassedOn, Verdict, Decides, RuleOf
<1>8. ASSUME \A id \in A : MatchingRules(id, path) = <<>>, A # {},
             \A id \in A : policies[id].parent \in DOMAIN policies
      PROVE  EvaluateRule(path) = "endless"
  <2>1. \A m \in A : PassedOn(m, path)
    BY <1>8 DEF PassedOn
  <2>2. a \in DOMAIN policies
    BY <1>4, <1>8
  <2>3. QED BY <1>1, <1>3, <2>1, <2>2, NeverAnswered
<1>9. ASSUME A = {} PROVE EvaluateRule(path) = "Monitor"
  <2>0. ClosedFrom(a, path, AskedFrom(a, path))
    BY AskedClosed
  <2>1. a \notin DOMAIN policies
    BY <1>3, <1>9, <2>0 DEF ClosedFrom
  <2>2. a \in PolicyIds \cup {NoPolicy}
    BY <1>2
  <2>3. W[N][a] = Evaluated(a, path, W[N - 1])
    BY <1>1, <2>2, AnswersUnfold
  <2>4. QED BY <1>3, <2>1, <2>3 DEF Evaluated
<1>10. ASSUME NEW t \in A, MatchingRules(t, path) = <<>>, policies[t].parent \notin DOMAIN policies
       PROVE  EvaluateRule(path) = "Monitor"
  BY <1>6, <1>10 DEF PassedOn, Verdict, Decides
<1> HIDE DEF A
<1>11. A = Asked(path)
  BY DEF A
<1>12. QED BY <1>7, <1>8, <1>9, <1>10, <1>11

(* Evaluation, whatever was loaded, replaced and made active before. *)
THEOREM ClosestRuleAlways == PolicySpec => []ClosestRule
<1>1. PolicySpec => []PolicyInv
  BY PolicyInitOK, PolicyStep, PTL DEF PolicySpec
<1>2. QED BY <1>1, ClosestRuleHolds, PTL

-----------------------------------------------------------------------------
Engines == DOMAIN Severity

LEMMA EngineNames ==
  Engines = {"BehaviorAnalysis", "Heuristic", "IOCMatching", "YARA", "Sigma", "ThreatIntelligence", "Correlation"}
BY DEF Engines, Severity

LEMMA RiskTyped == \A e \in Engines : Risk(e) \in 0 .. 10
BY EngineNames DEF Risk, Clamp, Severity, Weight

LEMMA OneNat == One \in Nat
BY SMT DEF One

Reduced(left, r) == (left \div 10) * (10 - r)

LEMMA ReducedLess ==
  ASSUME NEW r \in 0 .. 10, NEW x \in 0 .. One, NEW y \in 0 .. One, x <= y
  PROVE  Reduced(x, r) \in 0 .. x /\ Reduced(x, r) <= Reduced(y, r)
<1> DEFINE a == x \div 10
           b == y \div 10
           k == 10 - r
<1>1. a \in Nat /\ b \in Nat /\ a <= b /\ 10 * a <= x /\ k \in 0 .. 10
  BY OneNat
<1> HIDE DEF a, b, k
<1>2. a * k \in 0 .. 10 * a /\ a * k <= b * k
  <2>1. k \in {0, 1, 2, 3, 4, 5, 6, 7, 8, 9, 10}
    BY <1>1
  <2>2. QED BY <1>1, <2>1
<1>3. a * k \in 0 .. x
  BY <1>1, <1>2
<1>4. QED BY <1>2, <1>3 DEF Reduced, a, b, k

LEMMA SparedSteps ==
  ASSUME NEW s \in Seq(Engines)
  PROVE  \E f \in [0 .. Len(s) -> 0 .. One] :
           /\ f[0] = One /\ \A n \in 1 .. Len(s) : f[n] = Reduced(f[n - 1], Risk(s[n]))
           /\ Spared(s) = f[Len(s)]
<1> DEFINE N == Len(s)
           step == [n \in 1 .. N |-> [x \in 0 .. One |-> Reduced(x, Risk(s[n]))]]
<1>1. N \in Nat /\ One \in 0 .. One /\ 0 \in 0 .. N /\ N \in 0 .. N
  BY OneNat
<1>2. ASSUME NEW n \in 1 .. N, NEW x \in 0 .. One PROVE Reduced(x, Risk(s[n])) \in 0 .. One
  <2>1. Risk(s[n]) \in 0 .. 10
    BY RiskTyped
  <2>2. x <= x
    BY <1>1
  <2>4. Reduced(x, Risk(s[n])) \in 0 .. x
    BY <2>1, <2>2, ReducedLess
  <2>3. QED BY <1>1, <2>4
<1>3. Steps(step, N, 0 .. One)
  BY <1>2 DEF Steps
<1>4. \A n \in 1 .. N : \A x \in 0 .. One : step[n][x] = Reduced(x, Risk(s[n]))
  OBVIOUS
<1> HIDE DEF step
<1>5a. PICK f \in [0 .. N -> 0 .. One] : Computes(f, One, step, N)
  BY <1>1, <1>3, StepsExist
<1>5. f[0] = One /\ \A n \in 1 .. N : f[n] = step[n][f[n - 1]]
  BY <1>5a DEF Computes
<1>6. \A n \in 1 .. N : f[n] = Reduced(f[n - 1], Risk(s[n]))
  <2>1. \A n \in 1 .. N : n - 1 \in 0 .. N
    BY <1>1
  <2>2. \A n \in 1 .. N : f[n - 1] \in 0 .. One
    BY <1>5, <2>1
  <2>3. QED BY <1>4, <1>5, <2>2
<1>7. f = [n \in 0 .. N |-> IF n = 0 THEN One ELSE Reduced(f[n - 1], Risk(s[n]))]
  <2>1. \A n \in 0 .. N : n # 0 => n \in 1 .. N
    BY <1>1
  <2>2. \A n \in 0 .. N : f[n] = IF n = 0 THEN One ELSE Reduced(f[n - 1], Risk(s[n]))
    BY <1>5, <1>6, <2>1
  <2>3. QED BY <1>5, <2>2
<1> DEFINE G == CHOOSE g : g = [n \in 0 .. Len(s) |->
                                  IF n = 0 THEN One ELSE (g[n - 1] \div 10) * (10 - Risk(s[n]))]
<1>8. f = [n \in 0 .. Len(s) |-> IF n = 0 THEN One ELSE (f[n - 1] \div 10) * (10 - Risk(s[n]))]
  BY <1>7, Zenon DEF Reduced
<1>9. G = [n \in 0 .. Len(s) |-> IF n = 0 THEN One ELSE (G[n - 1] \div 10) * (10 - Risk(s[n]))]
  BY <1>8, Zenon
<1>10. Spared(s) = G[N]
  BY Zenon DEF Spared
<1> HIDE DEF G
<1>11. G[0] = One /\ \A n \in 1 .. N : G[n] = Reduced(G[n - 1], Risk(s[n]))
  <2>1. \A n \in 0 .. N : G[n] = IF n = 0 THEN One ELSE Reduced(G[n - 1], Risk(s[n]))
    BY <1>9, Zenon DEF Reduced
  <2>2. \A n \in 1 .. N : n \in 0 .. N /\ n # 0
    BY <1>1
  <2>3. QED BY <1>1, <2>1, <2>2
<1>12. \A n \in 0 .. N : f[n] = G[n]
  <2>1. \A n \in 1 .. N : f[n - 1] = G[n - 1] => f[n] = G[n]
    BY <1>6, <1>11
  <2>2. f[0] = G[0]
    BY <1>5, <1>11
  <2>3. Agree(f, G, N)
    BY <1>1, <2>1, <2>2, SameSteps DEF InStep
  <2>4. QED BY <2>3 DEF Agree
<1>13. QED BY <1>1, <1>5, <1>6, <1>10, <1>12

LEMMA SparedTyped == ASSUME NEW s \in Seq(Engines) PROVE Spared(s) \in 0 .. One
<1>1. PICK f \in [0 .. Len(s) -> 0 .. One] : Spared(s) = f[Len(s)]
  BY SparedSteps
<1>2. Len(s) \in 0 .. Len(s)
  OBVIOUS
<1>3. QED BY <1>1, <1>2

LEMMA SparedAppend ==
  ASSUME NEW s \in Seq(Engines), NEW e \in Engines
  PROVE  Spared(s) \in 0 .. One /\ Spared(Append(s, e)) = Reduced(Spared(s), Risk(e))
<1> DEFINE N == Len(s)
           t == Append(s, e)
<1>1. /\ N \in Nat /\ t \in Seq(Engines) /\ Len(t) = N + 1 /\ t[N + 1] = e
      /\ \A n \in 1 .. N : t[n] = s[n]
  OBVIOUS
<1>2. PICK f \in [0 .. N -> 0 .. One] :
        /\ f[0] = One /\ \A n \in 1 .. N : f[n] = Reduced(f[n - 1], Risk(s[n]))
        /\ Spared(s) = f[N]
  BY SparedSteps
<1> HIDE DEF t
<1>3. PICK g \in [0 .. N + 1 -> 0 .. One] :
        /\ g[0] = One /\ \A n \in 1 .. N + 1 : g[n] = Reduced(g[n - 1], Risk(t[n]))
        /\ Spared(t) = g[N + 1]
  BY <1>1, SparedSteps
<1>4. \A n \in 1 .. N : g[n] = Reduced(g[n - 1], Risk(s[n]))
  <2>1. \A n \in 1 .. N : n \in 1 .. N + 1
    BY <1>1
  <2>2. QED BY <1>1, <1>3, <2>1
<1>5. \A n \in 0 .. N : f[n] = g[n]
  <2>1. \A n \in 1 .. N : f[n - 1] = g[n - 1] => f[n] = g[n]
    BY <1>2, <1>4
  <2>2. f[0] = g[0]
    BY <1>2, <1>3
  <2>3. Agree(f, g, N)
    BY <1>1, <2>1, <2>2, SameSteps DEF InStep
  <2>4. QED BY <2>3 DEF Agree
<1>6. N \in 0 .. N /\ N + 1 \in 1 .. N + 1 /\ (N + 1) - 1 = N
  BY <1>1
<1>7. Spared(t) = Reduced(f[N], Risk(e))
  BY <1>1, <1>3, <1>5, <1>6
<1>8. QED BY <1>2, <1>6, <1>7 DEF t

LEMMA SparedNothing == Spared(<<>>) = One
<1>1. <<>> \in Seq(Engines) /\ Len(<<>>) = 0
  OBVIOUS
<1>2. PICK f : f[0] = One /\ Spared(<<>>) = f[Len(<<>>)]
  BY <1>1, SparedSteps
<1>3. QED BY <1>1, <1>2

-----------------------------------------------------------------------------
StageNames == Engines \cup {"Normalizer", "RiskScoring", "Alert"}

LEMMA WantsNames ==
  DOMAIN Wants = {"BehaviorAnalysis", "Heuristic", "IOCMatching", "YARA", "Sigma", "ThreatIntelligence"}
BY DEF Wants

Signs == (UNION Incoming) \cup {"listed path", "listed hash"}

Context == [event : SUBSET Signs, results : Seq(Engines), score : 0 .. One,
            triggered : BOOLEAN, raised : BOOLEAN]

(* A score never exceeds what the verdicts come to, and an alert has the score that calls for it. *)
Fine(x) == /\ x \in Context
           /\ x.score <= One - Spared(x.results)
           /\ x.triggered => x.score >= Threshold
           /\ x.raised => x.triggered
           /\ x.results = <<>> => x.score = 0 /\ ~ x.triggered

(* y has seen whatever x has, and more may have come of it. *)
Exceeds(y, x) == /\ x.event \subseteq y.event
                 /\ Len(x.results) <= Len(y.results)
                 /\ Spared(y.results) <= Spared(x.results)
                 /\ x.score <= y.score
                 /\ x.triggered => y.triggered

LEMMA NormalizeTyped == ASSUME NEW X \in SUBSET Signs PROVE Normalize(X) \in SUBSET Signs
<1>1. ASSUME NEW s \in X
      PROVE  (CASE s = "listed path, blanks" -> "listed path"
                [] s = "listed hash, capitals" -> "listed hash"
                [] OTHER -> s) \in Signs
  <2>1. s \in Signs
    OBVIOUS
  <2>2. "listed path" \in Signs /\ "listed hash" \in Signs
    BY Zenon DEF Signs
  <2>3. QED BY <2>1, <2>2, Zenon
<1>2. QED BY <1>1, Zenon DEF Normalize

LEMMA NormalizeMore == ASSUME NEW X, NEW Y, X \subseteq Y PROVE Normalize(X) \subseteq Normalize(Y)
BY Zenon DEF Normalize

LEMMA OnNormalizer ==
  ASSUME NEW x, Fine(x), NEW z, z = StageProcess(x, "Normalizer")
  PROVE  /\ Fine(z) /\ z.event = Normalize(x.event) /\ z.results = x.results
         /\ z.score = x.score /\ z.triggered = x.triggered
<1>1. z = [x EXCEPT !.event = Normalize(x.event)]
  <2>1. /\ "Normalizer" \notin DOMAIN Wants /\ "Normalizer" # "Correlation"
        /\ "Normalizer" # "RiskScoring" /\ "Normalizer" # "Alert"
    BY WantsNames
  <2>2. QED BY <2>1, Zenon DEF StageProcess
<1>2. x \in Context /\ Normalize(x.event) \in SUBSET Signs
  BY NormalizeTyped DEF Fine, Context
<1>3. /\ z \in Context /\ z.event = Normalize(x.event) /\ z.results = x.results
      /\ z.score = x.score /\ z.triggered = x.triggered /\ z.raised = x.raised
  BY <1>1, <1>2 DEF Context
<1>4. QED BY <1>3 DEF Fine

LEMMA Added ==
  ASSUME NEW x, Fine(x), NEW e \in Engines, NEW z, z = AddResult(x, e)
  PROVE  /\ Fine(z) /\ z.event = x.event /\ z.results = Append(x.results, e)
         /\ z.score = x.score /\ z.triggered = x.triggered
<1>1. x \in Context /\ x.results \in Seq(Engines) /\ x.score \in 0 .. One
  BY DEF Fine, Context
<1>2. Append(x.results, e) \in Seq(Engines) /\ Append(x.results, e) # <<>>
  BY <1>1
<1>3. /\ z \in Context /\ z.event = x.event /\ z.results = Append(x.results, e)
      /\ z.score = x.score /\ z.triggered = x.triggered /\ z.raised = x.raised
  BY <1>1, <1>2 DEF Context, AddResult
<1>4. Spared(Append(x.results, e)) \in 0 .. Spared(x.results) /\ Spared(x.results) \in 0 .. One
  <2>1. Spared(x.results) \in 0 .. One /\ Spared(Append(x.results, e)) = Reduced(Spared(x.results), Risk(e))
    BY <1>1, SparedAppend
  <2>2. Risk(e) \in 0 .. 10
    BY RiskTyped
  <2>3. Spared(x.results) <= Spared(x.results)
    BY <2>1, OneNat
  <2>4. QED BY <2>1, <2>2, <2>3, ReducedLess
<1>5. z.score <= One - Spared(z.results)
  BY <1>1, <1>3, <1>4, OneNat DEF Fine
<1>6. QED BY <1>2, <1>3, <1>5 DEF Fine

LEMMA OnEngine ==
  ASSUME NEW x, NEW stage \in DOMAIN Wants
  PROVE  StageProcess(x, stage) = IF Wants[stage] \subseteq x.event THEN AddResult(x, stage) ELSE x
BY WantsNames, Zenon DEF StageProcess

LEMMA OnCorrelation ==
  ASSUME NEW x
  PROVE  StageProcess(x, "Correlation") = IF Len(x.results) >= 2 THEN AddResult(x, "Correlation") ELSE x
<1>1. "Correlation" \notin DOMAIN Wants /\ "Correlation" # "Normalizer"
  BY WantsNames
<1>2. QED BY <1>1, Zenon DEF StageProcess

LEMMA OnScoring ==
  ASSUME NEW x, Fine(x), NEW z, z = StageProcess(x, "RiskScoring")
  PROVE  /\ Fine(z) /\ z.event = x.event /\ z.results = x.results
         /\ x.results = <<>> => z = x
         /\ x.results # <<>> => /\ z.score = One - Spared(x.results)
                                /\ z.triggered <=> x.triggered \/ z.score >= Threshold
<1>1. "RiskScoring" \notin DOMAIN Wants /\ "RiskScoring" # "Normalizer" /\ "RiskScoring" # "Correlation"
  BY WantsNames
<1> DEFINE score == CalculateCompoundScore(x.results)
<1>2. z = IF x.results = <<>> THEN x
          ELSE [x EXCEPT !.score = score, !.triggered = x.triggered \/ score >= Threshold]
  BY <1>1, Zenon DEF StageProcess
<1>3. x \in Context /\ x.results \in Seq(Engines) /\ x.score \in 0 .. One
  BY DEF Fine, Context
<1>4. Spared(x.results) \in 0 .. One
  BY <1>3, SparedTyped
<1>5. score = One - Spared(x.results) /\ score \in 0 .. One /\ x.score <= score
  BY <1>3, <1>4, OneNat DEF CalculateCompoundScore, Fine
<1> HIDE DEF score
<1>6. CASE x.results = <<>>
  BY <1>2, <1>6
<1>7. CASE x.results # <<>>
  <2> DEFINE b == x.triggered \/ score >= Threshold
  <2>1. b \in BOOLEAN /\ (b <=> x.triggered \/ score >= Threshold)
    BY Zenon
  <2>2. z = [x EXCEPT !.score = score, !.triggered = b]
    BY <1>2, <1>7
  <2> HIDE DEF b
  <2>3. /\ z \in Context /\ z.event = x.event /\ z.results = x.results
        /\ z.score = score /\ z.triggered = b /\ z.raised = x.raised
    BY <1>3, <1>5, <2>1, <2>2 DEF Context
  <2>4. z.triggered => z.score >= Threshold
    BY <1>3, <1>5, <2>1, <2>3, OneNat, DetectionAssumption DEF Fine
  <2>5. Fine(z)
    BY <1>5, <1>7, <2>1, <2>3, <2>4 DEF Fine
  <2>6. QED BY <1>5, <1>7, <2>1, <2>3, <2>5
<1>8. QED BY <1>6, <1>7

LEMMA OnAlert ==
  ASSUME NEW x, Fine(x), NEW z, z = StageProcess(x, "Alert")
  PROVE  /\ Fine(z) /\ z.event = x.event /\ z.results = x.results
         /\ z.score = x.score /\ z.triggered = x.triggered
<1>1. /\ "Alert" \notin DOMAIN Wants /\ "Alert" # "Normalizer" /\ "Alert" # "Correlation"
      /\ "Alert" # "RiskScoring"
  BY WantsNames
<1>2. z = [x EXCEPT !.raised = x.triggered]
  BY <1>1, Zenon DEF StageProcess
<1>3. x \in Context
  BY DEF Fine
<1>4. /\ z \in Context /\ z.event = x.event /\ z.results = x.results
      /\ z.score = x.score /\ z.triggered = x.triggered /\ z.raised = x.triggered
  BY <1>2, <1>3 DEF Context
<1>5. QED BY <1>4 DEF Fine

(* What any stage makes of a context. *)
LEMMA StageFine ==
  ASSUME NEW x, Fine(x), NEW stage \in StageNames PROVE Fine(StageProcess(x, stage))
<1>1. CASE stage \in DOMAIN Wants
  <2>1. stage \in Engines
    BY <1>1, WantsNames, EngineNames
  <2>2. Fine(AddResult(x, stage))
    BY <2>1, Added
  <2>3. QED BY <1>1, <2>2, OnEngine
<1>2. CASE stage = "Correlation"
  <2>1. stage \in Engines
    BY <1>2, EngineNames
  <2>2. Fine(AddResult(x, stage))
    BY <2>1, Added
  <2>3. QED BY <1>2, <2>2, OnCorrelation
<1>3. CASE stage \in {"Normalizer", "RiskScoring", "Alert"}
  BY <1>3, OnNormalizer, OnScoring, OnAlert
<1>4. QED BY <1>1, <1>2, <1>3, WantsNames, EngineNames DEF StageNames

(* A verdict for both, or for the one that has seen more. *)
LEMMA AddedBoth ==
  ASSUME NEW x, NEW y, Fine(x), Fine(y), Exceeds(y, x), NEW e \in Engines
  PROVE  Exceeds(AddResult(y, e), AddResult(x, e)) /\ Exceeds(AddResult(y, e), x)
<1>1. /\ x.results \in Seq(Engines) /\ y.results \in Seq(Engines)
      /\ x.score \in 0 .. One /\ y.score \in 0 .. One
  BY DEF Fine, Context
<1> DEFINE u == AddResult(x, e)
           v == AddResult(y, e)
<1>2. /\ u.event = x.event /\ u.results = Append(x.results, e)
      /\ u.score = x.score /\ u.triggered = x.triggered
  BY Added
<1>3. /\ v.event = y.event /\ v.results = Append(y.results, e)
      /\ v.score = y.score /\ v.triggered = y.triggered
  BY Added
<1> HIDE DEF u, v
<1>4. Len(u.results) = Len(x.results) + 1 /\ Len(v.results) = Len(y.results) + 1
  BY <1>1, <1>2, <1>3
<1>5. Spared(v.results) <= Spared(u.results) /\ Spared(v.results) <= Spared(x.results)
  <2> DEFINE a == Spared(x.results)
             b == Spared(y.results)
             r == Risk(e)
  <2>1. a \in 0 .. One /\ b \in 0 .. One /\ b <= a
    BY <1>1, SparedTyped DEF Exceeds
  <2>2. Spared(u.results) = Reduced(a, r) /\ Spared(v.results) = Reduced(b, r)
    BY <1>1, <1>2, <1>3, SparedAppend
  <2>3. r \in 0 .. 10
    BY RiskTyped
  <2> HIDE DEF a, b, r
  <2>4. Reduced(b, r) \in 0 .. b /\ Reduced(b, r) <= Reduced(a, r)
    BY <2>1, <2>3, ReducedLess
  <2>5. Spared(v.results) <= a
    BY <2>1, <2>2, <2>4, OneNat
  <2>6. QED BY <2>2, <2>4, <2>5 DEF a
<1>6. Len(x.results) \in Nat /\ Len(y.results) \in Nat
  BY <1>1
<1>7. Exceeds(v, u) /\ Exceeds(v, x)
  BY <1>2, <1>3, <1>4, <1>5, <1>6 DEF Exceeds
<1>8. QED BY <1>7 DEF u, v

LEMMA StageExceeds ==
  ASSUME NEW x, NEW y, Fine(x), Fine(y), Exceeds(y, x), NEW stage \in StageNames
  PROVE  Exceeds(StageProcess(y, stage), StageProcess(x, stage))
<1>0. /\ x.results \in Seq(Engines) /\ y.results \in Seq(Engines)
      /\ Len(x.results) \in Nat /\ Len(y.results) \in Nat /\ Len(x.results) <= Len(y.results)
  BY DEF Fine, Context, Exceeds
<1>1. CASE stage \in DOMAIN Wants
  <2>1. stage \in Engines
    BY <1>1, WantsNames, EngineNames
  <2>2. Wants[stage] \subseteq x.event => Wants[stage] \subseteq y.event
    BY DEF Exceeds
  <2>3. Exceeds(AddResult(y, stage), AddResult(x, stage)) /\ Exceeds(AddResult(y, stage), x)
    BY <2>1, AddedBoth
  <2>4. QED BY <1>1, <2>2, <2>3, OnEngine
<1>2. CASE stage = "Correlation"
  <2>1. stage \in Engines
    BY <1>2, EngineNames
  <2>2. Len(x.results) >= 2 => Len(y.results) >= 2
    BY <1>0
  <2>3. Exceeds(AddResult(y, stage), AddResult(x, stage)) /\ Exceeds(AddResult(y, stage), x)
    BY <2>1, AddedBoth
  <2>4. QED BY <1>2, <2>2, <2>3, OnCorrelation
<1> DEFINE u == StageProcess(x, stage)
           v == StageProcess(y, stage)
<1>3. CASE stage = "Normalizer"
  <2>1. /\ u.event = Normalize(x.event) /\ u.results = x.results
        /\ u.score = x.score /\ u.triggered = x.triggered
    BY <1>3, OnNormalizer
  <2>2. /\ v.event = Normalize(y.event) /\ v.results = y.results
        /\ v.score = y.score /\ v.triggered = y.triggered
    BY <1>3, OnNormalizer
  <2>3. Normalize(x.event) \subseteq Normalize(y.event)
    BY NormalizeMore DEF Exceeds
  <2> HIDE DEF u, v
  <2>4. Exceeds(v, u)
    BY <2>1, <2>2, <2>3 DEF Exceeds
  <2>5. QED BY <2>4 DEF u, v
<1>4. CASE stage = "Alert"
  <2>1. /\ u.event = x.event /\ u.results = x.results
        /\ u.score = x.score /\ u.triggered = x.triggered
    BY <1>4, OnAlert
  <2>2. /\ v.event = y.event /\ v.results = y.results
        /\ v.score = y.score /\ v.triggered = y.triggered
    BY <1>4, OnAlert
  <2> HIDE DEF u, v
  <2>3. Exceeds(v, u)
    BY <2>1, <2>2 DEF Exceeds
  <2>4. QED BY <2>3 DEF u, v
<1>5. CASE stage = "RiskScoring"
  <2>1. /\ Fine(u) /\ u.event = x.event /\ u.results = x.results
        /\ x.results = <<>> => u = x
        /\ x.results # <<>> => /\ u.score = One - Spared(x.results)
                               /\ u.triggered <=> x.triggered \/ u.score >= Threshold
    BY <1>5, OnScoring
  <2>2. /\ Fine(v) /\ v.event = y.event /\ v.results = y.results
        /\ y.results = <<>> => v = y
        /\ y.results # <<>> => /\ v.score = One - Spared(y.results)
                               /\ v.triggered <=> y.triggered \/ v.score >= Threshold
    BY <1>5, OnScoring
  <2> HIDE DEF u, v
  <2>3. u.event \subseteq v.event /\ Len(u.results) <= Len(v.results) /\ Spared(v.results) <= Spared(u.results)
    BY <2>1, <2>2 DEF Exceeds
  <2>4. /\ Spared(x.results) \in 0 .. One /\ Spared(y.results) \in 0 .. One
        /\ u.score \in 0 .. One /\ v.score \in 0 .. One
    BY <1>0, <2>1, <2>2, SparedTyped DEF Fine, Context
  <2>5. ASSUME x.results = <<>> PROVE Exceeds(v, u)
    <3>1. u.score = 0 /\ ~ u.triggered
      BY <2>1, <2>5 DEF Fine
    <3>2. QED BY <2>3, <2>4, <3>1, OneNat DEF Exceeds
  <2>6. ASSUME x.results # <<>> PROVE Exceeds(v, u)
    <3>1. y.results # <<>>
      BY <1>0, <2>6
    <3>2. u.score <= v.score
      BY <2>1, <2>2, <2>3, <2>4, <2>6, <3>1, OneNat
    <3>3. u.triggered => v.triggered
      BY <2>1, <2>2, <2>4, <2>6, <3>1, <3>2, OneNat, DetectionAssumption DEF Exceeds
    <3>4. QED BY <2>3, <3>2, <3>3 DEF Exceeds
  <2>7. Exceeds(v, u)
    BY <2>5, <2>6
  <2>8. QED BY <2>7 DEF u, v
<1>6. QED BY <1>1, <1>2, <1>3, <1>4, <1>5, WantsNames, EngineNames DEF StageNames

-----------------------------------------------------------------------------
LEMMA NewFine == ASSUME NEW e \in Incoming PROVE Fine(NewContext(e))
<1>0. e \in SUBSET Signs
  BY Zenon DEF Signs
<1>1. e \in SUBSET Signs /\ <<>> \in Seq(Engines) /\ 0 \in 0 .. One
  BY <1>0, OneNat
<1>2. NewContext(e) \in Context
  BY <1>1 DEF NewContext, Context
<1>3. 0 <= One - Spared(<<>>)
  BY SparedNothing, OneNat
<1>4. QED BY <1>2, <1>3 DEF NewContext, Fine

LEMMA PassingSteps ==
  ASSUME NEW e \in Incoming
  PROVE  /\ Passing(e)[0] = NewContext(e)
         /\ \A n \in 1 .. Len(Stages) : /\ Fine(Passing(e)[n - 1]) /\ Fine(Passing(e)[n])
                                        /\ Passing(e)[n] = StageProcess(Passing(e)[n - 1], Stages[n])
<1> DEFINE N == Len(Stages)
           S == {x \in Context : Fine(x)}
           step == [n \in 1 .. N |-> [x \in S |-> StageProcess(x, Stages[n])]]
<1>1. N \in Nat /\ NewContext(e) \in S /\ \A n \in 1 .. N : Stages[n] \in StageNames
  <2>1. NewContext(e) \in S
    BY NewFine DEF Fine
  <2>2. Stages \in Seq(StageNames)
    BY DetectionAssumption DEF StageNames, Engines
  <2>3. QED BY <2>1, <2>2
<1>2. \A x : x \in S <=> Fine(x)
  BY DEF Fine
<1> HIDE DEF S
<1>3. ASSUME NEW n \in 1 .. N, NEW x \in S PROVE StageProcess(x, Stages[n]) \in S
  BY <1>1, <1>2, StageFine
<1>4. Steps(step, N, S)
  BY <1>3 DEF Steps
<1>5. \A n \in 1 .. N : \A x \in S : step[n][x] = StageProcess(x, Stages[n])
  OBVIOUS
<1> HIDE DEF step
<1>6. PICK f \in [0 .. N -> S] : Computes(f, NewContext(e), step, N)
  BY <1>1, <1>4, StepsExist
<1>7. /\ f[0] = NewContext(e)
      /\ \A n \in 1 .. N : f[n] = StageProcess(f[n - 1], Stages[n])
  <2>1. \A n \in 1 .. N : n - 1 \in 0 .. N
    BY <1>1
  <2>2. \A n \in 1 .. N : f[n - 1] \in S
    BY <1>6, <2>1
  <2>3. QED BY <1>5, <1>6, <2>2 DEF Computes
<1>8. f = [n \in 0 .. Len(Stages) |-> IF n = 0 THEN NewContext(e) ELSE StageProcess(f[n - 1], Stages[n])]
  <2>1. \A n \in 0 .. N : n # 0 => n \in 1 .. N
    BY <1>1
  <2>2. \A n \in 0 .. N : f[n] = IF n = 0 THEN NewContext(e) ELSE StageProcess(f[n - 1], Stages[n])
    BY <1>7, <2>1
  <2>3. QED BY <1>6, <2>2
<1> DEFINE G == Passing(e)
<1>9. G = [n \in 0 .. Len(Stages) |-> IF n = 0 THEN NewContext(e) ELSE StageProcess(G[n - 1], Stages[n])]
  BY <1>8, Zenon DEF Passing
<1> HIDE DEF G
<1>10. G[0] = NewContext(e) /\ \A n \in 1 .. N : G[n] = StageProcess(G[n - 1], Stages[n])
  <2>1. \A n \in 0 .. N : G[n] = IF n = 0 THEN NewContext(e) ELSE StageProcess(G[n - 1], Stages[n])
    BY <1>9, Zenon
  <2>2. 0 \in 0 .. N /\ \A n \in 1 .. N : n \in 0 .. N /\ n # 0
    BY <1>1
  <2>3. QED BY <2>1, <2>2
<1>11. \A n \in 0 .. N : f[n] = G[n]
  <2>1. \A n \in 1 .. N : f[n - 1] = G[n - 1] => f[n] = G[n]
    BY <1>7, <1>10
  <2>2. f[0] = G[0]
    BY <1>7, <1>10
  <2>3. Agree(f, G, N)
    BY <1>1, <2>1, <2>2, SameSteps DEF InStep
  <2>4. QED BY <2>3 DEF Agree
<1>12. \A n \in 0 .. N : Fine(G[n])
  BY <1>2, <1>6, <1>11
<1>13. \A n \in 1 .. N : Fine(G[n - 1]) /\ Fine(G[n])
  <2>1. \A n \in 1 .. N : n \in 0 .. N /\ n - 1 \in 0 .. N
    BY <1>1
  <2>2. QED BY <1>12, <2>1
<1>14. QED BY <1>10, <1>13 DEF G

LEMMA PassedFine == ASSUME NEW e \in Incoming PROVE Fine(Passing(e)[Len(Stages)])
<1>1. Len(Stages) \in Nat
  BY DetectionAssumption
<1>2. CASE Len(Stages) = 0
  BY <1>2, PassingSteps, NewFine
<1>3. CASE Len(Stages) # 0
  <2>1. Len(Stages) \in 1 .. Len(Stages)
    BY <1>1, <1>3
  <2>2. QED BY <2>1, PassingSteps
<1>4. QED BY <1>2, <1>3

NormalizerFirst == Stages # <<>> /\ Stages[1] = "Normalizer"

LEMMA MoreEvidence ==
  ASSUME NormalizerFirst, NEW e \in Incoming, NEW d \in Incoming, Normalize(e) \subseteq Normalize(d)
  PROVE  Exceeds(Passing(d)[Len(Stages)], Passing(e)[Len(Stages)])
<1> DEFINE N == Len(Stages)
           x == Passing(e)
           y == Passing(d)
           T == {n \in 1 .. N : ~ Exceeds(y[n], x[n])}
<1>1. N \in Nat /\ N \in 1 .. N /\ \A n \in 1 .. N : Stages[n] \in StageNames
  <2>1. Stages \in Seq(StageNames)
    BY DetectionAssumption DEF StageNames, Engines
  <2>2. QED BY <2>1 DEF NormalizerFirst
<1>2. /\ x[0] = NewContext(e)
      /\ \A n \in 1 .. N : Fine(x[n - 1]) /\ Fine(x[n]) /\ x[n] = StageProcess(x[n - 1], Stages[n])
  BY PassingSteps
<1>3. /\ y[0] = NewContext(d)
      /\ \A n \in 1 .. N : Fine(y[n - 1]) /\ Fine(y[n]) /\ y[n] = StageProcess(y[n - 1], Stages[n])
  BY PassingSteps
<1> HIDE DEF x, y
<1>4. SUFFICES ASSUME T # {} PROVE FALSE
  BY <1>1 DEF x, y
<1>5. PICK n \in T : \A u \in T : n <= u
  <2>1. T \in SUBSET Nat
    BY <1>1
  <2>2. QED BY <1>4, <2>1, LeastNat
<1>6. n \in 1 .. N /\ ~ Exceeds(y[n], x[n])
  OBVIOUS
<1>7. CASE n = 1
  <2>1. 1 \in 1 .. N /\ 1 - 1 = 0 /\ Stages[1] = "Normalizer"
    BY <1>6, <1>7 DEF NormalizerFirst
  <2>2. /\ Fine(NewContext(e)) /\ x[1] = StageProcess(NewContext(e), "Normalizer")
        /\ Fine(NewContext(d)) /\ y[1] = StageProcess(NewContext(d), "Normalizer")
    BY <1>2, <1>3, <2>1, NewFine
  <2>3. /\ x[1].event = Normalize(NewContext(e).event) /\ x[1].results = NewContext(e).results
        /\ x[1].score = NewContext(e).score /\ x[1].triggered = NewContext(e).triggered
    BY <2>2, OnNormalizer
  <2>4. /\ y[1].event = Normalize(NewContext(d).event) /\ y[1].results = NewContext(d).results
        /\ y[1].score = NewContext(d).score /\ y[1].triggered = NewContext(d).triggered
    BY <2>2, OnNormalizer
  <2>5. /\ x[1].event = Normalize(e) /\ x[1].results = <<>> /\ x[1].score = 0 /\ ~ x[1].triggered
        /\ y[1].event = Normalize(d) /\ y[1].results = <<>> /\ y[1].score = 0
    BY <2>3, <2>4 DEF NewContext
  <2>6. Spared(y[1].results) <= Spared(x[1].results) /\ Len(x[1].results) <= Len(y[1].results)
    BY <2>5, SparedNothing, OneNat
  <2>7. Exceeds(y[1], x[1])
    BY <2>5, <2>6 DEF Exceeds
  <2>8. QED BY <1>6, <1>7, <2>7
<1>8. CASE n # 1
  <2>1. n - 1 \in 1 .. N /\ ~ (n <= n - 1)
    BY <1>1, <1>6, <1>8
  <2>2. Exceeds(y[n - 1], x[n - 1])
    BY <1>5, <2>1
  <2>3. Exceeds(StageProcess(y[n - 1], Stages[n]), StageProcess(x[n - 1], Stages[n]))
    BY <1>1, <1>2, <1>3, <1>6, <2>2, StageExceeds
  <2>4. QED BY <1>2, <1>3, <1>6, <2>3
<1>9. QED BY <1>7, <1>8

-----------------------------------------------------------------------------
(* What is kept of an event that was examined. *)
Outcome(e) == [event |-> e, score |-> Passing(e)[Len(Stages)].score,
               triggered |-> Passing(e)[Len(Stages)].triggered]

DetectInv == /\ alerts \in Seq(Threshold .. One) /\ Len(alerts) <= AlertCapacity
             /\ examined \in Seq({Outcome(e) : e \in Incoming})

LEMMA DetectInitOK == DetectInit => DetectInv
BY DetectionAssumption DEF DetectInit, DetectInv

LEMMA DetectStep == DetectInv /\ [DetectNext]_detectVars => DetectInv'
<1> SUFFICES ASSUME DetectInv, [DetectNext]_detectVars PROVE DetectInv'
  OBVIOUS
<1> DEFINE A == Threshold .. One
           E == {Outcome(e) : e \in Incoming}
<1>1. alerts \in Seq(A) /\ Len(alerts) <= AlertCapacity /\ examined \in Seq(E) /\ AlertCapacity \in Nat
  BY DetectionAssumption DEF DetectInv
<1>2. ASSUME NEW e \in Incoming, Process(e) PROVE DetectInv'
  <2> DEFINE x == Passing(e)[Len(Stages)]
  <2>1. /\ examined' = Append(examined, Outcome(e))
        /\ alerts' = IF x.raised /\ ~ ChannelFull THEN Append(alerts, x.score) ELSE alerts
    BY <1>2, Zenon DEF Process, Outcome
  <2>2. Outcome(e) \in E
    OBVIOUS
  <2>3. Fine(x)
    BY PassedFine
  <2> HIDE DEF E, x
  <2>4. examined' \in Seq(E)
    BY <1>1, <2>1, <2>2
  <2>5. x.raised => x.score \in A
    BY <2>3, OneNat, DetectionAssumption DEF Fine, Context
  <2> HIDE DEF A
  <2>6. alerts' \in Seq(A) /\ Len(alerts') <= AlertCapacity
    <3>1. CASE x.raised /\ ~ ChannelFull
      BY <1>1, <2>1, <2>5, <3>1 DEF ChannelFull
    <3>2. CASE ~ (x.raised /\ ~ ChannelFull)
      BY <1>1, <2>1, <3>2
    <3>3. QED BY <3>1, <3>2
  <2>7. QED BY <2>4, <2>6 DEF DetectInv, A, E
<1>3. CASE ReceiveAlert
  <2> HIDE DEF A, E
  <2>1. alerts' \in Seq(A) /\ Len(alerts') <= AlertCapacity /\ examined' = examined
    BY <1>1, <1>3 DEF ReceiveAlert
  <2>2. QED BY <1>1, <2>1 DEF DetectInv, A, E
<1>4. CASE UNCHANGED detectVars
  BY <1>4 DEF detectVars, DetectInv
<1>5. QED BY <1>2, <1>3, <1>4 DEF DetectNext

LEMMA DetectInvOK == DetectInv => DetectTypeOK
<1> SUFFICES ASSUME DetectInv PROVE DetectTypeOK
  OBVIOUS
<1>1. ASSUME NEW i \in DOMAIN examined PROVE examined[i].score \in 0 .. One
  <2>1. PICK e \in Incoming : examined[i] = Outcome(e)
    BY DEF DetectInv
  <2>2. examined[i].score = Passing(e)[Len(Stages)].score
    BY <2>1 DEF Outcome
  <2>3. Fine(Passing(e)[Len(Stages)])
    BY PassedFine
  <2>4. QED BY <2>2, <2>3 DEF Fine, Context
<1> DEFINE A == Threshold .. One
<1>2. alerts \in Seq(A) /\ Len(alerts) <= AlertCapacity
  BY DEF DetectInv
<1> HIDE DEF A
<1>3. \A i \in DOMAIN alerts : alerts[i] \in A
  BY <1>2
<1>4. QED BY <1>1, <1>2, <1>3 DEF DetectTypeOK, A

LEMMA MonotoneHolds == NormalizerFirst /\ DetectInv => VerdictMonotone
<1> SUFFICES ASSUME NormalizerFirst, DetectInv, NEW i \in DOMAIN examined, NEW j \in DOMAIN examined,
                    Normalize(examined[i].event) \subseteq Normalize(examined[j].event)
             PROVE  /\ examined[i].score <= examined[j].score
                    /\ examined[i].triggered => examined[j].triggered
  BY DEF VerdictMonotone
<1>1. PICK e \in Incoming : examined[i] = Outcome(e)
  BY DEF DetectInv
<1>2. PICK d \in Incoming : examined[j] = Outcome(d)
  BY DEF DetectInv
<1>3. /\ examined[i].event = e /\ examined[i].score = Passing(e)[Len(Stages)].score
      /\ examined[i].triggered = Passing(e)[Len(Stages)].triggered
  BY <1>1 DEF Outcome
<1>4. /\ examined[j].event = d /\ examined[j].score = Passing(d)[Len(Stages)].score
      /\ examined[j].triggered = Passing(d)[Len(Stages)].triggered
  BY <1>2 DEF Outcome
<1>5. Exceeds(Passing(d)[Len(Stages)], Passing(e)[Len(Stages)])
  BY <1>3, <1>4, MoreEvidence
<1>6. QED BY <1>3, <1>4, <1>5 DEF Exceeds

(* Every score is within 0 and 1, every alert has the score that calls for it, and the *)
(* channel holds no more than it was made for, whatever stages the pipeline was given. *)
THEOREM DetectTypeOKAlways == DetectSpec => []DetectTypeOK
<1>1. DetectSpec => []DetectInv
  BY DetectInitOK, DetectStep, PTL DEF DetectSpec
<1>2. QED BY <1>1, DetectInvOK, PTL

(* More evidence never lowers a score nor withdraws an alert, whatever stages follow the *)
(* normalizer, which comes first wherever this repository builds a pipeline.             *)
THEOREM VerdictMonotoneAlways == NormalizerFirst /\ DetectSpec => []VerdictMonotone
<1>1. DetectSpec => []DetectInv
  BY DetectInitOK, DetectStep, PTL DEF DetectSpec
<1>2. NormalizerFirst => []NormalizerFirst
  OBVIOUS
<1>3. QED BY <1>1, <1>2, MonotoneHolds, PTL
=============================================================================
