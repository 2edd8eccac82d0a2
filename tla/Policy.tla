------------------------------- MODULE Policy -------------------------------
(***************************************************************************)
(* internal/policy's PolicyEngine: policies are loaded one by one, refer   *)
(* to a parent by its ID, and are asked about a process path from the      *)
(* active one upwards, all under one lock.                                 *)
(***************************************************************************)
EXTENDS Integers, Sequences, FiniteSets

CONSTANTS PolicyIds,    \* IDs a policy may have or refer to
          NoPolicy,     \* the empty ID
          Offered,      \* the policies callers load
          ProcPaths,    \* the process paths asked about
          PathHas       \* the pairs of a process path and a part of it

(* What ValidatePolicy accepts as an action. *)
PolicyActions == {"Allow", "Deny", "Monitor", "Audit", "Ignore"}

ASSUME PolicyAssumption == /\ NoPolicy \notin PolicyIds /\ IsFiniteSet(PolicyIds)
                           /\ \A p \in Offered : /\ p.id \in PolicyIds \cup {NoPolicy}
                                                 /\ p.parent \in PolicyIds \cup {NoPolicy}

VARIABLES policies,     \* PolicyEngine.policies: the policy of an ID
          activePolicy  \* activePolicyID

policyVars == <<policies, activePolicy>>

PolicyInit == policies = <<>> /\ activePolicy = NoPolicy

-----------------------------------------------------------------------------
ValidatePolicy(p) == /\ p.id # NoPolicy
                     /\ \A i \in DOMAIN p.rules : /\ p.rules[i].id # "" /\ p.rules[i].path # ""
                                                  /\ p.rules[i].action \in PolicyActions

(* The parent need not be there, and may be the policy itself. *)
LoadPolicy(p) ==
  /\ ValidatePolicy(p)
  /\ policies' = [i \in DOMAIN policies \cup {p.id} |-> IF i = p.id THEN p ELSE policies[i]]
  /\ UNCHANGED activePolicy

SetActivePolicy(id) == id \in DOMAIN policies /\ activePolicy' = id /\ UNCHANGED policies

PolicyNext == (\E p \in Offered : LoadPolicy(p)) \/ \E id \in PolicyIds : SetActivePolicy(id)

PolicySpec == PolicyInit /\ [][PolicyNext]_policyVars

-----------------------------------------------------------------------------
MatchingRules(id, path) == SelectSeq(policies[id].rules, LAMBDA r : <<path, r.path>> \in PathHas)

RuleOf(id, path) == Head(MatchingRules(id, path)).action

BugDecides(id, path) == MatchingRules(id, path) # <<>> /\ policies[id].parent = NoPolicy
Decides(id, path) == MatchingRules(id, path) # <<>>

(* What a policy answers, or its parent in its place. *)
Evaluated(id, path, parents) ==
  IF id \notin DOMAIN policies THEN "Monitor"
  ELSE IF Decides(id, path) THEN RuleOf(id, path)
  ELSE IF policies[id].parent # NoPolicy THEN parents[policies[id].parent]
  ELSE "Monitor"

(* evaluateChain recurses to the parent; along more policies than there are, for ever. *)
evaluateChain(path) ==
  LET f[n \in 0 .. Cardinality(PolicyIds) + 1] ==
        [id \in PolicyIds \cup {NoPolicy} |->
           IF n = 0 THEN "endless" ELSE Evaluated(id, path, f[n - 1])]
  IN f

(* No policy has the empty ID, and none is active before SetActivePolicy. *)
EvaluateRule(path) == evaluateChain(path)[Cardinality(PolicyIds) + 1][activePolicy]

-----------------------------------------------------------------------------
PolicyTypeOK == /\ DOMAIN policies \subseteq PolicyIds
                /\ \A id \in DOMAIN policies : policies[id] \in Offered /\ policies[id].id = id
                /\ activePolicy \in DOMAIN policies \cup {NoPolicy}

(* The policies a question about a path comes to when it is put to one of them: that one, *)
(* and the loaded parent of each that has no rule for the path.                           *)
PassedOn(id, path) == MatchingRules(id, path) = <<>> /\ policies[id].parent \in DOMAIN policies

ClosedFrom(first, path, S) == /\ first \in DOMAIN policies => first \in S
                              /\ \A id \in S : PassedOn(id, path) => policies[id].parent \in S

AskedFrom(first, path) ==
  {id \in DOMAIN policies : \A S \in SUBSET DOMAIN policies : ClosedFrom(first, path, S) => id \in S}

Asked(path) == AskedFrom(activePolicy, path)

(* In whatever order policies were loaded and replaced, EvaluateRule answers with the    *)
(* first rule for the path of the closest policy that has one; with Monitor when there   *)
(* is none up to a parent that is not loaded; and never, when the parents go in a circle. *)
ClosestRule ==
  \A path \in ProcPaths :
    LET deciding == {id \in Asked(path) : MatchingRules(id, path) # <<>>}
        answer   == EvaluateRule(path)
    IN /\ \A id \in deciding : answer = MatchingRules(id, path)[1].action
       /\ deciding = {} =>
            answer = IF \A id \in Asked(path) : policies[id].parent \in DOMAIN policies
                     THEN IF Asked(path) = {} THEN "Monitor" ELSE "endless"
                     ELSE "Monitor"
=============================================================================
