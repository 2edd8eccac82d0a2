---------------------- MODULE ShardedCorrelation_proofs ----------------------
(* The lock discipline of the sharded engine, that only overlapping appends lose an *)
(* edge, and that every alert is about a chain that is there: for any callers, PIDs, *)
(* shards, hash, window, rules and bounds.                                           *)
EXTENDS ShardedCorrelation, LeastElement, SequenceTheorems, TLAPS

NodeRec == [id : Ids, pid : Pids, parent : Pids \cup {0}, at : Nat]

Under(c) == call[c].at \in {"spawn", "back"}

CallOK(c) ==
  /\ call[c].at # "idle" => call[c].n \in Nodes
  /\ call[c].at = "link" \/ Under(c) => node[call[c].n].parent \in Pids
  /\ Under(c) => call[c].target \in Nodes /\ call[c].seen \in Seq(Nat)
  /\ call[c].at = "back" => call[c].target = call[c].n /\ call[c].parent \in Nodes

ShardTypes ==
  /\ now \in Nat /\ node \in Seq(NodeRec) /\ edges \in Seq(Seq(Nat)) /\ Len(edges) = Len(node)
  /\ DOMAIN shard \subseteq Ids /\ \A i \in DOMAIN shard : shard[i] \in Nodes
  /\ lock \in [Shards -> Callers \cup {NoOne}]
  /\ call = [c \in Callers |-> call[c]] /\ \A c \in Callers : CallOK(c)

(* Unless the node has been raced for, an append writes back what the node still has. *)
Fresh ==
  \A c \in Callers : \A t \in Appending(c) :
    t \in raced \/ (call[c].seen = edges[t] /\ \A d \in Callers \ {c} : t \notin Appending(d))

(* The node a caller is linking with is the only one of its parent's id that is as old as *)
(* the child; after the first append it has the edge.                                     *)
Partner(c) == IF call[c].at = "spawn" THEN call[c].target ELSE call[c].parent

Elder(k, m) == node[k].parent \in DOMAIN shard /\ shard[node[k].parent] = m /\ m <= k

Underway ==
  \A c \in Callers : Under(c) =>
    /\ \A m \in Nodes : Elder(call[c].n, m) => m = Partner(c)
    /\ call[c].at = "back" =>
         Partner(c) \in raced \/ Contains(edges[Partner(c)], call[c].n)

ShardInv == ShardTypes /\ LocksHeld /\ Fresh /\ Underway /\ LinkedOrRaced

LEMMA ShardInit == Init => ShardInv
<1> SUFFICES ASSUME Init PROVE ShardInv
  OBVIOUS
<1>1. /\ now = 0 /\ node = <<>> /\ edges = <<>> /\ shard = <<>> /\ Nodes = {} /\ DOMAIN shard = {}
      /\ lock = [s \in Shards |-> NoOne] /\ call = [c \in Callers |-> Idle]
      /\ \A c \in Callers : call[c].at = "idle"
  BY DEF Init, Idle, Nodes
<1>2. ShardTypes
  BY <1>1 DEF ShardTypes, CallOK, Under
<1>3. LocksHeld
  BY <1>1, ShardedAssumption DEF LocksHeld
<1>4. Fresh /\ Underway /\ LinkedOrRaced
  BY <1>1 DEF Fresh, Appending, Underway, Under, LinkedOrRaced
<1>5. QED BY <1>2, <1>3, <1>4 DEF ShardInv

(* Where a caller stands when it has come to a rule, or to the end of the rules. *)
LEMMA JudgingAt ==
  ASSUME NEW n, NEW r
  PROVE  LET v == Judging(n, r) IN
         /\ v.at \in {"idle", "judge"}
         /\ v.at # "idle" => v.n = n /\ v.rule = r /\ ~ (r > Len(Rules))
BY DEF Judging, Idle

(* A step that touches neither the graph nor a lock: one caller at most goes on to *)
(* something else than linking, and only from "link" if its parent is not there.   *)
LEMMA QuietKeeps ==
  ASSUME ShardInv, UNCHANGED <<node, edges, shard, lock, raced>>, now' \in Nat,
         NEW c \in Callers, NEW v, call' = [call EXCEPT ![c] = v],
         ~Under(c), v.at \notin {"link", "spawn", "back"}, v.at # "idle" => v.n \in Nodes,
         call[c].at = "link" => Parent(c) \notin DOMAIN shard
  PROVE  ShardInv'
<1>1. /\ ShardTypes /\ LocksHeld /\ Fresh /\ Underway /\ LinkedOrRaced
      /\ call'[c] = v /\ \A d \in Callers \ {c} : call'[d] = call[d]
      /\ Nodes' = Nodes
  BY DEF ShardInv, ShardTypes, Nodes
<1>2. \A d \in Callers : Under(d)' => Under(d) /\ call'[d] = call[d]
  BY <1>1 DEF Under
<1>3. \A d \in Callers : CallOK(d)'
  BY <1>1 DEF ShardTypes, CallOK, Under
<1>4. ShardTypes'
  BY <1>1, <1>3 DEF ShardTypes
<1>5. LocksHeld'
  BY <1>1 DEF LocksHeld, Under, Parent
<1>6. Fresh'
  BY <1>1 DEF Fresh, Appending, Under
<1>7. Underway'
  BY <1>1, <1>2 DEF Underway, Elder, Partner
<1>8. LinkedOrRaced'
  <2> SUFFICES ASSUME NEW k \in Nodes, NEW m \in Nodes, Child(k, m)'
               PROVE  (Joined(k, m) \/ k \in raced \/ m \in raced)'
    BY <1>1 DEF LinkedOrRaced
  <2>1. Joined(k, m)' = Joined(k, m)
    BY DEF Joined
  <2>2. CASE Linking(k)
    <3>1. PICK d \in Callers : call[d].at \in {"link", "spawn", "back"} /\ call[d].n = k
      BY <2>2 DEF Linking
    <3>2. d = c
      BY <1>1, <3>1 DEF Child, Linking
    <3>3. Parent(c) = node[k].parent /\ call[c].at = "link"
      BY <3>1, <3>2 DEF Parent, Under
    <3>4. QED BY <3>3 DEF Child
  <2>3. CASE ~Linking(k)
    <3>1. Child(k, m)
      BY <2>3 DEF Child
    <3>2. QED BY <1>1, <2>1, <3>1 DEF LinkedOrRaced
  <2>4. QED BY <2>2, <2>3
<1>9. QED BY <1>4, <1>5, <1>6, <1>7, <1>8 DEF ShardInv

(* An append that writes back what its node has, or goes to a raced node, loses nothing *)
(* that has not been raced for.                                                         *)
LEMMA AppendKeeps ==
  ASSUME ShardTypes, NEW t \in Nodes, NEW s \in Seq(Nat), NEW x \in Nodes,
         edges' = [edges EXCEPT ![t] = Append(s, x)], t \in raced \/ s = edges[t]
  PROVE  /\ edges' \in Seq(Seq(Nat)) /\ Len(edges') = Len(edges)
         /\ \A k \in Nodes \ {t} : edges'[k] = edges[k]
         /\ edges'[t] = Append(s, x) /\ Contains(edges'[t], x)
         /\ \A k \in Nodes : \A y : k \notin raced /\ Contains(edges[k], y) => Contains(edges'[k], y)
<1>1. /\ node \in Seq(NodeRec) /\ edges \in Seq(Seq(Nat)) /\ Len(edges) = Len(node)
      /\ Nodes = 1 .. Len(edges) /\ DOMAIN edges = Nodes
  BY DEF ShardTypes, Nodes
<1>2. x \in Nat /\ Len(s) \in Nat
  BY <1>1
<1>3. /\ Append(s, x) \in Seq(Nat) /\ Len(Append(s, x)) = Len(s) + 1
      /\ Append(s, x)[Len(s) + 1] = x /\ \A i \in 1 .. Len(s) : Append(s, x)[i] = s[i]
  BY <1>2, AppendProperties
<1>4. edges' \in Seq(Seq(Nat)) /\ Len(edges') = Len(edges)
  BY <1>1, <1>3, ExceptSeq
<1>5. edges'[t] = Append(s, x) /\ \A k \in Nodes \ {t} : edges'[k] = edges[k]
  BY <1>1
<1>6. Contains(edges'[t], x)
  <2>1. Len(s) + 1 \in 1 .. Len(Append(s, x))
    BY <1>2, <1>3
  <2>2. QED BY <1>3, <1>5, <2>1 DEF Contains
<1>7. ASSUME NEW k \in Nodes, NEW y, k \notin raced, Contains(edges[k], y)
      PROVE  Contains(edges'[k], y)
  <2>1. CASE k # t
    BY <1>5, <1>7, <2>1
  <2>2. CASE k = t
    <3>1. PICK i \in 1 .. Len(s) : s[i] = y
      BY <1>7, <2>2 DEF Contains
    <3>2. i \in 1 .. Len(Append(s, x)) /\ Append(s, x)[i] = y
      BY <1>2, <1>3, <3>1
    <3>3. QED BY <1>5, <2>2, <3>2 DEF Contains
  <2>3. QED BY <2>1, <2>2
<1>8. QED BY <1>4, <1>5, <1>6, <1>7

(* What is true of a link stays so while the graph's edges only grow where no one races. *)
LEMMA GraphKeeps ==
  ASSUME ShardTypes, LinkedOrRaced, UNCHANGED <<node, shard>>, raced \subseteq raced',
         \A k \in Nodes : \A y : k \notin raced /\ Contains(edges[k], y) => Contains(edges'[k], y),
         NEW k \in Nodes, NEW m \in Nodes, Child(k, m)', ~Linking(k)
  PROVE  (Joined(k, m) \/ k \in raced \/ m \in raced)'
<1>1. Child(k, m)
  BY DEF Child
<1>2. Joined(k, m) \/ k \in raced \/ m \in raced
  BY <1>1 DEF LinkedOrRaced
<1>3. QED BY <1>2 DEF Joined

LEMMA LinkKeeps == ASSUME ShardInv, NEW c \in Callers, Link(c) PROVE ShardInv'
<1> DEFINE p == shard[Parent(c)]
           n == call[c].n
<1>1. /\ ShardTypes /\ LocksHeld /\ Fresh /\ Underway /\ LinkedOrRaced
      /\ \A d \in Callers \ {c} : call'[d] = call[d]
      /\ call[c].at = "link" /\ call'[c] = [at |-> "spawn", n |-> n, target |-> p, seen |-> edges[p]]
      /\ raced' = raced \cup Races(c, p)
      /\ Nodes' = Nodes /\ UNCHANGED <<now, node, edges, shard>>
      /\ lock' = [lock EXCEPT ![ShardOf[Parent(c)]] = c] /\ LockFree(c) /\ Parent(c) \in DOMAIN shard
  BY DEF ShardInv, ShardTypes, Nodes, Link
<1>2. /\ n \in Nodes /\ p \in Nodes /\ Parent(c) = node[n].parent /\ Parent(c) \in Pids
      /\ ShardOf[Parent(c)] \in Shards
  BY <1>1, ShardedAssumption DEF ShardTypes, CallOK, Parent, Ids
<1>3. edges[p] \in Seq(Nat)
  BY <1>1, <1>2 DEF ShardTypes, Nodes
<1>4. ShardTypes'
  <2>1. \A d \in Callers : CallOK(d)'
    <3> SUFFICES ASSUME NEW d \in Callers PROVE CallOK(d)'
      OBVIOUS
    <3>1. CASE d = c
      <4>1. Under(d)' /\ call'[d].n = n /\ call'[d].target = p /\ call'[d].seen = edges[p]
            /\ call'[d].at = "spawn"
        BY <1>1, <3>1 DEF Under
      <4>2. QED BY <1>1, <1>2, <1>3, <4>1 DEF CallOK
    <3>2. CASE d # c
      <4>1. CallOK(d) /\ call'[d] = call[d]
        BY <1>1, <3>2 DEF ShardTypes
      <4>2. QED BY <1>1, <4>1 DEF CallOK, Under
    <3>3. QED BY <3>1, <3>2
  <2>2. call' = [d \in Callers |-> call'[d]]
    BY <1>1 DEF ShardTypes, Link
  <2>3. lock' \in [Shards -> Callers \cup {NoOne}]
    BY <1>1, <1>2 DEF ShardTypes
  <2>4. QED BY <1>1, <2>1, <2>2, <2>3 DEF ShardTypes
<1>5. LocksHeld'
  <2> SUFFICES ASSUME NEW s \in Shards, NEW d \in Callers
               PROVE  lock'[s] = d <=> Under(d)' /\ s = ShardOf[Parent(d)']
    BY DEF LocksHeld, Under
  <2>1. lock[s] = d <=> Under(d) /\ s = ShardOf[Parent(d)]
    BY <1>1 DEF LocksHeld, Under
  <2>2. CASE d = c
    <3>1. Under(d)' /\ Parent(d)' = Parent(d) /\ ~Under(d)
      BY <1>1, <2>2 DEF Under, Parent
    <3>2. QED BY <1>1, <1>2, <2>1, <2>2, <3>1 DEF ShardTypes
  <2>3. CASE d # c
    <3>1. Under(d)' = Under(d) /\ Parent(d)' = Parent(d)
      BY <1>1, <2>3 DEF Under, Parent
    <3>2. QED BY <1>1, <1>2, <2>1, <2>3, <3>1, ShardedAssumption DEF ShardTypes, LockFree
  <2>4. QED BY <2>2, <2>3
<1>6. Fresh'
  <2>1. /\ Appending(c)' = {p} /\ Appending(c) = {} /\ call'[c].seen = edges'[p]
        /\ \A d \in Callers \ {c} : Appending(d)' = Appending(d) /\ call'[d].seen = call[d].seen
    BY <1>1 DEF Appending
  <2>2. p \in raced' \/ \A d \in Callers \ {c} : p \notin Appending(d)
    BY <1>1 DEF Races
  <2>3. raced \subseteq raced' /\ edges' = edges
    BY <1>1
  <2> HIDE DEF p
  <2> SUFFICES ASSUME NEW d \in Callers, NEW t \in Appending(d)', t \notin raced'
               PROVE  call'[d].seen = edges'[t] /\ \A e \in Callers \ {d} : t \notin Appending(e)'
    BY DEF Fresh
  <2>4. CASE d = c
    BY <2>1, <2>2, <2>4
  <2>5. CASE d # c
    <3>1. t \in Appending(d) /\ t \notin raced
      BY <2>1, <2>3, <2>5
    <3>2. call[d].seen = edges[t] /\ \A e \in Callers \ {d} : t \notin Appending(e)
      BY <1>1, <3>1 DEF Fresh
    <3>3. t # p
      BY <2>2, <2>5, <3>1
    <3>4. QED BY <2>1, <2>3, <2>5, <3>2, <3>3
  <2>6. QED BY <2>4, <2>5
<1>7. Underway'
  <2>1. \A k, m \in Nodes : Elder(k, m)' <=> Elder(k, m)
    BY <1>1 DEF Elder
  <2> SUFFICES ASSUME NEW d \in Callers, Under(d)'
               PROVE  (/\ \A m \in Nodes : Elder(call[d].n, m) => m = Partner(d)
                       /\ call[d].at = "back" =>
                            Partner(d) \in raced \/ Contains(edges[Partner(d)], call[d].n))'
    BY DEF Underway
  <2>2. CASE d = c
    <3>1. call'[d].n = n /\ call'[d].at = "spawn" /\ Partner(d)' = p
      BY <1>1, <2>2 DEF Partner
    <3>2. \A m \in Nodes : Elder(n, m) => m = p
      BY <1>2 DEF Elder
    <3>3. QED BY <1>1, <1>2, <2>1, <3>1, <3>2
  <2>3. CASE d # c
    <3>1. call'[d] = call[d] /\ Under(d) /\ Partner(d)' = Partner(d) /\ call[d].n \in Nodes
      BY <1>1, <2>3 DEF Under, Partner, ShardTypes, CallOK
    <3>2. QED BY <1>1, <2>1, <3>1 DEF Underway
  <2>4. QED BY <2>2, <2>3
<1>8. LinkedOrRaced'
  <2> SUFFICES ASSUME NEW k \in Nodes, NEW m \in Nodes, Child(k, m)'
               PROVE  (Joined(k, m) \/ k \in raced \/ m \in raced)'
    BY <1>1 DEF LinkedOrRaced
  <2>1. ~Linking(k)
    BY <1>1 DEF Child, Linking
  <2>2. QED BY <1>1, <2>1, GraphKeeps
<1>9. QED BY <1>4, <1>5, <1>6, <1>7, <1>8 DEF ShardInv

LEMMA SpawnedKeeps == ASSUME ShardInv, NEW c \in Callers, Spawned(c) PROVE ShardInv'
<1> DEFINE n == call[c].n
           p == call[c].target
<1>1. /\ ShardTypes /\ LocksHeld /\ Fresh /\ Underway /\ LinkedOrRaced
      /\ \A d \in Callers \ {c} : call'[d] = call[d]
      /\ call[c].at = "spawn"
      /\ call'[c] = [at |-> "back", n |-> n, target |-> n, parent |-> p, seen |-> edges'[n]]
      /\ edges' = [edges EXCEPT ![p] = Append(call[c].seen, n)]
      /\ raced' = raced \cup Races(c, n)
      /\ Nodes' = Nodes /\ UNCHANGED <<now, node, shard, lock>>
      /\ raced \subseteq raced'
  BY DEF ShardInv, ShardTypes, Nodes, Spawned
<1>2. /\ n \in Nodes /\ p \in Nodes /\ call[c].seen \in Seq(Nat) /\ node[n].parent \in Pids
      /\ Appending(c) = {p} /\ Under(c)
  BY <1>1 DEF ShardTypes, CallOK, Under, Appending
<1>3. p \in raced \/ call[c].seen = edges[p]
  BY <1>1, <1>2 DEF Fresh
<1>4. /\ edges' \in Seq(Seq(Nat)) /\ Len(edges') = Len(edges)
      /\ \A k \in Nodes \ {p} : edges'[k] = edges[k]
      /\ Contains(edges'[p], n)
      /\ \A k \in Nodes : \A y : k \notin raced /\ Contains(edges[k], y) => Contains(edges'[k], y)
  BY <1>1, <1>2, <1>3, AppendKeeps
<1>5. edges'[n] \in Seq(Nat)
  BY <1>1, <1>2, <1>4 DEF ShardTypes, Nodes
<1>5a. /\ call'[c].at = "back" /\ call'[c].n = n /\ call'[c].target = n
       /\ call'[c].seen = edges'[n] /\ call'[c].parent = p
  <2> DEFINE e == edges'[n]
  <2>1. call'[c] = [at |-> "back", n |-> n, target |-> n, parent |-> p, seen |-> e]
    BY <1>1
  <2> HIDE DEF e, n, p
  <2>2. QED BY <2>1 DEF e
<1> HIDE DEF n, p
<1>6. ShardTypes'
  <2>1. ASSUME NEW d \in Callers PROVE CallOK(d)'
    <3>1. CASE d = c
      <4>1. /\ Under(d)' /\ call'[d].n = n /\ call'[d].target = n /\ call'[d].seen = edges'[n]
            /\ call'[d].at = "back" /\ call'[d].parent = p
        BY <1>5a, <3>1 DEF Under
      <4>2. QED BY <1>1, <1>2, <1>5, <4>1 DEF CallOK
    <3>2. CASE d # c
      <4>1. CallOK(d) /\ call'[d] = call[d]
        BY <1>1, <3>2 DEF ShardTypes
      <4>2. QED BY <1>1, <4>1 DEF CallOK, Under
    <3>3. QED BY <3>1, <3>2
  <2>2. call' = [d \in Callers |-> call'[d]]
    BY <1>1 DEF ShardTypes, Spawned
  <2>3. QED BY <1>1, <1>4, <2>1, <2>2 DEF ShardTypes
<1>7. LocksHeld'
  <2>1. \A d \in Callers : Under(d)' = Under(d) /\ Parent(d)' = Parent(d)
    BY <1>1 DEF Under, Parent, n
  <2>2. QED BY <1>1, <2>1 DEF LocksHeld, Under
<1>8. Fresh'
  <2>1. /\ Appending(c)' = {n} /\ call'[c].seen = edges'[n]
        /\ \A d \in Callers \ {c} : Appending(d)' = Appending(d) /\ call'[d].seen = call[d].seen
    BY <1>1, <1>5a DEF Appending
  <2>n. \A d \in Callers : Appending(d) \subseteq Nodes
    BY <1>1 DEF Appending, ShardTypes, CallOK, Under
  <2>2. n \in raced' \/ \A d \in Callers \ {c} : n \notin Appending(d)
    BY <1>1 DEF Races
  <2> SUFFICES ASSUME NEW d \in Callers, NEW t \in Appending(d)', t \notin raced'
               PROVE  call'[d].seen = edges'[t] /\ \A e \in Callers \ {d} : t \notin Appending(e)'
    BY DEF Fresh
  <2>4. CASE d = c
    BY <2>1, <2>2, <2>4
  <2>5. CASE d # c
    <3>1. t \in Appending(d) /\ t \notin raced /\ t \in Nodes
      BY <1>1, <2>n, <2>1, <2>5
    <3>2. call[d].seen = edges[t] /\ \A e \in Callers \ {d} : t \notin Appending(e)
      BY <1>1, <3>1 DEF Fresh
    <3>3. t # p
      BY <1>2, <2>5, <3>2
    <3>4. t # n
      BY <2>2, <2>5, <3>1
    <3>5. QED BY <1>4, <2>1, <2>5, <3>1, <3>2, <3>3, <3>4
  <2>6. QED BY <2>4, <2>5
<1>9. Underway'
  <2>1. \A k, m \in Nodes : Elder(k, m)' <=> Elder(k, m)
    BY <1>1 DEF Elder
  <2> SUFFICES ASSUME NEW d \in Callers, Under(d)'
               PROVE  (/\ \A m \in Nodes : Elder(call[d].n, m) => m = Partner(d)
                       /\ call[d].at = "back" =>
                            Partner(d) \in raced \/ Contains(edges[Partner(d)], call[d].n))'
    BY DEF Underway
  <2>2. CASE d = c
    <3>1. call'[d].n = n /\ Partner(d)' = p
      BY <1>1, <2>2 DEF Partner
    <3>2. \A m \in Nodes : Elder(n, m) => m = p
      BY <1>1, <1>2 DEF Underway, Partner, n, p
    <3>3. QED BY <1>1, <1>2, <1>4, <2>1, <3>1, <3>2
  <2>3. CASE d # c
    <3>1. /\ call'[d] = call[d] /\ Under(d) /\ Partner(d)' = Partner(d) /\ call[d].n \in Nodes
          /\ call[d].at = "back" => Partner(d) \in Nodes
      BY <1>1, <2>3 DEF Under, Partner, ShardTypes, CallOK
    <3>2. /\ \A m \in Nodes : Elder(call[d].n, m) => m = Partner(d)
          /\ call[d].at = "back" => Partner(d) \in raced \/ Contains(edges[Partner(d)], call[d].n)
      BY <1>1, <3>1 DEF Underway
    <3>3. QED BY <1>1, <1>4, <2>1, <3>1, <3>2
  <2>4. QED BY <2>2, <2>3
<1>10. LinkedOrRaced'
  <2> SUFFICES ASSUME NEW k \in Nodes, NEW m \in Nodes, Child(k, m)'
               PROVE  (Joined(k, m) \/ k \in raced \/ m \in raced)'
    BY <1>1 DEF LinkedOrRaced
  <2>1. ~Linking(k)
    BY <1>1 DEF Child, Linking, n
  <2>2. QED BY <1>1, <1>4, <2>1, GraphKeeps
<1>11. QED BY <1>6, <1>7, <1>8, <1>9, <1>10 DEF ShardInv

LEMMA BackKeeps == ASSUME ShardInv, NEW c \in Callers, Back(c) PROVE ShardInv'
<1> DEFINE n == call[c].n
           p == call[c].parent
<1>1. /\ ShardTypes /\ LocksHeld /\ Fresh /\ Underway /\ LinkedOrRaced
      /\ \A d \in Callers \ {c} : call'[d] = call[d]
      /\ call[c].at = "back" /\ call'[c] = Judging(n, 1)
      /\ edges' = [edges EXCEPT ![n] = Append(call[c].seen, p)]
      /\ lock' = [lock EXCEPT ![ShardOf[Parent(c)]] = NoOne]
      /\ Nodes' = Nodes /\ UNCHANGED <<now, node, shard, raced>>
  BY DEF ShardInv, ShardTypes, Nodes, Back, ParentOf, Unlock
<1>2. /\ n \in Nodes /\ p \in Nodes /\ call[c].target = n /\ call[c].seen \in Seq(Nat)
      /\ Parent(c) \in Pids /\ Appending(c) = {n} /\ Under(c) /\ ShardOf[Parent(c)] \in Shards
  BY <1>1, ShardedAssumption DEF ShardTypes, CallOK, Under, Appending, Parent, Ids
<1>3. n \in raced \/ call[c].seen = edges[n]
  BY <1>1, <1>2 DEF Fresh
<1>4. /\ edges' \in Seq(Seq(Nat)) /\ Len(edges') = Len(edges)
      /\ \A k \in Nodes \ {n} : edges'[k] = edges[k]
      /\ Contains(edges'[n], p)
      /\ \A k \in Nodes : \A y : k \notin raced /\ Contains(edges[k], y) => Contains(edges'[k], y)
  BY <1>1, <1>2, <1>3, AppendKeeps
<1>4a. call'[c].at \in {"idle", "judge"} /\ (call'[c].at # "idle" => call'[c].n = n)
  BY <1>1, JudgingAt
<1> HIDE DEF n, p
<1>5. ShardTypes'
  <2>1. ASSUME NEW d \in Callers PROVE CallOK(d)'
    <3>1. CASE d = c
      BY <1>1, <1>2, <1>4a, <3>1 DEF CallOK, Under
    <3>2. CASE d # c
      <4>1. CallOK(d) /\ call'[d] = call[d]
        BY <1>1, <3>2 DEF ShardTypes
      <4>2. QED BY <1>1, <4>1 DEF CallOK, Under
    <3>3. QED BY <3>1, <3>2
  <2>2. call' = [d \in Callers |-> call'[d]]
    BY <1>1 DEF ShardTypes, Back
  <2>3. lock' \in [Shards -> Callers \cup {NoOne}]
    BY <1>1, <1>2 DEF ShardTypes
  <2>4. QED BY <1>1, <1>4, <2>1, <2>2, <2>3 DEF ShardTypes
<1>6. LocksHeld'
  <2> SUFFICES ASSUME NEW s \in Shards, NEW d \in Callers
               PROVE  (lock[s] = d <=> Under(d) /\ s = ShardOf[Parent(d)])'
    BY DEF LocksHeld, Under
  <2>1. /\ lock[s] = d <=> Under(d) /\ s = ShardOf[Parent(d)]
        /\ lock[ShardOf[Parent(c)]] = c
    BY <1>1, <1>2 DEF LocksHeld, Under
  <2>2. CASE d = c
    <3>1. ~Under(d)'
      BY <1>4a, <2>2 DEF Under
    <3>2. lock'[s] # c
      BY <1>1, <1>2, <2>1, <2>2, ShardedAssumption DEF ShardTypes
    <3>3. QED BY <2>2, <3>1, <3>2
  <2>3. CASE d # c
    <3>1. Under(d)' = Under(d) /\ Parent(d)' = Parent(d)
      BY <1>1, <2>3 DEF Under, Parent
    <3>2. QED BY <1>1, <1>2, <2>1, <2>3, <3>1, ShardedAssumption DEF ShardTypes
  <2>4. QED BY <2>2, <2>3
<1>7. Fresh'
  <2>a. call'[c].at \in {"idle", "judge"}
    BY <1>4a
  <2>b. Appending(c)' = {}
    BY <2>a DEF Appending
  <2>c. \A d \in Callers \ {c} : Appending(d)' = Appending(d) /\ call'[d].seen = call[d].seen
    BY <1>1 DEF Appending
  <2>1. /\ Appending(c)' = {}
        /\ \A d \in Callers \ {c} : Appending(d)' = Appending(d) /\ call'[d].seen = call[d].seen
    BY <2>b, <2>c
  <2>n. \A d \in Callers : Appending(d) \subseteq Nodes
    BY <1>1 DEF Appending, ShardTypes, CallOK, Under
  <2> SUFFICES ASSUME NEW d \in Callers, NEW t \in Appending(d)', t \notin raced'
               PROVE  call'[d].seen = edges'[t] /\ \A e \in Callers \ {d} : t \notin Appending(e)'
    BY DEF Fresh
  <2>2. d # c /\ t \in Appending(d) /\ t \notin raced /\ t \in Nodes
    BY <1>1, <2>n, <2>1
  <2>3. call[d].seen = edges[t] /\ \A e \in Callers \ {d} : t \notin Appending(e)
    BY <1>1, <2>2 DEF Fresh
  <2>4. t # n
    BY <1>2, <2>2, <2>3
  <2>5. QED BY <1>4, <2>1, <2>2, <2>3, <2>4
<1>8. Underway'
  <2>1. \A k, m \in Nodes : Elder(k, m)' <=> Elder(k, m)
    BY <1>1 DEF Elder
  <2> SUFFICES ASSUME NEW d \in Callers, Under(d)'
               PROVE  (/\ \A m \in Nodes : Elder(call[d].n, m) => m = Partner(d)
                       /\ call[d].at = "back" =>
                            Partner(d) \in raced \/ Contains(edges[Partner(d)], call[d].n))'
    BY DEF Underway
  <2>2. d # c
    BY <1>4a DEF Under
  <2>3. /\ call'[d] = call[d] /\ Under(d) /\ Partner(d)' = Partner(d) /\ call[d].n \in Nodes
        /\ call[d].at = "back" => Partner(d) \in Nodes
    BY <1>1, <2>2 DEF Under, Partner, ShardTypes, CallOK
  <2>4. /\ \A m \in Nodes : Elder(call[d].n, m) => m = Partner(d)
        /\ call[d].at = "back" => Partner(d) \in raced \/ Contains(edges[Partner(d)], call[d].n)
    BY <1>1, <2>3 DEF Underway
  <2>5. QED BY <1>1, <1>4, <2>1, <2>3, <2>4
<1>9. LinkedOrRaced'
  <2> SUFFICES ASSUME NEW k \in Nodes, NEW m \in Nodes, Child(k, m)', k \notin raced, m \notin raced
               PROVE  Joined(k, m)'
    BY <1>1 DEF LinkedOrRaced
  <2>1. CASE ~Linking(k)
    BY <1>1, <1>4, <2>1, GraphKeeps
  <2>2. CASE Linking(k)
    <3>1. PICK d \in Callers : call[d].at \in {"link", "spawn", "back"} /\ call[d].n = k
      BY <2>2 DEF Linking
    <3>2. d = c
      BY <1>1, <3>1 DEF Child, Linking
    <3>3. k = n /\ Elder(k, m)
      BY <1>1, <3>1, <3>2 DEF Child, Elder, n
    <3>4. m = p /\ Contains(edges[m], k)
      BY <1>1, <1>2, <3>3 DEF Underway, Partner, n, p
    <3>5. QED BY <1>4, <3>3, <3>4 DEF Joined
  <2>3. QED BY <2>1, <2>2
<1>10. QED BY <1>5, <1>6, <1>7, <1>8, <1>9 DEF ShardInv

LEMMA InsertKeeps ==
  ASSUME ShardInv, NEW c \in Callers, NEW pid \in Pids, NEW id \in {pid, File},
         NEW parent \in Pids \cup {0}, NEW at \in 0 .. now, Insert(c, id, pid, parent, at)
  PROVE  ShardInv'
<1> DEFINE n == Len(node) + 1
           new == [id |-> id, pid |-> pid, parent |-> parent, at |-> at]
<1>1. /\ ShardTypes /\ LocksHeld /\ Fresh /\ Underway /\ LinkedOrRaced
      /\ \A d \in Callers \ {c} : call'[d] = call[d]
      /\ call[c].at = "idle" /\ UNCHANGED <<now, lock, raced>>
      /\ call'[c] = IF id # File /\ parent > 0 THEN [at |-> "link", n |-> n]
                                               ELSE Judging(n, 1)
  BY DEF ShardInv, ShardTypes, Insert, Idle
<1>2. /\ node \in Seq(NodeRec) /\ edges \in Seq(Seq(Nat)) /\ Len(edges) = Len(node)
      /\ Len(node) \in Nat /\ Nodes = 1 .. Len(node) /\ n \notin Nodes /\ at \in Nat
      /\ \A k \in Nodes : k < n
  BY <1>1 DEF ShardTypes, Nodes
<1>3. /\ new \in NodeRec /\ id \in Ids
  BY <1>2 DEF NodeRec, Ids
<1>4. /\ node' \in Seq(NodeRec) /\ Len(node') = n /\ node'[n] = new
      /\ \A k \in Nodes : node'[k] = node[k]
      /\ Nodes' = Nodes \cup {n}
  <2>1. node' = Append(node, new)
    BY DEF Insert
  <2>2. /\ node' \in Seq(NodeRec) /\ Len(node') = n /\ node'[n] = new
        /\ \A k \in Nodes : node'[k] = node[k]
    BY <1>2, <1>3, <2>1, AppendProperties
  <2>3. Nodes' = 1 .. Len(node')
    BY <2>2 DEF Nodes
  <2>4. QED BY <1>2, <2>2, <2>3
<1>5. /\ edges' \in Seq(Seq(Nat)) /\ Len(edges') = n
      /\ \A k \in Nodes : edges'[k] = edges[k]
  <2>1. edges' = Append(edges, <<>>) /\ <<>> \in Seq(Nat)
    BY DEF Insert
  <2>2. QED BY <1>2, <2>1, AppendProperties
<1>6. /\ DOMAIN shard' \subseteq DOMAIN shard \cup {id}
      /\ \A i \in DOMAIN shard' : shard'[i] = n \/ (i \in DOMAIN shard /\ shard'[i] = shard[i])
  BY DEF Insert
<1>7. \A d \in Callers : call[d].at # "idle" => d # c /\ call'[d] = call[d] /\ call[d].n \in Nodes
  BY <1>1 DEF ShardTypes, CallOK
<1>8. /\ ~Under(c)' /\ call'[c].at \in {"link", "judge", "idle"}
      /\ call'[c].at # "idle" => call'[c].n = n
      /\ call'[c].at = "link" <=> id # File /\ parent > 0
  <2>1. CASE id # File /\ parent > 0
    BY <1>1, <2>1 DEF Under
  <2>2. CASE ~ (id # File /\ parent > 0)
    <3>1. call'[c] = Judging(n, 1)
      BY <1>1, <2>2
    <3> HIDE DEF n
    <3>2. QED BY <2>2, <3>1, JudgingAt DEF Under
  <2>3. QED BY <2>1, <2>2
<1>9. \A d \in Callers : Under(d)' <=> Under(d)
  BY <1>1, <1>8 DEF Under
<1>10. \A k, m \in Nodes : Elder(k, m)' => Elder(k, m)
  <2> SUFFICES ASSUME NEW k \in Nodes, NEW m \in Nodes, Elder(k, m)' PROVE Elder(k, m)
    OBVIOUS
  <2>1. shard'[node[k].parent] = m /\ node[k].parent \in DOMAIN shard' /\ m # n /\ m <= k
    BY <1>2, <1>4 DEF Elder
  <2>2. QED BY <1>6, <2>1 DEF Elder
<1> HIDE DEF n, new
<1>11. ShardTypes'
  <2>1. ASSUME NEW d \in Callers PROVE CallOK(d)'
    <3>1. CASE d = c
      <4>1. call'[d].at = "link" => node'[call'[d].n].parent \in Pids
        BY <1>4, <1>8, <3>1, ShardedAssumption DEF new
      <4>2. QED BY <1>4, <1>8, <3>1, <4>1 DEF CallOK, Under
    <3>2. CASE d # c
      <4>1. CallOK(d) /\ call'[d] = call[d] /\ Nodes \subseteq Nodes'
        BY <1>1, <1>4, <3>2 DEF ShardTypes
      <4>2. CASE call[d].at = "idle"
        BY <4>1, <4>2 DEF CallOK, Under
      <4>3. CASE call[d].at # "idle"
        <5>1. call[d].n \in Nodes /\ node'[call[d].n] = node[call[d].n]
          BY <1>4, <1>7, <4>3
        <5>2. QED BY <4>1, <5>1 DEF CallOK, Under
      <4>4. QED BY <4>2, <4>3
    <3>3. QED BY <3>1, <3>2
  <2>2. call' = [d \in Callers |-> call'[d]]
    BY <1>1 DEF ShardTypes, Insert
  <2>3. DOMAIN shard' \subseteq Ids /\ \A i \in DOMAIN shard' : shard'[i] \in Nodes'
    BY <1>1, <1>3, <1>4, <1>6 DEF ShardTypes
  <2>4. QED BY <1>1, <1>4, <1>5, <2>1, <2>2, <2>3 DEF ShardTypes
<1>12. LocksHeld'
  <2>1. \A d \in Callers : Under(d) => Parent(d)' = Parent(d)
    BY <1>4, <1>7 DEF Under, Parent
  <2>2. QED BY <1>1, <1>9, <2>1 DEF LocksHeld, Under
<1>13. Fresh'
  <2>1. \A d \in Callers : Appending(d)' = Appending(d) /\ Appending(d) \subseteq Nodes
    BY <1>1, <1>7, <1>8 DEF Appending, ShardTypes, CallOK, Under
  <2>2. \A d \in Callers : Appending(d) # {} => call'[d] = call[d]
    BY <1>7 DEF Appending
  <2>3. QED BY <1>1, <1>5, <2>1, <2>2 DEF Fresh
<1>14. Underway'
  <2> SUFFICES ASSUME NEW d \in Callers, Under(d)'
               PROVE  (/\ \A m \in Nodes : Elder(call[d].n, m) => m = Partner(d)
                       /\ call[d].at = "back" =>
                            Partner(d) \in raced \/ Contains(edges[Partner(d)], call[d].n))'
    BY DEF Underway
  <2>1. /\ Under(d) /\ call'[d] = call[d] /\ Partner(d)' = Partner(d) /\ call[d].n \in Nodes
        /\ call[d].at = "back" => Partner(d) \in Nodes
    BY <1>1, <1>7, <1>9 DEF Under, Partner, ShardTypes, CallOK
  <2>2. /\ \A m \in Nodes : Elder(call[d].n, m) => m = Partner(d)
        /\ call[d].at = "back" => Partner(d) \in raced \/ Contains(edges[Partner(d)], call[d].n)
    BY <1>1, <2>1 DEF Underway
  <2>3. ASSUME NEW m \in Nodes', Elder(call[d].n, m)' PROVE m = Partner(d)'
    <3>1. m <= call[d].n /\ m # n
      BY <1>2, <2>1, <2>3 DEF Elder, n
    <3>2. m \in Nodes /\ Elder(call[d].n, m)'
      BY <1>4, <2>3, <3>1
    <3>3. Elder(call[d].n, m)
      BY <1>10, <2>1, <3>2 DEF Elder
    <3>4. QED BY <2>1, <2>2, <3>2, <3>3
  <2>4. QED BY <1>1, <1>5, <2>1, <2>2, <2>3
<1>15. LinkedOrRaced'
  <2> SUFFICES ASSUME NEW k \in Nodes', NEW m \in Nodes', Child(k, m)'
               PROVE  (Joined(k, m) \/ k \in raced \/ m \in raced)'
    BY DEF LinkedOrRaced
  <2>1. CASE k = n
    <3>1. call'[c].at # "link"
      BY <1>8, <2>1 DEF Child, Linking
    <3>2. node'[k].parent \in Ids /\ node'[k].id # File /\ node'[k] = new
      BY <1>3, <1>4, <1>6, <1>11, <2>1 DEF Child, ShardTypes
    <3>3. parent \in Ids /\ id # File /\ ~(parent > 0)
      BY <1>8, <3>1, <3>2 DEF new
    <3>4. QED BY <3>3, ShardedAssumption DEF Ids, File
  <2>2. CASE k \in Nodes
    <3>1. m \in Nodes /\ m # n
      BY <1>2, <1>4, <2>2 DEF Child, n
    <3>2. Elder(k, m) /\ node[k].id # File
      BY <1>4, <1>10, <2>2, <3>1 DEF Child, Elder
    <3>3. ~Linking(k)
      BY <1>7 DEF Child, Linking
    <3>4. Child(k, m)
      BY <3>2, <3>3 DEF Child, Elder
    <3>5. QED BY <1>1, <1>5, <2>2, <3>1, <3>4 DEF LinkedOrRaced, Joined
  <2>3. QED BY <1>4, <2>1, <2>2
<1>16. QED BY <1>11, <1>12, <1>13, <1>14, <1>15 DEF ShardInv

LEMMA IngestKeeps == ASSUME ShardInv, NEW c \in Callers, Ingest(c) PROVE ShardInv'
<1>0. ShardTypes /\ now \in Nat /\ CallOK(c)
  BY DEF ShardInv, ShardTypes
<1>1. ASSUME Enter(c) PROVE ShardInv'
  <2>1. PICK pid \in Pids, at \in 0 .. now :
          \/ \E parent \in (Pids \cup {0}) \ {pid} : Insert(c, pid, pid, parent, at)
          \/ Insert(c, File, pid, 0, at)
    BY <1>1 DEF Enter
  <2>2. ASSUME NEW parent \in (Pids \cup {0}) \ {pid}, Insert(c, pid, pid, parent, at) PROVE ShardInv'
    BY <2>2, InsertKeeps
  <2>3. CASE Insert(c, File, pid, 0, at)
    BY <2>3, InsertKeeps
  <2>4. QED BY <2>1, <2>2, <2>3
<1>2. ASSUME Orphan(c) PROVE ShardInv'
  <2>1. call[c].n \in Nodes
    BY <1>0, <1>2 DEF Orphan, CallOK
  <2> DEFINE v == Judging(call[c].n, 1)
  <2>2. /\ v.at \notin {"link", "spawn", "back"}
        /\ v.at # "idle" => v.n = call[c].n
        /\ call' = [call EXCEPT ![c] = v]
        /\ ~Under(c) /\ Parent(c) \notin DOMAIN shard
    BY <1>2, JudgingAt DEF Orphan, Under
  <2> HIDE DEF v
  <2>3. UNCHANGED <<now, node, edges, shard, lock, raced>>
    BY <1>2 DEF Orphan
  <2>4. QED BY <1>0, <2>1, <2>2, <2>3, QuietKeeps
<1>3. ASSUME Judge(c) \/ Send(c) PROVE ShardInv'
  <2>1. /\ UNCHANGED <<now, node, edges, shard, lock, raced>>
        /\ call[c].at \in {"judge", "send"} /\ call[c].n \in Nodes
    BY <1>0, <1>3 DEF Judge, Send, CallOK
  <2>2. /\ Following(c).at \notin {"link", "spawn", "back"}
        /\ Following(c).at # "idle" => Following(c).n \in Nodes
    BY <2>1, JudgingAt DEF Following
  <2>3. ~Under(c) /\ call[c].at # "link"
    BY <2>1 DEF Under
  <2>4. CASE call' = [call EXCEPT ![c] = Following(c)]
    BY <1>0, <2>1, <2>2, <2>3, <2>4, QuietKeeps
  <2>5. ASSUME NEW r, NEW root, NEW chain,
               call' = [call EXCEPT ![c] = [at |-> "send", n |-> call[c].n, rule |-> r,
                                            root |-> root, chain |-> chain]]
        PROVE  ShardInv'
    <3> DEFINE v == [at |-> "send", n |-> call[c].n, rule |-> r, root |-> root, chain |-> chain]
    <3>1. v.at = "send" /\ v.n = call[c].n /\ call' = [call EXCEPT ![c] = v]
      BY <2>5
    <3> HIDE DEF v
    <3>2. QED BY <1>0, <2>1, <2>3, <3>1, QuietKeeps
  <2>6. QED BY <1>3, <2>4, <2>5 DEF Judge, Send
<1>4. QED BY <1>1, <1>2, <1>3, LinkKeeps, SpawnedKeeps, BackKeeps DEF Ingest

LEMMA OthersKeep ==
  ASSUME ShardInv, UNCHANGED <<node, edges, shard, lock, call, raced>>, now' \in Nat
  PROVE  ShardInv'
<1>1. ShardTypes'
  BY DEF ShardInv, ShardTypes, CallOK, Under, Nodes
<1>2. LocksHeld' /\ Fresh' /\ Underway'
  BY DEF ShardInv, LocksHeld, Parent, Fresh, Appending, Underway, Under, Elder, Partner, Nodes
<1>3. LinkedOrRaced'
  BY DEF ShardInv, LinkedOrRaced, Child, Joined, Linking, Nodes
<1>4. QED BY <1>1, <1>2, <1>3 DEF ShardInv

LEMMA ShardNext == ShardInv /\ [Next]_vars => ShardInv'
<1> SUFFICES ASSUME ShardInv, [Next]_vars PROVE ShardInv'
  OBVIOUS
<1>1. now \in Nat
  BY DEF ShardInv, ShardTypes
<1>2. CASE \E c \in Callers : Ingest(c)
  BY <1>2, IngestKeeps
<1>3. CASE SuppressAlert \/ Take \/ Clock \/ UNCHANGED vars
  <2>1. UNCHANGED <<node, edges, shard, lock, call, raced>> /\ now' \in Nat
    BY <1>1, <1>3 DEF SuppressAlert, Take, Clock, vars
  <2>2. QED BY <2>1, OthersKeep
<1>4. QED BY <1>2, <1>3 DEF Next

LEMMA ShardInvAlways == Spec => []ShardInv
BY ShardInit, ShardNext, PTL DEF Spec

(* No goroutine waits for a shard's lock while it holds one, and no lock is left behind by *)
(* a goroutine that has gone on: Ingest cannot deadlock, however callers' shards cross.    *)
THEOREM LocksHeldAlways == Spec => []LocksHeld
BY ShardInvAlways, PTL DEF ShardInv

(* A process is linked both ways with a parent that was there before it, unless two appends *)
(* to one of the two nodes have overlapped: no expiry, no reuse of a PID and no other       *)
(* order of the calls loses an edge.                                                        *)
THEOREM LinkedOrRacedAlways == Spec => []LinkedOrRaced
BY ShardInvAlways, PTL DEF ShardInv

-----------------------------------------------------------------------------
(* Row i of the walk, given the next one; the last has no next one. *)
Row(r, i, onward) == [m \in Nodes |-> Extended(r, i, m, onward)]

LEMMA LastRow ==
  ASSUME NEW r, NEW x, NEW y PROVE Row(r, Len(r.sequence), x) = Row(r, Len(r.sequence), y)
<1>1. ASSUME NEW m \in Nodes
      PROVE  Extended(r, Len(r.sequence), m, x) = Extended(r, Len(r.sequence), m, y)
  BY Zenon DEF Extended
<1>2. QED BY <1>1, Zenon DEF Row

LEMMA WalkExists ==
  ASSUME NEW r, Len(r.sequence) \in Nat \ {0}
  PROVE  \E f : f = [i \in 1 .. Len(r.sequence) |-> Row(r, i, f[i + 1])]
<1> DEFINE n == Len(r.sequence)
           R(i, x) == Row(r, i, x)
           Fits(f, u) == f = [i \in n - u .. n |-> R(i, f[i + 1])]
           T == {u \in 0 .. n - 1 : ~ \E f : Fits(f, u)}
<1>0. n \in Nat \ {0} /\ \A x, y : R(n, x) = R(n, y)
  BY LastRow
<1> HIDE DEF n, R
<1>1. T = {}
  <2>1. SUFFICES ASSUME T # {} PROVE FALSE
    OBVIOUS
  <2>2. PICK u \in T : \A v \in T : u <= v
    <3>1. T \in SUBSET Nat
      BY <1>0
    <3>2. QED BY <2>1, <3>1, LeastNat
  <2>3. u \in 0 .. n - 1 /\ ~ \E f : Fits(f, u)
    OBVIOUS
  <2>4. CASE u = 0
    <3> DEFINE g == [i \in n .. n |-> R(n, 0)]
    <3>1. ASSUME NEW i \in n .. n PROVE g[i] = R(i, g[i + 1])
      <4>1. i = n /\ R(n, 0) = R(n, g[i + 1])
        BY <1>0
      <4>2. QED BY <4>1
    <3>2. g = [i \in n .. n |-> g[i]] /\ n - u = n
      BY <1>0, <2>4
    <3> HIDE DEF g
    <3>3. Fits(g, u)
      BY <3>1, <3>2
    <3>4. QED BY <2>3, <3>3
  <2>5. CASE u # 0
    <3>1. u - 1 \in 0 .. n - 1 /\ ~ (u <= u - 1)
      BY <1>0, <2>3, <2>5
    <3>2. u - 1 \notin T
      BY <2>2, <3>1
    <3>3. PICK f : Fits(f, u - 1)
      BY <3>1, <3>2
    <3>4. \A i \in n - u + 1 .. n : f[i] = R(i, f[i + 1])
      BY <1>0, <2>3, <2>5, <3>3
    <3> DEFINE g == [i \in n - u .. n |-> IF i = n - u THEN R(i, f[i + 1]) ELSE f[i]]
    <3>5. ASSUME NEW i \in n - u .. n PROVE g[i] = R(i, g[i + 1])
      <4>1. g[i] = R(i, f[i + 1])
        <5>1. i = n - u \/ i \in n - u + 1 .. n
          BY <1>0, <2>3
        <5>2. QED BY <3>4, <5>1
      <4>2. CASE i = n
        BY <1>0, <4>1, <4>2
      <4>3. CASE i # n
        <5>1. i + 1 \in n - u .. n /\ i + 1 # n - u
          BY <1>0, <2>3, <4>3
        <5>2. g[i + 1] = f[i + 1]
          BY <5>1
        <5>3. QED BY <4>1, <5>2
      <4>4. QED BY <4>2, <4>3
    <3>6. g = [i \in n - u .. n |-> g[i]]
      OBVIOUS
    <3> HIDE DEF g
    <3>7. Fits(g, u)
      BY <3>5, <3>6
    <3>8. QED BY <2>3, <3>7
  <2>6. QED BY <2>4, <2>5
<1>2. n - 1 \in 0 .. n - 1 /\ n - (n - 1) = 1
  BY <1>0
<1>3. \E f : Fits(f, n - 1)
  BY <1>1, <1>2
<1>4. \E f : f = [i \in 1 .. n |-> R(i, f[i + 1])]
  BY <1>2, <1>3
<1>5. QED BY <1>4, Zenon DEF R, n

(* What the walk finds for a node is one step of checkSequence and what it finds after it. *)
LEMMA WalkUnfolds ==
  ASSUME NEW r, r.sequence \in Seq({"PROCESS", "FILE"}), NEW i \in 1 .. Len(r.sequence), NEW m \in Nodes
  PROVE  Walk(r)[i][m] = Extended(r, i, m, Walk(r)[i + 1])
<1>1. DOMAIN r.sequence = 1 .. Len(r.sequence) /\ Len(r.sequence) \in Nat \ {0}
  OBVIOUS
<1>2. \E f : f = [j \in 1 .. Len(r.sequence) |-> Row(r, j, f[j + 1])]
  BY <1>1, WalkExists
<1>3. \E f : f = [j \in DOMAIN r.sequence |-> [k \in Nodes |-> Extended(r, j, k, f[j + 1])]]
  BY <1>1, <1>2, Zenon DEF Row
<1>4. Walk(r) = [j \in DOMAIN r.sequence |-> [k \in Nodes |-> Extended(r, j, k, Walk(r)[j + 1])]]
  BY <1>3, Zenon DEF Walk
<1> DEFINE W == Walk(r)
<1>5. W = [j \in DOMAIN r.sequence |-> [k \in Nodes |-> Extended(r, j, k, W[j + 1])]]
  BY <1>4
<1>6. i \in DOMAIN r.sequence
  BY <1>1
<1> HIDE DEF W
<1>7. W[i] = [k \in Nodes |-> Extended(r, i, k, W[i + 1])]
  BY <1>5, <1>6
<1>8. QED BY <1>7 DEF W

-----------------------------------------------------------------------------
(* Every edge leads to a parent or a child. *)
Related(s, m) == \A j \in DOMAIN s : s[j] \in Nodes /\ Kin(m, s[j])

Nearby == \A m \in Nodes : Related(edges[m], m)

(* A chain of the types from the i-th on that starts at m. *)
Fitting(r, i, m, s) ==
  /\ s \in Seq(Nodes) /\ Len(s) = Len(r.sequence) - i + 1 /\ s[1] = m
  /\ \A j \in 1 .. Len(s) : TypeOf(s[j]) = r.sequence[i + j - 1]
  /\ \A j \in 1 .. Len(s) - 1 : Kin(s[j], s[j + 1])

LEMMA OnwardFits ==
  ASSUME NEW r, NEW n \in Nat, n = Len(r.sequence), NEW i \in 1 .. n - 1, NEW m \in Nodes, NEW k \in Nodes,
         NEW s, Fitting(r, i + 1, k, s), Kin(m, k), TypeOf(m) = r.sequence[i]
  PROVE  Fitting(r, i, m, <<m>> \o s)
<1> DEFINE t == <<m>> \o s
<1>1. /\ s \in Seq(Nodes) /\ Len(s) = n - (i + 1) + 1 /\ s[1] = k /\ Len(s) \in Nat
      /\ \A j \in 1 .. Len(s) : TypeOf(s[j]) = r.sequence[i + 1 + j - 1]
      /\ \A j \in 1 .. Len(s) - 1 : Kin(s[j], s[j + 1])
  BY DEF Fitting
<1>2. /\ t \in Seq(Nodes) /\ Len(t) = Len(s) + 1 /\ t[1] = m
      /\ \A j \in 1 .. Len(s) : t[j + 1] = s[j]
  <2>1. <<m>> \in Seq(Nodes) /\ Len(<<m>>) = 1 /\ <<m>>[1] = m
    OBVIOUS
  <2> DEFINE h == <<m>>
  <2> HIDE DEF h
  <2>2. h \in Seq(Nodes) /\ Len(h) = 1 /\ h[1] = m
    BY <2>1 DEF h
  <2>3. /\ h \o s \in Seq(Nodes) /\ Len(h \o s) = 1 + Len(s)
        /\ \A j \in 1 .. 1 + Len(s) : (h \o s)[j] = IF j <= 1 THEN h[j] ELSE s[j - 1]
    <3>1. /\ h \o s \in Seq(Nodes) /\ Len(h \o s) = Len(h) + Len(s)
          /\ \A j \in 1 .. Len(h) + Len(s) : (h \o s)[j] = IF j <= Len(h) THEN h[j] ELSE s[j - Len(h)]
      BY <1>1, <2>2, ConcatProperties, Zenon
    <3>2. QED BY <2>2, <3>1
  <2>4. t = h \o s
    BY DEF h
  <2> HIDE DEF t
  <2>5. t[1] = m
    BY <1>1, <2>2, <2>3, <2>4
  <2>6. ASSUME NEW j \in 1 .. Len(s) PROVE t[j + 1] = s[j]
    <3>1. j + 1 \in 1 .. 1 + Len(s) /\ ~ (j + 1 <= 1) /\ (j + 1) - 1 = j
      BY <1>1
    <3>2. QED BY <2>3, <2>4, <3>1
  <2>7. Len(s) \in Nat
    BY <1>1
  <2>8. t \in Seq(Nodes)
    BY <2>3, <2>4, Zenon
  <2>9. Len(t) = Len(s) + 1
    <3>1. Len(t) = 1 + Len(s)
      BY <2>3, <2>4, Zenon
    <3>2. QED BY <2>7, <3>1
  <2>10. QED BY <2>5, <2>6, <2>8, <2>9, Zenon
<1> HIDE DEF t
<1>3. Len(t) = n - i + 1
  BY <1>1, <1>2
<1>4. ASSUME NEW j \in 1 .. Len(t) PROVE TypeOf(t[j]) = r.sequence[i + j - 1]
  <2>1. CASE j = 1
    BY <1>2, <2>1
  <2>2. CASE j # 1
    <3>1. j - 1 \in 1 .. Len(s) /\ (j - 1) + 1 = j /\ i + 1 + (j - 1) - 1 = i + j - 1
      BY <1>1, <1>2, <2>2
    <3>2. t[j] = s[j - 1] /\ TypeOf(s[j - 1]) = r.sequence[i + 1 + (j - 1) - 1]
      BY <1>1, <1>2, <3>1
    <3>3. QED BY <3>1, <3>2
  <2>3. QED BY <2>1, <2>2
<1>5. ASSUME NEW j \in 1 .. Len(t) - 1 PROVE Kin(t[j], t[j + 1])
  <2>1. j \in 1 .. Len(s)
    BY <1>1, <1>2
  <2>2. CASE j = 1
    BY <1>1, <1>2, <2>1, <2>2
  <2>3. CASE j # 1
    <3>1. j - 1 \in 1 .. Len(s) - 1 /\ j - 1 \in 1 .. Len(s) /\ (j - 1) + 1 = j
      BY <1>1, <2>1, <2>3
    <3>2. t[j] = s[j - 1] /\ t[j + 1] = s[j] /\ Kin(s[j - 1], s[j])
      BY <1>1, <1>2, <2>1, <3>1
    <3>3. QED BY <3>2
  <2>4. QED BY <2>2, <2>3
<1>6. QED BY <1>2, <1>3, <1>4, <1>5 DEF t, Fitting

(* The edge that is followed is one of those that lead on. *)
LEMMA LeastOf == ASSUME NEW S \in SUBSET Nat, S # {} PROVE Min(S) \in S /\ \A y \in S : Min(S) <= y
BY LeastNat DEF Min

LEMMA ExtendedFits ==
  ASSUME NEW r, NEW n \in Nat, n = Len(r.sequence), NEW i \in 1 .. n, NEW m \in Nodes, NEW onward,
         edges[m] \in Seq(Nat), Related(edges[m], m),
         i < n => \A k \in Nodes : onward[k] # <<>> => Fitting(r, i + 1, k, onward[k]),
         Extended(r, i, m, onward) # <<>>
  PROVE  Fitting(r, i, m, Extended(r, i, m, onward))
<1> DEFINE near(j) == node[edges[m][j]].at - node[m].at <= r.window
           good == {j \in DOMAIN edges[m] : near(j) /\ onward[edges[m][j]] # <<>>}
<1>1. Extended(r, i, m, onward) = IF TypeOf(m) # r.sequence[i] THEN <<>>
                                  ELSE IF i = n THEN <<m>>
                                  ELSE IF good = {} THEN <<>> ELSE <<m>> \o onward[edges[m][Min(good)]]
  BY Zenon DEF Extended
<1>2. good \subseteq DOMAIN edges[m] /\ \A j \in good : onward[edges[m][j]] # <<>>
  OBVIOUS
<1>3. good \subseteq Nat
  BY <1>2
<1> HIDE DEF good
<1>4. TypeOf(m) = r.sequence[i]
  BY <1>1
<1>5. CASE i = n
  <2>1. Extended(r, i, m, onward) = <<m>>
    BY <1>1, <1>4, <1>5
  <2>2. QED BY <1>4, <1>5, <2>1 DEF Fitting
<1>6. CASE i # n
  <2>1. good # {} /\ Extended(r, i, m, onward) = <<m>> \o onward[edges[m][Min(good)]]
    BY <1>1, <1>4, <1>6
  <2>2. Min(good) \in good
    BY <1>3, <2>1, LeastOf
  <2> DEFINE k == edges[m][Min(good)]
  <2>3. k \in Nodes /\ Kin(m, k) /\ onward[k] # <<>>
    BY <1>2, <2>2 DEF Related
  <2> HIDE DEF k
  <2>4. i \in 1 .. n - 1 /\ Fitting(r, i + 1, k, onward[k])
    BY <1>6, <2>3
  <2>5. Fitting(r, i, m, <<m>> \o onward[k])
    BY <1>4, <2>3, <2>4, OnwardFits
  <2>6. QED BY <2>1, <2>5 DEF k
<1>7. QED BY <1>5, <1>6

(* checkSequence answers with a chain of the types it was asked for, along the edges. *)
LEMMA ChainFits ==
  ASSUME NEW r, r.sequence \in Seq({"PROCESS", "FILE"}), edges \in Seq(Seq(Nat)), Len(edges) = Len(node),
         node \in Seq(NodeRec), Nearby, NEW m \in Nodes, Chain(r, m) # <<>>
  PROVE  Fitting(r, 1, m, Chain(r, m))
<1> DEFINE n == Len(r.sequence)
           W == Walk(r)
           Sound_(i) == \A k \in Nodes : W[i][k] # <<>> => Fitting(r, i, k, W[i][k])
           T == {u \in 0 .. n - 1 : ~Sound_(n - u)}
<1>1. n \in Nat /\ \A i \in 1 .. n, k \in Nodes : W[i][k] = Extended(r, i, k, W[i + 1])
  BY WalkUnfolds
<1>2. \A k \in Nodes : edges[k] \in Seq(Nat) /\ Related(edges[k], k)
  BY DEF Nodes, Nearby
<1>3. r.sequence # <<>> /\ Chain(r, m) = W[1][m]
  BY DEF Chain
<1> HIDE DEF n, W
<1>4. ASSUME NEW i \in 1 .. n, i < n => Sound_(i + 1) PROVE Sound_(i)
  <2> SUFFICES ASSUME NEW k \in Nodes, W[i][k] # <<>> PROVE Fitting(r, i, k, W[i][k])
    OBVIOUS
  <2>1. W[i][k] = Extended(r, i, k, W[i + 1])
    BY <1>1
  <2>2. i < n => \A q \in Nodes : W[i + 1][q] # <<>> => Fitting(r, i + 1, q, W[i + 1][q])
    BY <1>4
  <2> DEFINE on == W[i + 1]
  <2>3. i < n => \A q \in Nodes : on[q] # <<>> => Fitting(r, i + 1, q, on[q])
    BY <2>2
  <2>4. n = Len(r.sequence) /\ Extended(r, i, k, on) # <<>>
    BY <2>1 DEF n
  <2> HIDE DEF on
  <2>5. Fitting(r, i, k, Extended(r, i, k, on))
    BY <1>1, <1>2, <2>3, <2>4, ExtendedFits
  <2>6. QED BY <2>1, <2>5 DEF on
<1> HIDE DEF Sound_
<1>5. T = {}
  <2>1. SUFFICES ASSUME T # {} PROVE FALSE
    OBVIOUS
  <2>2. PICK u \in T : \A v \in T : u <= v
    <3>1. T \in SUBSET Nat
      BY <1>1
    <3>2. QED BY <2>1, <3>1, LeastNat
  <2>3. u \in 0 .. n - 1 /\ ~Sound_(n - u)
    OBVIOUS
  <2>4. n - u \in 1 .. n
    BY <1>1, <2>3
  <2>5. n - u < n => Sound_((n - u) + 1)
    <3>1. SUFFICES ASSUME n - u < n PROVE Sound_((n - u) + 1)
      OBVIOUS
    <3>2. u - 1 \in 0 .. n - 1 /\ ~ (u <= u - 1) /\ n - (u - 1) = (n - u) + 1
      BY <1>1, <2>3, <3>1
    <3>3. u - 1 \notin T
      BY <2>2, <3>2
    <3>4. QED BY <3>2, <3>3
  <2>6. QED BY <1>4, <2>3, <2>4, <2>5
<1>6. n # 0
  BY <1>3 DEF n
<1>7. n - 1 \in 0 .. n - 1 /\ n - (n - 1) = 1
  BY <1>1, <1>6
<1>8. Sound_(1)
  BY <1>5, <1>7
<1>9. QED BY <1>3, <1>8 DEF Sound_

-----------------------------------------------------------------------------
(* What AlertSound says of one alert; and that it stays so when nodes are added. *)
Genuine(rule, root, chain) ==
  /\ chain \in Seq(Nodes)
  /\ [j \in DOMAIN chain |-> TypeOf(chain[j])] = Rules[rule].sequence
  /\ \A j \in 1 .. Len(chain) - 1 : Kin(chain[j], chain[j + 1])
  /\ \E n \in ToSet(chain) : node[n].pid = root /\ \A m \in ToSet(chain) : node[n].at <= node[m].at

LEMMA MatchGenuine ==
  ASSUME NEW rule \in DOMAIN Rules, edges \in Seq(Seq(Nat)), Len(edges) = Len(node),
         node \in Seq(NodeRec), Nearby, NEW m \in Nodes, Chain(Rules[rule], m) # <<>>
  PROVE  Genuine(rule, Root(Chain(Rules[rule], m)), Chain(Rules[rule], m))
<1> DEFINE r == Rules[rule]
           s == Chain(r, m)
<1>1. r.sequence \in Seq({"PROCESS", "FILE"})
  <2>1. Rules[rule] \in [sequence : Seq({"PROCESS", "FILE"}), window : Nat]
    <3> DEFINE S == [sequence : Seq({"PROCESS", "FILE"}), window : Nat]
    <3>1. Rules \in Seq(S)
      BY ShardedAssumption
    <3> HIDE DEF S
    <3>2. Rules[rule] \in S
      BY <3>1
    <3>3. QED BY <3>2 DEF S
  <2>2. QED BY <2>1
<1>2. Fitting(r, 1, m, s)
  BY <1>1, ChainFits
<1> HIDE DEF r, s
<1>3. /\ s \in Seq(Nodes) /\ Len(s) = Len(r.sequence) /\ Len(s) \in Nat /\ DOMAIN s = 1 .. Len(s)
      /\ \A j \in 1 .. Len(s) : TypeOf(s[j]) = r.sequence[j]
      /\ \A j \in 1 .. Len(s) - 1 : Kin(s[j], s[j + 1])
  <2>1. /\ s \in Seq(Nodes) /\ Len(s) = Len(r.sequence) - 1 + 1
        /\ \A j \in 1 .. Len(s) : TypeOf(s[j]) = r.sequence[1 + j - 1]
        /\ \A j \in 1 .. Len(s) - 1 : Kin(s[j], s[j + 1])
    BY <1>2, Zenon DEF Fitting
  <2>2. Len(r.sequence) \in Nat /\ Len(s) \in Nat /\ DOMAIN s = 1 .. Len(s)
    BY <1>1, <2>1
  <2>3. \A j \in 1 .. Len(s) : 1 + j - 1 = j
    BY <2>2
  <2>4. QED BY <2>1, <2>2, <2>3
<1>4. [j \in DOMAIN s |-> TypeOf(s[j])] = r.sequence
  <2> DEFINE q == r.sequence
  <2>1. q = [j \in 1 .. Len(q) |-> q[j]]
    BY <1>1
  <2> HIDE DEF q
  <2>2. [j \in DOMAIN s |-> TypeOf(s[j])] = [j \in 1 .. Len(q) |-> q[j]]
    BY <1>3 DEF q
  <2>3. QED BY <2>1, <2>2 DEF q
<1>5. s # <<>> /\ s[1] \in Nodes /\ 1 \in DOMAIN s
  BY <1>3 DEF r, s
<1>6. \A j \in DOMAIN s : node[s[j]].at \in Nat
  <2>1. \A k \in Nodes : node[k] \in NodeRec
    BY DEF Nodes
  <2>2. \A k \in Nodes : node[k].at \in Nat
    BY <2>1 DEF NodeRec
  <2>3. \A j \in DOMAIN s : s[j] \in Nodes
    BY <1>3
  <2>4. QED BY <2>2, <2>3
<1> DEFINE times == {node[s[i]].at : i \in DOMAIN s}
           first == {i \in DOMAIN s : node[s[i]].at = Min(times)}
<1>7. Min(times) \in times /\ \A t \in times : Min(times) <= t
  <2>1. times \in SUBSET Nat /\ times # {}
    BY <1>5, <1>6
  <2>2. QED BY <2>1, LeastOf
<1>8. Min(first) \in first
  <2>1. first \in SUBSET Nat /\ first # {}
    <3>1. PICK i \in DOMAIN s : node[s[i]].at = Min(times)
      BY <1>7
    <3>2. i \in first
      BY <3>1
    <3>3. DOMAIN s \subseteq Nat
      BY <1>3
    <3>4. QED BY <3>2, <3>3
  <2>2. QED BY <2>1, LeastOf
<1>9. Root(s) = node[s[Min(first)]].pid
  BY Zenon DEF Root
<1> DEFINE k == Min(first)
<1>10. k \in DOMAIN s /\ node[s[k]].at = Min(times)
  BY <1>8
<1>11. \A i \in DOMAIN s : node[s[k]].at <= node[s[i]].at
  BY <1>7, <1>10
<1> HIDE DEF k, first, times
<1>12. \E n \in ToSet(s) : node[n].pid = Root(s) /\ \A q \in ToSet(s) : node[n].at <= node[q].at
  <2>1. s[k] \in ToSet(s) /\ node[s[k]].pid = Root(s)
    BY <1>9, <1>10 DEF ToSet, k
  <2>2. \A q \in ToSet(s) : node[s[k]].at <= node[q].at
    BY <1>11 DEF ToSet
  <2>3. QED BY <2>1, <2>2
<1>13. Genuine(rule, Root(s), s)
  BY <1>3, <1>4, <1>12 DEF Genuine, r
<1>14. QED BY <1>13 DEF r, s

LEMMA GenuineStays ==
  ASSUME NEW rule, NEW root, NEW chain, Genuine(rule, root, chain),
         Nodes \subseteq Nodes', \A k \in Nodes : node'[k] = node[k]
  PROVE  Genuine(rule, root, chain)'
<1>1. chain \in Seq(Nodes) /\ Len(chain) \in Nat /\ DOMAIN chain = 1 .. Len(chain)
  BY DEF Genuine
<1>2. \A j \in DOMAIN chain : chain[j] \in Nodes
  BY <1>1
<1>3. chain \in Seq(Nodes')
  <2>1. chain = [j \in 1 .. Len(chain) |-> chain[j]] /\ \A j \in 1 .. Len(chain) : chain[j] \in Nodes'
    BY <1>1, <1>2
  <2>2. QED BY <1>1, <2>1
<1>4. \A j \in DOMAIN chain : TypeOf(chain[j])' = TypeOf(chain[j])
  BY <1>2 DEF TypeOf
<1>5. [j \in DOMAIN chain |-> TypeOf(chain[j])'] = [j \in DOMAIN chain |-> TypeOf(chain[j])]
  BY <1>4
<1>6. ASSUME NEW j \in 1 .. Len(chain) - 1 PROVE Kin(chain[j], chain[j + 1])'
  <2>1. j \in DOMAIN chain /\ j + 1 \in DOMAIN chain
    BY <1>1
  <2>2. chain[j] \in Nodes /\ chain[j + 1] \in Nodes /\ Kin(chain[j], chain[j + 1])
    BY <1>2, <2>1, <1>6 DEF Genuine
  <2>3. QED BY <2>2 DEF Kin
<1>7. \A n \in ToSet(chain) : n \in Nodes
  BY <1>2 DEF ToSet
<1>8. PICK n \in ToSet(chain) : node[n].pid = root /\ \A m \in ToSet(chain) : node[n].at <= node[m].at
  BY DEF Genuine
<1>9. node'[n].pid = root /\ \A m \in ToSet(chain) : node'[n].at <= node'[m].at
  BY <1>7, <1>8
<1>10. QED BY <1>3, <1>5, <1>6, <1>9 DEF Genuine
-----------------------------------------------------------------------------
(* What the reader of alertsChan may get, and what a caller reads and writes on the way *)
(* to it: edges between kin, and the rule it has come to.                               *)
AlertRec == [rule : DOMAIN Rules, root : Pids, chain : Seq(Nat)]

Current == \A i \in DOMAIN shard : node[shard[i]].id = i

Reading(c) ==
  Under(c) => /\ Related(call[c].seen, call[c].target)
              /\ call[c].at = "spawn" => node[call[c].target].id = node[call[c].n].parent
              /\ call[c].at = "back" => node[call[c].parent].id = node[call[c].n].parent

Matching(c) ==
  /\ call[c].at \in {"idle", "link", "spawn", "back", "judge", "send"}
  /\ call[c].at \in {"judge", "send"} => call[c].rule \in DOMAIN Rules
  /\ call[c].at = "send" => Genuine(call[c].rule, call[c].root, call[c].chain)

Delivered ==
  /\ alerts \in Seq(AlertRec) /\ Len(alerts) <= ChanLimit
  /\ \A i \in DOMAIN alerts : Genuine(alerts[i].rule, alerts[i].root, alerts[i].chain)

AlertInv ==
  /\ Nearby /\ Current /\ Delivered
  /\ \A c \in Callers : Reading(c) /\ Matching(c)
  /\ suppressed \subseteq [rule : DOMAIN Rules, root : Pids] /\ raced \subseteq Nodes

LEMMA AlertInit == Init => AlertInv
<1> SUFFICES ASSUME Init PROVE AlertInv
  OBVIOUS
<1>1. /\ node = <<>> /\ shard = <<>> /\ Nodes = {} /\ DOMAIN shard = {} /\ alerts = <<>>
      /\ suppressed = {} /\ raced = {} /\ \A c \in Callers : call[c].at = "idle"
  BY DEF Init, Idle, Nodes
<1>2. Delivered
  BY <1>1, ShardedAssumption DEF Delivered
<1>3. QED BY <1>1, <1>2 DEF AlertInv, Nearby, Current, Reading, Under, Matching

LEMMA RelatedAppend ==
  ASSUME NEW s \in Seq(Nat), NEW m, NEW x \in Nodes, NEW n \in Nat, x = n, Related(s, m), Kin(m, x)
  PROVE  Related(Append(s, x), m)
<1>1. x \in Nat /\ Len(s) \in Nat
  OBVIOUS
<1>2. /\ Append(s, x) \in Seq(Nat) /\ Len(Append(s, x)) = Len(s) + 1
      /\ Append(s, x)[Len(s) + 1] = x /\ \A i \in 1 .. Len(s) : Append(s, x)[i] = s[i]
  BY <1>1, AppendProperties
<1>3. ASSUME NEW j \in DOMAIN Append(s, x)
      PROVE  Append(s, x)[j] \in Nodes /\ Kin(m, Append(s, x)[j])
  <2>1. j \in 1 .. Len(s) + 1
    BY <1>2
  <2>2. CASE j = Len(s) + 1
    BY <1>2, <2>2
  <2>3. CASE j # Len(s) + 1
    <3>1. j \in 1 .. Len(s) /\ j \in DOMAIN s
      BY <1>1, <2>1, <2>3
    <3>2. QED BY <1>2, <3>1 DEF Related
  <2>4. QED BY <2>2, <2>3
<1>4. QED BY <1>3 DEF Related

Growing == Nodes \subseteq Nodes' /\ \A k \in Nodes : node'[k] = node[k]

LEMMA RelatedStays ==
  ASSUME Growing, NEW s, NEW m \in Nodes, Related(s, m) PROVE Related(s, m)'
BY DEF Growing, Related, Kin

(* A step that adds nodes at most, and neither edges nor alerts, to what others do. *)
LEMMA OthersStay ==
  ASSUME ShardInv, AlertInv, Growing, NEW c \in Callers, \A d \in Callers \ {c} : call'[d] = call[d]
  PROVE  \A d \in Callers \ {c} : Reading(d)' /\ Matching(d)'
<1> SUFFICES ASSUME NEW d \in Callers \ {c} PROVE Reading(d)' /\ Matching(d)'
  OBVIOUS
<1>1. call'[d] = call[d] /\ Reading(d) /\ Matching(d) /\ CallOK(d)
  BY DEF AlertInv, ShardInv, ShardTypes
<1>2. Reading(d)'
  <2> SUFFICES ASSUME Under(d)
               PROVE  /\ Related(call[d].seen, call[d].target)'
                      /\ call[d].at = "spawn" => node'[call[d].target].id = node'[call[d].n].parent
                      /\ call[d].at = "back" => node'[call[d].parent].id = node'[call[d].n].parent
    BY <1>1 DEF Reading, Under
  <2>1. /\ call[d].n \in Nodes /\ call[d].target \in Nodes
        /\ call[d].at = "back" => call[d].parent \in Nodes
    BY <1>1 DEF CallOK, Under
  <2>2. /\ Related(call[d].seen, call[d].target)
        /\ call[d].at = "spawn" => node[call[d].target].id = node[call[d].n].parent
        /\ call[d].at = "back" => node[call[d].parent].id = node[call[d].n].parent
    BY <1>1 DEF Reading
  <2>3. Related(call[d].seen, call[d].target)'
    BY <1>1, <2>1, <2>2 DEF Related, Growing, Kin
  <2>4. QED BY <2>1, <2>2, <2>3 DEF Growing
<1>3. Matching(d)'
  BY <1>1, GenuineStays DEF Matching, Growing
<1>4. QED BY <1>2, <1>3

LEMMA DeliveredStays == ASSUME AlertInv, Growing, UNCHANGED alerts PROVE Delivered'
<1>1. Delivered
  BY DEF AlertInv
<1>2. \A i \in DOMAIN alerts : Genuine(alerts[i].rule, alerts[i].root, alerts[i].chain)'
  BY <1>1, GenuineStays DEF Delivered, Growing
<1>3. QED BY <1>1, <1>2 DEF Delivered

(* A step that changes neither the graph nor the alerts. *)
LEMMA CallerMoves ==
  ASSUME ShardInv, AlertInv, UNCHANGED <<node, edges, shard, alerts, suppressed>>, raced' \subseteq Nodes,
         NEW c \in Callers, \A d \in Callers \ {c} : call'[d] = call[d], Reading(c)', Matching(c)'
  PROVE  AlertInv'
<1>1. Growing /\ Nodes' = Nodes
  BY DEF Growing, Nodes
<1>2. Delivered'
  BY <1>1, DeliveredStays
<1>3. \A d \in Callers : Reading(d)' /\ Matching(d)'
  BY <1>1, OthersStay
<1>4. Nearby' /\ Current'
  BY <1>1 DEF AlertInv, Nearby, Related, Kin, Current
<1>5. QED BY <1>1, <1>2, <1>3, <1>4 DEF AlertInv

(* The nodes two appends race for are nodes. *)
LEMMA RacesAt == ASSUME AlertInv, NEW c \in Callers, NEW n \in Nodes PROVE raced \cup Races(c, n) \subseteq Nodes
BY DEF AlertInv, Races

LEMMA LinkAlert == ASSUME ShardInv, AlertInv, NEW c \in Callers, Link(c) PROVE AlertInv'
<1> DEFINE p == shard[Parent(c)]
           n == call[c].n
<1>1. /\ call[c].at = "link" /\ call'[c] = [at |-> "spawn", n |-> n, target |-> p, seen |-> edges[p]]
      /\ \A d \in Callers \ {c} : call'[d] = call[d]
      /\ raced' = raced \cup Races(c, p) /\ Parent(c) \in DOMAIN shard
      /\ UNCHANGED <<node, edges, shard, alerts, suppressed>>
  BY DEF Link, ShardInv, ShardTypes
<1>2. p \in Nodes /\ node[p].id = node[n].parent /\ Related(edges[p], p)
  BY <1>1 DEF ShardInv, ShardTypes, AlertInv, Current, Nearby, Parent
<1>3. /\ call'[c].at = "spawn" /\ call'[c].n = n /\ call'[c].target = p /\ call'[c].seen = edges[p]
  BY <1>1
<1> HIDE DEF n, p
<1>4. Reading(c)'
  BY <1>1, <1>2, <1>3 DEF Reading, Related, Kin, Nodes
<1>5. Matching(c)'
  BY <1>3 DEF Matching
<1>6. raced' \subseteq Nodes
  BY <1>1, <1>2, RacesAt
<1>7. QED BY <1>1, <1>4, <1>5, <1>6, CallerMoves

(* A step that appends kin to the edges of a node. *)
LEMMA EdgeAlert ==
  ASSUME ShardInv, AlertInv, UNCHANGED <<node, shard, alerts, suppressed>>, raced' \subseteq Nodes,
         NEW c \in Callers, \A d \in Callers \ {c} : call'[d] = call[d],
         NEW t \in Nodes, NEW s \in Seq(Nat), NEW x \in Nodes, Related(s, t), Kin(t, x),
         edges' = [edges EXCEPT ![t] = Append(s, x)],
         Nearby' => Reading(c)', Matching(c)'
  PROVE  AlertInv'
<1>1. Growing /\ Nodes' = Nodes
  BY DEF Growing, Nodes
<1>2. Delivered'
  BY <1>1, DeliveredStays
<1>3. \A d \in Callers \ {c} : Reading(d)' /\ Matching(d)'
  BY <1>1, OthersStay
<1>4. Related(Append(s, x), t)
  <2>1. x \in Nat
    BY DEF ShardInv, ShardTypes, Nodes
  <2>2. QED BY <2>1, RelatedAppend
<1>5. DOMAIN edges = Nodes
  BY DEF ShardInv, ShardTypes, Nodes
<1>6. \A m \in Nodes : Related(edges'[m], m)
  BY <1>4, <1>5 DEF AlertInv, Nearby
<1>7. Nearby'
  BY <1>1, <1>6 DEF Nearby, Related, Kin
<1>8. Current'
  BY DEF AlertInv, Current
<1>9. QED BY <1>1, <1>2, <1>3, <1>7, <1>8 DEF AlertInv

LEMMA SpawnedAlert == ASSUME ShardInv, AlertInv, NEW c \in Callers, Spawned(c) PROVE AlertInv'
<1> DEFINE n == call[c].n
           p == call[c].target
           s == call[c].seen
           e == edges'[n]
<1>1. /\ call[c].at = "spawn"
      /\ \A d \in Callers \ {c} : call'[d] = call[d]
      /\ call'[c] = [at |-> "back", n |-> n, target |-> n, parent |-> p, seen |-> e]
      /\ edges' = [edges EXCEPT ![p] = Append(s, n)]
      /\ raced' = raced \cup Races(c, n)
      /\ UNCHANGED <<node, shard, alerts, suppressed>>
  BY DEF Spawned, ShardInv, ShardTypes
<1>2. /\ n \in Nodes /\ p \in Nodes /\ s \in Seq(Nat)
      /\ Related(s, p) /\ node[p].id = node[n].parent
  BY <1>1 DEF ShardInv, ShardTypes, CallOK, Under, AlertInv, Reading
<1>3. Kin(p, n)
  BY <1>2 DEF Kin
<1>4. raced' \subseteq Nodes
  BY <1>1, <1>2, RacesAt
<1> HIDE DEF n, p, s, e
<1>5. call'[c].at = "back" /\ call'[c].n = n /\ call'[c].target = n /\ call'[c].parent = p /\ call'[c].seen = e
  BY <1>1
<1>6. Matching(c)'
  BY <1>5 DEF Matching
<1>7. Nearby' => Reading(c)'
  <2> SUFFICES ASSUME Nearby' PROVE Reading(c)'
    OBVIOUS
  <2>1. \A m \in Nodes : \A j \in DOMAIN edges'[m] : edges'[m][j] \in Nodes /\ Kin(m, edges'[m][j])
    BY <1>1 DEF Nearby, Related, Nodes, Kin
  <2>2. \A j \in DOMAIN e : e[j] \in Nodes /\ Kin(n, e[j])
    BY <1>2, <2>1 DEF e
  <2>3. /\ \A j \in DOMAIN call'[c].seen : /\ call'[c].seen[j] \in Nodes
                                          /\ Kin(call'[c].target, call'[c].seen[j])
        /\ node[call'[c].parent].id = node[call'[c].n].parent
    BY <1>2, <1>5, <2>2
  <2>4. QED BY <1>1, <1>5, <2>3 DEF Reading, Related, Kin, Nodes
<1>8. QED BY <1>1, <1>2, <1>3, <1>4, <1>6, <1>7, EdgeAlert

LEMMA BackAlert == ASSUME ShardInv, AlertInv, NEW c \in Callers, Back(c) PROVE AlertInv'
<1> DEFINE n == call[c].n
           p == call[c].parent
           s == call[c].seen
<1>1. /\ call[c].at = "back"
      /\ \A d \in Callers \ {c} : call'[d] = call[d]
      /\ call'[c] = Judging(n, 1)
      /\ edges' = [edges EXCEPT ![n] = Append(s, p)]
      /\ UNCHANGED <<node, shard, alerts, suppressed, raced>>
  BY DEF Back, ParentOf, ShardInv, ShardTypes
<1>2. /\ n \in Nodes /\ p \in Nodes /\ s \in Seq(Nat)
      /\ Related(s, n) /\ node[p].id = node[n].parent
  BY <1>1 DEF ShardInv, ShardTypes, CallOK, Under, AlertInv, Reading
<1>3. Kin(n, p)
  BY <1>2 DEF Kin
<1>4. raced' \subseteq Nodes
  BY <1>1 DEF AlertInv
<1>5. call'[c].at \in {"idle", "judge"} /\ (call'[c].at # "idle" => call'[c].rule = 1 /\ ~ (1 > Len(Rules)))
  BY <1>1, JudgingAt
<1> HIDE DEF n, p, s
<1>6. Matching(c)'
  BY <1>5, ShardedAssumption DEF Matching
<1>7. Reading(c)'
  BY <1>5 DEF Reading, Under
<1>8. QED BY <1>1, <1>2, <1>3, <1>4, <1>6, <1>7, EdgeAlert

LEMMA InsertAlert ==
  ASSUME ShardInv, AlertInv, NEW c \in Callers, NEW pid \in Pids, NEW id \in {pid, File},
         NEW parent \in Pids \cup {0}, NEW at \in 0 .. now, Insert(c, id, pid, parent, at)
  PROVE  AlertInv'
<1> DEFINE n == Len(node) + 1
           new == [id |-> id, pid |-> pid, parent |-> parent, at |-> at]
<1>1. /\ node' = Append(node, new) /\ edges' = Append(edges, <<>>)
      /\ UNCHANGED <<alerts, suppressed, raced>>
      /\ \A d \in Callers \ {c} : call'[d] = call[d]
      /\ call'[c] = IF id # File /\ parent > 0 THEN [at |-> "link", n |-> n] ELSE Judging(n, 1)
      /\ DOMAIN shard' \subseteq DOMAIN shard \cup {id} /\ id \in DOMAIN shard'
      /\ \A i \in DOMAIN shard' : IF i = id THEN shard'[i] = n ELSE i \in DOMAIN shard /\ shard'[i] = shard[i]
  BY DEF Insert, ShardInv, ShardTypes
<1>2. /\ node \in Seq(NodeRec) /\ edges \in Seq(Seq(Nat)) /\ Len(edges) = Len(node)
      /\ Len(node) \in Nat /\ Nodes = 1 .. Len(node) /\ n \notin Nodes /\ at \in Nat
      /\ \A i \in DOMAIN shard : shard[i] \in Nodes
  BY DEF ShardInv, ShardTypes, Nodes
<1>3. new \in NodeRec
  BY <1>2 DEF NodeRec, Ids
<1>3a. new.id = id
  OBVIOUS
<1> HIDE DEF new
<1>4. /\ Len(node') = n /\ node'[n] = new /\ \A k \in Nodes : node'[k] = node[k]
      /\ Nodes' = Nodes \cup {n}
  <2>1. Len(node') = n /\ node'[n] = new /\ DOMAIN node' = 1 .. n /\ \A k \in Nodes : node'[k] = node[k]
    BY <1>1, <1>2, <1>3, AppendProperties
  <2>2. QED BY <1>2, <2>1 DEF Nodes
<1>5. edges'[n] = <<>> /\ \A k \in Nodes : edges'[k] = edges[k]
  <2>1. <<>> \in Seq(Nat)
    OBVIOUS
  <2>2. QED BY <1>1, <1>2, <2>1, AppendProperties
<1>6. call'[c].at \in {"link", "idle", "judge"}
      /\ (call'[c].at = "judge" => call'[c].rule = 1 /\ ~ (1 > Len(Rules)))
  <2>1. CASE id # File /\ parent > 0
    BY <1>1, <2>1
  <2>2. CASE ~ (id # File /\ parent > 0)
    <3>1. call'[c] = Judging(n, 1)
      BY <1>1, <2>2
    <3> HIDE DEF n
    <3>2. QED BY <3>1, JudgingAt
  <2>3. QED BY <2>1, <2>2
<1> HIDE DEF n
<1>7. Growing
  BY <1>4 DEF Growing
<1>8. Delivered'
  BY <1>1, <1>7, DeliveredStays
<1>9. Reading(c)' /\ Matching(c)'
  BY <1>6, ShardedAssumption DEF Reading, Under, Matching
<1>10. \A d \in Callers : Reading(d)' /\ Matching(d)'
  BY <1>1, <1>7, <1>9, OthersStay
<1>11. Nearby'
  <2> SUFFICES ASSUME NEW m \in Nodes' PROVE Related(edges[m], m)'
    BY DEF Nearby
  <2>1. CASE m \in Nodes
    BY <1>4, <1>5, <2>1 DEF AlertInv, Nearby, Related, Kin
  <2>2. CASE m = n
    BY <1>5, <2>2 DEF Related
  <2>3. QED BY <1>4, <2>1, <2>2
<1>12. Current'
  BY <1>1, <1>2, <1>3a, <1>4 DEF AlertInv, Current
<1>13. raced' \subseteq Nodes'
  BY <1>1, <1>4 DEF AlertInv
<1>14. QED BY <1>1, <1>8, <1>10, <1>11, <1>12, <1>13 DEF AlertInv

LEMMA GenuineTyped ==
  ASSUME ShardInv, NEW rule \in DOMAIN Rules, NEW root, NEW chain, Genuine(rule, root, chain)
  PROVE  [rule |-> rule, root |-> root, chain |-> chain] \in AlertRec
<1>1. node \in Seq(NodeRec) /\ Nodes \subseteq Nat
  BY DEF ShardInv, ShardTypes, Nodes
<1>2. chain \in Seq(Nodes) /\ DOMAIN chain = 1 .. Len(chain) /\ Len(chain) \in Nat
  BY DEF Genuine
<1>3. \A j \in 1 .. Len(chain) : chain[j] \in Nodes
  BY <1>2
<1>4. chain \in Seq(Nat)
  <2>1. \A j \in 1 .. Len(chain) : chain[j] \in Nat
    BY <1>1, <1>3
  <2>2. QED BY <1>2, <2>1
<1>5. PICK n \in ToSet(chain) : node[n].pid = root
  BY DEF Genuine
<1>6. n \in Nodes
  BY <1>2, <1>3 DEF ToSet
<1>7. node[n] \in NodeRec
  BY <1>1, <1>6 DEF Nodes
<1>8. root \in Pids
  BY <1>5, <1>7 DEF NodeRec
<1>9. QED BY <1>4, <1>8 DEF AlertRec

LEMMA JudgeAlert == ASSUME ShardInv, AlertInv, NEW c \in Callers, Judge(c) PROVE AlertInv'
<1> DEFINE r == call[c].rule
           n == call[c].n
           s == Chain(Rules[r], n)
           root == Root(s)
           found == [at |-> "send", n |-> n, rule |-> r, root |-> root, chain |-> s]
<1>1. /\ call[c].at = "judge"
      /\ \A d \in Callers \ {c} : call'[d] = call[d]
      /\ call'[c] = IF s = <<>> \/ Suppressed(r, root) THEN Following(c) ELSE found
      /\ UNCHANGED <<node, edges, shard, alerts, suppressed, raced>>
  BY DEF Judge, ShardInv, ShardTypes
<1>2. /\ r \in DOMAIN Rules /\ n \in Nodes /\ Nearby
      /\ edges \in Seq(Seq(Nat)) /\ Len(edges) = Len(node) /\ node \in Seq(NodeRec)
  BY <1>1 DEF AlertInv, Matching, ShardInv, ShardTypes, CallOK
<1>3. /\ found.at = "send" /\ found.rule = r /\ found.root = root /\ found.chain = s
  OBVIOUS
<1>4. s # <<>> => Genuine(r, root, s)
  BY <1>2, MatchGenuine
<1>5. r \in Nat /\ Len(Rules) \in Nat /\ DOMAIN Rules = 1 .. Len(Rules)
  BY <1>2, ShardedAssumption
<1>6. /\ Following(c).at \in {"idle", "judge"}
      /\ Following(c).at # "idle" => Following(c).rule = r + 1 /\ ~ (r + 1 > Len(Rules))
  BY JudgingAt DEF Following
<1> HIDE DEF found, root, s, r, n
<1>7. raced' \subseteq Nodes
  BY <1>1 DEF AlertInv
<1>8. CASE s = <<>> \/ Suppressed(r, root)
  <2>1. call'[c] = Following(c)
    BY <1>1, <1>8
  <2>2. Reading(c)' /\ Matching(c)'
    BY <1>2, <1>5, <1>6, <2>1 DEF Reading, Under, Matching
  <2>3. QED BY <1>1, <1>7, <2>2, CallerMoves
<1>9. CASE ~ (s = <<>> \/ Suppressed(r, root))
  <2>1. call'[c] = found
    BY <1>1, <1>9
  <2>2. Reading(c)'
    BY <1>3, <2>1 DEF Reading, Under
  <2>3. Growing
    BY <1>1 DEF Growing, Nodes
  <2>4. Genuine(call[c].rule, call[c].root, call[c].chain)'
    BY <1>3, <1>4, <1>9, <2>1, <2>3, GenuineStays DEF Growing
  <2>5. Matching(c)'
    BY <1>2, <1>3, <2>1, <2>4 DEF Matching
  <2>6. QED BY <1>1, <1>7, <2>2, <2>5, CallerMoves
<1>10. QED BY <1>8, <1>9

LEMMA OrphanAlert == ASSUME ShardInv, AlertInv, NEW c \in Callers, Orphan(c) PROVE AlertInv'
<1>1. /\ \A d \in Callers \ {c} : call'[d] = call[d]
      /\ call'[c] = Judging(call[c].n, 1)
      /\ UNCHANGED <<node, edges, shard, alerts, suppressed, raced>>
  BY DEF Orphan, ShardInv, ShardTypes
<1>2. call'[c].at \in {"idle", "judge"} /\ (call'[c].at # "idle" => call'[c].rule = 1 /\ ~ (1 > Len(Rules)))
  BY <1>1, JudgingAt
<1>3. Reading(c)' /\ Matching(c)'
  BY <1>2, ShardedAssumption DEF Reading, Under, Matching
<1>4. raced' \subseteq Nodes
  BY <1>1 DEF AlertInv
<1>5. QED BY <1>1, <1>3, <1>4, CallerMoves

LEMMA SendAlert == ASSUME ShardInv, AlertInv, NEW c \in Callers, Send(c) PROVE AlertInv'
<1> DEFINE r == call[c].rule
           a == [rule |-> r, root |-> call[c].root, chain |-> call[c].chain]
<1>1. /\ call[c].at = "send"
      /\ \A d \in Callers \ {c} : call'[d] = call[d]
      /\ call'[c] = Following(c)
      /\ alerts' = IF Full THEN alerts ELSE Append(alerts, a)
      /\ UNCHANGED <<node, edges, shard, suppressed, raced>>
  BY DEF Send, ShardInv, ShardTypes
<1>2. r \in DOMAIN Rules /\ Genuine(r, call[c].root, call[c].chain)
  BY <1>1 DEF AlertInv, Matching
<1>3. r \in Nat /\ Len(Rules) \in Nat /\ DOMAIN Rules = 1 .. Len(Rules)
  BY <1>2, ShardedAssumption
<1>4. /\ Following(c).at \in {"idle", "judge"}
      /\ Following(c).at # "idle" => Following(c).rule = r + 1 /\ ~ (r + 1 > Len(Rules))
  BY JudgingAt DEF Following
<1>5. a \in AlertRec /\ Genuine(a.rule, a.root, a.chain)
  BY <1>2, GenuineTyped
<1> HIDE DEF r, a
<1>6. Growing /\ Nodes' = Nodes
  BY <1>1 DEF Growing, Nodes
<1>7. \A d \in Callers : Reading(d)' /\ Matching(d)'
  <2>1. Reading(c)' /\ Matching(c)'
    BY <1>1, <1>2, <1>3, <1>4 DEF Reading, Under, Matching
  <2>2. QED BY <1>1, <1>6, <2>1, OthersStay
<1>8. Delivered'
  <2>1. Delivered
    BY DEF AlertInv
  <2>2. CASE Full
    BY <1>1, <1>6, <2>2, DeliveredStays
  <2>3. CASE ~Full
    <3>1. alerts \in Seq(AlertRec) /\ Len(alerts) \in Nat /\ Len(alerts) < ChanLimit
      BY <2>1, <2>3, ShardedAssumption DEF Delivered, Full
    <3>2. /\ alerts' \in Seq(AlertRec) /\ Len(alerts') = Len(alerts) + 1
          /\ alerts'[Len(alerts) + 1] = a /\ \A i \in 1 .. Len(alerts) : alerts'[i] = alerts[i]
      BY <1>1, <1>5, <2>3, <3>1, AppendProperties
    <3>3. ASSUME NEW i \in DOMAIN alerts' PROVE Genuine(alerts'[i].rule, alerts'[i].root, alerts'[i].chain)
      <4>1. i \in 1 .. Len(alerts) \/ i = Len(alerts) + 1
        BY <3>1, <3>2
      <4>2. CASE i = Len(alerts) + 1
        BY <1>5, <3>2, <4>2
      <4>3. CASE i \in 1 .. Len(alerts)
        BY <2>1, <3>1, <3>2, <4>3 DEF Delivered
      <4>4. QED BY <4>1, <4>2, <4>3
    <3>4. \A i \in DOMAIN alerts' : Genuine(alerts[i].rule, alerts[i].root, alerts[i].chain)'
      BY <1>6, <3>3, GenuineStays DEF Growing
    <3>5. Len(alerts') <= ChanLimit
      BY <3>1, <3>2, ShardedAssumption
    <3>6. QED BY <3>2, <3>4, <3>5 DEF Delivered
  <2>4. QED BY <2>2, <2>3
<1>9. Nearby' /\ Current'
  BY <1>1, <1>6 DEF AlertInv, Nearby, Related, Kin, Current
<1>10. QED BY <1>1, <1>6, <1>7, <1>8, <1>9 DEF AlertInv

LEMMA RestAlert ==
  ASSUME ShardInv, AlertInv, SuppressAlert \/ Take \/ Clock \/ UNCHANGED vars PROVE AlertInv'
<1>1. UNCHANGED <<node, edges, shard, call, raced>>
  BY DEF SuppressAlert, Take, Clock, vars
<1>2. Growing /\ Nodes' = Nodes
  BY <1>1 DEF Growing, Nodes
<1>3. Delivered'
  <2>1. CASE ~Take
    <3>1. UNCHANGED alerts
      BY <2>1 DEF SuppressAlert, Clock, vars
    <3>2. QED BY <1>2, <3>1, DeliveredStays
  <2>2. CASE Take
    <3>1. alerts \in Seq(AlertRec) /\ alerts # <<>> /\ alerts' = Tail(alerts) /\ Len(alerts) <= ChanLimit
      BY <2>2 DEF AlertInv, Delivered, Take
    <3>2. /\ alerts' \in Seq(AlertRec) /\ Len(alerts) \in Nat /\ Len(alerts') = Len(alerts) - 1
          /\ \A i \in 1 .. Len(alerts') : i + 1 \in DOMAIN alerts /\ alerts'[i] = alerts[i + 1]
      BY <3>1
    <3>3. ASSUME NEW i \in DOMAIN alerts' PROVE Genuine(alerts'[i].rule, alerts'[i].root, alerts'[i].chain)
      <4>1. i \in 1 .. Len(alerts')
        BY <3>2
      <4>2. i + 1 \in DOMAIN alerts /\ alerts'[i] = alerts[i + 1]
        BY <3>2, <4>1
      <4>3. \A k \in DOMAIN alerts : Genuine(alerts[k].rule, alerts[k].root, alerts[k].chain)
        BY DEF AlertInv, Delivered
      <4>4. QED BY <4>2, <4>3
    <3>4. \A i \in DOMAIN alerts' : Genuine(alerts[i].rule, alerts[i].root, alerts[i].chain)'
      BY <1>2, <3>3, GenuineStays DEF Growing
    <3>5. QED BY <3>1, <3>2, <3>4, ShardedAssumption DEF Delivered
  <2>3. QED BY <2>1, <2>2
<1>4. Nearby' /\ Current'
  BY <1>1, <1>2 DEF AlertInv, Nearby, Related, Kin, Current
<1>5. \A d \in Callers : Reading(d)' /\ Matching(d)'
  <2>1. \A d \in Callers : Reading(d) /\ Matching(d)
    BY DEF AlertInv
  <2>2. QED BY <1>1, <2>1 DEF Reading, Matching, Under, Related, Genuine, TypeOf, Kin, Nodes
<1>6. suppressed' \subseteq [rule : DOMAIN Rules, root : Pids]
  <2>1. CASE SuppressAlert
    BY <2>1 DEF AlertInv, SuppressAlert
  <2>2. CASE ~SuppressAlert
    BY <2>2 DEF AlertInv, Take, Clock, vars
  <2>3. QED BY <2>1, <2>2
<1>7. raced' \subseteq Nodes'
  BY <1>1, <1>2 DEF AlertInv
<1>8. QED BY <1>3, <1>4, <1>5, <1>6, <1>7 DEF AlertInv

LEMMA AlertStep == ShardInv /\ AlertInv /\ [Next]_vars => AlertInv'
<1> SUFFICES ASSUME ShardInv, AlertInv, [Next]_vars PROVE AlertInv'
  OBVIOUS
<1>1. ASSUME NEW c \in Callers, Ingest(c) PROVE AlertInv'
  <2>1. ASSUME Enter(c) PROVE AlertInv'
    <3>1. PICK pid \in Pids, at \in 0 .. now :
            \/ \E parent \in (Pids \cup {0}) \ {pid} : Insert(c, pid, pid, parent, at)
            \/ Insert(c, File, pid, 0, at)
      BY <2>1 DEF Enter
    <3>2. ASSUME NEW parent \in (Pids \cup {0}) \ {pid}, Insert(c, pid, pid, parent, at) PROVE AlertInv'
      BY <3>2, InsertAlert
    <3>3. CASE Insert(c, File, pid, 0, at)
      BY <3>3, InsertAlert
    <3>4. QED BY <3>1, <3>2, <3>3
  <2>2. QED BY <1>1, <2>1, OrphanAlert, LinkAlert, SpawnedAlert, BackAlert, JudgeAlert, SendAlert DEF Ingest
<1>2. QED BY <1>1, RestAlert DEF Next

(* The invariant gives every alert that is in the channel, and the types of the rest. *)
LEMMA AlertInvSound == ShardInv /\ AlertInv => Sound
<1> SUFFICES ASSUME ShardInv, AlertInv PROVE Sound
  OBVIOUS
<1>1. /\ now \in Nat /\ node \in Seq(NodeRec) /\ edges \in Seq(Seq(Nat)) /\ Len(edges) = Len(node)
      /\ DOMAIN shard \subseteq Ids /\ \A i \in DOMAIN shard : shard[i] \in Nodes
      /\ lock \in [Shards -> Callers \cup {NoOne}]
      /\ Nearby /\ Current /\ Delivered
      /\ suppressed \subseteq [rule : DOMAIN Rules, root : Pids] /\ raced \subseteq Nodes
  BY DEF ShardInv, ShardTypes, AlertInv
<1>2. edges \in Seq(Seq(Nodes))
  <2>1. ASSUME NEW m \in 1 .. Len(edges) PROVE edges[m] \in Seq(Nodes)
    <3>1. edges[m] \in Seq(Nat) /\ m \in Nodes
      BY <1>1 DEF Nodes
    <3>2. \A j \in DOMAIN edges[m] : edges[m][j] \in Nodes
      BY <1>1, <3>1 DEF Nearby, Related
    <3> DEFINE s == edges[m]
    <3>3. s \in Seq(Nat) /\ \A j \in DOMAIN s : s[j] \in Nodes
      BY <3>1, <3>2
    <3> HIDE DEF s
    <3>4. s \in Seq(Nodes)
      BY <3>3
    <3>5. QED BY <3>4 DEF s
  <2> DEFINE S == Seq(Nodes)
  <2>2. \A m \in 1 .. Len(edges) : edges[m] \in S
    BY <2>1
  <2> HIDE DEF S
  <2>3. edges \in Seq(S)
    <3>1. DOMAIN edges = 1 .. Len(edges) /\ Len(edges) \in Nat /\ edges = [m \in DOMAIN edges |-> edges[m]]
      BY <1>1
    <3>2. edges \in [1 .. Len(edges) -> S]
      BY <2>2, <3>1
    <3>3. QED BY <3>1, <3>2
  <2>4. QED BY <2>3 DEF S
<1>3. AlertSound
  <2> SUFFICES ASSUME NEW i \in DOMAIN alerts
               PROVE  LET a == alerts[i] IN
                      /\ [j \in DOMAIN a.chain |-> TypeOf(a.chain[j])] = Rules[a.rule].sequence
                      /\ \A j \in 1 .. Len(a.chain) - 1 : Kin(a.chain[j], a.chain[j + 1])
                      /\ \E n \in ToSet(a.chain) : /\ node[n].pid = a.root
                                                   /\ \A m \in ToSet(a.chain) : node[n].at <= node[m].at
    BY Zenon DEF AlertSound
  <2>1. Genuine(alerts[i].rule, alerts[i].root, alerts[i].chain)
    BY <1>1 DEF Delivered
  <2>2. QED BY <2>1, Zenon DEF Genuine
<1>4. \A c \in Callers : call[c].at \in {"idle", "link", "spawn", "back", "judge", "send"}
  BY DEF AlertInv, Matching
<1>5. TypeOK
  BY <1>1, <1>2, <1>4 DEF TypeOK, NodeRec, Current, Delivered
<1>6. QED BY <1>3, <1>5 DEF Sound

(* Whatever the races do to the edges, an alert in the channel is about a chain of nodes of *)
(* its rule's types, each the parent or a child of the next, and names its oldest; and the  *)
(* channel is never fuller than its capacity.                                               *)
THEOREM SoundAlways == Spec => []Sound
<1>1. Spec => [](ShardInv /\ AlertInv)
  BY ShardInit, ShardNext, AlertInit, AlertStep, PTL DEF Spec
<1>2. QED BY <1>1, AlertInvSound, PTL
==============================================================================
