--------------------------- MODULE Services_proofs ---------------------------
(* What the agent's services keep, for any number of callers, events, plugins, *)
(* feeds, keys, daemons and clients: each component of MCServices by itself,   *)
(* and the types of all of them in that composition.                           *)
EXTENDS MCServices, LeastElement, FiniteSetTheorems, SequenceTheorems, TLAPS

(* The correlation engine: the Children lists form a forest, for any PIDs, any *)
(* window and any number of events.                                            *)

(* Typed, the forest is inductive as it stands. *)
ForestInv == CorrTypeOK /\ Forest

LEMMA CorrInitOK == CorrInit => ForestInv
<1> SUFFICES ASSUME CorrInit PROVE ForestInv
  OBVIOUS
<1>1. wall = 0 /\ live = <<>> /\ tree = <<>> /\ entries = <<>>
  BY DEF CorrInit
<1>2. CorrTypeOK
  BY <1>1 DEF CorrTypeOK
<1>3. Forest
  BY <1>1 DEF Forest
<1>4. QED BY <1>2, <1>3 DEF ForestInv

LEMMA UnexpiredOK ==
  ASSUME CorrTypeOK
  PROVE  DOMAIN Unexpired \subseteq CorrPids /\ \A p \in DOMAIN Unexpired : Unexpired[p] \in DOMAIN tree
BY DEF CorrTypeOK, Unexpired

LEMMA AttachKeeps ==
  ASSUME CorrTypeOK, NEW n, NEW kind \in EntryKinds, Attach(n, kind),
         tree' \in Seq(CorrNode), DOMAIN tree \subseteq DOMAIN tree', n \in DOMAIN tree'
  PROVE  entries' \in Seq([node : DOMAIN tree', kind : EntryKinds])
<1> DEFINE Old == [node : DOMAIN tree, kind : EntryKinds]
           New == [node : DOMAIN tree', kind : EntryKinds]
<1>1. entries \in Seq(Old) /\ Old \subseteq New
  BY DEF CorrTypeOK
<1> HIDE DEF Old
<1>2. entries \in Seq(New)
  BY <1>1, SeqMonotonic
<1>3. [node |-> n, kind |-> kind] \in New
  OBVIOUS
<1> HIDE DEF New
<1>4. Append(entries, [node |-> n, kind |-> kind]) \in Seq(New)
  BY <1>2, <1>3, AppendProperties
<1>5. QED BY <1>4 DEF Attach, New

(* Two nodes that differ at most in the parent and the children they have. *)
Alike(a, b) == a.pid = b.pid /\ a.ppid = b.ppid /\ a.holds = b.holds /\ a.alerts = b.alerts

(* What a launch makes of the nodes: one more, and its number at the end of at most one *)
(* of the lists.                                                                        *)
LEMMA LaunchGrows ==
  ASSUME CorrTypeOK, NEW p \in CorrPids, NEW pp \in CorrPids, NEW t \in 0 .. wall, Launch(p, pp, t)
  PROVE  LET n == Len(tree) + 1 IN
         /\ tree' \in Seq(CorrNode) /\ Len(tree') = n
         /\ tree'[n].pid = p /\ tree'[n].ppid = pp
         /\ tree'[n].holds = <<Len(entries) + 1>> /\ tree'[n].alerts = <<>>
         /\ \A k \in DOMAIN tree : Alike(tree'[k], tree[k]) /\ tree'[k].by = tree[k].by
         /\ \E m \in 0 .. n :
              /\ tree'[n].by = m
              /\ m = n => p = pp
              /\ \A k \in DOMAIN tree : k # m => tree'[k].children = tree[k].children
              /\ m \in DOMAIN tree => tree'[m].children = Append(tree[m].children, n)
              /\ tree'[n].children = IF m = n THEN <<n>> ELSE <<>>
         /\ DOMAIN live' \subseteq CorrPids /\ live' \in [DOMAIN live' -> 1 .. n]
<1> DEFINE n     == Len(tree) + 1
           new   == NewNode(p, pp, t)
           nodes == [q \in DOMAIN Unexpired \cup {p} |-> IF q = p THEN n ELSE Unexpired[q]]
           grown == Append(tree, new)
<1>1. /\ tree \in Seq(CorrNode) /\ Len(tree) \in Nat /\ n \in Nat \ {0} /\ DOMAIN tree = 1 .. Len(tree)
      /\ wall \in Nat /\ Len(entries) \in Nat
  BY DEF CorrTypeOK
<1>2. /\ new \in CorrNode /\ new.pid = p /\ new.ppid = pp /\ new.children = <<>>
      /\ new.holds = <<Len(entries) + 1>> /\ new.alerts = <<>> /\ new.by = 0
  <2>1. <<Len(entries) + 1>> \in Seq(Nat \ {0}) /\ <<>> \in Seq(Nat \ {0}) /\ t \in Nat
    BY <1>1
  <2>2. QED BY <2>1 DEF NewNode, CorrNode
<1>3. NodeFor(p) = n /\ n > Len(tree)
  BY <1>1 DEF NodeFor
<1>4. /\ live' = nodes
      /\ tree' = IF pp \in DOMAIN nodes
                 THEN [grown EXCEPT ![n].by = nodes[pp],
                                    ![nodes[pp]].children = Append(@, n)]
                 ELSE grown
  BY <1>3 DEF Launch
<1> HIDE DEF new
<1>5. /\ grown \in Seq(CorrNode) /\ Len(grown) = n /\ grown[n] = new
      /\ \A k \in DOMAIN tree : grown[k] = tree[k]
  BY <1>1, <1>2, AppendProperties
<1>6. /\ DOMAIN nodes \subseteq CorrPids /\ \A q \in DOMAIN nodes : nodes[q] \in 1 .. n
      /\ \A q \in DOMAIN nodes : nodes[q] = n => q = p
  BY <1>1, UnexpiredOK
<1>7. DOMAIN live' \subseteq CorrPids /\ live' \in [DOMAIN live' -> 1 .. n]
  BY <1>4, <1>6
<1> HIDE DEF nodes, grown
<1>8. CASE pp \notin DOMAIN nodes
  <2>1. tree' = grown
    BY <1>4, <1>8
  <2>2. 0 # n /\ 0 \in 0 .. n /\ 0 \notin DOMAIN tree
    BY <1>1
  <2>3. QED BY <1>1, <1>2, <1>5, <1>7, <2>1, <2>2 DEF Alike
<1>9. CASE pp \in DOMAIN nodes
  <2> DEFINE m == nodes[pp]
  <2>0. m \in 1 .. n /\ (m = n => pp = p) /\ m \in 0 .. n
    BY <1>1, <1>6, <1>9
  <2> HIDE DEF m
  <2>1. tree' = [grown EXCEPT ![n].by = m, ![m].children = Append(@, n)]
    BY <1>4, <1>9 DEF m
  <2> DEFINE mid == [grown EXCEPT ![n].by = m]
  <2>2. /\ mid \in Seq(CorrNode) /\ Len(mid) = n
        /\ \A k \in 1 .. n : /\ Alike(mid[k], grown[k]) /\ mid[k].children = grown[k].children
                             /\ mid[k].by = IF k = n THEN m ELSE grown[k].by
    <3>1. grown[n] \in CorrNode /\ m \in Nat /\ n \in 1 .. n
      BY <1>1, <1>2, <1>5, <2>0
    <3>2. [grown[n] EXCEPT !.by = m] \in CorrNode
      BY <3>1 DEF CorrNode
    <3>3. mid = [grown EXCEPT ![n] = [grown[n] EXCEPT !.by = m]]
      OBVIOUS
    <3>4. mid \in Seq(CorrNode) /\ Len(mid) = n
      BY <1>5, <3>1, <3>2, <3>3, ExceptSeq
    <3>5. ASSUME NEW k \in 1 .. n PROVE /\ Alike(mid[k], grown[k]) /\ mid[k].children = grown[k].children
                                        /\ mid[k].by = IF k = n THEN m ELSE grown[k].by
      <4>1. DOMAIN grown = 1 .. n /\ grown[k] \in CorrNode
        BY <1>5
      <4>2. CASE k = n
        <5>1. mid[k] = [grown[k] EXCEPT !.by = m]
          BY <3>3, <4>1, <4>2
        <5>2. QED BY <4>1, <4>2, <5>1 DEF CorrNode, Alike
      <4>3. CASE k # n
        <5>1. mid[k] = grown[k]
          BY <3>3, <4>1, <4>3
        <5>2. QED BY <4>3, <5>1 DEF Alike
      <4>4. QED BY <4>2, <4>3
    <3>6. QED BY <3>4, <3>5
  <2>3. tree' = [mid EXCEPT ![m].children = Append(@, n)]
    BY <2>1
  <2> HIDE DEF mid
  <2>4. /\ tree' \in Seq(CorrNode) /\ Len(tree') = n
        /\ \A k \in 1 .. n : /\ Alike(tree'[k], grown[k]) /\ tree'[k].by = mid[k].by
                             /\ k # m => tree'[k].children = grown[k].children
        /\ tree'[m].children = Append(grown[m].children, n)
    <3>1. mid[m] \in CorrNode /\ DOMAIN mid = 1 .. n
      BY <2>0, <2>2
    <3>2. mid[m].children \in Seq(Nat \ {0})
      BY <3>1 DEF CorrNode
    <3>3. Append(mid[m].children, n) \in Seq(Nat \ {0})
      BY <1>1, <3>2, AppendProperties
    <3>4. [mid[m] EXCEPT !.children = Append(mid[m].children, n)] \in CorrNode
      BY <3>1, <3>3 DEF CorrNode
    <3>5. tree' = [mid EXCEPT ![m] = [mid[m] EXCEPT !.children = Append(mid[m].children, n)]]
      BY <2>3
    <3>6. tree' \in Seq(CorrNode) /\ Len(tree') = n
      BY <2>0, <2>2, <3>4, <3>5, ExceptSeq
    <3>7. ASSUME NEW k \in 1 .. n
          PROVE  /\ Alike(tree'[k], grown[k]) /\ tree'[k].by = mid[k].by
                 /\ k # m => tree'[k].children = grown[k].children
      <4>1. CASE k = m
        <5>1. tree'[k] = [mid[m] EXCEPT !.children = Append(mid[m].children, n)]
          BY <2>0, <3>1, <3>5, <4>1
        <5>2. Alike(tree'[k], mid[k]) /\ tree'[k].by = mid[k].by
          BY <3>1, <4>1, <5>1 DEF CorrNode, Alike
        <5>3. QED BY <2>2, <4>1, <5>2 DEF Alike
      <4>2. CASE k # m
        <5>1. tree'[k] = mid[k]
          BY <3>1, <3>5, <4>2
        <5>2. QED BY <2>2, <4>2, <5>1
      <4>3. QED BY <4>1, <4>2
    <3>8. tree'[m].children = Append(grown[m].children, n)
      BY <2>0, <2>2, <3>1, <3>5 DEF CorrNode
    <3>9. QED BY <3>6, <3>7, <3>8
  <2>5. m \in DOMAIN tree => tree'[m].children = Append(tree[m].children, n)
    BY <1>5, <2>4
  <2>6. tree'[n].children = IF m = n THEN <<n>> ELSE <<>>
    <3>1. n \in 1 .. n /\ grown[n].children = <<>>
      BY <1>1, <1>2, <1>5
    <3>2. CASE m = n
      BY <2>4, <3>1, <3>2
    <3>3. CASE m # n
      BY <2>4, <3>1, <3>3
    <3>4. QED BY <3>2, <3>3
  <2>7. /\ tree'[n].pid = p /\ tree'[n].ppid = pp /\ tree'[n].by = m
        /\ tree'[n].holds = <<Len(entries) + 1>> /\ tree'[n].alerts = <<>>
    <3>1. n \in 1 .. n
      BY <1>1
    <3>2. Alike(tree'[n], new) /\ tree'[n].by = m
      BY <1>5, <2>2, <2>4, <3>1
    <3>3. QED BY <1>2, <3>2 DEF Alike
  <2>8. ASSUME NEW k \in DOMAIN tree
        PROVE  /\ Alike(tree'[k], tree[k]) /\ tree'[k].by = tree[k].by
               /\ k # m => tree'[k].children = tree[k].children
    <3>1. k \in 1 .. n /\ k # n /\ grown[k] = tree[k]
      BY <1>1, <1>5
    <3>2. QED BY <2>2, <2>4, <3>1
  <2>9. QED BY <1>7, <2>0, <2>4, <2>5, <2>6, <2>7, <2>8
<1>10. QED BY <1>8, <1>9

LEMMA LaunchKeeps ==
  ASSUME ForestInv, NEW p \in CorrPids, NEW pp \in CorrPids, NEW t \in 0 .. wall,
         Launch(p, pp, t), UNCHANGED wall
  PROVE  ForestInv'
<1> DEFINE n == Len(tree) + 1
<1>1. /\ CorrTypeOK /\ Forest /\ Len(tree) \in Nat /\ DOMAIN tree = 1 .. Len(tree) /\ wall \in Nat
      /\ tree \in Seq(CorrNode) /\ n \in Nat \ {0}
  BY DEF ForestInv, CorrTypeOK
<1>2. /\ tree' \in Seq(CorrNode) /\ Len(tree') = n /\ DOMAIN tree' = 1 .. n
      /\ tree'[n].pid = p /\ tree'[n].ppid = pp
      /\ \A k \in DOMAIN tree : tree'[k].pid = tree[k].pid /\ tree'[k].ppid = tree[k].ppid
      /\ DOMAIN live' \subseteq CorrPids /\ live' \in [DOMAIN live' -> 1 .. n]
  BY <1>1, LaunchGrows DEF Alike
<1>3. PICK m \in 0 .. n :
        /\ m = n => p = pp
        /\ \A k \in DOMAIN tree : k # m => tree'[k].children = tree[k].children
        /\ m \in DOMAIN tree => tree'[m].children = Append(tree[m].children, n)
        /\ tree'[n].children = IF m = n THEN <<n>> ELSE <<>>
  BY <1>1, LaunchGrows
<1> HIDE DEF n
<1>4. CorrTypeOK'
  <2>1. entries' \in Seq([node : DOMAIN tree', kind : EntryKinds])
    <3>1. Attach(n, "process")
      BY <1>1 DEF Launch, NodeFor, n
    <3>2. DOMAIN tree \subseteq DOMAIN tree' /\ n \in DOMAIN tree' /\ "process" \in EntryKinds
      BY <1>1, <1>2 DEF EntryKinds, n
    <3>3. QED BY <1>1, <1>2, <3>1, <3>2, AttachKeeps
  <2>2. QED BY <1>1, <1>2, <2>1 DEF CorrTypeOK
<1>5. \A k \in DOMAIN tree : tree[k].children \in Seq(Nat \ {0})
  <2>1. ASSUME NEW k \in DOMAIN tree PROVE tree[k] \in CorrNode
    BY <1>1, ElementOfSeq
  <2>2. QED BY <2>1 DEF CorrNode
(* The entries of a list are those it had, and n at the end of m's. *)
<1>6. ASSUME NEW k \in DOMAIN tree', NEW i \in DOMAIN tree'[k].children
      PROVE  \/ k \in DOMAIN tree /\ i \in DOMAIN tree[k].children
                /\ tree'[k].children[i] = tree[k].children[i]
             \/ k = m /\ tree'[k].children[i] = n /\ i = Len(tree'[k].children)
                /\ (k = n => p = pp)
  <2>1. CASE k \in DOMAIN tree /\ k # m
    BY <1>3, <1>6, <2>1
  <2>2. CASE k \in DOMAIN tree /\ k = m
    <3> DEFINE old == tree[k].children
    <3>1. old \in Seq(Nat \ {0}) /\ tree'[k].children = Append(old, n) /\ n \in Nat \ {0}
      BY <1>1, <1>3, <1>5, <2>2
    <3>2. /\ DOMAIN tree'[k].children = 1 .. Len(old) + 1 /\ Len(tree'[k].children) = Len(old) + 1
          /\ DOMAIN old = 1 .. Len(old) /\ Len(old) \in Nat
          /\ \A j \in 1 .. Len(old) : tree'[k].children[j] = old[j]
          /\ tree'[k].children[Len(old) + 1] = n
      BY <3>1
    <3>3. k # n
      BY <1>1, <2>2 DEF n
    <3> HIDE DEF old
    <3>4. i \in 1 .. Len(old) \/ i = Len(old) + 1
      BY <1>6, <3>2
    <3>5. QED BY <2>2, <3>2, <3>3, <3>4 DEF old
  <2>3. CASE k \notin DOMAIN tree
    <3>1. k = n
      BY <1>1, <1>2, <2>3 DEF n
    <3>2. m = n
      BY <1>3, <1>6, <3>1
    <3>3. tree'[k].children = <<n>>
      BY <1>3, <3>1, <3>2
    <3>4. i = 1 /\ Len(tree'[k].children) = 1 /\ tree'[k].children[i] = n
      BY <1>6, <3>3
    <3>5. QED BY <1>3, <3>1, <3>2, <3>4
  <2>4. QED BY <2>1, <2>2, <2>3
<1>7. \A k \in DOMAIN tree : \A i \in DOMAIN tree[k].children :
        tree[k].children[i] \in DOMAIN tree /\ tree[k].children[i] # n
  BY <1>1 DEF Forest, n
<1>8. ASSUME NEW k \in DOMAIN tree', NEW i \in DOMAIN tree'[k].children
      PROVE  LET c == tree'[k].children[i] IN
             c \in DOMAIN tree' /\ (k < c \/ (k = c /\ tree'[k].pid = tree'[k].ppid))
  <2>1. CASE /\ k \in DOMAIN tree /\ i \in DOMAIN tree[k].children
             /\ tree'[k].children[i] = tree[k].children[i]
    BY <1>1, <1>2, <2>1 DEF Forest, n
  <2>2. CASE k = m /\ tree'[k].children[i] = n /\ (k = n => p = pp)
    BY <1>1, <1>2, <2>2 DEF n
  <2>3. QED BY <1>6, <2>1, <2>2
<1>9. ASSUME NEW k \in DOMAIN tree', NEW l \in DOMAIN tree',
             NEW i \in DOMAIN tree'[k].children, NEW j \in DOMAIN tree'[l].children,
             tree'[k].children[i] = tree'[l].children[j]
      PROVE  k = l /\ i = j
  <2> DEFINE Old(x, y) == /\ x \in DOMAIN tree /\ y \in DOMAIN tree[x].children
                          /\ tree'[x].children[y] = tree[x].children[y]
             Last(x, y) == /\ x = m /\ tree'[x].children[y] = n
                           /\ y = Len(tree'[x].children)
  <2>1. (Old(k, i) \/ Last(k, i)) /\ (Old(l, j) \/ Last(l, j))
    BY <1>6
  <2>2. ASSUME NEW x \in DOMAIN tree', NEW y \in DOMAIN tree'[x].children, Old(x, y)
        PROVE  tree'[x].children[y] # n
    BY <1>7, <2>2
  <2>3. CASE Last(k, i)
    <3>1. ~Old(l, j)
      BY <1>9, <2>2, <2>3
    <3>2. Last(l, j)
      BY <2>1, <3>1
    <3>3. QED BY <2>3, <3>2
  <2>4. CASE Old(k, i)
    <3>1. ~Last(l, j)
      BY <1>9, <2>2, <2>4
    <3>2. Old(l, j)
      BY <2>1, <3>1
    <3>3. tree[k].children[i] = tree[l].children[j]
      BY <1>9, <2>4, <3>2
    <3>4. QED BY <1>1, <2>4, <3>2, <3>3 DEF Forest
  <2>5. QED BY <2>1, <2>3, <2>4
<1>10. Forest'
  BY <1>8, <1>9 DEF Forest
<1>11. QED BY <1>4, <1>10 DEF ForestInv

(* What an activity or an alert adds: the next entry, to one of the two lists of its node. *)
LEMMA HoldAdds ==
  ASSUME CorrTypeOK, NEW p, NEW nodes, NEW kind \in EntryKinds, Hold(p, nodes, kind),
         p \in DOMAIN nodes, nodes[p] \in DOMAIN tree
  PROVE  LET n == nodes[p] IN
         /\ tree' \in Seq(CorrNode) /\ Len(tree') = Len(tree) /\ Attach(n, kind)
         /\ \A k \in DOMAIN tree : /\ tree'[k].pid = tree[k].pid /\ tree'[k].ppid = tree[k].ppid
                                   /\ tree'[k].children = tree[k].children
                                   /\ tree'[k].by = tree[k].by
                                   /\ k # n => Alike(tree'[k], tree[k])
         /\ tree'[n].holds = IF kind = "alert" THEN tree[n].holds
                             ELSE Append(tree[n].holds, Len(entries) + 1)
         /\ tree'[n].alerts = IF kind = "alert" THEN Append(tree[n].alerts, Len(entries) + 1)
                              ELSE tree[n].alerts
<1> DEFINE n     == nodes[p]
           alert == [tree[n] EXCEPT !.alerts = Append(tree[n].alerts, Len(entries) + 1)]
           other == [tree[n] EXCEPT !.holds = Append(tree[n].holds, Len(entries) + 1)]
           node  == IF kind = "alert" THEN alert ELSE other
<1>1. /\ tree \in Seq(CorrNode) /\ Len(tree) \in Nat /\ DOMAIN tree = 1 .. Len(tree)
      /\ Len(entries) + 1 \in Nat \ {0}
  BY DEF CorrTypeOK
<1>2. n \in DOMAIN tree /\ n \in 1 .. Len(tree) /\ tree[n] \in CorrNode
  BY <1>1, ElementOfSeq
<1>3. tree' = [tree EXCEPT ![n] = node] /\ Attach(n, kind)
  BY DEF Hold
<1> HIDE DEF n
<1>4. /\ Append(tree[n].alerts, Len(entries) + 1) \in Seq(Nat \ {0})
      /\ Append(tree[n].holds, Len(entries) + 1) \in Seq(Nat \ {0})
  <2>1. tree[n].alerts \in Seq(Nat \ {0}) /\ tree[n].holds \in Seq(Nat \ {0})
    BY <1>2 DEF CorrNode
  <2>2. QED BY <1>1, <2>1, AppendProperties
<1>5. /\ node \in CorrNode /\ node.pid = tree[n].pid /\ node.ppid = tree[n].ppid
      /\ node.children = tree[n].children /\ node.by = tree[n].by
      /\ node.holds = IF kind = "alert" THEN tree[n].holds
                      ELSE Append(tree[n].holds, Len(entries) + 1)
      /\ node.alerts = IF kind = "alert" THEN Append(tree[n].alerts, Len(entries) + 1)
                       ELSE tree[n].alerts
  BY <1>2, <1>4 DEF CorrNode
<1> HIDE DEF node
<1>6. tree' \in Seq(CorrNode) /\ Len(tree') = Len(tree)
  BY <1>1, <1>2, <1>3, <1>5, ExceptSeq
<1>7. tree'[n] = node /\ \A k \in DOMAIN tree : k # n => tree'[k] = tree[k]
  BY <1>2, <1>3
<1>8. \A k \in DOMAIN tree : /\ tree'[k].pid = tree[k].pid /\ tree'[k].ppid = tree[k].ppid
                             /\ tree'[k].children = tree[k].children
                             /\ tree'[k].by = tree[k].by
                             /\ k # n => Alike(tree'[k], tree[k])
  BY <1>5, <1>7 DEF Alike
<1>9. QED BY <1>3, <1>5, <1>6, <1>7, <1>8 DEF n

(* An activity or an alert leaves the lists of children alone. *)
LEMMA HoldKeeps ==
  ASSUME ForestInv, NEW p, NEW nodes, NEW kind \in EntryKinds, Hold(p, nodes, kind),
         p \in DOMAIN nodes => nodes[p] \in DOMAIN tree,
         UNCHANGED wall, DOMAIN live' \subseteq CorrPids, live' \in [DOMAIN live' -> DOMAIN tree]
  PROVE  ForestInv'
<1>1. /\ CorrTypeOK /\ Forest /\ wall \in Nat
      /\ tree \in Seq(CorrNode) /\ entries \in Seq([node : DOMAIN tree, kind : EntryKinds])
      /\ DOMAIN tree = 1 .. Len(tree) /\ Len(tree) \in Nat /\ Len(entries) \in Nat
  BY DEF ForestInv, CorrTypeOK
<1>2. CASE p \notin DOMAIN nodes
  <2>1. UNCHANGED <<tree, entries>>
    BY <1>2 DEF Hold
  <2>2. CorrTypeOK'
    BY <1>1, <2>1 DEF CorrTypeOK
  <2>3. Forest'
    BY <1>1, <2>1 DEF Forest
  <2>4. QED BY <2>2, <2>3 DEF ForestInv
<1>3. CASE p \in DOMAIN nodes
  <2> DEFINE n == nodes[p]
  <2>1. n \in DOMAIN tree /\ Attach(n, kind)
    BY <1>1, <1>3, HoldAdds
  <2>6. tree' \in Seq(CorrNode) /\ DOMAIN tree' = DOMAIN tree
    BY <1>1, <1>3, HoldAdds
  <2>7. \A k \in DOMAIN tree : /\ tree'[k].children = tree[k].children
                               /\ tree'[k].pid = tree[k].pid /\ tree'[k].ppid = tree[k].ppid
    BY <1>1, <1>3, HoldAdds
  <2> HIDE DEF n
  <2>8. entries' \in Seq([node : DOMAIN tree', kind : EntryKinds])
    BY <1>1, <2>1, <2>6, AttachKeeps
  <2>9. CorrTypeOK'
    BY <1>1, <2>6, <2>8 DEF CorrTypeOK
  <2>10. Forest'
    <3>1. ASSUME NEW k \in DOMAIN tree', NEW i \in DOMAIN tree'[k].children
          PROVE  LET c == tree'[k].children[i] IN
                 c \in DOMAIN tree' /\ (k < c \/ (k = c /\ tree'[k].pid = tree'[k].ppid))
      <4>1. /\ k \in DOMAIN tree /\ i \in DOMAIN tree[k].children
            /\ tree'[k].children[i] = tree[k].children[i]
            /\ tree'[k].pid = tree[k].pid /\ tree'[k].ppid = tree[k].ppid
        BY <2>6, <2>7, <3>1
      <4>2. QED BY <1>1, <2>6, <4>1 DEF Forest
    <3>2. ASSUME NEW k \in DOMAIN tree', NEW l \in DOMAIN tree',
                 NEW i \in DOMAIN tree'[k].children, NEW j \in DOMAIN tree'[l].children,
                 tree'[k].children[i] = tree'[l].children[j]
          PROVE  k = l /\ i = j
      <4>1. /\ k \in DOMAIN tree /\ i \in DOMAIN tree[k].children
            /\ tree'[k].children[i] = tree[k].children[i]
        BY <2>6, <2>7
      <4>2. /\ l \in DOMAIN tree /\ j \in DOMAIN tree[l].children
            /\ tree'[l].children[j] = tree[l].children[j]
        BY <2>6, <2>7
      <4>3. tree[k].children[i] = tree[l].children[j]
        BY <3>2, <4>1, <4>2
      <4>4. QED BY <1>1, <4>1, <4>2, <4>3 DEF Forest
    <3>3. QED BY <3>1, <3>2 DEF Forest
  <2>11. QED BY <2>9, <2>10 DEF ForestInv
<1>4. QED BY <1>2, <1>3

LEMMA CorrStep == ForestInv /\ [CorrNext]_corrVars => ForestInv'
<1> SUFFICES ASSUME ForestInv, [CorrNext]_corrVars PROVE ForestInv'
  OBVIOUS
<1>1. CorrTypeOK /\ Forest
  BY DEF ForestInv
<1>2. CASE CorrelateProcess
  <2>1. PICK p \in CorrPids, pp \in CorrPids, t \in 0 .. wall : Launch(p, pp, t)
    BY <1>2 DEF CorrelateProcess
  <2>2. UNCHANGED wall
    BY <1>2 DEF CorrelateProcess
  <2>3. QED BY <2>1, <2>2, LaunchKeeps
<1>3. CASE CorrelateActivity
  <2>1. PICK p \in CorrPids, kind \in EntryKinds \ {"process", "alert"} : Hold(p, Unexpired, kind)
    BY <1>3 DEF CorrelateActivity
  <2>2. UNCHANGED wall /\ live' = Unexpired
    BY <1>3 DEF CorrelateActivity
  <2>3. DOMAIN Unexpired \subseteq CorrPids /\ \A q \in DOMAIN Unexpired : Unexpired[q] \in DOMAIN tree
    BY <1>1, UnexpiredOK
  <2>4. live' \in [DOMAIN live' -> DOMAIN tree]
    BY <2>2, <2>3 DEF Unexpired
  <2>5. QED BY <2>1, <2>2, <2>3, <2>4, HoldKeeps
<1>4. CASE RecordAlert
  <2>1. PICK p \in CorrPids : Hold(p, live, "alert")
    BY <1>4 DEF RecordAlert
  <2>2. UNCHANGED <<wall, live>> /\ "alert" \in EntryKinds
    BY <1>4 DEF RecordAlert, EntryKinds
  <2>3. /\ DOMAIN live' \subseteq CorrPids /\ live' \in [DOMAIN live' -> DOMAIN tree]
        /\ p \in DOMAIN live => live[p] \in DOMAIN tree
    BY <1>1, <2>2 DEF CorrTypeOK
  <2>4. QED BY <2>1, <2>2, <2>3, HoldKeeps
<1>5. CASE CorrTick \/ UNCHANGED corrVars
  <2>1. wall' \in Nat /\ UNCHANGED <<live, tree, entries>>
    BY <1>1, <1>5 DEF CorrTick, corrVars, CorrTypeOK
  <2>2. CorrTypeOK'
    BY <1>1, <2>1 DEF CorrTypeOK
  <2>3. Forest'
    BY <1>1, <2>1 DEF Forest
  <2>4. QED BY <2>2, <2>3 DEF ForestInv
<1>6. QED BY <1>2, <1>3, <1>4, <1>5 DEF CorrNext

THEOREM ForestInvAlways == CorrSpec => []ForestInv
<1>1. QED BY CorrInitOK, CorrStep, PTL DEF CorrSpec

(* The recursion of the queries ends on every node but those of processes that are *)
(* their own parents, and meets each node once: no launch, expiry or reuse of a    *)
(* PID makes a cycle or gives a node a second parent.                              *)
THEOREM ForestAlways == CorrSpec => []Forest
<1>1. ForestInv => Forest
  BY DEF ForestInv
<1>2. QED BY <1>1, ForestInvAlways, PTL

(* The map leads from a PID to a node that was made, and every entry is some node's. *)
THEOREM CorrTypeOKAlways == CorrSpec => []CorrTypeOK
<1>1. ForestInv => CorrTypeOK
  BY DEF ForestInv
<1>2. QED BY <1>1, ForestInvAlways, PTL

-----------------------------------------------------------------------------
(* The queries: how often an entry is in what they gather. *)

Spots(e, s) == {i \in DOMAIN s : s[i] = e}

LEMMA TimesEmpty == ASSUME NEW e PROVE Times(e, <<>>) = 0
<1>1. {i \in DOMAIN <<>> : <<>>[i] = e} = {}
  OBVIOUS
<1>2. QED BY <1>1, FS_EmptySet DEF Times

LEMMA TimesAppend ==
  ASSUME NEW s \in Seq(Nat), NEW x \in Nat, NEW e \in Nat
  PROVE  /\ Times(e, s) \in Nat
         /\ Times(e, Append(s, x)) = Times(e, s) + IF x = e THEN 1 ELSE 0
<1> DEFINE t == Append(s, x)
<1>1. /\ Len(s) \in Nat /\ DOMAIN s = 1 .. Len(s) /\ DOMAIN t = 1 .. Len(s) + 1
      /\ \A i \in 1 .. Len(s) : t[i] = s[i]
      /\ t[Len(s) + 1] = x
  OBVIOUS
<1> HIDE DEF t
<1>2. IsFiniteSet(Spots(e, s)) /\ Cardinality(Spots(e, s)) \in Nat
  <2>1. IsFiniteSet(1 .. Len(s)) /\ Spots(e, s) \subseteq 1 .. Len(s)
    BY <1>1, FS_Interval DEF Spots
  <2>2. IsFiniteSet(Spots(e, s))
    BY <2>1, FS_Subset
  <2>3. QED BY <2>2, FS_CardinalityType
<1>3. Spots(e, t) = IF x = e THEN Spots(e, s) \cup {Len(s) + 1} ELSE Spots(e, s)
  BY <1>1 DEF Spots
<1>4. Len(s) + 1 \notin Spots(e, s)
  BY <1>1 DEF Spots
<1>5. Cardinality(Spots(e, s) \cup {Len(s) + 1}) = Cardinality(Spots(e, s)) + 1
  BY <1>2, <1>4, FS_AddElement
<1>6. Cardinality(Spots(e, t)) = Cardinality(Spots(e, s)) + IF x = e THEN 1 ELSE 0
  BY <1>2, <1>3, <1>5
<1>7. Times(e, s) = Cardinality(Spots(e, s)) /\ Times(e, t) = Cardinality(Spots(e, t))
  BY DEF Times, Spots
<1>8. QED BY <1>2, <1>6, <1>7 DEF t

LEMMA TimesConcat ==
  ASSUME NEW s \in Seq(Nat), NEW t \in Seq(Nat), NEW e \in Nat
  PROVE  Times(e, s \o t) = Times(e, s) + Times(e, t)
<1> DEFINE Fails(m) == \E u \in Seq(Nat) : /\ Len(u) = m
                                         /\ Times(e, s \o u) # Times(e, s) + Times(e, u)
           T == {m \in Nat : Fails(m)}
<1>1. SUFFICES ASSUME T # {} PROVE FALSE
  <2>1. Len(t) \in Nat
    OBVIOUS
  <2>2. QED BY <2>1
<1>2. PICK m \in T : \A u \in T : m <= u
  <2>1. T \in SUBSET Nat
    OBVIOUS
  <2>2. QED BY <1>1, <2>1, LeastNat
<1>3. PICK u \in Seq(Nat) : Len(u) = m /\ Times(e, s \o u) # Times(e, s) + Times(e, u)
  OBVIOUS
<1>4. CASE m = 0
  <2>1. u = <<>>
    BY <1>3, <1>4, EmptySeq
  <2>2. s \o u = s
    BY <2>1
  <2>3. Times(e, s) \in Nat
    BY TimesAppend
  <2>4. QED BY <1>3, <2>1, <2>2, <2>3, TimesEmpty
<1>5. CASE m # 0
  <2> DEFINE v == SubSeq(u, 1, m - 1)
             x == u[m]
  <2>1. m - 1 \in Nat /\ ~ (m <= m - 1) /\ m \in 1 .. Len(u)
    BY <1>3, <1>5
  <2>2. v \in Seq(Nat) /\ Len(v) = m - 1 /\ x \in Nat /\ \A i \in 1 .. m - 1 : v[i] = u[i]
    BY <1>3, <2>1
  <2>3. u = Append(v, x)
    <3>1. Append(v, x) \in Seq(Nat) /\ Len(Append(v, x)) = m
      BY <2>1, <2>2
    <3>2. \A i \in 1 .. m : Append(v, x)[i] = u[i]
      BY <2>1, <2>2
    <3>3. QED BY <1>3, <3>1, <3>2, SeqEqual
  <2>4. m - 1 \notin T
    BY <1>2, <2>1
  <2>5. Times(e, s \o v) = Times(e, s) + Times(e, v)
    BY <2>1, <2>2, <2>4
  <2> HIDE DEF v, x
  <2>6. s \o u = Append(s \o v, x)
    <3>1. s \o v \in Seq(Nat)
      BY <2>2
    <3>2. QED BY <2>2, <2>3, <3>1
  <2>7. s \o v \in Seq(Nat) /\ Times(e, s) \in Nat /\ Times(e, v) \in Nat
    BY <2>2, TimesAppend
  <2> DEFINE w == s \o v
  <2>8. Times(e, s \o u) = Times(e, s \o v) + IF x = e THEN 1 ELSE 0
    <3>1. w \in Seq(Nat) /\ s \o u = Append(w, x)
      BY <2>6, <2>7
    <3> HIDE DEF w
    <3>2. Times(e, Append(w, x)) = Times(e, w) + IF x = e THEN 1 ELSE 0
      BY <2>2, <3>1, TimesAppend
    <3>3. QED BY <3>1, <3>2 DEF w
  <2>9. Times(e, u) = Times(e, v) + IF x = e THEN 1 ELSE 0
    BY <2>2, <2>3, TimesAppend
  <2>10. QED BY <1>3, <2>5, <2>7, <2>8, <2>9
<1>6. QED BY <1>4, <1>5

Brings(bring, children, S) == \A i \in 1 .. Len(children) : bring[children[i]] \in S

(* g has what is gathered once the first k children have been. *)
GathersBy(g, own, children, bring) ==
  /\ g[0] = own
  /\ \A k \in 1 .. Len(children) : g[k] = g[k - 1] \o bring[children[k]]
  /\ Gathered(own, children, bring) = g[Len(children)]

LEMMA GatheredSteps ==
  ASSUME NEW S, S = Seq(Nat), NEW own \in S, NEW children, Len(children) \in Nat, NEW bring,
         Brings(bring, children, S)
  PROVE  \E g \in [0 .. Len(children) -> S] : GathersBy(g, own, children, bring)
<1> DEFINE N == Len(children)
           step == [n \in 1 .. N |-> [x \in S |-> x \o bring[children[n]]]]
<1>1. N \in Nat /\ 0 \in 0 .. N /\ N \in 0 .. N
  OBVIOUS
<1>2. \A x, y \in S : x \o y \in S
  OBVIOUS
<1> HIDE DEF N
<1>3. Steps(step, N, S)
  BY <1>2 DEF Steps, N, Brings
<1>4. \A n \in 1 .. N : \A x \in S : step[n][x] = x \o bring[children[n]]
  OBVIOUS
<1> HIDE DEF step
<1>5. PICK f \in [0 .. N -> S] : Computes(f, own, step, N)
  BY <1>1, <1>3, StepsExist
<1>6. f[0] = own /\ \A n \in 1 .. N : f[n] = f[n - 1] \o bring[children[n]]
  <2>1. \A n \in 1 .. N : f[n - 1] \in S
    BY <1>1
  <2>2. QED BY <1>4, <1>5, <2>1 DEF Computes
<1>7. f = [k \in 0 .. N |-> IF k = 0 THEN own ELSE f[k - 1] \o bring[children[k]]]
  <2>1. \A n \in 0 .. N : n # 0 => n \in 1 .. N
    BY <1>1
  <2>2. \A n \in 0 .. N : f[n] = IF n = 0 THEN own ELSE f[n - 1] \o bring[children[n]]
    BY <1>6, <2>1
  <2>3. QED BY <2>2
<1> DEFINE G == CHOOSE g : g = [k \in 0 .. Len(children) |->
                                  IF k = 0 THEN own ELSE g[k - 1] \o bring[children[k]]]
<1>8. G = [k \in 0 .. N |-> IF k = 0 THEN own ELSE G[k - 1] \o bring[children[k]]]
  BY <1>7, Zenon DEF N
<1>9. Gathered(own, children, bring) = G[N]
  BY Zenon DEF Gathered, N
<1> HIDE DEF G
<1>10. G[0] = own /\ \A n \in 1 .. N : G[n] = G[n - 1] \o bring[children[n]]
  <2>1. \A n \in 1 .. N : n \in 0 .. N /\ n # 0
    BY <1>1
  <2>2. QED BY <1>1, <1>8, <2>1
<1>11. InStep(f, G, N)
  <2>1. f[0] = G[0]
    BY <1>6, <1>10
  <2>2. \A n \in 1 .. N : f[n - 1] = G[n - 1] => f[n] = G[n]
    BY <1>6, <1>10
  <2>3. QED BY <2>1, <2>2 DEF InStep
<1>12. f[N] = G[N]
  BY <1>1, <1>11, SameSteps DEF Agree
<1>13. QED BY <1>5, <1>6, <1>9, <1>12 DEF N, GathersBy

(* Of the children, the one in Hits if there is one brings e, once. *)
Through(Hits, e, bring, children) ==
  /\ Hits \in SUBSET (1 .. Len(children)) /\ \A i, j \in Hits : i = j
  /\ \A i \in 1 .. Len(children) : Times(e, bring[children[i]]) = IF i \in Hits THEN 1 ELSE 0

(* Each entry is gathered as often as the node yields it and its children bring it. *)
LEMMA GatheredTimes ==
  ASSUME NEW S, S = Seq(Nat), NEW own \in S, NEW children, Len(children) \in Nat, NEW bring,
         Brings(bring, children, S), NEW e \in Nat, NEW Hits, Through(Hits, e, bring, children)
  PROVE  /\ Gathered(own, children, bring) \in S
         /\ Times(e, Gathered(own, children, bring)) = Times(e, own) + IF Hits = {} THEN 0 ELSE 1
<1> DEFINE N == Len(children)
<1>0. PICK g \in [0 .. N -> S] : GathersBy(g, own, children, bring)
  BY GatheredSteps
<1>1. /\ g[0] = own
      /\ \A k \in 1 .. N : g[k] = g[k - 1] \o bring[children[k]]
      /\ Gathered(own, children, bring) = g[N]
  BY <1>0 DEF GathersBy
<1>2. /\ N \in Nat /\ 0 \in 0 .. N /\ N \in 0 .. N
      /\ \A i \in Hits : i \in 1 .. N
      /\ \A i, j \in Hits : i = j
      /\ \A i \in 1 .. N : Times(e, bring[children[i]]) = IF i \in Hits THEN 1 ELSE 0
  BY DEF Through
<1>2a. Times(e, own) \in Nat
  BY TimesAppend
<1> HIDE DEF N
<1> DEFINE c == [k \in 0 .. N |-> Times(e, g[k])]
           d == [k \in 0 .. N |-> Times(e, own) + IF \E i \in Hits : i <= k THEN 1 ELSE 0]
<1>3. c[0] = d[0]
  <2>1. ~ \E i \in Hits : i <= 0
    BY <1>2
  <2>2. QED BY <1>1, <1>2, <1>2a, <2>1
<1>4. ASSUME NEW k \in 1 .. N, c[k - 1] = d[k - 1] PROVE c[k] = d[k]
  <2>1. k - 1 \in 0 .. N /\ k \in 0 .. N
    BY <1>2
  <2>2. g[k] = g[k - 1] \o bring[children[k]] /\ g[k - 1] \in S /\ bring[children[k]] \in S
    BY <1>1, <2>1 DEF N, Brings
  <2>3. Times(e, g[k]) = Times(e, g[k - 1]) + IF k \in Hits THEN 1 ELSE 0
    BY <1>2, <2>2, TimesConcat
  <2>4. Times(e, g[k - 1]) = Times(e, own) + IF \E i \in Hits : i <= k - 1 THEN 1 ELSE 0
    BY <1>4, <2>1
  <2>5. (\E i \in Hits : i <= k) <=> (k \in Hits \/ \E i \in Hits : i <= k - 1)
    <3>1. ASSUME NEW i \in Hits PROVE i <= k <=> (i = k \/ i <= k - 1)
      <4>1. i \in 1 .. N
        BY <1>2
      <4> HIDE DEF c, d
      <4>2. QED BY <1>2, <4>1
    <3>2. k <= k
      BY <1>2
    <3> HIDE DEF c, d
    <3>3. QED BY <3>1, <3>2
  <2>6. k \in Hits => ~ \E i \in Hits : i <= k - 1
    BY <1>2
  <2>7. Times(e, g[k]) = Times(e, own) + IF \E i \in Hits : i <= k THEN 1 ELSE 0
    BY <1>2a, <2>3, <2>4, <2>5, <2>6
  <2>8. QED BY <2>1, <2>7
<1>5. InStep(c, d, N)
  BY <1>3, <1>4 DEF InStep
<1> HIDE DEF c, d
<1>6. c[N] = d[N]
  BY <1>2, <1>5, SameSteps DEF Agree
<1>7. (\E i \in Hits : i <= N) <=> Hits # {}
  <2>1. ASSUME NEW i \in Hits PROVE i <= N
    <3>1. i \in 1 .. N
      BY <1>2
    <3>2. QED BY <1>2, <3>1
  <2>2. QED BY <2>1
<1>8. QED BY <1>1, <1>2, <1>2a, <1>6, <1>7 DEF c, d

(* What the nodes bring that are younger than n. *)
Bringing(n, f) == [c \in DOMAIN tree |-> IF c > n THEN f[c] ELSE <<>>]

GatheredAt(n, yields, f) == Gathered(yields[n], tree[n].children, Bringing(n, f))

(* The lists of children name nodes. *)
Children == /\ Len(tree) \in Nat /\ DOMAIN tree = 1 .. Len(tree)
            /\ \A n \in DOMAIN tree : /\ Len(tree[n].children) \in Nat
                                      /\ DOMAIN tree[n].children = 1 .. Len(tree[n].children)
                                      /\ \A i \in DOMAIN tree[n].children :
                                           tree[n].children[i] \in DOMAIN tree

LEMMA ForestChildren == ASSUME CorrTypeOK, Forest PROVE Children
<1>1. tree \in Seq(CorrNode)
  BY DEF CorrTypeOK
<1>2. ASSUME NEW n \in DOMAIN tree PROVE tree[n].children \in Seq(Nat \ {0})
  <2>1. tree[n] \in CorrNode
    BY <1>1
  <2>2. QED BY <2>1 DEF CorrNode
<1>3. ASSUME NEW n \in DOMAIN tree
      PROVE  /\ Len(tree[n].children) \in Nat
             /\ DOMAIN tree[n].children = 1 .. Len(tree[n].children)
  BY <1>2
<1>4. QED BY <1>1, <1>3 DEF Children, Forest

LEMMA GatheredAtTyped ==
  ASSUME Children, NEW S, S = Seq(Nat), NEW yields \in [DOMAIN tree -> S],
         NEW f \in [DOMAIN tree -> S], NEW n \in DOMAIN tree
  PROVE  GatheredAt(n, yields, f) \in S /\ Brings(Bringing(n, f), tree[n].children, S)
<1> DEFINE children == tree[n].children
           bring    == Bringing(n, f)
<1>1. Len(children) \in Nat /\ \A i \in 1 .. Len(children) : children[i] \in DOMAIN tree
  BY DEF Children
<1>2. <<>> \in S
  OBVIOUS
<1>3. \A c \in DOMAIN tree : bring[c] \in S
  BY <1>2 DEF Bringing
<1> HIDE DEF bring
<1>4. Brings(bring, children, S)
  BY <1>1, <1>3 DEF Brings
<1>5. yields[n] \in S
  OBVIOUS
<1> DEFINE own == yields[n]
<1> HIDE DEF children, own
<1>6. PICK g \in [0 .. Len(children) -> S] : GathersBy(g, own, children, bring)
  BY <1>1, <1>4, <1>5, GatheredSteps DEF own
<1>7. Gathered(own, children, bring) \in S
  <2>1. Len(children) \in 0 .. Len(children)
    BY <1>1
  <2>2. QED BY <1>6, <2>1 DEF GathersBy
<1>8. QED BY <1>4, <1>7 DEF GatheredAt, own, children, bring

(* The recursion of the queries has an answer: it only descends to younger nodes. *)
LEMMA CollectedExists ==
  ASSUME Children, NEW S, S = Seq(Nat), NEW yields \in [DOMAIN tree -> S]
  PROVE  \E f \in [DOMAIN tree -> S] : \A n \in DOMAIN tree : f[n] = GatheredAt(n, yields, f)
<1> DEFINE N == Len(tree)
           Fits(f, k) == \A n \in DOMAIN tree : n > N - k => f[n] = GatheredAt(n, yields, f)
           T == {k \in 0 .. N : ~ \E f \in [DOMAIN tree -> S] : Fits(f, k)}
<1>1. N \in Nat /\ DOMAIN tree = 1 .. N /\ <<>> \in S
  BY DEF Children
<1>2. SUFFICES ASSUME T # {} PROVE FALSE
  <2>1. N \in 0 .. N /\ \A n \in DOMAIN tree : n > N - N
    BY <1>1
  <2> HIDE DEF N
  <2>2. QED BY <2>1
<1>3. PICK k \in T : \A u \in T : k <= u
  <2>1. T \in SUBSET Nat
    BY <1>1
  <2>2. QED BY <1>2, <2>1, LeastNat
<1>4. k \in 0 .. N /\ ~ \E f \in [DOMAIN tree -> S] : Fits(f, k)
  OBVIOUS
<1> HIDE DEF N
<1>5. CASE k = 0
  <2> DEFINE f == [n \in DOMAIN tree |-> <<>>]
  <2>1. f \in [DOMAIN tree -> S]
    BY <1>1
  <2>2. Fits(f, 0)
    BY <1>1
  <2>3. QED BY <1>4, <1>5, <2>1, <2>2
<1>6. CASE k # 0
  <2>1. k - 1 \in 0 .. N /\ ~ (k <= k - 1) /\ N - k + 1 \in 1 .. N
    BY <1>1, <1>4, <1>6
  <2>2. k - 1 \notin T
    BY <1>3, <2>1
  <2>3. PICK f \in [DOMAIN tree -> S] : Fits(f, k - 1)
    BY <2>1, <2>2
  <2> DEFINE m == N - k + 1
             new == GatheredAt(m, yields, f)
             h == [f EXCEPT ![m] = new]
  <2>4. m \in DOMAIN tree /\ new \in S
    BY <1>1, <2>1, GatheredAtTyped
  <2> HIDE DEF new
  <2>5. h \in [DOMAIN tree -> S] /\ h[m] = new /\ \A n \in DOMAIN tree : n # m => h[n] = f[n]
    BY <2>4
  <2> HIDE DEF h
  <2>6. ASSUME NEW n \in DOMAIN tree, n > N - k PROVE h[n] = GatheredAt(n, yields, h)
    <3>1. n >= m
      BY <1>1, <1>4, <2>6
    <3> HIDE DEF m
    <3>2. Bringing(n, h) = Bringing(n, f)
      <4>1. \A c \in DOMAIN tree : c > n => h[c] = f[c]
        BY <1>1, <2>4, <2>5, <3>1
      <4>2. QED BY <4>1 DEF Bringing
    <3>3. GatheredAt(n, yields, h) = GatheredAt(n, yields, f)
      BY <3>2 DEF GatheredAt
    <3>4. CASE n = m
      BY <2>5, <3>3, <3>4 DEF new
    <3>5. CASE n # m
      <4>1. n > N - (k - 1)
        BY <1>1, <1>4, <2>4, <3>1, <3>5 DEF m
      <4>2. f[n] = GatheredAt(n, yields, f)
        BY <2>3, <4>1
      <4>3. QED BY <2>5, <3>3, <3>5, <4>2
    <3>6. QED BY <3>4, <3>5
  <2>7. Fits(h, k)
    BY <2>6
  <2>8. QED BY <1>4, <2>5, <2>7
<1>7. QED BY <1>5, <1>6

LEMMA CollectedUnfold ==
  ASSUME Children, NEW S, S = Seq(Nat), NEW yields \in [DOMAIN tree -> S]
  PROVE  \A n \in DOMAIN tree : Collected(yields)[n] = GatheredAt(n, yields, Collected(yields))
<1> DEFINE Body(f) == [n \in DOMAIN tree |-> Gathered(yields[n], tree[n].children,
                        [c \in DOMAIN tree |-> IF c > n THEN f[c] ELSE <<>>])]
           F == CHOOSE f : f = Body(f)
<1>1. PICK f \in [DOMAIN tree -> S] : \A n \in DOMAIN tree : f[n] = GatheredAt(n, yields, f)
  BY CollectedExists
<1>2. f = Body(f)
  <2>1. f = [n \in DOMAIN tree |-> f[n]]
    OBVIOUS
  <2>2. \A n \in DOMAIN tree : f[n] = Body(f)[n]
    BY <1>1, Zenon DEF GatheredAt, Bringing
  <2>3. QED BY <2>1, <2>2, Zenon
<1>3. F = Body(F)
  BY <1>2, Zenon
<1>4. Collected(yields) = F
  BY Zenon DEF Collected
<1> HIDE DEF F
<1>5. QED BY <1>3, <1>4, Zenon DEF GatheredAt, Bringing

LEMMA CollectedTyped ==
  ASSUME Children, NEW S, S = Seq(Nat), NEW yields \in [DOMAIN tree -> S], NEW n \in DOMAIN tree
  PROVE  Collected(yields)[n] \in S
<1> DEFINE F == Collected(yields)
           T == {k \in DOMAIN tree : F[k] \notin S}
<1>1. Len(tree) \in Nat /\ DOMAIN tree = 1 .. Len(tree) /\ <<>> \in S
  BY DEF Children
<1>2. \A k \in DOMAIN tree : F[k] = GatheredAt(k, yields, F)
  BY CollectedUnfold
<1> HIDE DEF F
<1>3. SUFFICES ASSUME T # {} PROVE FALSE
  BY DEF F
<1>4. PICK k \in T : \A u \in T : u <= k
  <2>1. T \in SUBSET (1 .. Len(tree))
    BY <1>1
  <2>2. QED BY <1>1, <1>3, <2>1, GreatestNat
<1>5. k \in DOMAIN tree /\ F[k] \notin S
  OBVIOUS
<1> DEFINE f == [c \in DOMAIN tree |-> IF c > k THEN F[c] ELSE <<>>]
<1>6. f \in [DOMAIN tree -> S]
  <2>1. ASSUME NEW c \in DOMAIN tree, c > k PROVE F[c] \in S
    <3>1. ~ (c <= k)
      BY <1>1, <1>5, <2>1
    <3>2. c \notin T
      BY <1>4, <3>1
    <3>3. QED BY <3>2
  <2>2. QED BY <1>1, <2>1
<1>7. Bringing(k, f) = Bringing(k, F)
  BY DEF Bringing
<1> HIDE DEF f
<1>8. GatheredAt(k, yields, F) = GatheredAt(k, yields, f)
  BY <1>7 DEF GatheredAt
<1>9. GatheredAt(k, yields, f) \in S
  BY <1>5, <1>6, GatheredAtTyped
<1>10. QED BY <1>2, <1>5, <1>8, <1>9

(* U has what is under a, of the nodes up to m. *)
Reaching(U, a, m) == \A k \in 0 .. m :
  k \in U <=> (k = a \/ (k # 0 /\ tree[k].by < k /\ tree[k].by \in U))

Origins == Len(tree) \in Nat /\ DOMAIN tree = 1 .. Len(tree) /\ \A k \in DOMAIN tree : tree[k].by \in Nat

LEMMA TypedOrigins == ASSUME CorrTypeOK PROVE Origins
<1>1. tree \in Seq(CorrNode)
  BY DEF CorrTypeOK
<1>2. ASSUME NEW k \in DOMAIN tree PROVE tree[k].by \in Nat
  <2>1. tree[k] \in CorrNode
    BY <1>1
  <2>2. QED BY <2>1 DEF CorrNode
<1>3. QED BY <1>1, <1>2 DEF Origins

LEMMA ReachingExists ==
  ASSUME Origins, NEW a
  PROVE  \E U : U \subseteq 0 .. Len(tree) /\ Reaching(U, a, Len(tree))
<1> DEFINE N == Len(tree)
           Fits(U, m) == U \subseteq 0 .. m /\ Reaching(U, a, m)
           T == {m \in 0 .. N : ~ \E U : Fits(U, m)}
<1>1. N \in Nat /\ \A k \in 1 .. N : tree[k].by \in Nat
  BY DEF Origins
<1> HIDE DEF N
<1>2. SUFFICES ASSUME T # {} PROVE FALSE
  <2>1. N \in 0 .. N
    BY <1>1
  <2>2. QED BY <2>1 DEF N
<1>3. PICK m \in T : \A u \in T : m <= u
  <2>1. T \in SUBSET Nat
    BY <1>1
  <2>2. QED BY <1>2, <2>1, LeastNat
<1>4. m \in 0 .. N /\ ~ \E U : Fits(U, m)
  OBVIOUS
<1>5. CASE m = 0
  <2> DEFINE U == IF a = 0 THEN {0} ELSE {}
  <2>1. Fits(U, 0)
    BY DEF Reaching
  <2>2. QED BY <1>4, <1>5, <2>1
<1>6. CASE m # 0
  <2>1. m - 1 \in 0 .. N /\ ~ (m <= m - 1) /\ m \in 1 .. N
    BY <1>1, <1>4, <1>6
  <2>2. m - 1 \notin T
    BY <1>3, <2>1
  <2>3. PICK U : Fits(U, m - 1)
    BY <2>1, <2>2
  <2> DEFINE b == tree[m].by
             W == IF m = a \/ (b < m /\ b \in U) THEN U \cup {m} ELSE U
  <2>4. b \in Nat
    BY <1>1, <2>1
  <2>5. /\ W \subseteq 0 .. m
        /\ \A k \in 0 .. m : k # m => (k \in W <=> k \in U)
        /\ m \in W <=> (m = a \/ (b < m /\ b \in U))
    <3>1. m \notin U /\ U \subseteq 0 .. m
      BY <2>1, <2>3
    <3> HIDE DEF b
    <3>2. QED BY <2>1, <3>1
  <2> HIDE DEF W
  <2>6. ASSUME NEW k \in 0 .. m
        PROVE  k \in W <=> (k = a \/ (k # 0 /\ tree[k].by < k /\ tree[k].by \in W))
    <3>1. ASSUME k # 0, tree[k].by < k PROVE tree[k].by \in W <=> tree[k].by \in U
      <4>1. k \in 1 .. N
        BY <1>1, <2>1, <3>1
      <4>2. tree[k].by \in 0 .. m /\ tree[k].by # m
        BY <1>1, <2>1, <3>1, <4>1
      <4>3. QED BY <2>5, <4>2
    <3>2. CASE k = m
      <4>1. k # 0
        BY <2>1, <3>2
      <4>2. QED BY <2>5, <3>1, <3>2, <4>1
    <3>3. CASE k # m
      <4>1. k \in 0 .. m - 1
        BY <2>1, <3>3
      <4>2. k \in U <=> (k = a \/ (k # 0 /\ tree[k].by < k /\ tree[k].by \in U))
        BY <2>3, <4>1 DEF Reaching
      <4>3. QED BY <2>5, <3>1, <3>3, <4>2
    <3>4. QED BY <3>2, <3>3
  <2>7. Fits(W, m)
    BY <2>5, <2>6 DEF Reaching
  <2>8. QED BY <1>4, <2>7
<1>7. QED BY <1>5, <1>6

LEMMA UnderUnfold ==
  ASSUME Origins, NEW a
  PROVE  \A k \in 0 .. Len(tree) :
           Under(k, a) <=> (k = a \/ (k # 0 /\ tree[k].by < k /\ Under(tree[k].by, a)))
<1> DEFINE N == Len(tree)
           Body(f) == [k \in 0 .. Len(tree) |->
                         k = a \/ (k # 0 /\ tree[k].by < k /\ f[tree[k].by])]
           F == CHOOSE f : f = Body(f)
<1>1. PICK U : U \subseteq 0 .. N /\ Reaching(U, a, N)
  BY ReachingExists
<1>2. N \in Nat /\ \A k \in 1 .. N : tree[k].by \in Nat
  BY DEF Origins
<1> DEFINE g == [k \in 0 .. Len(tree) |-> k \in U]
<1>3. ASSUME NEW k \in 0 .. Len(tree)
      PROVE  (k \in U) <=> (k = a \/ (k # 0 /\ tree[k].by < k /\ g[tree[k].by]))
  <2>1. ASSUME k # 0, tree[k].by < k PROVE g[tree[k].by] <=> tree[k].by \in U
    <3>1. k \in 1 .. N
      BY <1>2, <2>1
    <3>2. tree[k].by \in 0 .. Len(tree)
      BY <1>2, <2>1, <3>1
    <3>3. QED BY <3>2, Zenon
  <2>2. k \in U <=> (k = a \/ (k # 0 /\ tree[k].by < k /\ tree[k].by \in U))
    BY <1>1 DEF Reaching
  <2> HIDE DEF g
  <2>3. QED BY <2>1, <2>2, Zenon
<1>4. g = Body(g)
  <2>1. \A k \in 0 .. Len(tree) :
          (k \in U) = (k = a \/ (k # 0 /\ tree[k].by < k /\ g[tree[k].by]))
    <3>1. ASSUME NEW k \in 0 .. Len(tree)
          PROVE  (k \in U) = (k = a \/ (k # 0 /\ tree[k].by < k /\ g[tree[k].by]))
      <4> DEFINE P == k \in U
                 Q == k = a \/ (k # 0 /\ tree[k].by < k /\ g[tree[k].by])
      <4>1. P <=> Q
        BY <1>3, Zenon
      <4>2. P \in BOOLEAN /\ Q \in BOOLEAN
        <5>1. P \in BOOLEAN
          OBVIOUS
        <5>2. Q \in BOOLEAN
          OBVIOUS
        <5>3. QED BY <5>1, <5>2
      <4> HIDE DEF P, Q
      <4>3. P = Q
        BY <4>1, <4>2
      <4>4. QED BY <4>3, Zenon DEF P, Q
    <3>2. QED BY <3>1, Zenon
  <2>2. QED BY <2>1, Zenon
<1> HIDE DEF g
<1>5. F = Body(F)
  BY <1>4, Zenon
<1>6. \A k : Under(k, a) = F[k]
  BY Zenon DEF Under
<1> HIDE DEF F
<1>7. \A k \in 0 .. Len(tree) : F[k] = (k = a \/ (k # 0 /\ tree[k].by < k /\ F[tree[k].by]))
  BY <1>5, Zenon
<1>8. QED BY <1>6, <1>7, Zenon

LEMMA UnderNothing == ASSUME Origins, NEW a, a # 0 PROVE ~ Under(0, a)
<1>1. 0 \in 0 .. Len(tree)
  BY DEF Origins
<1>2. Under(0, a) <=> (0 = a \/ (0 # 0 /\ tree[0].by < 0 /\ Under(tree[0].by, a)))
  BY <1>1, UnderUnfold
<1>3. QED BY <1>2

LEMMA UnderOlder ==
  ASSUME Origins, NEW a \in DOMAIN tree, NEW m \in 0 .. Len(tree), Under(m, a)
  PROVE  a <= m
<1> DEFINE T == {k \in 0 .. Len(tree) : Under(k, a) /\ ~ (a <= k)}
<1>1. Len(tree) \in Nat /\ \A k \in 1 .. Len(tree) : tree[k].by \in Nat
  BY DEF Origins
<1>2. SUFFICES ASSUME T # {} PROVE FALSE
  OBVIOUS
<1>3. PICK k \in T : \A u \in T : k <= u
  <2>1. T \in SUBSET Nat
    BY <1>1
  <2>2. QED BY <1>2, <2>1, LeastNat
<1>4. k \in 0 .. Len(tree) /\ Under(k, a) /\ ~ (a <= k) /\ a \in 1 .. Len(tree)
  BY DEF Origins
<1> DEFINE b == tree[k].by
<1>5. k # 0 /\ b < k /\ Under(b, a)
  <2>1. k # a
    BY <1>1, <1>4
  <2>2. QED BY <1>4, <2>1, UnderUnfold
<1>6. b \in 0 .. Len(tree) /\ ~ (a <= b) /\ ~ (k <= b)
  <2>1. k \in 1 .. Len(tree)
    BY <1>1, <1>4, <1>5
  <2>2. b \in Nat
    BY <1>1, <2>1
  <2> HIDE DEF b
  <2>3. QED BY <1>1, <1>4, <1>5, <2>2
<1>7. b \in T
  BY <1>5, <1>6
<1>8. QED BY <1>3, <1>6, <1>7

(* What is under something is under whatever that is under. *)
LEMMA UnderOver ==
  ASSUME Origins, NEW a \in DOMAIN tree, NEW c \in DOMAIN tree, Under(c, a),
         NEW m \in 0 .. Len(tree), Under(m, c)
  PROVE  Under(m, a)
<1> DEFINE T == {k \in 0 .. Len(tree) : Under(k, c) /\ ~ Under(k, a)}
<1>1. Len(tree) \in Nat /\ \A k \in 1 .. Len(tree) : tree[k].by \in Nat
  BY DEF Origins
<1>2. SUFFICES ASSUME T # {} PROVE FALSE
  OBVIOUS
<1>3. PICK k \in T : \A u \in T : k <= u
  <2>1. T \in SUBSET Nat
    BY <1>1
  <2>2. QED BY <1>2, <2>1, LeastNat
<1>4. k \in 0 .. Len(tree) /\ Under(k, c) /\ ~ Under(k, a)
  OBVIOUS
<1> DEFINE b == tree[k].by
<1>5. k # 0 /\ b < k /\ Under(b, c)
  <2>1. k # c
    BY <1>4
  <2>2. QED BY <1>4, <2>1, UnderUnfold
<1>6. b \in 0 .. Len(tree) /\ ~ (k <= b)
  <2>1. k \in 1 .. Len(tree)
    BY <1>1, <1>4, <1>5
  <2>2. b \in Nat
    BY <1>1, <2>1
  <2> HIDE DEF b
  <2>3. QED BY <1>1, <1>4, <1>5, <2>2
<1>7. ~ Under(b, a)
  BY <1>4, <1>5, UnderUnfold
<1>8. b \in T
  BY <1>5, <1>6, <1>7
<1>9. QED BY <1>3, <1>6, <1>8

(* `by' is the other end of the lists: a node is listed where it says, and only there. *)
Linked ==
  /\ \A n \in DOMAIN tree : \A i \in DOMAIN tree[n].children : tree[tree[n].children[i]].by = n
  /\ \A c \in DOMAIN tree : tree[c].by # 0 =>
       /\ tree[c].by \in DOMAIN tree
       /\ \E i \in DOMAIN tree[tree[c].by].children : tree[tree[c].by].children[i] = c

Graph == CorrTypeOK /\ Forest /\ Linked

LEMMA GraphShape ==
  ASSUME Graph
  PROVE  /\ Children /\ Origins
         /\ \A n \in DOMAIN tree : \A i \in DOMAIN tree[n].children :
              tree[n].children[i] \in DOMAIN tree /\ tree[tree[n].children[i]].by = n
BY ForestChildren, TypedOrigins DEF Graph, Linked, Forest

(* The younger children of n that m is under. *)
Ways(m, n) == {i \in DOMAIN tree[n].children :
                 tree[n].children[i] > n /\ Under(m, tree[n].children[i])}

LEMMA SomeWay ==
  ASSUME Graph, NEW n \in DOMAIN tree, NEW m \in 0 .. Len(tree), Under(m, n), m # n
  PROVE  Ways(m, n) # {}
<1> DEFINE T == {k \in 0 .. Len(tree) : Under(k, n) /\ k # n /\ Ways(k, n) = {}}
<1>1. /\ Len(tree) \in Nat /\ DOMAIN tree = 1 .. Len(tree) /\ Children /\ Origins
      /\ \A k \in DOMAIN tree : tree[k].by \in Nat
  BY GraphShape DEF Origins
<1>2. SUFFICES ASSUME T # {} PROVE FALSE
  OBVIOUS
<1>3. PICK k \in T : \A u \in T : k <= u
  <2>1. T \in SUBSET Nat
    BY <1>1
  <2>2. QED BY <1>2, <2>1, LeastNat
<1>4. k \in 0 .. Len(tree) /\ Under(k, n) /\ k # n /\ Ways(k, n) = {}
  OBVIOUS
<1> DEFINE b == tree[k].by
<1>5. k # 0 /\ b < k /\ Under(b, n)
  BY <1>1, <1>4, UnderUnfold
<1>6. k \in DOMAIN tree /\ b \in 0 .. Len(tree) /\ ~ (k <= b)
  <2>1. k \in DOMAIN tree
    BY <1>1, <1>4, <1>5
  <2>2. b \in Nat
    BY <1>1, <2>1
  <2> HIDE DEF b
  <2>3. QED BY <1>1, <1>4, <1>5, <2>1, <2>2
<1>7. b # 0
  <2>1. n # 0
    BY <1>1
  <2>2. QED BY <1>1, <1>5, <2>1, UnderNothing
<1>8. CASE b = n
  <2>1. PICK i \in DOMAIN tree[n].children : tree[n].children[i] = k
    BY <1>6, <1>7, <1>8 DEF Graph, Linked
  <2>2. Under(k, k) /\ k > n
    BY <1>1, <1>4, <1>5, <1>6, <1>8, UnderUnfold
  <2>3. i \in Ways(k, n)
    BY <2>1, <2>2 DEF Ways
  <2>4. QED BY <1>4, <2>3
<1>9. CASE b # n
  <2>1. Ways(b, n) # {}
    <3>1. b \notin T
      BY <1>3, <1>6
    <3>2. QED BY <1>5, <1>6, <1>9, <3>1
  <2>2. PICK i \in DOMAIN tree[n].children :
          tree[n].children[i] > n /\ Under(b, tree[n].children[i])
    BY <2>1 DEF Ways
  <2>3. Under(k, tree[n].children[i])
    BY <1>1, <1>4, <1>5, <2>2, UnderUnfold
  <2>4. i \in Ways(k, n)
    BY <2>2, <2>3 DEF Ways
  <2>5. QED BY <1>4, <2>4
<1>10. QED BY <1>8, <1>9

LEMMA WayUnder ==
  ASSUME Graph, NEW n \in DOMAIN tree, NEW m \in 0 .. Len(tree), Ways(m, n) # {}
  PROVE  Under(m, n) /\ m # n
<1> DEFINE c(i) == tree[n].children[i]
<1>1. PICK i \in DOMAIN tree[n].children : c(i) > n /\ Under(m, c(i))
  BY DEF Ways
<1>2. /\ Len(tree) \in Nat /\ DOMAIN tree = 1 .. Len(tree) /\ Origins
      /\ c(i) \in DOMAIN tree /\ tree[c(i)].by = n
  BY GraphShape DEF Origins
<1> HIDE DEF c
<1>3. n \in 0 .. Len(tree) /\ c(i) \in 0 .. Len(tree) /\ n < c(i) /\ c(i) # 0
  BY <1>1, <1>2
<1>4. Under(n, n)
  BY <1>2, <1>3, UnderUnfold
<1>5. Under(c(i), n)
  BY <1>2, <1>3, <1>4, UnderUnfold
<1>6. Under(m, n)
  BY <1>1, <1>2, <1>5, UnderOver
<1>7. c(i) <= m
  BY <1>1, <1>2, UnderOlder
<1>8. QED BY <1>2, <1>3, <1>6, <1>7

(* Two siblings have nothing under both. *)
LEMMA OneSibling ==
  ASSUME Graph, NEW n \in DOMAIN tree, NEW c \in DOMAIN tree, NEW d \in DOMAIN tree,
         tree[c].by = n, tree[d].by = n, n < c, n < d,
         NEW m \in 0 .. Len(tree), Under(m, c), Under(m, d)
  PROVE  c = d
<1> DEFINE T == {k \in 0 .. Len(tree) : Under(k, c) /\ Under(k, d)}
<1>1. /\ Len(tree) \in Nat /\ DOMAIN tree = 1 .. Len(tree) /\ Origins
      /\ \A k \in DOMAIN tree : tree[k].by \in Nat
  BY GraphShape DEF Origins
<1>2. SUFFICES ASSUME c # d PROVE FALSE
  OBVIOUS
<1>3. PICK k \in T : \A u \in T : k <= u
  <2>1. T \in SUBSET Nat /\ m \in T
    BY <1>1
  <2>2. QED BY <2>1, LeastNat
<1>4. k \in 0 .. Len(tree) /\ Under(k, c) /\ Under(k, d)
  OBVIOUS
<1>5. ASSUME NEW x \in DOMAIN tree, tree[x].by = n, n < x, NEW y \in DOMAIN tree, n < y, x # y
      PROVE  ~ Under(x, y)
  <2>1. SUFFICES ASSUME Under(x, y) PROVE FALSE
    OBVIOUS
  <2>2. Under(n, y) /\ n \in 0 .. Len(tree)
    BY <1>1, <1>5, <2>1, UnderUnfold
  <2>3. y <= n
    BY <1>1, <2>2, UnderOlder
  <2>4. QED BY <1>1, <1>5, <2>3
<1>6. k # c /\ k # d
  BY <1>2, <1>4, <1>5
<1> DEFINE b == tree[k].by
<1>7. k # 0 /\ b < k /\ Under(b, c) /\ Under(b, d)
  BY <1>1, <1>4, <1>6, UnderUnfold
<1>8. b \in 0 .. Len(tree) /\ ~ (k <= b)
  <2>1. k \in DOMAIN tree
    BY <1>1, <1>4, <1>7
  <2>2. b \in Nat
    BY <1>1, <2>1
  <2> HIDE DEF b
  <2>3. QED BY <1>1, <1>4, <1>7, <2>1, <2>2
<1>9. b \in T
  BY <1>7, <1>8
<1>10. QED BY <1>3, <1>8, <1>9

LEMMA OneWay ==
  ASSUME Graph, NEW n \in DOMAIN tree, NEW m \in 0 .. Len(tree)
  PROVE  \A i, j \in Ways(m, n) : i = j
<1> SUFFICES ASSUME NEW i \in Ways(m, n), NEW j \in Ways(m, n) PROVE i = j
  OBVIOUS
<1> DEFINE c == tree[n].children[i]
           d == tree[n].children[j]
<1>1. /\ i \in DOMAIN tree[n].children /\ c > n /\ Under(m, c)
      /\ j \in DOMAIN tree[n].children /\ d > n /\ Under(m, d)
  BY DEF Ways
<1>2. c \in DOMAIN tree /\ tree[c].by = n /\ d \in DOMAIN tree /\ tree[d].by = n
  BY <1>1, GraphShape
<1>3. n < c /\ n < d
  BY <1>1
<1>4. c = d
  <2> HIDE DEF c, d
  <2>1. QED BY <1>1, <1>2, <1>3, OneSibling
<1>5. QED BY <1>1, <1>4 DEF Graph, Forest

(* What one node yields once, and no other node at all, is collected once from the *)
(* nodes that one is under, and not at all from the others.                        *)
LEMMA CollectedTimes ==
  ASSUME Graph, NEW S, S = Seq(Nat), NEW yields \in [DOMAIN tree -> S],
         NEW e \in Nat, NEW m \in 0 .. Len(tree),
         \A n \in DOMAIN tree : Times(e, yields[n]) = IF n = m THEN 1 ELSE 0,
         NEW r \in DOMAIN tree
  PROVE  Times(e, Collected(yields)[r]) = IF Under(m, r) THEN 1 ELSE 0
<1> DEFINE F == Collected(yields)
           T == {n \in DOMAIN tree : Times(e, F[n]) # IF Under(m, n) THEN 1 ELSE 0}
<1>1. /\ Len(tree) \in Nat /\ DOMAIN tree = 1 .. Len(tree) /\ Children /\ Origins
  BY GraphShape DEF Origins
<1>2. /\ \A n \in DOMAIN tree : F[n] = GatheredAt(n, yields, F)
      /\ \A n \in DOMAIN tree : F[n] \in S
  BY <1>1, CollectedUnfold, CollectedTyped
<1> HIDE DEF F
<1>3. SUFFICES ASSUME T # {} PROVE FALSE
  BY DEF F
<1>4. PICK n \in T : \A u \in T : u <= n
  <2>1. T \in SUBSET (1 .. Len(tree))
    BY <1>1
  <2>2. QED BY <1>1, <1>3, <2>1, GreatestNat
<1>5. n \in DOMAIN tree /\ Times(e, F[n]) # IF Under(m, n) THEN 1 ELSE 0
  OBVIOUS
<1>6. ASSUME NEW c \in DOMAIN tree, c > n
      PROVE  Times(e, F[c]) = IF Under(m, c) THEN 1 ELSE 0
  <2>1. ~ (c <= n)
    BY <1>1, <1>5, <1>6
  <2>2. c \notin T
    BY <1>4, <2>1
  <2>3. QED BY <2>2
<1> DEFINE f        == [c \in DOMAIN tree |-> F[c]]
           children == tree[n].children
           bring    == Bringing(n, F)
           own      == yields[n]
           Hits     == Ways(m, n)
<1>7. /\ Len(children) \in Nat /\ DOMAIN children = 1 .. Len(children)
      /\ \A i \in 1 .. Len(children) : children[i] \in DOMAIN tree
  BY <1>1, <1>5 DEF Children
<1>8. Brings(bring, children, S)
  <2>1. f \in [DOMAIN tree -> S] /\ Bringing(n, f) = Bringing(n, F)
    BY <1>2 DEF Bringing
  <2> HIDE DEF f
  <2>2. Brings(Bringing(n, f), tree[n].children, S)
    BY <1>1, <1>5, <2>1, GatheredAtTyped
  <2>3. QED BY <2>1, <2>2
<1>9. Hits \in SUBSET (1 .. Len(children)) /\ \A i, j \in Hits : i = j
  <2>1. Hits \subseteq DOMAIN children
    BY DEF Ways
  <2>2. QED BY <1>5, <1>7, <2>1, OneWay
<1>10. ASSUME NEW i \in 1 .. Len(children)
       PROVE  Times(e, bring[children[i]]) = IF i \in Hits THEN 1 ELSE 0
  <2> DEFINE c == children[i]
  <2>1. c \in DOMAIN tree /\ (i \in Hits <=> c > n /\ Under(m, c))
    BY <1>7 DEF Ways
  <2>2. bring[c] = IF c > n THEN F[c] ELSE <<>>
    BY <2>1 DEF Bringing
  <2> HIDE DEF c, bring, Hits
  <2>3. CASE c > n
    BY <1>6, <2>1, <2>2, <2>3 DEF c
  <2>4. CASE ~ (c > n)
    BY <2>1, <2>2, <2>4, TimesEmpty DEF c
  <2>5. QED BY <2>3, <2>4
<1>11. F[n] = Gathered(own, children, bring) /\ own \in S
       /\ Times(e, own) = IF n = m THEN 1 ELSE 0
  BY <1>2, <1>5 DEF GatheredAt
<1>12. Hits = {} <=> ~ (Under(m, n) /\ m # n)
  BY <1>5, SomeWay, WayUnder
<1>13. n = m => Under(m, n)
  <2>1. n \in 0 .. Len(tree)
    BY <1>1, <1>5
  <2>2. QED BY <1>1, <2>1, UnderUnfold
<1> HIDE DEF children, bring, own, Hits
<1>14. Times(e, Gathered(own, children, bring)) = Times(e, own) + IF Hits = {} THEN 0 ELSE 1
  <2>1. Through(Hits, e, bring, children)
    BY <1>9, <1>10 DEF Through
  <2> HIDE DEF T, f
  <2>2. Brings(bring, children, S) /\ own \in S /\ Len(children) \in Nat
    BY <1>7, <1>8, <1>11
  <2>3. QED BY <2>1, <2>2, GatheredTimes
<1>15. Times(e, F[n]) = (IF n = m THEN 1 ELSE 0) + IF Under(m, n) /\ m # n THEN 1 ELSE 0
  BY <1>11, <1>12, <1>14
<1>16. QED BY <1>5, <1>13, <1>15

(* Every number is that of an entry or of none, and in the one list it belongs to once. *)
Belongs(es, e, n, kinds) == e \in DOMAIN es /\ es[e].node = n /\ es[e].kind \in kinds

Alerts == {"alert"}
Others == EntryKinds \ Alerts

Filed == \A e \in Nat, n \in DOMAIN tree :
           /\ Times(e, tree[n].holds) = IF Belongs(entries, e, n, Others) THEN 1 ELSE 0
           /\ Times(e, tree[n].alerts) = IF Belongs(entries, e, n, Alerts) THEN 1 ELSE 0

CorrInv == ForestInv /\ Linked /\ Filed

LEMMA HeldTyped ==
  ASSUME CorrTypeOK, NEW n \in DOMAIN tree
  PROVE  tree[n].holds \in Seq(Nat) /\ tree[n].alerts \in Seq(Nat)
<1>1. tree[n] \in CorrNode
  BY DEF CorrTypeOK
<1>2. tree[n].holds \in Seq(Nat \ {0}) /\ tree[n].alerts \in Seq(Nat \ {0}) /\ Nat \ {0} \subseteq Nat
  BY <1>1 DEF CorrNode
<1>3. QED BY <1>2, SeqMonotonic

LEMMA TimelineHolds == CorrInv => TimelineExact
<1> SUFFICES ASSUME CorrInv, NEW p \in DOMAIN live, NEW e \in DOMAIN entries
             PROVE  /\ Times(e, ReconstructTimeline(p)) =
                         IF Under(entries[e].node, live[p]) THEN 1 ELSE 0
                    /\ Times(e, GroupAlerts(p)) =
                         IF entries[e].kind = "alert" THEN Times(e, ReconstructTimeline(p)) ELSE 0
  BY DEF TimelineExact
<1> DEFINE S   == Seq(Nat)
           all == [n \in DOMAIN tree |-> tree[n].holds \o tree[n].alerts]
           als == [n \in DOMAIN tree |-> tree[n].alerts]
           r   == live[p]
           m   == entries[e].node
           k   == IF entries[e].kind = "alert" THEN m ELSE 0
<1>1. /\ Graph /\ CorrTypeOK /\ Filed /\ r \in DOMAIN tree /\ e \in Nat
      /\ Len(tree) \in Nat /\ DOMAIN tree = 1 .. Len(tree) /\ m \in DOMAIN tree
      /\ m \in 0 .. Len(tree) /\ k \in 0 .. Len(tree) /\ entries[e].kind \in EntryKinds
  <2>1. CorrTypeOK /\ Graph /\ Filed
    BY DEF CorrInv, ForestInv, Graph
  <2>2. r \in DOMAIN tree /\ e \in Nat /\ Len(tree) \in Nat /\ DOMAIN tree = 1 .. Len(tree)
    BY <2>1 DEF CorrTypeOK
  <2>3. m \in DOMAIN tree /\ entries[e].kind \in EntryKinds
    <3> DEFINE R == [node : DOMAIN tree, kind : EntryKinds]
    <3>1. entries \in Seq(R)
      BY <2>1 DEF CorrTypeOK
    <3> HIDE DEF R
    <3>2. entries[e] \in R
      BY <3>1
    <3>3. QED BY <3>2 DEF R
  <2> HIDE DEF m
  <2>4. QED BY <2>1, <2>2, <2>3
<1>2. \A n \in DOMAIN tree : tree[n].holds \in S /\ tree[n].alerts \in S
  BY <1>1, HeldTyped
<1>3. all \in [DOMAIN tree -> S] /\ als \in [DOMAIN tree -> S]
  BY <1>2
<1>4. ASSUME NEW n \in DOMAIN tree
      PROVE  /\ Times(e, all[n]) = IF n = m THEN 1 ELSE 0
             /\ Times(e, als[n]) = IF n = k THEN 1 ELSE 0
  <2>1. /\ Times(e, tree[n].holds) = IF Belongs(entries, e, n, Others) THEN 1 ELSE 0
        /\ Times(e, tree[n].alerts) = IF Belongs(entries, e, n, Alerts) THEN 1 ELSE 0
    BY <1>1 DEF Filed
  <2>2. n # 0
    BY <1>1
  <2>3. Times(e, tree[n].alerts) = IF n = k THEN 1 ELSE 0
    BY <2>1, <2>2 DEF Belongs, Alerts
  <2>4. Times(e, tree[n].holds \o tree[n].alerts) = Times(e, tree[n].holds) + Times(e, tree[n].alerts)
    BY <1>1, <1>2, TimesConcat
  <2>5. Times(e, tree[n].holds) + Times(e, tree[n].alerts) = IF n = m THEN 1 ELSE 0
    BY <1>1, <2>1 DEF Belongs, Alerts, Others
  <2>6. QED BY <2>3, <2>4, <2>5
<1>5. ReconstructTimeline(p) = Collected(all)[r] /\ GroupAlerts(p) = Collected(als)[r]
  BY DEF ReconstructTimeline, GroupAlerts
<1>6. ~ Under(0, r)
  <2>1. Origins /\ r # 0
    BY <1>1, GraphShape
  <2>2. QED BY <2>1, UnderNothing
<1> HIDE DEF all, als, m, r, S
<1>7. Times(e, Collected(all)[r]) = IF Under(m, r) THEN 1 ELSE 0
  BY <1>1, <1>3, <1>4, CollectedTimes DEF S
<1>8. Times(e, Collected(als)[r]) = IF Under(k, r) THEN 1 ELSE 0
  <2> HIDE DEF k
  <2>1. QED BY <1>1, <1>3, <1>4, CollectedTimes DEF S
<1>9. QED BY <1>5, <1>6, <1>7, <1>8 DEF m, r

LEMMA CorrInvInit == CorrInit => CorrInv
<1> SUFFICES ASSUME CorrInit PROVE CorrInv
  OBVIOUS
<1>1. ForestInv
  BY CorrInitOK
<1>2. tree = <<>>
  BY DEF CorrInit
<1>3. Linked /\ Filed
  BY <1>2 DEF Linked, Filed
<1>4. QED BY <1>1, <1>3 DEF CorrInv

Entered(es, next, m, kind) == next = Append(es, [node |-> m, kind |-> kind])

(* The next entry belongs to its node alone, and changes nothing for the others. *)
LEMMA AppendBelongs ==
  ASSUME NEW R, NEW es \in Seq(R), NEW m, NEW kind, NEW next,
         Entered(es, next, m, kind), NEW e \in Nat, NEW n, NEW kinds
  PROVE  /\ e = Len(es) + 1 => ~ Belongs(es, e, n, kinds)
         /\ e = Len(es) + 1 => (Belongs(next, e, n, kinds) <=> m = n /\ kind \in kinds)
         /\ e # Len(es) + 1 => (Belongs(next, e, n, kinds) <=> Belongs(es, e, n, kinds))
<1> DEFINE new == [node |-> m, kind |-> kind]
<1>1. /\ Len(es) \in Nat /\ DOMAIN es = 1 .. Len(es) /\ DOMAIN next = 1 .. Len(es) + 1
      /\ \A i \in DOMAIN es : next[i] = es[i]
      /\ next[Len(es) + 1] = new
  BY DEF Entered
<1>2. CASE e = Len(es) + 1
  <2>1. e \notin DOMAIN es /\ e \in DOMAIN next /\ next[e] = new
    BY <1>1, <1>2
  <2>2. QED BY <1>2, <2>1 DEF Belongs
<1>3. CASE e # Len(es) + 1
  <2>1. e \in DOMAIN next <=> e \in DOMAIN es
    BY <1>1, <1>3
  <2>2. QED BY <1>1, <1>3, <2>1 DEF Belongs
<1>4. QED BY <1>2, <1>3

LEMMA LaunchLinks ==
  ASSUME CorrInv, NEW p \in CorrPids, NEW pp \in CorrPids, NEW t \in 0 .. wall,
         Launch(p, pp, t), UNCHANGED wall
  PROVE  CorrInv'
<1> DEFINE n == Len(tree) + 1
<1>1. /\ CorrTypeOK /\ Forest /\ Linked /\ Filed /\ Len(tree) \in Nat /\ DOMAIN tree = 1 .. Len(tree)
      /\ n \in Nat \ {0} /\ ForestInv /\ Len(entries) \in Nat
  BY DEF CorrInv, ForestInv, CorrTypeOK
<1>2. /\ tree' \in Seq(CorrNode) /\ Len(tree') = n /\ DOMAIN tree' = 1 .. n
      /\ tree'[n].holds = <<Len(entries) + 1>> /\ tree'[n].alerts = <<>>
      /\ \A k \in DOMAIN tree : Alike(tree'[k], tree[k]) /\ tree'[k].by = tree[k].by
  BY <1>1, LaunchGrows
<1>3. PICK m \in 0 .. n :
        /\ tree'[n].by = m
        /\ \A k \in DOMAIN tree : k # m => tree'[k].children = tree[k].children
        /\ m \in DOMAIN tree => tree'[m].children = Append(tree[m].children, n)
        /\ tree'[n].children = IF m = n THEN <<n>> ELSE <<>>
  BY <1>1, LaunchGrows
<1>4. Attach(n, "process") /\ "process" \in EntryKinds
  BY <1>1 DEF Launch, NodeFor, EntryKinds
<1> HIDE DEF n
<1>5. ForestInv'
  BY <1>1, LaunchKeeps
<1>6. \A k \in DOMAIN tree' : k # n => k \in DOMAIN tree
  BY <1>1, <1>2 DEF n
<1>7. \A k \in DOMAIN tree : /\ k # n /\ k \in DOMAIN tree'
                             /\ tree[k].children \in Seq(Nat \ {0})
                             /\ \A i \in DOMAIN tree[k].children :
                                  tree[k].children[i] \in DOMAIN tree
  <2>1. ASSUME NEW k \in DOMAIN tree PROVE tree[k].children \in Seq(Nat \ {0})
    <3>1. tree \in Seq(CorrNode)
      BY <1>1 DEF CorrTypeOK
    <3>2. tree[k] \in CorrNode
      BY <3>1
    <3>3. QED BY <3>2 DEF CorrNode
  <2>2. QED BY <1>1, <1>2, <2>1 DEF Forest, n
(* The list that n is now at the end of. *)
<1>8. m \in DOMAIN tree => LET old == tree[m].children IN
        /\ DOMAIN tree'[m].children = 1 .. Len(old) + 1 /\ DOMAIN old = 1 .. Len(old)
        /\ Len(old) \in Nat
        /\ \A j \in 1 .. Len(old) : tree'[m].children[j] = old[j]
        /\ tree'[m].children[Len(old) + 1] = n
  <2>1. SUFFICES ASSUME m \in DOMAIN tree
                 PROVE  LET old == tree[m].children IN
                        /\ DOMAIN tree'[m].children = 1 .. Len(old) + 1
                        /\ DOMAIN old = 1 .. Len(old) /\ Len(old) \in Nat
                        /\ \A j \in 1 .. Len(old) : tree'[m].children[j] = old[j]
                        /\ tree'[m].children[Len(old) + 1] = n
    OBVIOUS
  <2> DEFINE old == tree[m].children
  <2>2. old \in Seq(Nat \ {0}) /\ tree'[m].children = Append(old, n) /\ n \in Nat \ {0}
    BY <1>1, <1>3, <1>7, <2>1
  <2> HIDE DEF old
  <2>3. QED BY <2>2 DEF old
<1>9. Linked'
  <2>1. ASSUME NEW k \in DOMAIN tree', NEW i \in DOMAIN tree'[k].children
        PROVE  tree'[tree'[k].children[i]].by = k
    <3>1. ASSUME k \in DOMAIN tree, i \in DOMAIN tree[k].children,
                 tree'[k].children[i] = tree[k].children[i]
          PROVE  tree'[tree'[k].children[i]].by = k
      <4> DEFINE c == tree[k].children[i]
      <4>1. c \in DOMAIN tree /\ tree[c].by = k
        BY <1>1, <1>7, <3>1 DEF Linked
      <4> HIDE DEF c
      <4>2. tree'[c].by = k
        BY <1>2, <4>1
      <4>3. QED BY <3>1, <4>2 DEF c
    <3>2. CASE k \in DOMAIN tree /\ k # m
      BY <1>3, <2>1, <3>1, <3>2
    <3>3. CASE k \in DOMAIN tree /\ k = m
      <4>1. i \in DOMAIN tree[k].children \/ i = Len(tree[k].children) + 1
        BY <1>8, <2>1, <3>3
      <4>2. CASE i \in DOMAIN tree[k].children
        BY <1>8, <3>1, <3>3, <4>2
      <4>3. CASE i = Len(tree[k].children) + 1
        BY <1>3, <1>8, <3>3, <4>3
      <4>4. QED BY <4>1, <4>2, <4>3
    <3>4. CASE k \notin DOMAIN tree
      <4>1. k = n /\ m = n
        BY <1>3, <1>6, <2>1, <3>4
      <4>2. tree'[k].children = <<n>>
        BY <1>3, <4>1
      <4>3. tree'[k].children[i] = n
        BY <2>1, <4>2
      <4>4. QED BY <1>3, <4>1, <4>3
    <3>5. QED BY <3>2, <3>3, <3>4
  <2>2. ASSUME NEW c \in DOMAIN tree', tree'[c].by # 0
        PROVE  /\ tree'[c].by \in DOMAIN tree'
               /\ \E i \in DOMAIN tree'[tree'[c].by].children :
                    tree'[tree'[c].by].children[i] = c
    <3> DEFINE b == tree'[c].by
    <3>1. CASE c \in DOMAIN tree
      <4>1. b = tree[c].by /\ b # 0
        BY <1>2, <2>2, <3>1
      <4> HIDE DEF b
      <4>2. PICK i \in DOMAIN tree[b].children : tree[b].children[i] = c
        BY <1>1, <3>1, <4>1 DEF Linked
      <4>3. b \in DOMAIN tree
        BY <1>1, <3>1, <4>1 DEF Linked
      <4>4. i \in DOMAIN tree'[b].children /\ tree'[b].children[i] = c
        <5>1. CASE b = m
          BY <1>8, <4>2, <4>3, <5>1
        <5>2. CASE b # m
          BY <1>3, <4>2, <4>3, <5>2
        <5>3. QED BY <5>1, <5>2
      <4>5. b \in DOMAIN tree'
        BY <1>7, <4>3
      <4>6. QED BY <4>4, <4>5 DEF b
    <3>2. CASE c \notin DOMAIN tree
      <4>1. c = n /\ b = m /\ m # 0
        BY <1>3, <1>6, <2>2, <3>2
      <4> HIDE DEF b
      <4>2. CASE m = n
        <5>1. tree'[n].children = <<n>> /\ n \in DOMAIN tree'
          BY <1>1, <1>2, <1>3, <4>2
        <5>2. 1 \in DOMAIN tree'[n].children /\ tree'[n].children[1] = n
          BY <5>1
        <5>3. QED BY <4>1, <4>2, <5>1, <5>2 DEF b
      <4>3. CASE m # n
        <5>1. m \in DOMAIN tree
          BY <1>1, <4>1, <4>3 DEF n
        <5>2. Len(tree[m].children) + 1 \in DOMAIN tree'[m].children
          BY <1>8, <5>1
        <5>3. m \in DOMAIN tree'
          BY <1>7, <5>1
        <5>4. QED BY <1>8, <4>1, <5>1, <5>2, <5>3 DEF b
      <4>4. QED BY <4>2, <4>3
    <3>3. QED BY <3>1, <3>2
  <2>3. QED BY <2>1, <2>2 DEF Linked
<1>10. Filed'
  <2>1. ASSUME NEW e \in Nat, NEW k \in DOMAIN tree'
        PROVE  /\ Times(e, tree'[k].holds) = IF Belongs(entries', e, k, Others) THEN 1 ELSE 0
               /\ Times(e, tree'[k].alerts) = IF Belongs(entries', e, k, Alerts) THEN 1 ELSE 0
    <3> DEFINE last == Len(entries) + 1
    <3>1. \A kinds :
            /\ e = last => (Belongs(entries', e, k, kinds) <=> n = k /\ "process" \in kinds)
            /\ e = last => ~ Belongs(entries, e, k, kinds)
            /\ e # last => (Belongs(entries', e, k, kinds) <=> Belongs(entries, e, k, kinds))
      <4> DEFINE R == [node : DOMAIN tree, kind : EntryKinds]
      <4>1. entries \in Seq(R) /\ Entered(entries, entries', n, "process")
        BY <1>1, <1>4 DEF CorrTypeOK, Attach, Entered
      <4> HIDE DEF R
      <4>2. QED BY <2>1, <4>1, AppendBelongs
    <3>2. CASE k = n
      <4>1. \A kinds : ~ Belongs(entries, e, n, kinds)
        <5>1. SUFFICES ASSUME e \in DOMAIN entries, entries[e].node = n PROVE FALSE
          BY DEF Belongs
        <5> DEFINE R == [node : DOMAIN tree, kind : EntryKinds]
        <5>2. entries \in Seq(R)
          BY <1>1 DEF CorrTypeOK
        <5> HIDE DEF R
        <5>3. entries[e] \in R
          BY <5>1, <5>2
        <5>4. QED BY <1>7, <5>1, <5>3 DEF R
      <4>2. <<last>> = Append(<<>>, last) /\ last \in Nat /\ <<>> \in Seq(Nat)
        BY <1>1
      <4> HIDE DEF last
      <4>3. Times(e, Append(<<>>, last)) = Times(e, <<>>) + IF last = e THEN 1 ELSE 0
        BY <2>1, <4>2, TimesAppend
      <4>4. Times(e, tree'[k].holds) = IF last = e THEN 1 ELSE 0
        BY <1>2, <3>2, <4>2, <4>3, TimesEmpty DEF last
      <4>5. Times(e, tree'[k].alerts) = 0
        BY <1>2, <2>1, <3>2, TimesEmpty
      <4>6. Belongs(entries', e, k, Others) <=> last = e
        BY <3>1, <3>2, <4>1 DEF Alerts, Others, EntryKinds
      <4>7. ~ Belongs(entries', e, k, Alerts)
        BY <3>1, <3>2, <4>1 DEF Alerts, Others, EntryKinds
      <4>8. QED BY <4>4, <4>5, <4>6, <4>7
    <3>3. CASE k # n
      <4>1. k \in DOMAIN tree /\ tree'[k].holds = tree[k].holds /\ tree'[k].alerts = tree[k].alerts
        BY <1>2, <1>6, <2>1, <3>3 DEF Alike
      <4>2. /\ Belongs(entries', e, k, Others) <=> Belongs(entries, e, k, Others)
            /\ Belongs(entries', e, k, Alerts) <=> Belongs(entries, e, k, Alerts)
        BY <3>1, <3>3
      <4>3. QED BY <1>1, <2>1, <4>1, <4>2 DEF Filed
    <3>4. QED BY <3>2, <3>3
  <2>2. QED BY <2>1 DEF Filed
<1>11. QED BY <1>5, <1>9, <1>10 DEF CorrInv

LEMMA HoldLinks ==
  ASSUME CorrInv, NEW p, NEW nodes, NEW kind \in EntryKinds, Hold(p, nodes, kind),
         p \in DOMAIN nodes => nodes[p] \in DOMAIN tree,
         UNCHANGED wall, DOMAIN live' \subseteq CorrPids, live' \in [DOMAIN live' -> DOMAIN tree]
  PROVE  CorrInv'
<1>1. /\ CorrTypeOK /\ Forest /\ Linked /\ Filed /\ ForestInv
      /\ tree \in Seq(CorrNode) /\ DOMAIN tree = 1 .. Len(tree) /\ Len(tree) \in Nat
      /\ Len(entries) \in Nat
  BY DEF CorrInv, ForestInv, CorrTypeOK
<1>2. ForestInv'
  BY <1>1, HoldKeeps
<1>3. CASE p \notin DOMAIN nodes
  <2>1. UNCHANGED <<tree, entries>>
    BY <1>3 DEF Hold
  <2>2. Linked' /\ Filed'
    BY <1>1, <2>1 DEF Linked, Filed
  <2>3. QED BY <1>2, <2>2 DEF CorrInv
<1>4. CASE p \in DOMAIN nodes
  <2> DEFINE n == nodes[p]
             last == Len(entries) + 1
  <2>1. n \in DOMAIN tree /\ Attach(n, kind) /\ Len(tree') = Len(tree) /\ DOMAIN tree' = DOMAIN tree
    BY <1>1, <1>4, HoldAdds
  <2>2. \A k \in DOMAIN tree : /\ tree'[k].children = tree[k].children
                               /\ tree'[k].by = tree[k].by
                               /\ k # n => /\ tree'[k].holds = tree[k].holds
                                           /\ tree'[k].alerts = tree[k].alerts
    BY <1>1, <1>4, HoldAdds DEF Alike
  <2>3. /\ tree'[n].holds = IF kind = "alert" THEN tree[n].holds ELSE Append(tree[n].holds, last)
        /\ tree'[n].alerts = IF kind = "alert" THEN Append(tree[n].alerts, last) ELSE tree[n].alerts
    BY <1>1, <1>4, HoldAdds
  <2>4. last \in Nat
    BY <1>1
  <2> HIDE DEF n
  <2>5. Linked'
    <3>1. ASSUME NEW k \in DOMAIN tree', NEW i \in DOMAIN tree'[k].children
          PROVE  tree'[tree'[k].children[i]].by = k
      <4> DEFINE c == tree[k].children[i]
      <4>1. i \in DOMAIN tree[k].children /\ tree'[k].children[i] = c
        BY <2>1, <2>2
      <4>2. c \in DOMAIN tree /\ tree[c].by = k
        BY <1>1, <2>1, <4>1 DEF Forest, Linked
      <4> HIDE DEF c
      <4>3. QED BY <2>2, <4>1, <4>2
    <3>2. ASSUME NEW c \in DOMAIN tree', tree'[c].by # 0
          PROVE  /\ tree'[c].by \in DOMAIN tree'
                 /\ \E i \in DOMAIN tree'[tree'[c].by].children :
                      tree'[tree'[c].by].children[i] = c
      <4> DEFINE b == tree[c].by
      <4>1. tree'[c].by = b /\ b # 0
        BY <2>1, <2>2, <3>2
      <4>2. b \in DOMAIN tree /\ \E i \in DOMAIN tree[b].children : tree[b].children[i] = c
        BY <1>1, <2>1, <3>2, <4>1 DEF Linked
      <4> HIDE DEF b
      <4>3. tree'[b].children = tree[b].children
        BY <2>2, <4>2
      <4>4. QED BY <2>1, <4>1, <4>2, <4>3
    <3>3. QED BY <3>1, <3>2 DEF Linked
  <2>6. ASSUME NEW e \in Nat, NEW k \in DOMAIN tree'
        PROVE  /\ Times(e, tree'[k].holds) = IF Belongs(entries', e, k, Others) THEN 1 ELSE 0
               /\ Times(e, tree'[k].alerts) = IF Belongs(entries', e, k, Alerts) THEN 1 ELSE 0
    <3>1. \A kinds :
            /\ e = last => (Belongs(entries', e, k, kinds) <=> n = k /\ kind \in kinds)
            /\ e = last => ~ Belongs(entries, e, k, kinds)
            /\ e # last => (Belongs(entries', e, k, kinds) <=> Belongs(entries, e, k, kinds))
      <4> DEFINE R == [node : DOMAIN tree, kind : EntryKinds]
      <4>1. entries \in Seq(R) /\ Entered(entries, entries', n, kind)
        BY <1>1, <2>1 DEF CorrTypeOK, Attach, Entered
      <4> HIDE DEF R
      <4>2. QED BY <2>6, <4>1, AppendBelongs
    <3>2. k \in DOMAIN tree /\ tree[k].holds \in Seq(Nat) /\ tree[k].alerts \in Seq(Nat)
      BY <1>1, <2>1, <2>6, HeldTyped
    <3>3. /\ Times(e, tree[k].holds) = IF Belongs(entries, e, k, Others) THEN 1 ELSE 0
          /\ Times(e, tree[k].alerts) = IF Belongs(entries, e, k, Alerts) THEN 1 ELSE 0
      BY <1>1, <2>6, <3>2 DEF Filed
    <3> HIDE DEF last
    <3>4. CASE k # n
      <4>1. tree'[k].holds = tree[k].holds /\ tree'[k].alerts = tree[k].alerts
        BY <2>2, <3>2, <3>4
      <4>2. \A kinds : Belongs(entries', e, k, kinds) <=> Belongs(entries, e, k, kinds)
        BY <3>1, <3>4
      <4>3. QED BY <3>3, <4>1, <4>2
    <3> DEFINE hs == tree[k].holds
               as == tree[k].alerts
    <3>5. CASE k = n /\ kind = "alert"
      <4>1. tree'[k].holds = hs /\ tree'[k].alerts = Append(as, last)
        BY <2>3, <3>5
      <4>2. kind \in Alerts /\ kind \notin Others
        BY <3>5 DEF Alerts, Others
      <4> HIDE DEF hs, as
      <4>3. Times(e, Append(as, last)) = Times(e, as) + IF last = e THEN 1 ELSE 0
        BY <2>4, <2>6, <3>2, TimesAppend DEF as
      <4>4. Belongs(entries', e, k, Alerts) <=> (Belongs(entries, e, k, Alerts) \/ last = e)
        BY <3>1, <3>5, <4>2
      <4>5. last = e => ~ Belongs(entries, e, k, Alerts)
        BY <3>1
      <4>6. Belongs(entries', e, k, Others) <=> Belongs(entries, e, k, Others)
        BY <3>1, <4>2
      <4>7. QED BY <3>3, <4>1, <4>3, <4>4, <4>5, <4>6 DEF hs, as
    <3>6. CASE k = n /\ kind # "alert"
      <4>1. tree'[k].alerts = as /\ tree'[k].holds = Append(hs, last)
        BY <2>3, <3>6
      <4>2. kind \notin Alerts /\ kind \in Others
        BY <3>6 DEF Alerts, Others
      <4> HIDE DEF hs, as
      <4>3. Times(e, Append(hs, last)) = Times(e, hs) + IF last = e THEN 1 ELSE 0
        BY <2>4, <2>6, <3>2, TimesAppend DEF hs
      <4>4. Belongs(entries', e, k, Others) <=> (Belongs(entries, e, k, Others) \/ last = e)
        BY <3>1, <3>6, <4>2
      <4>5. last = e => ~ Belongs(entries, e, k, Others)
        BY <3>1
      <4>6. Belongs(entries', e, k, Alerts) <=> Belongs(entries, e, k, Alerts)
        BY <3>1, <4>2
      <4>7. QED BY <3>3, <4>1, <4>3, <4>4, <4>5, <4>6 DEF hs, as
    <3>7. QED BY <3>4, <3>5, <3>6
  <2>7. Filed'
    BY <2>6 DEF Filed
  <2>8. QED BY <1>2, <2>5, <2>7 DEF CorrInv
<1>5. QED BY <1>3, <1>4

LEMMA CorrInvStep == CorrInv /\ [CorrNext]_corrVars => CorrInv'
<1> SUFFICES ASSUME CorrInv, [CorrNext]_corrVars PROVE CorrInv'
  OBVIOUS
<1>1. CorrTypeOK /\ Forest /\ ForestInv /\ Linked /\ Filed
  BY DEF CorrInv, ForestInv
<1>2. CASE CorrelateProcess
  <2>1. PICK p \in CorrPids, pp \in CorrPids, t \in 0 .. wall : Launch(p, pp, t)
    BY <1>2 DEF CorrelateProcess
  <2>2. UNCHANGED wall
    BY <1>2 DEF CorrelateProcess
  <2>3. QED BY <2>1, <2>2, LaunchLinks
<1>3. CASE CorrelateActivity
  <2>1. PICK p \in CorrPids, kind \in EntryKinds \ {"process", "alert"} : Hold(p, Unexpired, kind)
    BY <1>3 DEF CorrelateActivity
  <2>2. UNCHANGED wall /\ live' = Unexpired
    BY <1>3 DEF CorrelateActivity
  <2>3. DOMAIN Unexpired \subseteq CorrPids /\ \A q \in DOMAIN Unexpired : Unexpired[q] \in DOMAIN tree
    BY <1>1, UnexpiredOK
  <2>4. live' \in [DOMAIN live' -> DOMAIN tree]
    BY <2>2, <2>3 DEF Unexpired
  <2>5. QED BY <2>1, <2>2, <2>3, <2>4, HoldLinks
<1>4. CASE RecordAlert
  <2>1. PICK p \in CorrPids : Hold(p, live, "alert")
    BY <1>4 DEF RecordAlert
  <2>2. UNCHANGED <<wall, live>> /\ "alert" \in EntryKinds
    BY <1>4 DEF RecordAlert, EntryKinds
  <2>3. /\ DOMAIN live' \subseteq CorrPids /\ live' \in [DOMAIN live' -> DOMAIN tree]
        /\ p \in DOMAIN live => live[p] \in DOMAIN tree
    BY <1>1, <2>2 DEF CorrTypeOK
  <2>4. QED BY <2>1, <2>2, <2>3, HoldLinks
<1>5. CASE CorrTick \/ UNCHANGED corrVars
  <2>1. UNCHANGED <<live, tree, entries>>
    BY <1>5 DEF CorrTick, corrVars
  <2>2. ForestInv'
    BY <1>1, CorrStep
  <2>3. Linked' /\ Filed'
    BY <1>1, <2>1 DEF Linked, Filed
  <2>4. QED BY <2>2, <2>3 DEF CorrInv
<1>6. QED BY <1>2, <1>3, <1>4, <1>5 DEF CorrNext

(* An analyst is shown exactly what was attached to the process or under it, each *)
(* entry once, and among the alerts the alerts: for any PIDs, any window and any  *)
(* order of launches, activities, alerts and expiries.                            *)
THEOREM TimelineExactAlways == CorrSpec => []TimelineExact
<1>1. QED BY CorrInvInit, CorrInvStep, TimelineHolds, PTL DEF CorrSpec

-----------------------------------------------------------------------------
(* The agent: shutdown calls every hook before it says STOPPED, however many   *)
(* callers trigger it and however many hooks are registered.                   *)

Places == {"booting", "booted", "failed", "waiting", "idle", "hooks", "returned"}

LifeTypes ==
  /\ appState \in {"INITIALIZING", "RUNNING", "STOPPING", "STOPPED"}
  /\ hooks \in Nat /\ hookRuns \in [1 .. hooks -> Nat] /\ firstCopy \in Nat \cup {-1}
  /\ lpc \in [Callers -> Places] /\ left \in [Callers -> Seq(1 .. hooks)]

(* A hook of the first copy has been called, or a caller that has not called it yet *)
(* has it left.                                                                     *)
HooksAhead ==
  /\ firstCopy <= hooks
  /\ \A c \in Callers : lpc[c] = "hooks" =>
       /\ firstCopy # -1
       /\ \A h \in 1 .. firstCopy :
            hookRuns[h] > 0 \/ \E i \in 1 .. Len(left[c]) : left[c][i] = h
  /\ appState = "STOPPED" => firstCopy # -1 /\ \A h \in 1 .. firstCopy : hookRuns[h] > 0

LifeInv == LifeTypes /\ HooksAhead

LEMMA LifeInit == CoreInit => LifeInv
<1> SUFFICES ASSUME CoreInit PROVE LifeInv
  OBVIOUS
<1>1. /\ appState = "INITIALIZING" /\ hooks = 0 /\ hookRuns = <<>> /\ firstCopy = -1
      /\ lpc = [c \in Callers |-> IF c = Run THEN "booting" ELSE "idle"]
      /\ left = [c \in Callers |-> <<>>]
  BY DEF CoreInit
<1>2. hookRuns \in [1 .. hooks -> Nat]
  BY <1>1
<1>3. LifeTypes
  BY <1>1, <1>2 DEF LifeTypes, Places
<1>4. HooksAhead
  BY <1>1 DEF HooksAhead
<1>5. QED BY <1>3, <1>4 DEF LifeInv

LEMMA CopyIsSeq == ASSUME hooks \in Nat
                   PROVE  CopyOf \in Seq(1 .. hooks) /\ Len(CopyOf) = hooks
BY DEF CopyOf

LEMMA RegisterHookKeeps == ASSUME LifeInv, RegisterHook PROVE LifeInv'
<1>1. /\ hooks \in Nat /\ hooks' = hooks + 1 /\ hookRuns' = Append(hookRuns, 0)
      /\ UNCHANGED <<appState, lpc, left, firstCopy>> /\ LifeTypes /\ HooksAhead
  BY DEF LifeInv, LifeTypes, RegisterHook
<1>2. /\ hookRuns' \in [1 .. hooks' -> Nat]
      /\ \A h \in 1 .. hooks : hookRuns'[h] = hookRuns[h]
  <2>1. hookRuns \in Seq(Nat) /\ Len(hookRuns) = hooks
    BY <1>1 DEF LifeTypes
  <2>2. /\ Append(hookRuns, 0) \in Seq(Nat) /\ Len(Append(hookRuns, 0)) = hooks + 1
        /\ \A h \in 1 .. hooks : Append(hookRuns, 0)[h] = hookRuns[h]
    BY <2>1, <1>1, AppendProperties
  <2>3. hookRuns' \in Seq(Nat) /\ Len(hookRuns') = hooks'
    BY <1>1, <2>2
  <2>4. hookRuns' \in [1 .. hooks' -> Nat]
    BY <2>3, LenProperties
  <2>5. QED BY <1>1, <2>2, <2>4
<1>3. left' \in [Callers -> Seq(1 .. hooks')]
  <2>1. 1 .. hooks \subseteq 1 .. hooks'
    BY <1>1
  <2>2. Seq(1 .. hooks) \subseteq Seq(1 .. hooks')
    BY <2>1, SeqMonotonic
  <2>3. QED BY <1>1, <2>2 DEF LifeTypes
<1>4. LifeTypes'
  BY <1>1, <1>2, <1>3 DEF LifeTypes
<1>5. HooksAhead'
  BY <1>1, <1>2 DEF HooksAhead, LifeTypes
<1>6. QED BY <1>4, <1>5 DEF LifeInv

LEMMA TriggerKeeps == ASSUME LifeInv, NEW c \in Callers, Trigger(c) PROVE LifeInv'
<1>1. /\ lpc[c] = "idle" /\ appState' = "STOPPING" /\ left' = [left EXCEPT ![c] = CopyOf]
      /\ firstCopy' = IF firstCopy = -1 THEN hooks ELSE firstCopy
      /\ lpc' = [lpc EXCEPT ![c] = "hooks"] /\ UNCHANGED <<hooks, hookRuns>>
      /\ LifeTypes /\ HooksAhead
  BY DEF Trigger, SetState, LifeInv
<1>2. CopyOf \in Seq(1 .. hooks) /\ Len(CopyOf) = hooks /\ \A h \in 1 .. hooks : CopyOf[h] = h
  BY <1>1, CopyIsSeq DEF LifeTypes, CopyOf
<1>3. LifeTypes'
  BY <1>1, <1>2 DEF LifeTypes, Places
<1>4. firstCopy' <= hooks /\ firstCopy' # -1 /\ firstCopy' \in Nat
  BY <1>1 DEF LifeTypes, HooksAhead
<1>5. ASSUME NEW d \in Callers, lpc'[d] = "hooks", NEW h \in 1 .. firstCopy'
      PROVE  hookRuns'[h] > 0 \/ \E i \in 1 .. Len(left'[d]) : left'[d][i] = h
  <2>1. CASE d = c
    <3>1. h \in 1 .. hooks /\ left'[d] = CopyOf
      BY <1>1, <1>4, <1>5, <2>1 DEF LifeTypes
    <3>2. QED BY <1>2, <3>1
  <2>2. CASE d # c
    <3>1. lpc[d] = "hooks" /\ left'[d] = left[d]
      BY <1>1, <1>5, <2>2 DEF LifeTypes
    <3>2. firstCopy' = firstCopy
      BY <1>1, <3>1 DEF HooksAhead
    <3>3. QED BY <1>1, <1>5, <3>1, <3>2 DEF HooksAhead
  <2>3. QED BY <2>1, <2>2
<1>6. HooksAhead'
  BY <1>1, <1>4, <1>5 DEF HooksAhead
<1>7. QED BY <1>3, <1>6 DEF LifeInv

LEMMA CallHookKeeps == ASSUME LifeInv, NEW c \in Callers, CallHook(c) PROVE LifeInv'
<1> DEFINE g == Head(left[c])
<1>1. /\ lpc[c] = "hooks" /\ left[c] # <<>>
      /\ hookRuns' = [hookRuns EXCEPT ![g] = @ + 1]
      /\ left' = [left EXCEPT ![c] = Tail(left[c])]
      /\ UNCHANGED <<appState, hooks, lpc, firstCopy>> /\ LifeTypes /\ HooksAhead
  BY DEF CallHook, LifeInv
<1>2. /\ left[c] \in Seq(1 .. hooks) /\ g \in 1 .. hooks /\ Tail(left[c]) \in Seq(1 .. hooks)
      /\ Len(Tail(left[c])) = Len(left[c]) - 1 /\ g = left[c][1] /\ Len(left[c]) \in Nat
      /\ \A i \in 1 .. Len(left[c]) - 1 : Tail(left[c])[i] = left[c][i + 1]
  BY <1>1 DEF LifeTypes
<1>3. /\ hookRuns' \in [1 .. hooks -> Nat] /\ hookRuns'[g] > 0
      /\ \A h \in 1 .. hooks : hookRuns[h] > 0 => hookRuns'[h] > 0
  BY <1>1, <1>2 DEF LifeTypes
<1>4. LifeTypes'
  BY <1>1, <1>2, <1>3 DEF LifeTypes
<1>5. ASSUME NEW d \in Callers, lpc'[d] = "hooks", NEW h \in 1 .. firstCopy'
      PROVE  hookRuns'[h] > 0 \/ \E i \in 1 .. Len(left'[d]) : left'[d][i] = h
  <2>0. h \in 1 .. hooks /\ h \in 1 .. firstCopy /\ lpc[d] = "hooks"
    BY <1>1, <1>5 DEF HooksAhead, LifeTypes
  <2>1. CASE d = c /\ hookRuns[h] > 0
    BY <1>3, <2>0, <2>1
  <2>2. CASE d = c /\ ~(hookRuns[h] > 0)
    <3>1. PICK i \in 1 .. Len(left[c]) : left[c][i] = h
      BY <1>1, <2>0, <2>2 DEF HooksAhead
    <3>2. CASE i = 1
      BY <1>2, <1>3, <3>1, <3>2
    <3>3. CASE i # 1
      <4>1. i - 1 \in 1 .. Len(left[c]) - 1 /\ Tail(left[c])[i - 1] = h
        BY <1>2, <3>1, <3>3
      <4>2. left'[d] = Tail(left[c])
        BY <1>1, <2>2 DEF LifeTypes
      <4>3. QED BY <1>2, <4>1, <4>2
    <3>4. QED BY <3>2, <3>3
  <2>3. CASE d # c
    <3>1. left'[d] = left[d]
      BY <1>1, <2>3 DEF LifeTypes
    <3>2. hookRuns[h] > 0 \/ \E i \in 1 .. Len(left[d]) : left[d][i] = h
      BY <1>1, <2>0, <2>3 DEF HooksAhead
    <3>3. QED BY <1>3, <2>0, <3>1, <3>2
  <2>4. QED BY <2>1, <2>2, <2>3
<1>6. appState' = "STOPPED" => firstCopy' # -1 /\ \A h \in 1 .. firstCopy' : hookRuns'[h] > 0
  BY <1>1, <1>3 DEF HooksAhead, LifeTypes
<1>7. HooksAhead'
  BY <1>1, <1>5, <1>6 DEF HooksAhead
<1>8. QED BY <1>4, <1>7 DEF LifeInv

LEMMA StoppedKeeps == ASSUME LifeInv, NEW c \in Callers, Stopped(c) PROVE LifeInv'
<1>1. /\ lpc[c] = "hooks" /\ left[c] = <<>> /\ appState' = "STOPPED"
      /\ lpc' = [lpc EXCEPT ![c] = "returned"]
      /\ UNCHANGED <<hooks, left, hookRuns, firstCopy>> /\ LifeTypes /\ HooksAhead
  BY DEF Stopped, HooksCalled, SetState, LifeInv
<1>2. firstCopy # -1 /\ \A h \in 1 .. firstCopy : hookRuns[h] > 0
  BY <1>1 DEF HooksAhead
<1>3. LifeTypes'
  BY <1>1 DEF LifeTypes, Places
<1>4. HooksAhead'
  BY <1>1, <1>2 DEF HooksAhead, LifeTypes
<1>5. QED BY <1>3, <1>4 DEF LifeInv

LEMMA BootKeeps == ASSUME LifeInv, Initialize \/ EnterRun \/ Signalled PROVE LifeInv'
<1>1. /\ UNCHANGED <<hooks, left, hookRuns, firstCopy>> /\ LifeTypes /\ HooksAhead
      /\ appState' = appState \/ appState' \in {"RUNNING", "STOPPING"}
      /\ \E p \in Places \ {"hooks"} : lpc' = [lpc EXCEPT ![Run] = p]
  BY DEF Initialize, EnterRun, Signalled, SetState, LifeInv, Places
<1>2. LifeTypes'
  BY <1>1 DEF LifeTypes
<1>3. \A d \in Callers : lpc'[d] = "hooks" => lpc[d] = "hooks"
  BY <1>1 DEF LifeTypes
<1>4. HooksAhead'
  BY <1>1, <1>3 DEF HooksAhead, LifeTypes
<1>5. QED BY <1>2, <1>4 DEF LifeInv

LEMMA LifeStep == LifeInv /\ [CoreNext]_coreVars => LifeInv'
<1> SUFFICES ASSUME LifeInv, [CoreNext]_coreVars PROVE LifeInv'
  OBVIOUS
<1>1. CASE UNCHANGED lifeVars
  BY <1>1 DEF LifeInv, LifeTypes, HooksAhead, lifeVars
<1>2. CASE RegisterHook
  BY <1>2, RegisterHookKeeps
<1>3. CASE Initialize \/ EnterRun \/ Signalled
  BY <1>3, BootKeeps
<1>4. ASSUME NEW c \in Callers, Trigger(c) \/ CallHook(c) \/ Stopped(c) PROVE LifeInv'
  BY <1>4, TriggerKeeps, CallHookKeeps, StoppedKeeps
<1>5. QED BY <1>1, <1>2, <1>3, <1>4
             DEF CoreNext, Lifecycle, ServiceCalls, Scheduler, coreVars

(* What ServiceManager and Scheduler keep. *)
RestTypes ==
  /\ DOMAIN services \subseteq SvcNames /\ \A n \in DOMAIN services : services[n] \in Services
  /\ svcRunning \subseteq Services
  /\ task \in [Tasks -> {"unscheduled", "select", "running", "done"}] /\ schedOn \in BOOLEAN

LEMMA RestInit == CoreInit => RestTypes
BY DEF CoreInit, RestTypes

LEMMA RestStep == RestTypes /\ [CoreNext]_coreVars => RestTypes'
<1> SUFFICES ASSUME RestTypes, [CoreNext]_coreVars PROVE RestTypes'
  OBVIOUS
<1>1. AllServices \subseteq Services
  BY DEF RestTypes, AllServices
<1>2. ASSUME NEW n \in SvcNames, NEW s \in Services, RegisterService(n, s), UNCHANGED schedVars
      PROVE  RestTypes'
  <2>1. /\ DOMAIN services' = DOMAIN services \cup {n} /\ UNCHANGED <<svcRunning, task, schedOn>>
        /\ \A m \in DOMAIN services' : services'[m] = IF m = n THEN s ELSE services[m]
    BY <1>2 DEF RegisterService, schedVars
  <2>2. QED BY <2>1 DEF RestTypes
<1>3. ASSUME StartAll \/ StopAll, UNCHANGED schedVars PROVE RestTypes'
  <2>1. services' = services /\ svcRunning' \subseteq svcRunning \cup AllServices
    BY <1>3 DEF StartAll, StopAll
  <2>2. QED BY <1>1, <1>3, <2>1 DEF RestTypes, schedVars
<1>4. ASSUME ServiceCalls PROVE RestTypes'
  BY <1>2, <1>3, <1>4 DEF ServiceCalls
<1>5. ASSUME Scheduler PROVE RestTypes'
  BY <1>5 DEF Scheduler, svcVars, StopScheduler, Schedule, TaskStart, TaskEnd, TaskDone, RestTypes
<1>6. ASSUME UNCHANGED <<svcVars, schedVars>> PROVE RestTypes'
  BY <1>6 DEF svcVars, schedVars, RestTypes
<1>7. QED BY <1>4, <1>5, <1>6 DEF CoreNext, Lifecycle, coreVars

LEMMA CoreTyped == LifeInv /\ RestTypes => CoreTypeOK
BY DEF LifeInv, LifeTypes, RestTypes, CoreTypeOK, Places, AllServices

(* HooksBeforeStopped holds for any number of callers and hooks. *)
THEOREM HooksBeforeStoppedAlways == CoreSpec => []HooksBeforeStopped
<1>1. LifeInv => HooksBeforeStopped
  BY DEF LifeInv, HooksAhead, HooksBeforeStopped
<1>2. QED BY <1>1, LifeInit, LifeStep, PTL DEF CoreSpec

-----------------------------------------------------------------------------
(* The daemon: one that nobody disturbs can be reached.                        *)

(* A daemon that is not disturbed is the only one up, and what it has done to the *)
(* two paths is what is there.                                                    *)
Alone == \A d, e \in Up : d \notin disturbed => e = d

Paths == \A d \in Up \ disturbed :
  /\ daemon[d].start # Blank
  /\ At(d, "clear") => sock = NoDaemon
  /\ daemon[d].at \in {"listening", "serving"} => sock = d
  /\ daemon[d].at \in {"started", "clear", "listening"} => daemon[d].token = configured
  /\ At(d, "serving") => daemon[d].token = TokenToShow

DaemonInv == DaemonTypeOK /\ Alone /\ Paths

DaemonPlaces == {"down", "started", "clear", "listening", "serving", "draining", "clean"}

LEMMA DaemonInitOK == DaemonInit => DaemonInv
BY DaemonAssumption
   DEF DaemonInit, DaemonInv, DaemonTypeOK, Alone, Paths, Up, At, Down, NoClient, Blank, FromConfig

LEMMA TypeStep == DaemonTypeOK /\ [DaemonNext]_daemonVars => DaemonTypeOK'
<1> SUFFICES ASSUME DaemonTypeOK, [DaemonNext]_daemonVars PROVE DaemonTypeOK'
  OBVIOUS
<1> USE DEF DaemonTypeOK, At, Goes, Down, NoClient, Blank, FromConfig
<1>1. CASE Configure
  BY <1>1 DEF Configure, Up
<1>2. ASSUME NEW d \in Daemons, StartDaemon(d) PROVE DaemonTypeOK'
  <2>1. starts' = starts + 1 /\ starts \in Nat /\ 0 .. starts \subseteq 0 .. starts'
    BY <1>2 DEF StartDaemon
  <2>2. daemon' \in [Daemons -> [at : DaemonPlaces, token : {FromConfig} \cup 0 .. starts', start : 0 .. starts']]
    BY <1>2, <2>1 DEF StartDaemon, DaemonPlaces
  <2>3. client' \in [Clients -> [at : {"idle", "ready", "calling"}, token : {FromConfig} \cup 0 .. starts',
                                 to : Daemons \cup {NoDaemon}]]
    BY <1>2, <2>1 DEF StartDaemon
  <2>4. QED BY <1>2, <2>1, <2>2, <2>3 DEF StartDaemon, Up, DaemonPlaces
<1>3. ASSUME NEW d \in Daemons, RemoveOldSocket(d) \/ Terminate(d) \/ CleanUp(d) PROVE DaemonTypeOK'
  BY <1>3 DEF RemoveOldSocket, Terminate, CleanUp
<1>4. ASSUME NEW d \in Daemons, Listen(d) PROVE DaemonTypeOK'
  BY <1>4 DEF Listen
<1>5. ASSUME NEW d \in Daemons, TakeToken(d) PROVE DaemonTypeOK'
  BY <1>5 DEF TakeToken, Writes
<1>6. ASSUME NEW d \in Daemons, RemoveToken(d) PROVE DaemonTypeOK'
  BY <1>6 DEF RemoveToken
<1>7. ASSUME NEW d \in Daemons, DaemonCrash(d) PROVE DaemonTypeOK'
  BY <1>7 DEF DaemonCrash
<1>8. ASSUME NEW c \in Clients, ReadToken(c) \/ Dial(c) \/ Answered(c) PROVE DaemonTypeOK'
  <2> DEFINE Client == [at : {"idle", "ready", "calling"}, token : {FromConfig} \cup 0 .. starts,
                        to : Daemons \cup {NoDaemon}]
  <2>1. client[c] \in Client /\ NoClient \in Client /\ TokenToShow \in {FromConfig} \cup 0 .. starts
    BY DEF TokenToShow
  <2>2. CASE ReadToken(c)
    BY <2>1, <2>2 DEF ReadToken
  <2>3. CASE Dial(c)
    <3>1. [client[c] EXCEPT !.at = "calling", !.to = sock] \in Client
      BY <2>1
    <3>2. client' \in [Clients -> Client]
      BY <2>1, <2>3, <3>1 DEF Dial
    <3>3. QED BY <2>3, <3>2 DEF Dial
  <2>4. CASE Answered(c)
    BY <2>1, <2>4 DEF Answered
  <2>5. QED BY <1>8, <2>2, <2>3, <2>4
<1>9. CASE UNCHANGED daemonVars
  BY <1>9 DEF daemonVars
<1>10. QED BY <1>1, <1>2, <1>3, <1>4, <1>5, <1>6, <1>7, <1>8, <1>9 DEF DaemonNext

(* A step of d alone, which was up and stays or goes down, leaves the others where they were. *)
LEMMA AloneStep == DaemonInv /\ [DaemonNext]_daemonVars => Alone'
<1> SUFFICES ASSUME DaemonInv, [DaemonNext]_daemonVars PROVE Alone'
  OBVIOUS
<1> USE DEF DaemonInv, DaemonTypeOK, At, Goes, Down, Alone, Up
<1>1. CASE Configure
  BY <1>1 DEF Configure
<1>2. ASSUME NEW d \in Daemons, StartDaemon(d) PROVE Alone'
  BY <1>2 DEF StartDaemon
<1>3. ASSUME NEW d \in Daemons, RemoveOldSocket(d) \/ Terminate(d) \/ CleanUp(d) PROVE Alone'
  BY <1>3 DEF RemoveOldSocket, Terminate, CleanUp
<1>4. ASSUME NEW d \in Daemons, Listen(d) PROVE Alone'
  BY <1>4 DEF Listen
<1>5. ASSUME NEW d \in Daemons, TakeToken(d) PROVE Alone'
  BY <1>5 DEF TakeToken
<1>6. ASSUME NEW d \in Daemons, RemoveToken(d) PROVE Alone'
  BY <1>6 DEF RemoveToken
<1>7. ASSUME NEW d \in Daemons, DaemonCrash(d) PROVE Alone'
  BY <1>7 DEF DaemonCrash
<1>8. ASSUME NEW c \in Clients, ReadToken(c) \/ Dial(c) \/ Answered(c) PROVE Alone'
  BY <1>8 DEF ReadToken, Dial, Answered
<1>9. CASE UNCHANGED daemonVars
  BY <1>9 DEF daemonVars
<1>10. QED BY <1>1, <1>2, <1>3, <1>4, <1>5, <1>6, <1>7, <1>8, <1>9 DEF DaemonNext

LEMMA PathsStep == DaemonInv /\ [DaemonNext]_daemonVars => Paths'
<1> SUFFICES ASSUME DaemonInv, [DaemonNext]_daemonVars PROVE Paths'
  OBVIOUS
<1> USE DEF DaemonInv, DaemonTypeOK, At, Goes, Down, Alone, Up, Paths, TokenToShow
<1>1. CASE Configure
  BY <1>1 DEF Configure
<1>2. ASSUME NEW d \in Daemons, StartDaemon(d) PROVE Paths'
  BY <1>2 DEF StartDaemon, Blank
<1>3. ASSUME NEW d \in Daemons, RemoveOldSocket(d) PROVE Paths'
  BY <1>3 DEF RemoveOldSocket
<1>4. ASSUME NEW d \in Daemons, Terminate(d) \/ CleanUp(d) PROVE Paths'
  BY <1>4 DEF Terminate, CleanUp
<1>5. ASSUME NEW d \in Daemons, Listen(d) PROVE Paths'
  BY <1>5, DaemonAssumption DEF Listen
<1>6. ASSUME NEW d \in Daemons, TakeToken(d) PROVE Paths'
  BY <1>6 DEF TakeToken, Writes
<1>7. ASSUME NEW d \in Daemons, RemoveToken(d) PROVE Paths'
  BY <1>7 DEF RemoveToken
<1>8. ASSUME NEW d \in Daemons, DaemonCrash(d) PROVE Paths'
  BY <1>8 DEF DaemonCrash
<1>9. ASSUME NEW c \in Clients, ReadToken(c) \/ Dial(c) \/ Answered(c) PROVE Paths'
  BY <1>9 DEF ReadToken, Dial, Answered
<1>10. CASE UNCHANGED daemonVars
  BY <1>10 DEF daemonVars
<1>11. QED BY <1>1, <1>2, <1>3, <1>4, <1>5, <1>6, <1>7, <1>8, <1>9, <1>10 DEF DaemonNext

(* Whatever an earlier daemon left behind at the two paths, one that is up alone and *)
(* undisturbed serves at the socket and its token is what a client finds.            *)
THEOREM ReachableAlways == DaemonSpec => []Reachable
<1>1. DaemonInv /\ [DaemonNext]_daemonVars => DaemonInv'
  BY TypeStep, AloneStep, PathsStep DEF DaemonInv
<1>2. DaemonInv => Reachable
  BY DEF DaemonInv, Paths, Reachable, Admits, Up, At
<1>3. QED BY DaemonInitOK, <1>1, <1>2, PTL DEF DaemonSpec

(* Every token in use is a start's, the configured one, or none. *)
THEOREM DaemonTypeOKAlways == DaemonSpec => []DaemonTypeOK
<1>1. DaemonInit => DaemonTypeOK
  BY DaemonInitOK DEF DaemonInv
<1>2. QED BY <1>1, TypeStep, PTL DEF DaemonSpec

-----------------------------------------------------------------------------
(* The deduplicator: it answers exactly.                                       *)

Judgements == [key : Keys, at : Nat, dup : BOOLEAN]

Shape ==
  /\ now \in Nat
  /\ judged \in Seq(Judgements)
  /\ \A j \in DOMAIN judged : judged[j].at <= now
  /\ \A k \in DOMAIN cache : cache[k] \in Nat /\ cache[k] <= now

(* Every time in the cache is the time of a call that let its key through. *)
CacheSound ==
  \A k \in DOMAIN cache : \E j \in DOMAIN judged :
     judged[j].key = k /\ ~judged[j].dup /\ judged[j].at = cache[k]

DedupInv == Shape /\ CacheSound /\ CacheComplete /\ DedupExact

LEMMA DedupInitOK == DedupInit => DedupInv
BY DEF DedupInit, DedupInv, Shape, CacheSound, CacheComplete, DedupExact

(* What a call does to the cache: the keys it keeps keep their times, and only stale *)
(* ones go.                                                                          *)
LEMMA CacheStep ==
  ASSUME Shape, NEW k \in Keys, IsDuplicate(k)
  PROVE  /\ Fresh(k) => cache' = cache
         /\ \A j \in DOMAIN cache' :
              \/ j = k /\ cache'[j] = now
              \/ j \in DOMAIN cache /\ cache'[j] = cache[j]
         /\ ~Fresh(k) => k \in DOMAIN cache' /\ cache'[k] = now
         /\ \A j \in DOMAIN cache : j # k /\ now - cache[j] < TTL =>
              j \in DOMAIN cache' /\ cache'[j] = cache[j]
<1>1. CASE Fresh(k)
  BY <1>1 DEF IsDuplicate
<1>2. CASE ~Fresh(k)
  <2>1. /\ DOMAIN Noted(k) = DOMAIN cache \cup {k}
        /\ Noted(k)[k] = now
        /\ \A j \in DOMAIN cache : j # k => Noted(k)[j] = cache[j]
    BY DEF Noted
  <2>2. cache' = Evict(Noted(k))
    BY <1>2 DEF IsDuplicate
  <2>3. CASE Cardinality(DOMAIN Noted(k)) > CacheLimit
    <3>1. cache' = [j \in {i \in DOMAIN Noted(k) : now - Noted(k)[i] <= TTL} |-> Noted(k)[j]]
      BY <2>2, <2>3 DEF Evict
    <3>2. now - now <= TTL /\ TTL \in Nat
      BY DedupAssumption DEF Shape
    <3>3. k \in DOMAIN cache'
      BY <2>1, <3>1, <3>2
    <3>4. \A j \in DOMAIN cache : j # k /\ now - cache[j] < TTL => j \in DOMAIN cache'
      BY <2>1, <3>1, <3>2 DEF Shape
    <3>5. QED BY <1>2, <2>1, <3>1, <3>3, <3>4
  <2>4. CASE ~(Cardinality(DOMAIN Noted(k)) > CacheLimit)
    <3>1. cache' = Noted(k)
      BY <2>2, <2>4 DEF Evict
    <3>2. QED BY <1>2, <2>1, <3>1
  <2>5. QED BY <2>3, <2>4
<1>3. QED BY <1>1, <1>2

LEMMA CallStep == ASSUME DedupInv, NEW k \in Keys, Call(k) PROVE DedupInv'
<1> DEFINE n == Len(judged) + 1
           r == [key |-> k, at |-> now, dup |-> Fresh(k)]
<1>0. /\ judged \in Seq(Judgements) /\ now \in Nat /\ now' = now
      /\ IsDuplicate(k) /\ Shape /\ judged' = Append(judged, r)
  BY DEF DedupInv, Shape, Call
<1>1. r \in Judgements
  BY <1>0 DEF Judgements, Fresh
<1>2. /\ judged' \in Seq(Judgements) /\ DOMAIN judged' = 1 .. n /\ n \in Nat \ {0}
      /\ DOMAIN judged = 1 .. n - 1
      /\ \A j \in DOMAIN judged : judged'[j] = judged[j]
      /\ judged'[n] = r
  BY <1>0, <1>1
<1>3. /\ r.key = k /\ r.at = now /\ (r.dup <=> Fresh(k))
  BY DEF Fresh
<1> HIDE DEF n, r
<1>4. /\ Fresh(k) => cache' = cache
      /\ \A j \in DOMAIN cache' :
           \/ j = k /\ cache'[j] = now
           \/ j \in DOMAIN cache /\ cache'[j] = cache[j]
      /\ ~Fresh(k) => k \in DOMAIN cache' /\ cache'[k] = now
      /\ \A j \in DOMAIN cache : j # k /\ now - cache[j] < TTL =>
           j \in DOMAIN cache' /\ cache'[j] = cache[j]
  BY <1>0, CacheStep
<1>5. Shape'
  BY <1>0, <1>2, <1>3, <1>4 DEF Shape
<1>6. CacheSound'
  <2>1. SUFFICES ASSUME NEW i \in DOMAIN cache'
                 PROVE  \E j \in DOMAIN judged' :
                          judged'[j].key = i /\ ~judged'[j].dup /\ judged'[j].at = cache'[i]
    BY DEF CacheSound
  <2>2. CASE i \in DOMAIN cache /\ cache'[i] = cache[i]
    <3>1. PICK j \in DOMAIN judged : judged[j].key = i /\ ~judged[j].dup /\ judged[j].at = cache[i]
      BY <2>2 DEF DedupInv, CacheSound
    <3>2. QED BY <1>2, <2>2, <3>1
  <2>3. CASE ~Fresh(k) /\ i = k /\ cache'[i] = now
    <3>1. n \in DOMAIN judged' /\ judged'[n].key = i /\ judged'[n].at = cache'[i]
      BY <1>2, <1>3, <2>3
    <3>2. ~judged'[n].dup
      BY <1>2, <1>3, <2>3, Zenon
    <3>3. QED BY <3>1, <3>2
  <2>4. QED BY <1>4, <2>2, <2>3
<1>7. CacheComplete'
  <2>1. SUFFICES ASSUME NEW j \in DOMAIN judged', ~judged'[j].dup, now - judged'[j].at < TTL
                 PROVE  judged'[j].key \in DOMAIN cache' /\ cache'[judged'[j].key] = judged'[j].at
    BY <1>0 DEF CacheComplete
  <2>2. CASE j = n
    BY <1>2, <1>3, <1>4, <2>1, <2>2
  <2>3. CASE j \in DOMAIN judged
    <3>1. /\ judged[j].key \in DOMAIN cache /\ cache[judged[j].key] = judged[j].at
          /\ now - cache[judged[j].key] < TTL
      BY <1>2, <2>1, <2>3 DEF DedupInv, CacheComplete
    <3>2. judged[j].key = k => Fresh(k)
      BY <3>1 DEF Fresh
    <3>3. QED BY <1>2, <1>4, <2>3, <3>1, <3>2
  <2>4. QED BY <1>2, <2>1, <2>2, <2>3
<1>8. DedupExact'
  <2>1. SUFFICES ASSUME NEW j \in DOMAIN judged'
                 PROVE  judged'[j].dup <=> Verdict(j)'
    BY DEF DedupExact
  <2>2. CASE j \in DOMAIN judged
    <3>1. Verdict(j)' <=> Verdict(j)
      BY <1>2, <2>2 DEF Verdict
    <3>2. QED BY <1>2, <2>2, <3>1 DEF DedupInv, DedupExact
  <2>3. CASE j = n
    <3>1. Verdict(j)' <=> \E i \in DOMAIN judged : /\ judged[i].key = k /\ ~judged[i].dup
                                                    /\ now - judged[i].at < TTL
      BY <1>2, <1>3, <2>3 DEF Verdict
    <3>2. Fresh(k) => Verdict(j)'
      BY <3>1 DEF Fresh, DedupInv, CacheSound
    <3>3. Verdict(j)' => Fresh(k)
      BY <3>1 DEF Fresh, DedupInv, CacheComplete
    <3>4. QED BY <1>2, <1>3, <2>3, <3>2, <3>3
  <2>4. QED BY <1>2, <2>1, <2>2, <2>3
<1>9. QED BY <1>5, <1>6, <1>7, <1>8 DEF DedupInv

LEMMA ClockStep == ASSUME DedupInv, Clock \/ UNCHANGED dedupVars PROVE DedupInv'
<1>1. /\ UNCHANGED <<cache, judged>> /\ now' \in Nat /\ now' >= now /\ now \in Nat
  BY DEF DedupInv, Shape, Clock, dedupVars
<1>2. \A j \in DOMAIN judged : judged[j].at \in Nat
  <2>1. \A j \in DOMAIN judged : judged[j] \in Judgements
    BY DEF DedupInv, Shape
  <2>2. QED BY <2>1 DEF Judgements
<1>3. Shape'
  BY <1>1, <1>2 DEF DedupInv, Shape
<1>4. CacheSound' /\ DedupExact'
  BY <1>1 DEF DedupInv, CacheSound, DedupExact, Verdict
<1>5. CacheComplete'
  BY <1>1, <1>2, DedupAssumption DEF DedupInv, CacheComplete
<1>6. QED BY <1>3, <1>4, <1>5 DEF DedupInv

-----------------------------------------------------------------------------
(* The cache never forgets a key let through less than a TTL ago, nor its time, *)
(* and holds no time at which nothing was let through.                          *)
THEOREM DedupInvariant == DedupSpec => []DedupInv
<1>1. DedupInv /\ [DedupNext]_dedupVars => DedupInv'
  BY CallStep, ClockStep DEF DedupNext
<1>2. QED BY DedupInitOK, <1>1, PTL DEF DedupSpec

(* Trimming the cache never removes a key that could still suppress an event. *)
THEOREM DedupCacheComplete == DedupSpec => []CacheComplete
<1>1. DedupInv => CacheComplete
  BY DEF DedupInv
<1>2. QED BY <1>1, DedupInvariant, PTL

(* IsDuplicate answers TRUE exactly when an equal event was let through within the TTL. *)
THEOREM DedupIsExact == DedupSpec => []DedupExact
<1>1. DedupInv => DedupExact
  BY DEF DedupInv
<1>2. QED BY <1>1, DedupInvariant, PTL

-----------------------------------------------------------------------------
(* The event bus: a channel has what it was sent, in an order of the publishers. *)

(* An event under way is nobody else's, has not finished, has only channels of its *)
(* topic to go, and none of these has it yet.                                      *)
UnderWay ==
  \A p \in Publishers : Reading(p) =>
    /\ publishing[p].event \notin finished
    /\ \A q \in Publishers \ {p} : publishing[q].event # publishing[p].event
    /\ \A i \in publishing[p].todo :
         /\ chans[i].topic = posts[publishing[p].event].topic
         /\ \A j \in DOMAIN arrived[i] : arrived[i][j] # publishing[p].event

BusInv == BusTypeOK /\ UnderWay /\ BusOrder

(* A channel, and an event published, as records. *)
Chan(events) == [topic : Topics, buffer : Seq(events)]
Post(done)   == [topic : Topics, after : SUBSET done]

LEMMA ChanUpdate ==
  ASSUME NEW S, NEW c \in Chan(S), NEW b \in Seq(S)
  PROVE  /\ [c EXCEPT !.buffer = b] \in Chan(S)
         /\ [c EXCEPT !.buffer = b].topic = c.topic /\ [c EXCEPT !.buffer = b].buffer = b
BY DEF Chan

LEMMA RecordsGrow ==
  ASSUME NEW S, NEW T, S \subseteq T
  PROVE  Chan(S) \subseteq Chan(T) /\ Post(S) \subseteq Post(T)
<1>1. Seq(S) \subseteq Seq(T)
  OBVIOUS
<1>2. QED BY <1>1 DEF Chan, Post

LEMMA BusInvInit == BusInit => BusInv
<1> SUFFICES ASSUME BusInit PROVE BusInv
  OBVIOUS
<1>1. BusTypeOK
  BY DEF BusInit, BusTypeOK, NoPost
<1>2. UnderWay /\ BusOrder
  BY DEF BusInit, UnderWay, BusOrder, Reading, NoPost
<1>3. QED BY <1>1, <1>2 DEF BusInv

LEMMA BusInvNext == ASSUME BusInv, [BusNext]_busVars PROVE BusInv'
<1> DEFINE State == [event : {0} \cup DOMAIN posts, todo : SUBSET DOMAIN chans]
<1>0. /\ chans \in Seq(Chan(DOMAIN posts)) /\ posts \in Seq(Post(finished))
      /\ publishing \in [Publishers -> State]
      /\ finished \subseteq DOMAIN posts
      /\ arrived \in Seq(Seq(DOMAIN posts)) /\ Len(arrived) = Len(chans)
      /\ \A i \in DOMAIN chans : Len(chans[i].buffer) <= BusCapacity
  BY DEF BusInv, BusTypeOK, Chan, Post
<1>d. /\ DOMAIN chans = 1 .. Len(chans) /\ DOMAIN arrived = 1 .. Len(chans)
      /\ DOMAIN posts = 1 .. Len(posts) /\ Len(chans) \in Nat /\ Len(posts) \in Nat
      /\ \A i \in DOMAIN arrived : /\ arrived[i] \in Seq(DOMAIN posts)
                                  /\ \A j \in DOMAIN arrived[i] : arrived[i][j] \in DOMAIN posts
      /\ \A i \in DOMAIN chans : chans[i] \in Chan(DOMAIN posts)
      /\ \A k \in DOMAIN posts : posts[k] \in Post(finished)
      /\ \A p \in Publishers : publishing[p] \in State
  BY <1>0
<1>r. /\ \A i \in DOMAIN chans : chans[i].buffer \in Seq(DOMAIN posts)
      /\ \A k \in DOMAIN posts : posts[k].after \subseteq finished
  BY <1>d DEF Chan, Post
<1>u. UnderWay /\ BusOrder
  BY DEF BusInv
<1>1. ASSUME NEW topic \in Topics, Subscribe(topic) PROVE BusInv'
  <2>1. /\ \A p \in Publishers : ~Reading(p)
        /\ chans' = Append(chans, [topic |-> topic, buffer |-> <<>>])
        /\ arrived' = Append(arrived, <<>>)
        /\ UNCHANGED <<posts, publishing, finished>>
    BY <1>1 DEF Subscribe
  <2>2. /\ chans' \in Seq(Chan(DOMAIN posts)) /\ arrived' \in Seq(Seq(DOMAIN posts))
        /\ Len(chans') = Len(chans) + 1 /\ Len(arrived') = Len(chans) + 1
        /\ \A i \in 1 .. Len(chans) : chans'[i] = chans[i] /\ arrived'[i] = arrived[i]
        /\ chans'[Len(chans) + 1].buffer = <<>> /\ arrived'[Len(chans) + 1] = <<>>
    <3>1. [topic |-> topic, buffer |-> <<>>] \in Chan(DOMAIN posts) /\ <<>> \in Seq(DOMAIN posts)
      BY DEF Chan
    <3>2. QED BY <1>0, <1>d, <2>1, <3>1
  <2>3. DOMAIN chans' = 1 .. Len(chans) + 1 /\ DOMAIN arrived' = 1 .. Len(chans) + 1
    BY <2>2
  <2>4. \A i \in DOMAIN chans' : i \in 1 .. Len(chans) \/ i = Len(chans) + 1
    BY <1>d, <2>3
  <2>5. BusTypeOK'
    <3>1. \A i \in DOMAIN chans' : Len(chans'[i].buffer) <= BusCapacity
      <4>1. \A i \in 1 .. Len(chans) : Len(chans'[i].buffer) <= BusCapacity
        BY <1>0, <1>d, <2>2
      <4>2. Len(chans'[Len(chans) + 1].buffer) <= BusCapacity
        BY <2>2, BusAssumption
      <4>3. QED BY <2>4, <4>1, <4>2
    <3>2. publishing' \in [Publishers -> [event : {0} \cup DOMAIN posts, todo : SUBSET DOMAIN chans']]
      <4>1. DOMAIN chans \subseteq DOMAIN chans'
        BY <1>d, <2>3
      <4>2. QED BY <1>0, <2>1, <4>1
    <3>3. QED BY <1>0, <2>1, <2>2, <3>1, <3>2 DEF BusTypeOK, Chan, Post
  <2>6. UnderWay'
    BY <2>1 DEF UnderWay, Reading
  <2>7. BusOrder'
    BY <1>d, <1>u, <2>1, <2>2, <2>3, <2>4 DEF BusOrder
  <2>8. QED BY <2>5, <2>6, <2>7 DEF BusInv
<1>2. ASSUME NEW topic \in Topics, NEW p \in Publishers, Publish(p, topic) PROVE BusInv'
  <2> DEFINE e == Len(posts) + 1
             todo == {i \in DOMAIN chans : chans[i].topic = topic}
  <2>1. /\ ~Reading(p) /\ posts' = Append(posts, [topic |-> topic, after |-> finished])
        /\ publishing' = [publishing EXCEPT ![p] = [event |-> e, todo |-> todo]]
        /\ UNCHANGED <<chans, finished, arrived>>
    BY <1>2 DEF Publish, Subscribers
  <2>2. /\ posts' \in Seq(Post(finished)) /\ Len(posts') = e /\ DOMAIN posts' = 1 .. e
        /\ \A k \in DOMAIN posts : posts'[k] = posts[k]
        /\ posts'[e] = [topic |-> topic, after |-> finished]
    <3>1. [topic |-> topic, after |-> finished] \in Post(finished)
      BY DEF Post
    <3>2. QED BY <1>0, <1>d, <2>1, <3>1
  <2>3. /\ DOMAIN posts \subseteq DOMAIN posts' /\ e \in DOMAIN posts' /\ e \notin DOMAIN posts
        /\ e # 0
    BY <1>d, <2>2
  <2>4. BusTypeOK'
    <3>1. Seq(DOMAIN posts) \subseteq Seq(DOMAIN posts')
      BY <2>3
    <3>2. Chan(DOMAIN posts) \subseteq Chan(DOMAIN posts')
      BY <2>3, RecordsGrow
    <3>3. chans' \in Seq(Chan(DOMAIN posts'))
      BY <1>0, <2>1, <3>2
    <3>4. arrived' \in Seq(Seq(DOMAIN posts'))
      BY <1>0, <2>1, <3>1
    <3>5. publishing' \in [Publishers -> [event : {0} \cup DOMAIN posts', todo : SUBSET DOMAIN chans']]
      BY <1>0, <2>1, <2>3
    <3>6. QED BY <1>0, <2>1, <2>2, <2>3, <3>3, <3>4, <3>5 DEF BusTypeOK, Chan, Post
  <2>5. UnderWay'
    <3> SUFFICES ASSUME NEW q \in Publishers, Reading(q)'
                 PROVE  /\ publishing'[q].event \notin finished'
                        /\ \A r \in Publishers \ {q} : publishing'[r].event # publishing'[q].event
                        /\ \A i \in publishing'[q].todo :
                             /\ chans'[i].topic = posts'[publishing'[q].event].topic
                             /\ \A j \in DOMAIN arrived'[i] : arrived'[i][j] # publishing'[q].event
      BY DEF UnderWay
    <3>1. \A r \in Publishers : publishing[r].event # e
      BY <1>d, <2>3
    <3>2. CASE q = p
      <4>1. publishing'[q] = [event |-> e, todo |-> todo]
        BY <1>0, <2>1, <3>2
      <4>2. \A r \in Publishers \ {q} : publishing'[r] = publishing[r]
        BY <1>0, <2>1, <3>2
      <4>3. \A i \in todo : \A j \in DOMAIN arrived[i] : arrived[i][j] # e
        BY <1>d, <2>3
      <4>4. QED BY <1>0, <2>1, <2>2, <2>3, <3>1, <4>1, <4>2, <4>3
    <3>3. CASE q # p
      <4>1. publishing'[q] = publishing[q] /\ Reading(q)
        BY <1>0, <2>1, <3>3 DEF Reading
      <4>2. publishing[q].event \in DOMAIN posts
        BY <1>d, <4>1 DEF Reading
      <4>3. \A r \in Publishers \ {q} : publishing'[r].event # publishing[q].event
        BY <1>0, <1>u, <2>1, <2>3, <4>1, <4>2 DEF UnderWay
      <4>4. QED BY <1>u, <2>1, <2>2, <4>1, <4>2, <4>3 DEF UnderWay
    <3>4. QED BY <3>2, <3>3
  <2>6. BusOrder'
    <3>1. \A i \in DOMAIN arrived : \A j \in DOMAIN arrived[i] :
            posts'[arrived[i][j]] = posts[arrived[i][j]]
      BY <1>d, <2>2
    <3>2. /\ arrived' = arrived /\ chans' = chans
          /\ \A i \in DOMAIN arrived : \A j \in DOMAIN arrived[i] :
               /\ posts[arrived[i][j]].topic = chans[i].topic
               /\ \A k \in j + 1 .. Len(arrived[i]) :
                    arrived[i][k] # arrived[i][j] /\ arrived[i][k] \notin posts[arrived[i][j]].after
      BY <1>u, <2>1 DEF BusOrder
    <3>3. QED BY <3>1, <3>2 DEF BusOrder
  <2>7. QED BY <2>4, <2>5, <2>6 DEF BusInv
<1>3. ASSUME NEW p \in Publishers, Offer(p) PROVE BusInv'
  <2> DEFINE e == publishing[p].event
  <2>1. PICK i \in publishing[p].todo :
          /\ \/ UNCHANGED <<chans, arrived>>
             \/ /\ ~Full(i)
                /\ chans' = [chans EXCEPT ![i].buffer = Append(@, e)]
                /\ arrived' = [arrived EXCEPT ![i] = Append(@, e)]
          /\ publishing' = [publishing EXCEPT ![p].todo = @ \ {i}]
    BY <1>3 DEF Offer
  <2>2. Reading(p) /\ UNCHANGED <<posts, finished>>
    BY <1>3 DEF Offer
  <2>3. /\ i \in DOMAIN chans /\ i \in DOMAIN arrived /\ e \in DOMAIN posts
        /\ e \notin finished /\ chans[i].topic = posts[e].topic
        /\ \A j \in DOMAIN arrived[i] : arrived[i][j] # e
    BY <1>d, <1>u, <2>1, <2>2 DEF UnderWay, Reading
  <2>4. /\ publishing' \in [Publishers -> State]
        /\ \A q \in Publishers : /\ publishing'[q].event = publishing[q].event
                                 /\ publishing'[q].todo \subseteq publishing[q].todo
        /\ i \notin publishing'[p].todo
    <3> DEFINE new == [publishing[p] EXCEPT !.todo = @ \ {i}]
    <3>1. publishing' = [publishing EXCEPT ![p] = new]
      BY <2>1
    <3>2. /\ new \in State /\ new.event = e /\ new.todo \subseteq publishing[p].todo
          /\ i \notin new.todo
      BY <1>d
    <3> HIDE DEF new
    <3>3. publishing'[p] = new /\ \A q \in Publishers \ {p} : publishing'[q] = publishing[q]
      BY <1>0, <3>1
    <3>4. publishing' \in [Publishers -> State]
      BY <1>0, <3>1, <3>2
    <3>5. QED BY <3>2, <3>3, <3>4
  <2>5. CASE UNCHANGED <<chans, arrived>>
    <3>1. BusTypeOK'
      BY <1>0, <2>2, <2>4, <2>5 DEF BusTypeOK, Chan, Post
    <3>2. UnderWay' /\ BusOrder'
      BY <1>u, <2>2, <2>4, <2>5 DEF UnderWay, BusOrder, Reading
    <3>3. QED BY <3>1, <3>2 DEF BusInv
  <2>6. CASE /\ ~Full(i)
             /\ chans' = [chans EXCEPT ![i].buffer = Append(@, e)]
             /\ arrived' = [arrived EXCEPT ![i] = Append(@, e)]
    <3> DEFINE new == [chans[i] EXCEPT !.buffer = Append(chans[i].buffer, e)]
    <3>1. chans[i] \in Chan(DOMAIN posts) /\ chans[i].buffer \in Seq(DOMAIN posts)
      BY <1>d, <1>r, <2>3
    <3>2. /\ new \in Chan(DOMAIN posts) /\ Len(new.buffer) <= BusCapacity
          /\ new.topic = chans[i].topic /\ chans' = [chans EXCEPT ![i] = new]
      <4>1. Append(chans[i].buffer, e) \in Seq(DOMAIN posts)
        BY <2>3, <3>1
      <4>2. Len(Append(chans[i].buffer, e)) = Len(chans[i].buffer) + 1 /\ Len(chans[i].buffer) \in Nat
        BY <2>3, <3>1
      <4>3. Len(chans[i].buffer) < BusCapacity
        BY <2>6, <4>2, BusAssumption DEF Full
      <4>4. /\ new \in Chan(DOMAIN posts) /\ new.topic = chans[i].topic
            /\ new.buffer = Append(chans[i].buffer, e)
        <5> DEFINE b == Append(chans[i].buffer, e)  c == chans[i]
        <5>1. b \in Seq(DOMAIN posts) /\ c \in Chan(DOMAIN posts)
          BY <3>1, <4>1
        <5> HIDE DEF b, c
        <5>2. /\ [c EXCEPT !.buffer = b] \in Chan(DOMAIN posts)
              /\ [c EXCEPT !.buffer = b].topic = c.topic /\ [c EXCEPT !.buffer = b].buffer = b
          BY <5>1, ChanUpdate
        <5>3. QED BY <5>2 DEF b, c
      <4>5. chans' = [chans EXCEPT ![i] = new]
        BY <2>6
      <4>6. Len(chans[i].buffer) + 1 <= BusCapacity
        BY <4>2, <4>3, BusAssumption
      <4>7. QED BY <4>2, <4>4, <4>5, <4>6
    <3> HIDE DEF new
    <3>3. /\ chans' \in Seq(Chan(DOMAIN posts)) /\ Len(chans') = Len(chans)
          /\ chans'[i] = new /\ \A k \in DOMAIN chans : k # i => chans'[k] = chans[k]
      BY <1>0, <1>d, <2>3, <3>2, ExceptSeq
    <3>4. /\ Append(arrived[i], e) \in Seq(DOMAIN posts)
          /\ Len(arrived[i]) \in Nat /\ DOMAIN arrived[i] = 1 .. Len(arrived[i])
          /\ Len(Append(arrived[i], e)) = Len(arrived[i]) + 1
          /\ DOMAIN Append(arrived[i], e) = 1 .. Len(arrived[i]) + 1
          /\ \A j \in DOMAIN arrived[i] : Append(arrived[i], e)[j] = arrived[i][j]
          /\ Append(arrived[i], e)[Len(arrived[i]) + 1] = e
      BY <1>d, <2>3
    <3>5. /\ arrived' \in Seq(Seq(DOMAIN posts)) /\ Len(arrived') = Len(arrived)
          /\ arrived'[i] = Append(arrived[i], e)
          /\ \A k \in DOMAIN arrived : k # i => arrived'[k] = arrived[k]
      BY <1>0, <1>d, <2>3, <2>6, <3>4, ExceptSeq
    <3>6. DOMAIN chans' = DOMAIN chans /\ DOMAIN arrived' = DOMAIN arrived
      BY <2>6
    <3>7. BusTypeOK'
      <4>1. \A k \in DOMAIN chans' : Len(chans'[k].buffer) <= BusCapacity
        BY <1>0, <3>2, <3>3, <3>6
      <4>2. QED BY <1>0, <2>2, <2>4, <3>3, <3>5, <3>6, <4>1 DEF BusTypeOK, Chan, Post
    <3>8. UnderWay'
      <4>1. \A k \in DOMAIN chans : chans'[k].topic = chans[k].topic
        BY <3>2, <3>3
      <4> SUFFICES ASSUME NEW q \in Publishers, Reading(q)'
                   PROVE  /\ publishing'[q].event \notin finished'
                          /\ \A r \in Publishers \ {q} : publishing'[r].event # publishing'[q].event
                          /\ \A k \in publishing'[q].todo :
                               /\ chans'[k].topic = posts'[publishing'[q].event].topic
                               /\ \A j \in DOMAIN arrived'[k] : arrived'[k][j] # publishing'[q].event
        BY DEF UnderWay
      <4>2. Reading(q) /\ publishing'[q].event = publishing[q].event
        BY <2>4 DEF Reading
      <4>3. /\ publishing'[q].event \notin finished'
            /\ \A r \in Publishers \ {q} : publishing'[r].event # publishing'[q].event
        BY <1>u, <2>2, <2>4, <4>2 DEF UnderWay
      <4>4. ASSUME NEW k \in publishing'[q].todo
            PROVE  /\ chans'[k].topic = posts'[publishing'[q].event].topic
                   /\ \A j \in DOMAIN arrived'[k] : arrived'[k][j] # publishing'[q].event
        <5>1. k \in publishing[q].todo /\ k \in DOMAIN chans /\ k \in DOMAIN arrived
          BY <1>d, <2>4
        <5>2. /\ chans[k].topic = posts[publishing[q].event].topic
              /\ \A j \in DOMAIN arrived[k] : arrived[k][j] # publishing[q].event
          BY <1>u, <4>2, <5>1 DEF UnderWay
        <5>3. CASE k # i
          BY <2>2, <3>5, <4>1, <4>2, <5>1, <5>2, <5>3
        <5>4. CASE k = i
          <6>1. q # p
            BY <2>4, <5>4
          <6>2. publishing[q].event # e
            BY <1>u, <4>2, <6>1 DEF UnderWay
          <6>3. \A j \in DOMAIN arrived'[k] : j \in DOMAIN arrived[i] \/ j = Len(arrived[i]) + 1
            BY <3>4, <3>5, <5>4
          <6>4. QED BY <2>2, <3>4, <3>5, <4>1, <4>2, <5>1, <5>2, <5>4, <6>2, <6>3
        <5>5. QED BY <5>3, <5>4
      <4>5. QED BY <4>3, <4>4
    <3>9. BusOrder'
      <4> SUFFICES ASSUME NEW k \in DOMAIN arrived', NEW j \in DOMAIN arrived'[k]
                   PROVE  /\ posts'[arrived'[k][j]].topic = chans'[k].topic
                          /\ \A l \in j + 1 .. Len(arrived'[k]) :
                               /\ arrived'[k][l] # arrived'[k][j]
                               /\ arrived'[k][l] \notin posts'[arrived'[k][j]].after
        BY DEF BusOrder
      <4>1. chans'[k].topic = chans[k].topic /\ k \in DOMAIN arrived
        BY <1>d, <3>2, <3>3, <3>6
      <4>2. CASE k # i
        BY <1>u, <2>2, <3>5, <4>1, <4>2 DEF BusOrder
      <4>3. CASE k = i /\ j = Len(arrived[i]) + 1
        <5>1. arrived'[k][j] = e /\ j + 1 .. Len(arrived'[k]) = {}
          BY <3>4, <3>5, <4>3
        <5>2. QED BY <2>2, <2>3, <4>1, <4>3, <5>1
      <4>4. CASE k = i /\ j \in DOMAIN arrived[i]
        <5>1. arrived'[k][j] = arrived[i][j] /\ arrived[i][j] \in DOMAIN posts
          BY <1>d, <2>3, <3>4, <3>5, <4>4
        <5>2. e \notin posts[arrived[i][j]].after
          BY <1>r, <2>3, <5>1
        <5>3. ASSUME NEW l \in j + 1 .. Len(arrived'[k])
              PROVE  /\ arrived'[k][l] # arrived[i][j]
                     /\ arrived'[k][l] \notin posts[arrived[i][j]].after
          <6>1. l = Len(arrived[i]) + 1 \/ l \in j + 1 .. Len(arrived[i])
            BY <3>4, <3>5, <4>4
          <6>2. CASE l = Len(arrived[i]) + 1
            BY <2>3, <3>4, <3>5, <4>4, <5>2, <6>2
          <6>3. CASE l \in j + 1 .. Len(arrived[i])
            <7>1. l \in DOMAIN arrived[i]
              <8>1. arrived[i] \in Seq(DOMAIN posts)
                BY <1>d, <2>3
              <8>2. DOMAIN arrived[i] = 1 .. Len(arrived[i]) /\ Len(arrived[i]) \in Nat
                BY <8>1, LenProperties
              <8>3. QED BY <4>4, <6>3, <8>2
            <7>3. arrived'[k][l] = arrived[i][l]
              BY <3>4, <3>5, <4>4, <7>1
            <7>2. QED BY <1>u, <2>3, <4>4, <6>3, <7>1, <7>3 DEF BusOrder
          <6>4. QED BY <6>1, <6>2, <6>3
        <5>4. posts[arrived[i][j]].topic = chans[i].topic
          BY <1>u, <2>3, <4>4 DEF BusOrder
        <5>5. QED BY <2>2, <4>1, <4>4, <5>1, <5>3, <5>4
      <4>5. QED BY <3>4, <3>5, <4>2, <4>3, <4>4
    <3>10. QED BY <3>7, <3>8, <3>9 DEF BusInv
  <2>7. QED BY <2>1, <2>5, <2>6
<1>4. ASSUME NEW p \in Publishers, Published(p) PROVE BusInv'
  <2>1. /\ Reading(p) /\ finished' = finished \cup {publishing[p].event}
        /\ publishing' = [publishing EXCEPT ![p] = NoPost]
        /\ UNCHANGED <<chans, posts, arrived>>
    BY <1>4 DEF Published
  <2>2. /\ publishing'[p].event = 0 /\ publishing[p].event \in DOMAIN posts
        /\ \A q \in Publishers \ {p} : publishing'[q] = publishing[q]
        /\ publishing' \in [Publishers -> State]
    BY <1>0, <1>d, <2>1 DEF NoPost, Reading
  <2>3. BusTypeOK'
    <3>1. Post(finished) \subseteq Post(finished')
      BY <2>1, RecordsGrow
    <3>2. posts' \in Seq(Post(finished'))
      <4>1. Seq(Post(finished)) \subseteq Seq(Post(finished'))
        BY <3>1
      <4>2. QED BY <1>0, <2>1, <4>1
    <3>3. QED BY <1>0, <2>1, <2>2, <3>2 DEF BusTypeOK, Chan, Post
  <2>4. UnderWay'
    BY <1>u, <2>1, <2>2 DEF UnderWay, Reading
  <2>5. BusOrder'
    BY <1>u, <2>1 DEF BusOrder
  <2>6. QED BY <2>3, <2>4, <2>5 DEF BusInv
<1>5. ASSUME NEW i \in DOMAIN chans, Consume(i) PROVE BusInv'
  <2> DEFINE new == [chans[i] EXCEPT !.buffer = Tail(chans[i].buffer)]
  <2>1. /\ chans[i].buffer # <<>> /\ chans' = [chans EXCEPT ![i].buffer = Tail(@)]
        /\ UNCHANGED <<posts, publishing, finished, arrived>>
    BY <1>5 DEF Consume
  <2>2. chans[i] \in Chan(DOMAIN posts) /\ chans[i].buffer \in Seq(DOMAIN posts)
    BY <1>d, <1>r
  <2>3. /\ new \in Chan(DOMAIN posts) /\ Len(new.buffer) <= BusCapacity
        /\ new.topic = chans[i].topic /\ chans' = [chans EXCEPT ![i] = new]
    <3>1. /\ Tail(chans[i].buffer) \in Seq(DOMAIN posts)
          /\ Len(Tail(chans[i].buffer)) = Len(chans[i].buffer) - 1 /\ Len(chans[i].buffer) \in Nat
      <4> DEFINE b == chans[i].buffer
      <4>1. b \in Seq(DOMAIN posts) /\ b # <<>>
        BY <2>1, <2>2
      <4> HIDE DEF b
      <4>2. Tail(b) \in Seq(DOMAIN posts) /\ Len(Tail(b)) = Len(b) - 1 /\ Len(b) \in Nat
        BY <4>1
      <4>3. QED BY <4>2 DEF b
    <3>2. /\ new \in Chan(DOMAIN posts) /\ new.topic = chans[i].topic
          /\ new.buffer = Tail(chans[i].buffer)
      <4> DEFINE b == Tail(chans[i].buffer)  c == chans[i]
      <4>1. b \in Seq(DOMAIN posts) /\ c \in Chan(DOMAIN posts)
        BY <2>2, <3>1
      <4> HIDE DEF b, c
      <4>2. /\ [c EXCEPT !.buffer = b] \in Chan(DOMAIN posts)
            /\ [c EXCEPT !.buffer = b].topic = c.topic /\ [c EXCEPT !.buffer = b].buffer = b
        BY <4>1, ChanUpdate
      <4>3. QED BY <4>2 DEF b, c
    <3>3. chans' = [chans EXCEPT ![i] = new]
      BY <2>1
    <3>4. Len(chans[i].buffer) <= BusCapacity
      BY <1>0
    <3>5. Len(chans[i].buffer) - 1 <= BusCapacity
      BY <3>1, <3>4, BusAssumption
    <3>6. QED BY <3>1, <3>2, <3>3, <3>5
  <2> HIDE DEF new
  <2>4. /\ chans' \in Seq(Chan(DOMAIN posts)) /\ Len(chans') = Len(chans) /\ DOMAIN chans' = DOMAIN chans
        /\ chans'[i] = new /\ \A k \in DOMAIN chans : k # i => chans'[k] = chans[k]
    BY <1>0, <1>d, <2>3, ExceptSeq
  <2>5. \A k \in DOMAIN chans : chans'[k].topic = chans[k].topic
    BY <2>3, <2>4
  <2>6. BusTypeOK'
    <3>1. \A k \in DOMAIN chans' : Len(chans'[k].buffer) <= BusCapacity
      BY <1>0, <2>3, <2>4
    <3>2. QED BY <1>0, <2>1, <2>4, <3>1 DEF BusTypeOK, Chan, Post
  <2>7. UnderWay' /\ BusOrder'
    BY <1>d, <1>u, <2>1, <2>5 DEF UnderWay, BusOrder, Reading
  <2>8. QED BY <2>6, <2>7 DEF BusInv
<1>6. CASE UNCHANGED busVars
  BY <1>6 DEF busVars, BusInv, BusTypeOK, UnderWay, BusOrder, Reading
<1>7. QED BY <1>1, <1>2, <1>3, <1>4, <1>5, <1>6 DEF BusNext

(* However Publishes overlap and whichever channels are full when they get there, a  *)
(* channel's events are of its topic, distinct, and none comes after one that began  *)
(* when it had returned.                                                             *)
THEOREM BusOrderAlways == BusSpec => [](BusTypeOK /\ BusOrder)
<1>1. BusInv /\ [BusNext]_busVars => BusInv'
  BY BusInvNext
<1>2. BusInv => BusTypeOK /\ BusOrder
  BY DEF BusInv
<1>3. QED BY BusInvInit, <1>1, <1>2, PTL DEF BusSpec

-----------------------------------------------------------------------------
(* The plugin manager: what runs can be reached by its name.                   *)

Lives == {"new", "initialised", "running", "stopped", "stop failed"}

PlugStates == [at : {"idle", "compiled", "instantiated", "allocated"}]
                \cup [at : {"found", "executing"}, plugin : Plugins]
                \cup [at : {"reload"}, plugin : Plugins, raced : BOOLEAN]

(* A HotReloadPlugin nobody came in between finds its name free: it takes over nothing. *)
NameFree ==
  \A c \in PlugCallers :
    pcall[c].at = "reload" /\ ~pcall[c].raced => PlugNameOf[pcall[c].plugin] \notin DOMAIN registry

PlugInv == PlugTypeOK /\ NameFree /\ RunningReachable

LEMMA PlugInvInit == PlugInit => PlugInv
<1> SUFFICES ASSUME PlugInit PROVE PlugInv
  OBVIOUS
<1>1. DOMAIN registry = {} /\ replaced = {} /\ life = [p \in Plugins |-> "new"]
  BY DEF PlugInit
<1>2. PlugTypeOK
  BY <1>1 DEF PlugInit, PlugTypeOK, NotCalling
<1>3. NameFree /\ RunningReachable
  BY <1>1 DEF PlugInit, NameFree, NotCalling, RunningReachable
<1>4. QED BY <1>2, <1>3 DEF PlugInv

(* What a registration does to the map, whoever makes it. *)
LEMMA RegisterKeeps ==
  ASSUME PlugInv, NEW p \in Plugins, NEW op \in {"register", "reload"}, NEW raced \in BOOLEAN,
         Register(p, op, raced),
         op = "reload" /\ ~raced => PlugNameOf[p] \notin DOMAIN registry
  PROVE  /\ DOMAIN registry' \subseteq PlugNames
         /\ \A n \in DOMAIN registry' : registry'[n] \in Plugins /\ PlugNameOf[registry'[n]] = n
         /\ life' \in [Plugins -> Lives]
         /\ replaced' \subseteq [plugin : Plugins, by : {"register", "reload"}, raced : BOOLEAN]
         /\ registry' = registry \/ DOMAIN registry' = DOMAIN registry \cup {PlugNameOf[p]}
         /\ RunningReachable'
<1> USE DEF PlugInv
<1>0. /\ life \in [Plugins -> Lives]
      /\ replaced \subseteq [plugin : Plugins, by : {"register", "reload"}, raced : BOOLEAN]
      /\ DOMAIN registry \subseteq PlugNames
      /\ \A n \in DOMAIN registry : registry[n] \in Plugins /\ PlugNameOf[registry[n]] = n
  BY DEF PlugTypeOK, Lives
<1>1. CASE UNCHANGED <<registry, replaced>> /\ life' \in {life, [life EXCEPT ![p] = "initialised"]}
  <2>1. life' \in [Plugins -> Lives]
    BY <1>0, <1>1 DEF Lives
  <2>2. \A q \in Plugins : life'[q] = "running" => life[q] = "running"
    BY <1>0, <1>1
  <2>3. RunningReachable'
    BY <1>1, <2>2 DEF RunningReachable, Registered
  <2>4. QED BY <1>0, <1>1, <2>1, <2>3
<1>2. CASE /\ Acceptable(p)
           /\ life' = [life EXCEPT ![p] = "running"]
           /\ registry' = With(p)
           /\ replaced' = replaced \cup {[plugin |-> q, by |-> op, raced |-> raced] : q \in Ousted(p)}
  <2>1. PlugNameOf[p] \in PlugNames
    BY <1>2, PluginAssumption DEF Acceptable
  <2>2. /\ DOMAIN registry' = DOMAIN registry \cup {PlugNameOf[p]}
        /\ registry'[PlugNameOf[p]] = p
        /\ \A n \in DOMAIN registry : n # PlugNameOf[p] => registry'[n] = registry[n]
    BY <1>2 DEF With
  <2>3. \A n \in DOMAIN registry' : registry'[n] \in Plugins /\ PlugNameOf[registry'[n]] = n
    BY <1>0, <2>2
  <2>4. Ousted(p) \subseteq Plugins
    BY DEF Ousted
  <2>5. replaced' \subseteq [plugin : Plugins, by : {"register", "reload"}, raced : BOOLEAN]
    BY <1>0, <1>2, <2>4
  <2>6. ASSUME NEW q \in Plugins, life'[q] = "running"
        PROVE  \/ Registered(q)'
               \/ \E r \in replaced' : r.plugin = q /\ (r.by = "register" \/ r.raced)
    <3>1. CASE q = p
      BY <2>2, <3>1 DEF Registered
    <3>2. CASE q # p /\ q \in Ousted(p)
      <4>1. [plugin |-> q, by |-> op, raced |-> raced] \in replaced'
        BY <1>2, <3>2
      <4>2. op = "register" \/ raced
        BY <3>2 DEF Ousted
      <4>3. QED BY <4>1, <4>2
    <3>3. CASE q # p /\ q \notin Ousted(p)
      <4>1. life[q] = "running"
        BY <1>0, <1>2, <2>6, <3>3
      <4>2. CASE Registered(q)
        <5>1. PICK n \in DOMAIN registry : registry[n] = q
          BY <4>2 DEF Registered
        <5>2. n # PlugNameOf[p]
          BY <3>3, <5>1 DEF Ousted
        <5>3. QED BY <2>2, <5>1, <5>2 DEF Registered
      <4>3. CASE \E r \in replaced : r.plugin = q /\ (r.by = "register" \/ r.raced)
        BY <1>2, <4>3
      <4>4. QED BY <4>1, <4>2, <4>3 DEF RunningReachable
    <3>4. QED BY <3>1, <3>2, <3>3
  <2>7. RunningReachable'
    BY <2>6 DEF RunningReachable
  <2>8. life' \in [Plugins -> Lives]
    BY <1>0, <1>2 DEF Lives
  <2>9. QED BY <1>0, <2>1, <2>2, <2>3, <2>5, <2>7, <2>8
<1>3. QED BY <1>1, <1>2 DEF Register

(* Every caller keeps a call, and is told when a registration takes its name. *)
LEMMA DisturbKeeps ==
  ASSUME PlugInv, NEW p \in Plugins,
         registry' = registry \/ DOMAIN registry' = DOMAIN registry \cup {PlugNameOf[p]}
  PROVE  /\ Disturb(p, registry') \in [PlugCallers -> PlugStates]
         /\ \A c \in PlugCallers :
              Disturb(p, registry')[c].at = "reload" /\ ~Disturb(p, registry')[c].raced =>
                PlugNameOf[Disturb(p, registry')[c].plugin] \notin DOMAIN registry'
<1> DEFINE D == Disturb(p, registry')
<1>1. pcall \in [PlugCallers -> PlugStates]
  BY DEF PlugInv, PlugTypeOK, PlugStates
<1> SUFFICES ASSUME NEW c \in PlugCallers
             PROVE  /\ D[c] \in PlugStates
                    /\ D[c].at = "reload" /\ ~D[c].raced => PlugNameOf[D[c].plugin] \notin DOMAIN registry'
  BY DEF Disturb
<1>2. CASE /\ registry' # registry
           /\ pcall[c].at = "reload" /\ PlugNameOf[pcall[c].plugin] = PlugNameOf[p]
  <2>1. D[c] = [pcall[c] EXCEPT !.raced = TRUE]
    BY <1>2 DEF Disturb
  <2>2. pcall[c] \in [at : {"reload"}, plugin : Plugins, raced : BOOLEAN]
    BY <1>1, <1>2 DEF PlugStates
  <2>3. D[c] \in [at : {"reload"}, plugin : Plugins, raced : BOOLEAN] /\ D[c].raced
    BY <2>1, <2>2
  <2>4. QED BY <2>3 DEF PlugStates
<1>3. CASE ~(/\ registry' # registry
             /\ pcall[c].at = "reload" /\ PlugNameOf[pcall[c].plugin] = PlugNameOf[p])
  <2>1. D[c] = pcall[c]
    BY <1>3 DEF Disturb
  <2>2. QED BY <1>1, <1>3, <2>1 DEF PlugInv, NameFree
<1>4. QED BY <1>2, <1>3

(* Stopping a set of plugins that leaves the map keeps the others reachable. *)
LEMMA StopKeeps ==
  ASSUME PlugInv, NEW set \in SUBSET Plugins, Stop(set)
  PROVE  /\ life' \in [Plugins -> Lives]
         /\ \A q \in Plugins : life'[q] = "running" => life[q] = "running" /\ q \notin set
<1>1. life \in [Plugins -> Lives]
  BY DEF PlugInv, PlugTypeOK, Lives
<1>2. PICK failing \in SUBSET set :
        life' = [p \in Plugins |-> IF p \in failing THEN "stop failed"
                                   ELSE IF p \in set THEN "stopped" ELSE life[p]]
  BY DEF Stop
<1>3. QED BY <1>1, <1>2 DEF Lives

LEMMA UnregisterKeeps ==
  ASSUME PlugInv, NEW name, Unregister(name), UNCHANGED replaced
  PROVE  /\ DOMAIN registry' \subseteq PlugNames
         /\ \A n \in DOMAIN registry' : registry'[n] \in Plugins /\ PlugNameOf[registry'[n]] = n
         /\ life' \in [Plugins -> Lives]
         /\ DOMAIN registry' = DOMAIN registry \ {name}
         /\ RunningReachable'
<1>0. /\ life \in [Plugins -> Lives]
      /\ DOMAIN registry \subseteq PlugNames
      /\ \A n \in DOMAIN registry : registry[n] \in Plugins /\ PlugNameOf[registry[n]] = n
      /\ RunningReachable
  BY DEF PlugInv, PlugTypeOK, Lives
<1>1. CASE name \notin DOMAIN registry
  BY <1>0, <1>1 DEF Unregister, RunningReachable, Registered
<1>2. CASE name \in DOMAIN registry
  <2>1. /\ DOMAIN registry' = DOMAIN registry \ {name}
        /\ \A n \in DOMAIN registry' : registry'[n] = registry[n]
    BY <1>2 DEF Unregister, Without
  <2>2. /\ life' \in [Plugins -> Lives]
        /\ \A q \in Plugins : life'[q] = "running" => life[q] = "running" /\ q # registry[name]
    <3>1. Stop({registry[name]}) /\ {registry[name]} \in SUBSET Plugins
      BY <1>0, <1>2 DEF Unregister
    <3>2. QED BY <3>1, StopKeeps
  <2>3. ASSUME NEW q \in Plugins, life'[q] = "running"
        PROVE  \/ Registered(q)'
               \/ \E r \in replaced' : r.plugin = q /\ (r.by = "register" \/ r.raced)
    <3>1. life[q] = "running" /\ q # registry[name]
      BY <2>2, <2>3
    <3>2. CASE Registered(q)
      <4>1. PICK n \in DOMAIN registry : registry[n] = q
        BY <3>2 DEF Registered
      <4>2. n \in DOMAIN registry' /\ registry'[n] = q
        BY <2>1, <3>1, <4>1
      <4>3. QED BY <4>2 DEF Registered
    <3>3. CASE \E r \in replaced : r.plugin = q /\ (r.by = "register" \/ r.raced)
      BY <3>3
    <3>4. QED BY <1>0, <3>1, <3>2, <3>3 DEF RunningReachable
  <2>4. RunningReachable'
    BY <2>3 DEF RunningReachable
  <2>5. QED BY <1>0, <2>1, <2>2, <2>4
<1>3. QED BY <1>1, <1>2

LEMMA PlugInvNext == ASSUME PlugInv, [PlugNext]_plugVars PROVE PlugInv'
<1>0. /\ pcall \in [PlugCallers -> PlugStates] /\ plugCalls \in Nat /\ compiled \in Nat
      /\ runtimeOn \in BOOLEAN /\ NotCalling \in PlugStates
      /\ DOMAIN registry \subseteq PlugNames
      /\ \A n \in DOMAIN registry : registry[n] \in Plugins /\ PlugNameOf[registry[n]] = n
      /\ replaced \subseteq [plugin : Plugins, by : {"register", "reload"}, raced : BOOLEAN]
  BY DEF PlugInv, PlugTypeOK, PlugStates, NotCalling
<1>t. ASSUME DOMAIN registry' \subseteq PlugNames,
             \A n \in DOMAIN registry' : registry'[n] \in Plugins /\ PlugNameOf[registry'[n]] = n,
             life' \in [Plugins -> Lives], pcall' \in [PlugCallers -> PlugStates],
             replaced' \subseteq [plugin : Plugins, by : {"register", "reload"}, raced : BOOLEAN],
             runtimeOn' \in BOOLEAN, compiled' \in Nat, plugCalls' \in Nat
      PROVE  PlugTypeOK'
  BY <1>t, Zenon DEF PlugTypeOK, PlugStates, Lives
<1>1. ASSUME NEW c \in PlugCallers, NEW p \in Plugins, RegisterPlugin(c, p) PROVE PlugInv'
  <2>1. /\ Register(p, "register", FALSE) /\ pcall' = Disturb(p, registry')
        /\ plugCalls' = plugCalls + 1 /\ UNCHANGED <<runtimeOn, compiled>>
    BY <1>1 DEF RegisterPlugin, BeginPlug
  <2>2. /\ DOMAIN registry' \subseteq PlugNames
        /\ \A n \in DOMAIN registry' : registry'[n] \in Plugins /\ PlugNameOf[registry'[n]] = n
        /\ life' \in [Plugins -> Lives]
        /\ replaced' \subseteq [plugin : Plugins, by : {"register", "reload"}, raced : BOOLEAN]
        /\ registry' = registry \/ DOMAIN registry' = DOMAIN registry \cup {PlugNameOf[p]}
        /\ RunningReachable'
    BY <2>1, RegisterKeeps
  <2>3. pcall' \in [PlugCallers -> PlugStates] /\ NameFree'
    BY <2>1, <2>2, DisturbKeeps DEF NameFree
  <2>4. PlugTypeOK'
    BY <1>0, <1>t, <2>1, <2>2, <2>3
  <2>5. QED BY <2>2, <2>3, <2>4 DEF PlugInv
<1>2. ASSUME NEW c \in PlugCallers, NEW p \in Plugins, ReloadStop(c, p) PROVE PlugInv'
  <2>1. /\ Unregister(PlugNameOf[p]) /\ UNCHANGED <<runtimeOn, compiled, replaced>>
        /\ plugCalls' = plugCalls + 1
        /\ pcall' = [pcall EXCEPT ![c] = [at |-> "reload", plugin |-> p, raced |-> FALSE]]
    BY <1>2 DEF ReloadStop, BeginPlug
  <2>2. pcall' \in [PlugCallers -> PlugStates]
    BY <1>0, <2>1 DEF PlugStates
  <2>3. /\ DOMAIN registry' = DOMAIN registry \ {PlugNameOf[p]}
        /\ \A n \in DOMAIN registry' : registry'[n] \in Plugins /\ PlugNameOf[registry'[n]] = n
        /\ life' \in [Plugins -> Lives] /\ RunningReachable'
    BY <2>1, UnregisterKeeps
  <2>4. NameFree'
    BY <1>0, <2>1, <2>3 DEF PlugInv, NameFree
  <2>5. PlugTypeOK'
    BY <1>0, <1>t, <2>1, <2>2, <2>3
  <2>6. QED BY <2>3, <2>4, <2>5 DEF PlugInv
<1>3. ASSUME NEW c \in PlugCallers, NEW name \in PlugNames, UnregisterPlugin(c, name) PROVE PlugInv'
  <2>1. /\ Unregister(name) /\ UNCHANGED <<pcall, runtimeOn, compiled, replaced>>
        /\ plugCalls' = plugCalls + 1
    BY <1>3 DEF UnregisterPlugin, BeginPlug
  <2>2. /\ DOMAIN registry' = DOMAIN registry \ {name}
        /\ \A n \in DOMAIN registry' : registry'[n] \in Plugins /\ PlugNameOf[registry'[n]] = n
        /\ life' \in [Plugins -> Lives] /\ RunningReachable'
    BY <2>1, UnregisterKeeps
  <2>3. NameFree'
    BY <2>1, <2>2 DEF PlugInv, NameFree
  <2>4. PlugTypeOK'
    BY <1>0, <1>t, <2>1, <2>2
  <2>5. QED BY <2>2, <2>3, <2>4 DEF PlugInv
<1>4. ASSUME NEW c \in PlugCallers, ReloadStart(c) PROVE PlugInv'
  <2>1. /\ pcall[c].at = "reload"
        /\ Register(pcall[c].plugin, "reload", pcall[c].raced)
        /\ pcall' = [Disturb(pcall[c].plugin, registry') EXCEPT ![c] = NotCalling]
        /\ UNCHANGED <<runtimeOn, compiled, plugCalls>>
    BY <1>4 DEF ReloadStart
  <2>2. pcall[c].plugin \in Plugins /\ pcall[c].raced \in BOOLEAN
    BY <1>0, <2>1 DEF PlugStates
  <2>3. ~pcall[c].raced => PlugNameOf[pcall[c].plugin] \notin DOMAIN registry
    BY <2>1 DEF PlugInv, NameFree
  <2>4. /\ DOMAIN registry' \subseteq PlugNames
        /\ \A n \in DOMAIN registry' : registry'[n] \in Plugins /\ PlugNameOf[registry'[n]] = n
        /\ life' \in [Plugins -> Lives]
        /\ replaced' \subseteq [plugin : Plugins, by : {"register", "reload"}, raced : BOOLEAN]
        /\ \/ registry' = registry
           \/ DOMAIN registry' = DOMAIN registry \cup {PlugNameOf[pcall[c].plugin]}
        /\ RunningReachable'
    BY <2>1, <2>2, <2>3, RegisterKeeps
  <2>5. pcall' \in [PlugCallers -> PlugStates] /\ NameFree'
    <3>1. /\ Disturb(pcall[c].plugin, registry') \in [PlugCallers -> PlugStates]
          /\ \A d \in PlugCallers :
               /\ Disturb(pcall[c].plugin, registry')[d].at = "reload"
               /\ ~Disturb(pcall[c].plugin, registry')[d].raced
               => PlugNameOf[Disturb(pcall[c].plugin, registry')[d].plugin] \notin DOMAIN registry'
      BY <2>2, <2>4, DisturbKeeps
    <3>2. QED BY <1>0, <2>1, <3>1 DEF NameFree, NotCalling
  <2>6. PlugTypeOK'
    BY <1>0, <1>t, <2>1, <2>4, <2>5
  <2>7. QED BY <2>4, <2>5, <2>6 DEF PlugInv
<1>5. ASSUME NEW c \in PlugCallers, ClosePlugins(c) PROVE PlugInv'
  <2>1. /\ Stop({registry[n] : n \in DOMAIN registry}) /\ UNCHANGED <<registry, pcall, replaced>>
        /\ runtimeOn' = FALSE /\ compiled' = 0 /\ plugCalls' = plugCalls + 1
    BY <1>5 DEF ClosePlugins, BeginPlug
  <2>2. {registry[n] : n \in DOMAIN registry} \in SUBSET Plugins
    BY <1>0
  <2>3. /\ life' \in [Plugins -> Lives]
        /\ \A q \in Plugins : life'[q] = "running" => life[q] = "running"
    BY <2>1, <2>2, StopKeeps
  <2>4. RunningReachable'
    BY <2>1, <2>3 DEF PlugInv, RunningReachable, Registered
  <2>5. PlugTypeOK'
    <3>1. /\ registry' = registry /\ pcall' = pcall /\ replaced' = replaced
          /\ compiled' \in Nat /\ plugCalls' \in Nat
      BY <1>0, <2>1
    <3>2. runtimeOn' \in BOOLEAN
      BY <2>1, Zenon
    <3>3. QED BY <1>0, <1>t, <2>3, <3>1, <3>2, Zenon
  <2>6. NameFree'
    BY <2>1 DEF PlugInv, NameFree
  <2>7. QED BY <2>4, <2>5, <2>6 DEF PlugInv
<1>6. ASSUME UNCHANGED <<registry, life, replaced>>, runtimeOn' \in BOOLEAN, compiled' \in Nat,
             plugCalls' \in Nat, pcall' \in [PlugCallers -> PlugStates],
             \A c \in PlugCallers : pcall'[c].at = "reload" => pcall'[c] = pcall[c]
      PROVE  PlugInv'
  <2>1. PlugTypeOK'
    BY <1>0, <1>6 DEF PlugInv, PlugTypeOK, PlugStates
  <2>2. NameFree' /\ RunningReachable'
    BY <1>6 DEF PlugInv, NameFree, RunningReachable, Registered
  <2>3. QED BY <2>1, <2>2 DEF PlugInv
<1>7. ASSUME NEW c \in PlugCallers, NEW name \in PlugNames, Negotiate(c, name) PROVE PlugInv'
  <2>1. registry[name] \in Plugins
    BY <1>7 DEF Negotiate, PlugInv, PlugTypeOK
  <2>2. QED BY <1>0, <1>6, <1>7, <2>1 DEF Negotiate, BeginPlug, PlugStates
<1>8. ASSUME NEW c \in PlugCallers, Execute(c) PROVE PlugInv'
  <2>1. pcall[c].plugin \in Plugins
    BY <1>0, <1>8 DEF Execute, PlugStates
  <2>2. QED BY <1>0, <1>6, <1>8, <2>1 DEF Execute, PlugStates, NotCalling
<1>9. ASSUME NEW c \in PlugCallers, Executed(c) PROVE PlugInv'
  BY <1>0, <1>6, <1>9 DEF Executed, NotCalling
<1>10. ASSUME NEW c \in PlugCallers, Compile(c) PROVE PlugInv'
  BY <1>0, <1>6, <1>10 DEF Compile, BeginPlug, PlugStates
<1>11. ASSUME NEW c \in PlugCallers, Sandbox(c) PROVE PlugInv'
  <2>1. SandboxNext[pcall[c].at] \in {"instantiated", "allocated", "idle"}
    BY <1>11 DEF Sandbox, SandboxNext
  <2>2. QED BY <1>0, <1>6, <1>11, <2>1 DEF Sandbox, PlugStates, NotCalling
<1>12. CASE UNCHANGED plugVars
  BY <1>0, <1>6, <1>12 DEF plugVars
<1>13. QED
  BY <1>1, <1>2, <1>3, <1>4, <1>5, <1>7, <1>8, <1>9, <1>10, <1>11, <1>12 DEF PlugNext

(* Whatever the callers do in the gap of a HotReloadPlugin, no running plugin is out *)
(* of UnregisterPlugin's and Close's reach but one RegisterPlugin put another over.  *)
THEOREM PluginsReachable == PlugSpec => [](PlugTypeOK /\ RunningReachable)
<1>1. PlugInv /\ [PlugNext]_plugVars => PlugInv'
  BY PlugInvNext
<1>2. PlugInv => PlugTypeOK /\ RunningReachable
  BY DEF PlugInv
<1>3. QED BY PlugInvInit, <1>1, <1>2, PTL DEF PlugSpec

-----------------------------------------------------------------------------
(* The threat feeds: what a load read can be looked up.                        *)

(* What a Load read can be looked up, and, until a Load reads less, under a row as new. *)
Reached ==
  \A a \in DOMAIN loads : \A i \in 1 .. loads[a].read :
    /\ KeyOf(i) \in DOMAIN reputation
    /\ (\A b \in a + 1 .. Len(loads) : loads[b].read >= loads[a].read) => reputation[KeyOf(i)].row >= i

(* A Sync that ingests has the feed to go. *)
Ingests == \A c \in FeedCallers : fcall[c].at = "ingest" => fcall[c].todo # <<>>

FeedInv == FeedTypeOK /\ Reached /\ Ingests

(* What a caller is doing, when the version is v and the table has n rows. *)
Ingesting   == [at : {"mock"}, objs : Seq(STIXObject)]
Running(v, n) == [at : {"offline", "poll", "ingest", "query", "load"}, todo : Seq(FeedSources),
                  objs : Seq(STIXObject), success : BOOLEAN, ver : 1 .. v, since : 0 .. n, read : 0 .. n]
SyncCall(v, n)  == {NoSync} \cup Ingesting \cup Running(v, n)
Loaded(n)   == [since : Nat, read : 0 .. n]

LEMMA LatestRow ==
  ASSUME NEW n \in Nat, NEW k, NEW i \in 1 .. n, KeyOf(i) = k
  PROVE  Latest(n, k) \in RowsOf(n, k) /\ Latest(n, k) >= i
<1>1. RowsOf(n, k) \in SUBSET (1 .. n) /\ i \in RowsOf(n, k)
  BY DEF RowsOf
<1>2. \E x \in RowsOf(n, k) : \A j \in RowsOf(n, k) : j <= x
  BY <1>1, GreatestNat
<1>3. Latest(n, k) \in RowsOf(n, k) /\ \A j \in RowsOf(n, k) : j <= Latest(n, k)
  BY <1>2 DEF Latest
<1>4. QED BY <1>1, <1>3

LEMMA CallsGrow ==
  ASSUME NEW v \in Nat, NEW n \in Nat, NEW w \in Nat, NEW m \in Nat, v <= w, n <= m
  PROVE  SyncCall(v, n) \subseteq SyncCall(w, m)
<1>1. 1 .. v \subseteq 1 .. w /\ 0 .. n \subseteq 0 .. m
  OBVIOUS
<1>2. Running(v, n) \subseteq Running(w, m)
  BY <1>1 DEF Running
<1>3. QED BY <1>2 DEF SyncCall

(* The updates that a Sync makes to what it is doing. *)
Ats == {"offline", "poll", "ingest", "query", "load"}

LEMMA RunUpdates ==
  ASSUME NEW v \in Nat, NEW n \in Nat, NEW r \in Running(v, n)
  PROVE  /\ \A t \in Seq(FeedSources) : [r EXCEPT !.todo = t] \in Running(v, n)
         /\ \A a \in Ats : [r EXCEPT !.at = a] \in Running(v, n)
         /\ \A o \in Seq(STIXObject) : [r EXCEPT !.objs = o] \in Running(v, n)
         /\ \A a \in Ats, o \in Seq(STIXObject) : [r EXCEPT !.at = a, !.objs = o] \in Running(v, n)
         /\ \A a \in Ats, w \in 1 .. v : [r EXCEPT !.at = a, !.ver = w] \in Running(v, n)
         /\ \A a \in Ats, k \in 0 .. n : [r EXCEPT !.at = a, !.read = k] \in Running(v, n)
         /\ \A a \in Ats, t \in Seq(FeedSources), o \in Seq(STIXObject), b \in BOOLEAN :
              [r EXCEPT !.at = a, !.todo = t, !.objs = o, !.success = b] \in Running(v, n)
<1>1. ASSUME NEW t \in Seq(FeedSources)
      PROVE  [r EXCEPT !.todo = t] \in Running(v, n)
  BY DEF Running, Ats
<1>2. ASSUME NEW a \in Ats
      PROVE  [r EXCEPT !.at = a] \in Running(v, n)
  BY DEF Running, Ats
<1>3. ASSUME NEW o \in Seq(STIXObject)
      PROVE  [r EXCEPT !.objs = o] \in Running(v, n)
  BY DEF Running, Ats
<1>4. ASSUME NEW a \in Ats, NEW o \in Seq(STIXObject)
      PROVE  [r EXCEPT !.at = a, !.objs = o] \in Running(v, n)
  BY DEF Running, Ats
<1>5. ASSUME NEW a \in Ats, NEW w \in 1 .. v
      PROVE  [r EXCEPT !.at = a, !.ver = w] \in Running(v, n)
  BY DEF Running, Ats
<1>6. ASSUME NEW a \in Ats, NEW k \in 0 .. n
      PROVE  [r EXCEPT !.at = a, !.read = k] \in Running(v, n)
  BY DEF Running, Ats
<1>7. ASSUME NEW a \in Ats, NEW t \in Seq(FeedSources), NEW o \in Seq(STIXObject),
             NEW b \in BOOLEAN
      PROVE  [r EXCEPT !.at = a, !.todo = t, !.objs = o, !.success = b] \in Running(v, n)
  BY DEF Running, Ats
<1>8. QED BY <1>1, <1>2, <1>3, <1>4, <1>5, <1>6, <1>7

LEMMA FeedTypes ==
  FeedTypeOK <=>
    /\ fcall \in [FeedCallers -> SyncCall(feed.version, Len(indicators))]
    /\ feed \in [offline : BOOLEAN, sources : Seq(FeedSources), version : Nat \ {0}]
    /\ indicators \in Seq(STIXObject)
    /\ \A k \in DOMAIN reputation : /\ k \in IOCTypes \X Patterns
                                    /\ reputation[k].row \in RowsOf(Len(indicators), k)
                                    /\ reputation[k].version \in 1 .. feed.version
    /\ loads \in Seq(Loaded(Len(indicators)))
    /\ syncs \in Nat
BY DEF FeedTypeOK, SyncCall, Ingesting, Running, Syncing, Loaded

LEMMA KeyTyped ==
  ASSUME indicators \in Seq(STIXObject), NEW i \in 1 .. Len(indicators)
  PROVE  KeyOf(i) \in IOCTypes \X Patterns
<1>1. indicators[i] \in STIXObject
  OBVIOUS
<1>2. indicators[i].pattern \in Patterns
  BY <1>1 DEF STIXObject
<1>3. QED BY <1>2 DEF KeyOf, IOCTypes

(* A step that leaves the table and the store alone. *)
LEMMA SameStore ==
  ASSUME FeedInv, UNCHANGED <<indicators, reputation, loads>>, syncs' \in Nat, Ingests',
         feed' \in [offline : BOOLEAN, sources : Seq(FeedSources), version : Nat \ {0}],
         feed'.version >= feed.version,
         fcall' \in [FeedCallers -> SyncCall(feed'.version, Len(indicators))]
  PROVE  FeedInv'
<1>1. FeedTypeOK'
  <2>1. \A k : RowsOf(Len(indicators), k)' = RowsOf(Len(indicators), k)
    BY DEF RowsOf, KeyOf
  <2>2. /\ feed.version \in Nat /\ feed'.version \in Nat
        /\ indicators \in Seq(STIXObject)
        /\ \A k \in DOMAIN reputation : /\ k \in IOCTypes \X Patterns
                                        /\ reputation[k].row \in RowsOf(Len(indicators), k)
                                        /\ reputation[k].version \in 1 .. feed.version
        /\ loads \in Seq(Loaded(Len(indicators)))
    BY FeedTypes DEF FeedInv
  <2>3. 1 .. feed.version \subseteq 1 .. feed'.version
    BY <2>2
  <2>4. \A k \in DOMAIN reputation : /\ k \in IOCTypes \X Patterns
                                     /\ reputation[k].row \in RowsOf(Len(indicators), k)
                                     /\ reputation[k].version \in 1 .. feed'.version
    BY <2>2, <2>3
  <2>5. QED BY <2>1, <2>2, <2>4 DEF FeedTypeOK, SyncCall, Ingesting, Running, Syncing, Loaded
<1>2. Reached'
  <2>1. \A i : KeyOf(i)' = KeyOf(i)
    BY DEF KeyOf
  <2>2. QED BY <2>1 DEF FeedInv, Reached
<1>3. QED BY <1>1, <1>2 DEF FeedInv

(* A step of a call that leaves the settings alone, too. *)
LEMMA CallsOnly ==
  ASSUME FeedInv, UNCHANGED <<feed, indicators, reputation, loads>>, syncs' \in Nat,
         NEW c \in FeedCallers, NEW call \in SyncCall(feed.version, Len(indicators)),
         call.at = "ingest" => call.todo # <<>>,
         fcall' = [fcall EXCEPT ![c] = call]
  PROVE  FeedInv'
<1>1. /\ fcall \in [FeedCallers -> SyncCall(feed.version, Len(indicators))]
      /\ feed \in [offline : BOOLEAN, sources : Seq(FeedSources), version : Nat \ {0}]
  BY FeedTypes DEF FeedInv
<1>2. Ingests'
  BY <1>1 DEF FeedInv, Ingests
<1>3. fcall' \in [FeedCallers -> SyncCall(feed.version, Len(indicators))] /\ feed'.version >= feed.version
  BY <1>1
<1>4. QED BY <1>1, <1>2, <1>3, SameStore

LEMMA FeedInvInit == FeedInit => FeedInv
<1> SUFFICES ASSUME FeedInit PROVE FeedInv
  OBVIOUS
<1>1. NoSync \in SyncCall(1, 0)
  BY DEF SyncCall
<1>2. fcall \in [FeedCallers -> SyncCall(1, 0)] /\ feed.version = 1 /\ Len(indicators) = 0
  BY <1>1 DEF FeedInit
<1>3. FeedTypeOK
  BY <1>2, FeedTypes DEF FeedInit
<1>4. Reached
  BY DEF FeedInit, Reached
<1>5. Ingests
  BY DEF FeedInit, Ingests, NoSync
<1>6. QED BY <1>3, <1>4, <1>5 DEF FeedInv

LEMMA FeedInvNext == ASSUME FeedInv, [FeedNext]_feedVars PROVE FeedInv'
<1> DEFINE n == Len(indicators)  v == feed.version
           Calls == SyncCall(v, n)
<1>0. /\ fcall \in [FeedCallers -> Calls]
      /\ feed \in [offline : BOOLEAN, sources : Seq(FeedSources), version : Nat \ {0}]
      /\ indicators \in Seq(STIXObject) /\ n \in Nat /\ v \in Nat \ {0}
      /\ \A k \in DOMAIN reputation : /\ k \in IOCTypes \X Patterns
                                      /\ reputation[k].row \in RowsOf(n, k)
                                      /\ reputation[k].version \in 1 .. v
      /\ loads \in Seq(Loaded(n)) /\ syncs \in Nat
  BY FeedTypes DEF FeedInv
<1>r. Reached /\ Ingests
  BY DEF FeedInv
<1>c. ASSUME NEW c \in FeedCallers, fcall[c].at \in {"offline", "poll", "ingest", "query", "load"}
      PROVE  fcall[c] \in Running(v, n)
  BY <1>0, <1>c DEF SyncCall, NoSync, Ingesting
<1>m. ASSUME NEW c \in FeedCallers, fcall[c].at = "mock"
      PROVE  fcall[c] \in Ingesting
  BY <1>0, <1>m DEF SyncCall, NoSync, Running
<1>s. /\ v \in Nat /\ Running(v, n) \subseteq Calls /\ Ingesting \subseteq Calls /\ NoSync \in Calls
  BY <1>0 DEF SyncCall
<1> HIDE DEF n, v, Calls
<1>b. ASSUME NEW c \in FeedCallers, NEW done \in BOOLEAN, fcall[c].at \in {"ingest", "mock"}, BundleEnd(c, done)
      PROVE  \E call \in Calls : /\ call.at # "ingest"
                                 /\ fcall' = [fcall EXCEPT ![c] = call]
  <2> DEFINE r == fcall[c]  t == Tail(r.todo)  b == r.success \/ done
  <2>1. fcall' = [fcall EXCEPT ![c] =
          IF r.at = "mock" THEN NoSync
          ELSE [r EXCEPT !.at = "poll", !.todo = t, !.objs = <<>>, !.success = b]]
    BY <1>b DEF BundleEnd
  <2>2. CASE r.at = "mock"
    <3>1. NoSync \in Calls /\ NoSync.at # "ingest"
      BY <1>s DEF NoSync
    <3>2. QED BY <2>1, <2>2, <3>1
  <2>3. CASE r.at = "ingest"
    <3>1. r \in Running(v, n) /\ r.todo # <<>>
      BY <1>c, <1>r, <2>3 DEF Ingests
    <3>2. r.todo \in Seq(FeedSources) /\ b \in BOOLEAN
      BY <3>1 DEF Running
    <3>3. t \in Seq(FeedSources) /\ <<>> \in Seq(STIXObject)
      BY <3>1, <3>2
    <3> HIDE DEF r, t, b
    <3>4. [r EXCEPT !.at = "poll", !.todo = t, !.objs = <<>>, !.success = b] \in Running(v, n)
      BY <1>0, <1>s, <3>1, <3>2, <3>3, RunUpdates DEF Ats
    <3>5. [r EXCEPT !.at = "poll", !.todo = t, !.objs = <<>>, !.success = b].at = "poll"
      BY <3>1 DEF Running
    <3>6. QED BY <1>s, <2>1, <2>3, <3>4, <3>5
  <2>4. QED BY <1>b, <2>2, <2>3
<1>1. ASSUME NEW c \in FeedCallers, Poll(c) PROVE FeedInv'
  <2> DEFINE r == fcall[c]  t == Tail(r.todo)  o == Serves[Head(r.todo)]
  <2>1. /\ r.at = "poll" /\ r.todo # <<>>
        /\ fcall' \in {[fcall EXCEPT ![c] = [r EXCEPT !.todo = t]],
                      [fcall EXCEPT ![c] = [r EXCEPT !.at = "ingest", !.objs = o]]}
        /\ UNCHANGED <<feed, indicators, reputation, syncs, loads>>
    BY <1>1 DEF Poll
  <2>2. r \in Running(v, n)
    BY <1>c, <2>1
  <2>3. r.todo \in Seq(FeedSources)
    BY <2>2 DEF Running
  <2>4. t \in Seq(FeedSources) /\ o \in Seq(STIXObject)
    BY <2>1, <2>3, FeedAssumption
  <2> HIDE DEF r, t, o
  <2>5. [r EXCEPT !.todo = t] \in Running(v, n) /\ [r EXCEPT !.at = "ingest", !.objs = o] \in Running(v, n)
    BY <1>0, <1>s, <2>2, <2>4, RunUpdates DEF Ats
  <2>6. /\ [r EXCEPT !.todo = t].at = "poll"
        /\ [r EXCEPT !.at = "ingest", !.objs = o].todo = r.todo
    BY <2>1, <2>2 DEF Running
  <2>7. PICK call \in Calls : /\ fcall' = [fcall EXCEPT ![c] = call]
                              /\ call.at = "ingest" => call.todo # <<>>
    BY <1>s, <2>1, <2>5, <2>6
  <2>8. QED BY <1>0, <2>1, <2>7, CallsOnly DEF n, v, Calls
<1>2. ASSUME NEW c \in FeedCallers, BundleDone(c) PROVE FeedInv'
  <2>1. fcall[c].at \in {"ingest", "mock"} /\ BundleEnd(c, TRUE)
        /\ UNCHANGED <<feed, indicators, reputation, syncs, loads>>
    BY <1>2 DEF BundleDone
  <2>2. PICK call \in Calls : call.at # "ingest" /\ fcall' = [fcall EXCEPT ![c] = call]
    BY <1>b, <2>1
  <2>3. QED BY <1>0, <2>1, <2>2, CallsOnly DEF n, v, Calls
<1>3. ASSUME NEW c \in FeedCallers, NEW a \in Ats \ {"ingest"}, fcall[c].at \in Ats,
             UNCHANGED <<feed, indicators, reputation, syncs, loads>>,
             \/ fcall' = [fcall EXCEPT ![c].at = a]
             \/ \E w \in 1 .. v : fcall' = [fcall EXCEPT ![c].at = a, ![c].ver = w]
             \/ \E k \in 0 .. n : fcall' = [fcall EXCEPT ![c].at = a, ![c].read = k]
      PROVE  FeedInv'
  <2> DEFINE r == fcall[c]
  <2>1. r \in Running(v, n)
    BY <1>3, <1>c DEF Ats
  <2> HIDE DEF r
  <2>2. /\ [r EXCEPT !.at = a] \in Running(v, n)
        /\ \A w \in 1 .. v : [r EXCEPT !.at = a, !.ver = w] \in Running(v, n)
        /\ \A k \in 0 .. n : [r EXCEPT !.at = a, !.read = k] \in Running(v, n)
    BY <1>0, <1>s, <2>1, RunUpdates
  <2>3. /\ [r EXCEPT !.at = a].at = a
        /\ \A w \in 1 .. v : [r EXCEPT !.at = a, !.ver = w].at = a
        /\ \A k \in 0 .. n : [r EXCEPT !.at = a, !.read = k].at = a
    BY <2>1 DEF Running
  <2>4. \/ fcall' = [fcall EXCEPT ![c] = [r EXCEPT !.at = a]]
        \/ \E w \in 1 .. v : fcall' = [fcall EXCEPT ![c] = [r EXCEPT !.at = a, !.ver = w]]
        \/ \E k \in 0 .. n : fcall' = [fcall EXCEPT ![c] = [r EXCEPT !.at = a, !.read = k]]
    BY <1>3 DEF r
  <2>5. PICK call \in Calls : call.at # "ingest" /\ fcall' = [fcall EXCEPT ![c] = call]
    BY <1>s, <2>2, <2>3, <2>4
  <2>6. QED BY <1>0, <1>3, <2>5, CallsOnly DEF n, v, Calls
<1>4. ASSUME NEW c \in FeedCallers, Polled(c) \/ LoadOffline(c) \/ Query(c) PROVE FeedInv'
  <2>1. UNCHANGED <<feed, indicators, reputation, syncs, loads>>
    BY <1>4 DEF Polled, LoadOffline, Query
  <2>2. CASE Polled(c)
    <3>1. PICK a \in {"query", "offline"} : fcall' = [fcall EXCEPT ![c].at = a]
      BY <2>2 DEF Polled, Goto
    <3>2. fcall[c].at \in Ats /\ a \in Ats \ {"ingest"}
      BY <2>2 DEF Polled, Ats
    <3>3. QED BY <1>3, <2>1, <3>1, <3>2
  <2>3. CASE LoadOffline(c)
    <3>1. /\ fcall' = [fcall EXCEPT ![c].at = "query", ![c].ver = v] /\ v \in 1 .. v
          /\ fcall[c].at \in Ats /\ "query" \in Ats \ {"ingest"}
      BY <1>0, <2>3 DEF LoadOffline, v, Ats
    <3>2. QED BY <1>3, <2>1, <3>1
  <2>4. CASE Query(c)
    <3>1. fcall[c].at \in Ats /\ "load" \in Ats \ {"ingest"}
      BY <2>4 DEF Query, Ats
    <3>2. CASE fcall' = [fcall EXCEPT ![c] = NoSync]
      <4>1. NoSync \in Calls /\ NoSync.at # "ingest"
        BY <1>s DEF NoSync
      <4>2. QED BY <1>0, <2>1, <3>2, <4>1, CallsOnly DEF n, v, Calls
    <3>3. CASE \E k \in 0 .. n : fcall' = [fcall EXCEPT ![c].at = "load", ![c].read = k]
      BY <1>3, <2>1, <3>1, <3>3
    <3>4. QED BY <2>4, <3>2, <3>3 DEF Query, n
  <2>5. QED BY <1>4, <2>2, <2>3, <2>4
<1>5. ASSUME NEW c \in FeedCallers, NEW f \in FeedSources, IngestMockBundle(c, f) PROVE FeedInv'
  <2> DEFINE call == [at |-> "mock", objs |-> Serves[f]]
  <2>1. /\ fcall' = [fcall EXCEPT ![c] = call] /\ syncs' = syncs + 1
        /\ UNCHANGED <<feed, indicators, reputation, loads>>
    BY <1>5 DEF IngestMockBundle, BeginFeed
  <2>2. call \in Ingesting /\ call.at # "ingest"
    BY FeedAssumption DEF Ingesting
  <2>3. call \in Calls
    BY <1>s, <2>2
  <2> HIDE DEF call
  <2>4. syncs' \in Nat
    BY <1>0, <2>1
  <2>5. QED BY <2>1, <2>2, <2>3, <2>4, CallsOnly DEF n, v, Calls
<1>6. ASSUME feed' \in [offline : BOOLEAN, sources : Seq(FeedSources), version : Nat \ {0}],
             feed'.version = v, UNCHANGED <<indicators, reputation, fcall, syncs, loads>>
      PROVE  FeedInv'
  <2>1. Ingests' /\ syncs' \in Nat /\ feed'.version >= feed.version
    BY <1>0, <1>6, <1>r DEF Ingests, v
  <2>2. fcall' \in [FeedCallers -> SyncCall(feed'.version, Len(indicators))]
    BY <1>0, <1>6 DEF v, n, Calls
  <2>3. QED BY <1>6, <2>1, <2>2, SameStore
<1>7. ASSUME SetOfflineMode PROVE FeedInv'
  <2>1. feed' = [feed EXCEPT !.offline = ~@] /\ UNCHANGED <<indicators, reputation, fcall, syncs, loads>>
    BY <1>7 DEF SetOfflineMode
  <2>2. /\ feed' \in [offline : BOOLEAN, sources : Seq(FeedSources), version : Nat \ {0}]
        /\ feed'.version = v
    BY <1>0, <2>1 DEF v
  <2>3. QED BY <1>6, <2>1, <2>2
<1>8. ASSUME AddSource PROVE FeedInv'
  <2>1. PICK f \in FeedSources : feed' = [feed EXCEPT !.sources = Append(@, f)]
    BY <1>8 DEF AddSource
  <2>2. UNCHANGED <<indicators, reputation, fcall, syncs, loads>>
    BY <1>8 DEF AddSource
  <2>3. Append(feed.sources, f) \in Seq(FeedSources)
    BY <1>0
  <2>4. /\ feed' \in [offline : BOOLEAN, sources : Seq(FeedSources), version : Nat \ {0}]
        /\ feed'.version = v
    BY <1>0, <2>1, <2>3 DEF v
  <2>5. QED BY <1>6, <2>2, <2>4
<1>9. ASSUME NEW c \in FeedCallers, Sync(c) PROVE FeedInv'
  <2> DEFINE call == [at |-> IF feed.offline THEN "offline" ELSE "poll", todo |-> feed.sources, objs |-> <<>>,
                      success |-> feed.sources = <<>>, ver |-> v + 1, since |-> n, read |-> 0]
  <2>1. /\ feed' = [feed EXCEPT !.version = v + 1] /\ syncs' = syncs + 1
        /\ UNCHANGED <<indicators, reputation, loads>>
    BY <1>9 DEF Sync, BeginFeed, v
  <2>2. /\ feed' \in [offline : BOOLEAN, sources : Seq(FeedSources), version : Nat \ {0}]
        /\ feed'.version = v + 1 /\ syncs' \in Nat
    <3>1. v + 1 \in Nat \ {0} /\ syncs + 1 \in Nat
      BY <1>0
    <3>2. QED BY <1>0, <2>1, <3>1
  <2>3. fcall' = [fcall EXCEPT ![c] = call]
    BY <1>9, <2>2 DEF Sync, n
  <2>4. call \in Running(v + 1, n) /\ call.at # "ingest"
    <3>1. (feed.sources = <<>>) \in BOOLEAN /\ feed.sources \in Seq(FeedSources) /\ <<>> \in Seq(STIXObject)
      BY <1>0
    <3>2. v + 1 \in 1 .. v + 1 /\ n \in 0 .. n /\ 0 \in 0 .. n
      BY <1>0
    <3>3. QED BY <3>1, <3>2 DEF Running
  <2>5. Calls \subseteq SyncCall(v + 1, n)
    BY <1>0, <1>s, CallsGrow DEF Calls
  <2>6. fcall' \in [FeedCallers -> SyncCall(v + 1, n)]
    <3>1. call \in SyncCall(v + 1, n)
      BY <2>4 DEF SyncCall
    <3> HIDE DEF call
    <3>2. QED BY <1>0, <2>3, <2>5, <3>1
  <2>7. Ingests'
    <3> HIDE DEF call
    <3>1. QED BY <1>0, <1>r, <2>3, <2>4 DEF Ingests
  <2>8. feed'.version >= feed.version
    BY <1>s, <2>2 DEF v
  <2>9. QED BY <2>1, <2>2, <2>6, <2>7, <2>8, SameStore DEF n
<1>10. ASSUME NEW c \in FeedCallers, InsertIndicator(c) PROVE FeedInv'
  <2> DEFINE r == fcall[c]  o == Head(r.objs)  rest == Tail(r.objs)
  <2>1. /\ r.at \in {"ingest", "mock"} /\ r.objs # <<>> /\ UNCHANGED <<feed, reputation, syncs, loads>>
        /\ \/ /\ indicators' = IF o.type = "indicator" THEN Append(indicators, o) ELSE indicators
              /\ fcall' = [fcall EXCEPT ![c] = [r EXCEPT !.objs = rest]]
           \/ UNCHANGED indicators /\ BundleEnd(c, FALSE)
    BY <1>10 DEF InsertIndicator
  <2>2. r \in Ingesting \/ (r \in Running(v, n) /\ r.at = "ingest")
    BY <1>c, <1>m, <2>1
  <2>3. o \in STIXObject /\ rest \in Seq(STIXObject)
    <3>1. r.objs \in Seq(STIXObject)
      BY <2>2 DEF Ingesting, Running
    <3>2. QED BY <2>1, <3>1
  <2> DEFINE call == [r EXCEPT !.objs = rest]
  <2>4. call \in Calls /\ (call.at = "ingest" => call.todo # <<>>)
    <3>1. CASE r \in Ingesting
      <4>1. call \in Ingesting /\ call.at # "ingest"
        BY <2>3, <3>1 DEF Ingesting
      <4>2. QED BY <1>s, <4>1
    <3>2. CASE r \in Running(v, n) /\ r.at = "ingest"
      <4>1. call.todo = r.todo /\ r.todo # <<>>
        BY <1>r, <3>2 DEF Ingests, Running
      <4> HIDE DEF r, rest
      <4>2. call \in Running(v, n)
        BY <1>0, <1>s, <2>3, <3>2, RunUpdates
      <4>3. QED BY <1>s, <4>1, <4>2
    <3>3. QED BY <2>2, <3>1, <3>2
  <2>5. CASE UNCHANGED indicators
    <3>1. PICK new \in Calls : /\ fcall' = [fcall EXCEPT ![c] = new]
                               /\ new.at = "ingest" => new.todo # <<>>
      BY <1>b, <2>1, <2>4
    <3>2. QED BY <1>0, <2>1, <2>5, <3>1, CallsOnly DEF n, v, Calls
  <2>6. CASE indicators' = Append(indicators, o) /\ fcall' = [fcall EXCEPT ![c] = call]
    <3> HIDE DEF call, o
    <3>1. /\ indicators' \in Seq(STIXObject) /\ Len(indicators') = n + 1
          /\ \A i \in 1 .. n : indicators'[i] = indicators[i]
      BY <1>0, <2>3, <2>6 DEF n
    <3>2. \A i \in 1 .. n : KeyOf(i)' = KeyOf(i)
      BY <3>1 DEF KeyOf
    <3>3. \A k : RowsOf(n, k) \subseteq RowsOf(Len(indicators), k)'
      <4>1. 1 .. n \subseteq 1 .. n + 1
        BY <1>0
      <4>2. QED BY <3>1, <3>2, <4>1 DEF RowsOf
    <3>4. FeedTypeOK'
      <4>1. Loaded(n) \subseteq Loaded(n + 1)
        <5>1. 0 .. n \subseteq 0 .. n + 1
          BY <1>0
        <5>2. QED BY <5>1 DEF Loaded
      <4>2. loads' \in Seq(Loaded(n + 1))
        <5>1. Seq(Loaded(n)) \subseteq Seq(Loaded(n + 1))
          BY <4>1
        <5>2. QED BY <1>0, <2>1, <5>1
      <4>3. Calls \subseteq SyncCall(v, n + 1)
        BY <1>0, <1>s, CallsGrow DEF Calls
      <4>4. fcall' \in [FeedCallers -> SyncCall(v, n + 1)]
        BY <1>0, <2>4, <2>6, <4>3
      <4>5. \A k \in DOMAIN reputation : /\ k \in IOCTypes \X Patterns
                                         /\ reputation[k].row \in RowsOf(Len(indicators), k)'
                                         /\ reputation[k].version \in 1 .. v
        BY <1>0, <3>3
      <4>6. QED BY <1>0, <2>1, <3>1, <4>2, <4>4, <4>5
                DEF FeedTypeOK, SyncCall, Ingesting, Running, Syncing, Loaded, v
    <3>5. Reached'
      <4>1. \A a \in DOMAIN loads : loads[a].read \in 0 .. n
        <5>1. \A a \in DOMAIN loads : loads[a] \in Loaded(n)
          BY <1>0
        <5>2. QED BY <5>1 DEF Loaded
      <4>2. \A a \in DOMAIN loads : \A i \in 1 .. loads[a].read : i \in 1 .. n
        BY <1>0, <4>1
      <4>3. QED BY <1>r, <2>1, <3>2, <4>2 DEF Reached
    <3>6. Ingests'
      BY <1>0, <1>r, <2>4, <2>6 DEF Ingests
    <3>7. QED BY <3>4, <3>5, <3>6 DEF FeedInv
  <2>7. QED BY <2>1, <2>5, <2>6
<1>11. ASSUME NEW c \in FeedCallers, Load(c) PROVE FeedInv'
  <2> DEFINE m == fcall[c].read  w == fcall[c].ver  old == fcall[c].since
             new == [since |-> old, read |-> m]
  <2>1. /\ fcall[c].at = "load" /\ loads' = Append(loads, new) /\ fcall' = [fcall EXCEPT ![c] = NoSync]
        /\ reputation' = [k \in DOMAIN reputation \cup LoadedKeys(m) |->
             IF k \in LoadedKeys(m) THEN [row |-> Latest(m, k), version |-> w] ELSE reputation[k]]
        /\ UNCHANGED <<feed, indicators, syncs>>
    BY <1>11 DEF Load
  <2>2. fcall[c] \in Running(v, n)
    BY <1>c, <2>1
  <2>3. m \in 0 .. n /\ w \in 1 .. v /\ old \in 0 .. n
    BY <2>2 DEF Running
  <2> HIDE DEF m, w, old
  <2>4. new \in Loaded(n) /\ new.read = m
    BY <1>0, <2>3 DEF Loaded
  <2> HIDE DEF new
  <2>5. /\ loads' \in Seq(Loaded(n)) /\ Len(loads') = Len(loads) + 1 /\ loads'[Len(loads) + 1] = new
        /\ \A a \in 1 .. Len(loads) : loads'[a] = loads[a]
        /\ DOMAIN loads' = 1 .. Len(loads) + 1 /\ DOMAIN loads = 1 .. Len(loads) /\ Len(loads) \in Nat
    BY <1>0, <2>1, <2>4
  <2>6. m \in Nat /\ 1 .. m \subseteq 1 .. n
    BY <1>0, <2>3
  <2>7. \A k : KeyOf(k)' = KeyOf(k)
    BY <2>1 DEF KeyOf
  <2>8. ASSUME NEW k \in LoadedKeys(m) PROVE k \in IOCTypes \X Patterns /\ Latest(m, k) \in RowsOf(n, k)
    <3>1. PICK i \in 1 .. m : KeyOf(i) = k
      BY DEF LoadedKeys
    <3>2. k \in IOCTypes \X Patterns
      BY <1>0, <2>6, <3>1, KeyTyped DEF n
    <3>3. Latest(m, k) \in RowsOf(m, k)
      BY <2>6, <3>1, LatestRow
    <3>4. QED BY <2>6, <3>2, <3>3 DEF RowsOf
  <2>9. FeedTypeOK'
    <3>1. ASSUME NEW k \in DOMAIN reputation'
          PROVE  /\ k \in IOCTypes \X Patterns
                 /\ reputation'[k].row \in RowsOf(n, k)
                 /\ reputation'[k].version \in 1 .. v
      <4>1. CASE k \in LoadedKeys(m)
        BY <2>1, <2>3, <2>8, <4>1
      <4>2. CASE k \notin LoadedKeys(m)
        BY <1>0, <2>1, <4>2
      <4>3. QED BY <4>1, <4>2
    <3>2. \A k : RowsOf(Len(indicators), k)' = RowsOf(n, k)
      BY <2>1, <2>7 DEF RowsOf, n
    <3>3. fcall' \in [FeedCallers -> Calls]
      BY <1>0, <1>s, <2>1
    <3>4. Len(indicators') = n /\ feed'.version = v
      BY <2>1 DEF n, v
    <3>5. fcall' \in [FeedCallers -> SyncCall(v, n)]
      BY <3>3 DEF Calls
    <3>6. \A k \in DOMAIN reputation' : /\ k \in IOCTypes \X Patterns
                                        /\ reputation'[k].row \in RowsOf(Len(indicators), k)'
                                        /\ reputation'[k].version \in 1 .. v
      BY <3>1, <3>2
    <3> HIDE DEF v, n
    <3>7. QED BY <1>0, <2>1, <2>5, <3>4, <3>5, <3>6
              DEF FeedTypeOK, SyncCall, Ingesting, Running, Syncing, Loaded
  <2>10. ASSUME NEW i \in 1 .. m
         PROVE  KeyOf(i) \in DOMAIN reputation' /\ reputation'[KeyOf(i)].row >= i
    <3>1. KeyOf(i) \in LoadedKeys(m)
      BY DEF LoadedKeys
    <3>2. Latest(m, KeyOf(i)) >= i
      BY <2>6, LatestRow
    <3>3. QED BY <2>1, <3>1, <3>2
  <2>11. Reached'
    <3> SUFFICES ASSUME NEW a \in DOMAIN loads', NEW i \in 1 .. loads'[a].read
                 PROVE  /\ KeyOf(i) \in DOMAIN reputation'
                        /\ (\A b \in a + 1 .. Len(loads') : loads'[b].read >= loads'[a].read) =>
                             reputation'[KeyOf(i)].row >= i
      BY <2>7 DEF Reached
    <3>1. CASE a = Len(loads) + 1
      BY <2>4, <2>5, <2>10, <3>1
    <3>2. CASE a \in 1 .. Len(loads)
      <4>1. loads'[a] = loads[a] /\ loads[a].read \in 0 .. n
        <5>1. loads[a] \in Loaded(n)
          BY <1>0, <3>2
        <5>2. QED BY <2>5, <3>2, <5>1 DEF Loaded
      <4>2. KeyOf(i) \in DOMAIN reputation'
        <5>1. KeyOf(i) \in DOMAIN reputation
          BY <1>r, <2>5, <3>2, <4>1 DEF Reached
        <5>2. QED BY <2>1, <5>1
      <4>3. ASSUME \A b \in a + 1 .. Len(loads') : loads'[b].read >= loads'[a].read
            PROVE  reputation'[KeyOf(i)].row >= i
        <5>1. Len(loads) + 1 \in a + 1 .. Len(loads')
          BY <2>5, <3>2
        <5>2. m >= loads[a].read
          BY <2>4, <2>5, <4>1, <4>3, <5>1
        <5>3. i \in 1 .. m
          BY <2>6, <4>1, <5>2
        <5>4. QED BY <2>10, <5>3
      <4>4. QED BY <4>2, <4>3
    <3>3. QED BY <2>5, <3>1, <3>2
  <2>12. Ingests'
    BY <1>0, <1>r, <2>1 DEF Ingests, NoSync
  <2>13. QED BY <2>9, <2>11, <2>12 DEF FeedInv
<1>12. CASE UNCHANGED feedVars
  <2>1. UNCHANGED <<feed, indicators, reputation, fcall, syncs, loads>>
    BY <1>12 DEF feedVars
  <2>2. QED BY <1>0, <1>6, <2>1 DEF v
<1>13. QED BY <1>1, <1>2, <1>4, <1>5, <1>7, <1>8, <1>9, <1>10, <1>11, <1>12 DEF FeedNext

(* However Syncs overlap, and wherever a read of the table is cut short, what a Load   *)
(* read can be looked up, and as the newest row says until a Load that read less.      *)
THEOREM SyncedReachAlways == FeedSpec => [](FeedTypeOK /\ SyncedReach)
<1>1. FeedInv /\ [FeedNext]_feedVars => FeedInv'
  BY FeedInvNext
<1>2. FeedInv => FeedTypeOK /\ SyncedReach
  <2> SUFFICES ASSUME FeedInv, NEW a \in DOMAIN loads, NEW i \in 1 .. loads[a].since,
                      loads[a].read >= loads[a].since
               PROVE  i \in 1 .. loads[a].read
    BY DEF FeedInv, Reached, SyncedReach
  <2>1. loads \in Seq(Loaded(Len(indicators))) /\ Len(indicators) \in Nat
    BY FeedTypes DEF FeedInv
  <2>2. loads[a] \in Loaded(Len(indicators))
    BY <2>1
  <2>3. loads[a].since \in Nat /\ loads[a].read \in Nat
    BY <2>1, <2>2 DEF Loaded
  <2>4. QED BY <2>3
<1>3. QED BY FeedInvInit, <1>1, <1>2, PTL DEF FeedSpec

-----------------------------------------------------------------------------
(* The services side by side, one of them moving.                              *)

ServicesInv == ForestInv /\ LifeInv /\ RestTypes /\ BusInv /\ PlugInv /\ FeedInv /\ DaemonTypeOK

LEMMA ServicesInitOK == ServicesInit => ServicesInv
<1> SUFFICES ASSUME ServicesInit PROVE ServicesInv
  OBVIOUS
<1>1. ForestInv /\ LifeInv /\ RestTypes
  BY CorrInitOK, LifeInit, RestInit DEF ServicesInit
<1>2. BusInv /\ PlugInv /\ FeedInv /\ DaemonTypeOK
  BY BusInvInit, PlugInvInit, FeedInvInit, DaemonInitOK DEF ServicesInit, DaemonInv
<1>3. QED BY <1>1, <1>2 DEF ServicesInv

LEMMA ServicesStep == ServicesInv /\ [ServicesNext]_ServicesVars => ServicesInv'
<1> SUFFICES ASSUME ServicesInv, [ServicesNext]_ServicesVars PROVE ServicesInv'
  OBVIOUS
<1>1. /\ [CorrNext]_corrVars /\ [CoreNext]_coreVars /\ [BusNext]_busVars /\ [PlugNext]_plugVars
      /\ [FeedNext]_feedVars /\ [DaemonNext]_daemonVars
  BY DEF ServicesNext, ServicesVars, others, CoreNext
<1>2. ForestInv' /\ LifeInv' /\ RestTypes'
  BY <1>1, CorrStep, LifeStep, RestStep DEF ServicesInv
<1>3. BusInv' /\ PlugInv'
  BY <1>1, BusInvNext, PlugInvNext DEF ServicesInv
<1>4. FeedInv' /\ DaemonTypeOK'
  BY <1>1, FeedInvNext, TypeStep DEF ServicesInv
<1>5. QED BY <1>2, <1>3, <1>4 DEF ServicesInv

(* Every service's state has its type, whichever of them moves. *)
THEOREM ServicesTypeOKAlways == ServicesSpec => []ServicesTypeOK
<1>1. ServicesInv => ServicesTypeOK
  BY CoreTyped DEF ServicesInv, ForestInv, BusInv, PlugInv, FeedInv, ServicesTypeOK
<1>2. QED BY <1>1, ServicesInitOK, ServicesStep, PTL DEF ServicesSpec
=============================================================================
