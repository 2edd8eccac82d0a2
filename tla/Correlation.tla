---------------------------- MODULE Correlation ----------------------------
(***************************************************************************)
(* internal/correlation's Engine: a graph of the processes launched within *)
(* a window, under one lock.  A process event makes a node, which the map  *)
(* finds by PID and the parent's Children list by pointer; the queries     *)
(* recurse along Children without a mark of where they have been.          *)
(*                                                                         *)
(* A node is its index in `tree'; `entries' numbers what the nodes hold.   *)
(* `by' in a node is history: the node it was appended to, 0 if to none.   *)
(***************************************************************************)
EXTENDS Integers, Sequences, FiniteSets

CONSTANTS CorrPids,    \* the process ids the events carry
          CorrWindow,  \* NewEngine's argument
          MaxEntries,  \* bound: launches, activities and alerts
          MaxCorrTime  \* bound: the clock

(* What a node holds beside its children: itself, the three lists, its alerts. *)
EntryKinds == {"process", "file", "network", "registry", "alert"}

ASSUME CorrAssumption == /\ CorrWindow \in Nat /\ MaxEntries \in Nat /\ MaxCorrTime \in Nat

VARIABLES wall,     \* time.Now()
          live,     \* Engine.nodes: the node of a PID, for the PIDs in it
          tree,     \* every node made, those expired included
          entries   \* what was attached to which node, in order

corrVars == <<wall, live, tree, entries>>

CorrInit == wall = 0 /\ live = <<>> /\ tree = <<>> /\ entries = <<>>

-----------------------------------------------------------------------------
(* Correlate first drops the nodes launched more than a window ago from the map; *)
(* the Children lists still hold them.                                           *)
Unexpired == LET keep == {p \in DOMAIN live : wall - tree[live[p]].launched <= CorrWindow}
             IN [p \in keep |-> live[p]]

Attach(n, kind) == entries' = Append(entries, [node |-> n, kind |-> kind])

(* A node holds its entries by their numbers, its own launch first, and its alerts apart. *)
NewNode(p, pp, t) == [pid |-> p, ppid |-> pp, launched |-> t, by |-> 0,
                      holds |-> <<Len(entries) + 1>>, alerts |-> <<>>, children |-> <<>>]

BugReusedNode(p) == IF p \in DOMAIN Unexpired THEN Unexpired[p] ELSE Len(tree) + 1
NodeFor(p) == Len(tree) + 1

(* The node takes over its PID, and only then is the parent looked up: a process *)
(* that is its own parent finds itself.                                          *)
Launch(p, pp, t) ==
  LET n     == NodeFor(p)
      nodes == [q \in DOMAIN Unexpired \cup {p} |-> IF q = p THEN n ELSE Unexpired[q]]
      grown == IF n > Len(tree) THEN Append(tree, NewNode(p, pp, t)) ELSE tree
  IN /\ live' = nodes
     /\ tree' = IF pp \in DOMAIN nodes
                THEN [grown EXCEPT ![n].by = nodes[pp],
                                   ![nodes[pp]].children = Append(@, n)]
                ELSE grown
     /\ Attach(n, "process")

Hold(p, nodes, kind) ==
  IF p \in DOMAIN nodes
  THEN /\ tree' = IF kind = "alert"
                  THEN [tree EXCEPT ![nodes[p]].alerts = Append(@, Len(entries) + 1)]
                  ELSE [tree EXCEPT ![nodes[p]].holds = Append(@, Len(entries) + 1)]
       /\ Attach(nodes[p], kind)
  ELSE UNCHANGED <<tree, entries>>

(* An event carries its own time, which a replayed one took in the past. *)
CorrelateProcess == /\ Len(entries) < MaxEntries
                    /\ \E p, pp \in CorrPids, t \in 0 .. wall : Launch(p, pp, t)
                    /\ UNCHANGED wall

CorrelateActivity == /\ Len(entries) < MaxEntries
                     /\ \E p \in CorrPids, kind \in EntryKinds \ {"process", "alert"} :
                          Hold(p, Unexpired, kind)
                     /\ live' = Unexpired /\ UNCHANGED wall

RecordAlert == /\ Len(entries) < MaxEntries
               /\ \E p \in CorrPids : Hold(p, live, "alert")
               /\ UNCHANGED <<wall, live>>

CorrTick == wall < MaxCorrTime /\ wall' = wall + 1 /\ UNCHANGED <<live, tree, entries>>

CorrNext == CorrelateProcess \/ CorrelateActivity \/ RecordAlert \/ CorrTick

CorrSpec == CorrInit /\ [][CorrNext]_corrVars

-----------------------------------------------------------------------------
(* The queries.  What they gather from a node is what it yields, and then what is *)
(* gathered from its children in turn; the sort of the timeline is left out.      *)

Gathered(own, children, bring) ==
  LET g[k \in 0 .. Len(children)] == IF k = 0 THEN own ELSE g[k - 1] \o bring[children[k]]
  IN g[Len(children)]

BugCollectByPid(yields) ==
  LET ByPid(c) == IF tree[c].pid \in DOMAIN live THEN live[tree[c].pid] ELSE 0
      f[n \in DOMAIN tree] ==
        Gathered(yields[n], tree[n].children,
                 [c \in DOMAIN tree |-> IF ByPid(c) > n THEN f[ByPid(c)] ELSE <<>>])
  IN f

Collected(yields) ==
  LET f[n \in DOMAIN tree] ==
        Gathered(yields[n], tree[n].children,
                 [c \in DOMAIN tree |-> IF c > n THEN f[c] ELSE <<>>])
  IN f

(* A node in its own Children list is collected from for ever. *)
Endless ==
  LET f[n \in DOMAIN tree] == \E i \in DOMAIN tree[n].children :
        tree[n].children[i] = n \/ (tree[n].children[i] > n /\ f[tree[n].children[i]])
  IN f

ReconstructTimeline(p) ==
  Collected([n \in DOMAIN tree |-> tree[n].holds \o tree[n].alerts])[live[p]]

GroupAlerts(p) == Collected([n \in DOMAIN tree |-> tree[n].alerts])[live[p]]

-----------------------------------------------------------------------------
CorrNode == [pid : CorrPids, ppid : CorrPids, launched : Nat, by : Nat,
             holds : Seq(Nat \ {0}), alerts : Seq(Nat \ {0}), children : Seq(Nat \ {0})]

CorrTypeOK ==
  /\ wall \in Nat
  /\ tree \in Seq(CorrNode)
  /\ entries \in Seq([node : DOMAIN tree, kind : EntryKinds])
  /\ DOMAIN live \subseteq CorrPids /\ live \in [DOMAIN live -> DOMAIN tree]

(* The graph the queries recurse over is a forest: a node is in at most one Children *)
(* list, once, and in an older node's, so the recursion ends; but for a process that *)
(* is its own parent, whose node is in its own list and the recursion does not end.  *)
Forest ==
  /\ \A n \in DOMAIN tree : \A i \in DOMAIN tree[n].children :
       LET c == tree[n].children[i] IN
       /\ c \in DOMAIN tree
       /\ n < c \/ (n = c /\ tree[n].pid = tree[n].ppid)
  /\ \A m, n \in DOMAIN tree :
       \A i \in DOMAIN tree[m].children, j \in DOMAIN tree[n].children :
         tree[m].children[i] = tree[n].children[j] => m = n /\ i = j

Under(n, a) == LET f[k \in 0 .. Len(tree)] ==
                     k = a \/ (k # 0 /\ tree[k].by < k /\ f[tree[k].by])
               IN f[n]

Times(e, s) == Cardinality({i \in DOMAIN s : s[i] = e})

(* What an analyst is shown for a process: exactly what was attached to it or to a *)
(* process that had it or a descendant of it as its live parent at launch, each    *)
(* entry once, whatever has expired or taken over a PID since, and among the alerts  *)
(* the alerts; if the query returns.                                                 *)
TimelineExact ==
  \A p \in {q \in DOMAIN live : ~Endless[live[q]]} : \A e \in DOMAIN entries :
    /\ Times(e, ReconstructTimeline(p)) = IF Under(entries[e].node, live[p]) THEN 1 ELSE 0
    /\ Times(e, GroupAlerts(p)) =
         IF entries[e].kind = "alert" THEN Times(e, ReconstructTimeline(p)) ELSE 0
=============================================================================
