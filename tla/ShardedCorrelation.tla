------------------------- MODULE ShardedCorrelation -------------------------
(***************************************************************************)
(* internal/correlation/nextgen: any goroutine may call Ingest, which puts *)
(* a node in its shard, links it with its parent process under the         *)
(* parent's shard lock, and walks the graph for every rule without a lock. *)
(*                                                                         *)
(* A node is named by its place in `node', the order of insertion.  Its    *)
(* slice of edges is guarded by no lock of its own: an append reads it and *)
(* writes it back in two steps.                                            *)
(***************************************************************************)
EXTENDS Integers, Sequences, FiniteSets, FiniteSetsExt, SequencesExt

CONSTANTS Callers,    \* goroutines that call Ingest
          NoOne,      \* no caller: a free lock
          Pids,       \* process ids
          Shards,     \* the partitions
          ShardOf,    \* [Ids -> Shards], the FNV hash
          Window,     \* NewEngine's window
          Rules,      \* the rules added before the engine is used
          ChanLimit,  \* the capacity of alertsChan
          MaxNodes,   \* bound: the nodes ever inserted
          MaxTime     \* bound: the clock

(* The id of a process's node is its PID; -1 is the id of the one file. *)
File == -1
Ids == Pids \cup {File}

ASSUME ShardedAssumption ==
  /\ IsFiniteSet(Callers) /\ NoOne \notin Callers
  /\ Pids \subseteq Nat \ {0} /\ ShardOf \in [Ids -> Shards]
  /\ Window \in Nat /\ MaxNodes \in Nat /\ MaxTime \in Nat /\ ChanLimit \in Nat
  /\ Rules \in Seq([sequence : Seq({"PROCESS", "FILE"}), window : Nat])

VARIABLES
  now,         \* the clock
  node,        \* the nodes ever made: [id, pid, parent, at]
  edges,       \* their Edges, without the Type, which nothing looks at
  shard,       \* the maps of the shards: the current node of an id
  lock,        \* who holds a shard's mutex across steps
  call,        \* where a caller stands in Ingest
  suppressed,  \* the keys given to SuppressAlert
  alerts,      \* alertsChan
  raced        \* history: the nodes on which two appends to Edges have overlapped

vars == <<now, node, edges, shard, lock, call, suppressed, alerts, raced>>

-----------------------------------------------------------------------------
Idle == [at |-> "idle"]
Nodes == DOMAIN node
TypeOf(n) == IF node[n].id = File THEN "FILE" ELSE "PROCESS"

Init ==
  /\ now = 0 /\ node = <<>> /\ edges = <<>> /\ shard = <<>>
  /\ lock = [s \in Shards |-> NoOne] /\ call = [c \in Callers |-> Idle]
  /\ suppressed = {} /\ alerts = <<>> /\ raced = {}

-----------------------------------------------------------------------------
(* evaluateRules goes through the rules in turn. *)
Judging(n, r) == IF r > Len(Rules) THEN Idle ELSE [at |-> "judge", n |-> n, rule |-> r]

(* Ingest, first part, under the lock of the node's shard: what is older than the *)
(* window leaves that shard, and the node takes the place of one of its id.       *)
Expired(s) == {i \in DOMAIN shard : ShardOf[i] = s /\ now - node[shard[i]].at > Window}

Insert(c, id, pid, parent, at) ==
  LET n == Len(node) + 1
      kept == DOMAIN shard \ Expired(ShardOf[id])
  IN /\ call[c] = Idle /\ n <= MaxNodes /\ lock[ShardOf[id]] = NoOne
     /\ node' = Append(node, [id |-> id, pid |-> pid, parent |-> parent, at |-> at])
     /\ edges' = Append(edges, <<>>)
     /\ shard' = [i \in kept \cup {id} |-> IF i = id THEN n ELSE shard[i]]
     /\ call' = [call EXCEPT ![c] =
          IF id # File /\ parent > 0 THEN [at |-> "link", n |-> n]
                                     ELSE Judging(n, 1)]
     /\ UNCHANGED <<now, lock, suppressed, alerts, raced>>

Enter(c) == \E pid \in Pids, at \in 0 .. now :
              \/ \E parent \in (Pids \cup {0}) \ {pid} : Insert(c, pid, pid, parent, at)
              \/ Insert(c, File, pid, 0, at)

(* Who has read a node's edges and not written them back. *)
Appending(c) == IF call[c].at \in {"spawn", "back"} THEN {call[c].target} ELSE {}

Races(c, n) == IF \E d \in Callers \ {c} : n \in Appending(d) THEN {n} ELSE {}

(* Second part, under the lock of the parent's shard: two appends. *)
Parent(c) == node[call[c].n].parent

LockFree(c) == lock[ShardOf[Parent(c)]] = NoOne

Orphan(c) ==
  /\ call[c].at = "link" /\ LockFree(c) /\ Parent(c) \notin DOMAIN shard
  /\ call' = [call EXCEPT ![c] = Judging(call[c].n, 1)]
  /\ UNCHANGED <<now, node, edges, shard, lock, suppressed, alerts, raced>>

Link(c) ==
  /\ call[c].at = "link" /\ LockFree(c) /\ Parent(c) \in DOMAIN shard
  /\ LET p == shard[Parent(c)] IN
     /\ call' = [call EXCEPT ![c] = [at |-> "spawn", n |-> @.n, target |-> p, seen |-> edges[p]]]
     /\ raced' = raced \cup Races(c, p)
  /\ lock' = [lock EXCEPT ![ShardOf[Parent(c)]] = c]
  /\ UNCHANGED <<now, node, edges, shard, suppressed, alerts>>

Spawned(c) ==
  /\ call[c].at = "spawn"
  /\ LET n == call[c].n  p == call[c].target IN
     /\ edges' = [edges EXCEPT ![p] = Append(call[c].seen, n)]
     /\ call' = [call EXCEPT ![c] = [at |-> "back", n |-> n, target |-> n, parent |-> p,
                                      seen |-> edges'[n]]]
     /\ raced' = raced \cup Races(c, n)
  /\ UNCHANGED <<now, node, shard, lock, suppressed, alerts>>

BugOverwrite(c) == edges' = [edges EXCEPT ![call[c].n] = <<call[c].parent>>]
ParentOf(c) == edges' = [edges EXCEPT ![call[c].n] = Append(call[c].seen, call[c].parent)]

BugNoUnlock(c) == UNCHANGED lock
Unlock(c) == lock' = [lock EXCEPT ![ShardOf[Parent(c)]] = NoOne]

Back(c) ==
  /\ call[c].at = "back"
  /\ ParentOf(c)
  /\ Unlock(c)
  /\ call' = [call EXCEPT ![c] = Judging(call[c].n, 1)]
  /\ UNCHANGED <<now, node, shard, suppressed, alerts, raced>>

-----------------------------------------------------------------------------
(* evaluateRules.  The walk reads the edges in one step. *)

(* checkSequence: the first chain, in the order of the edges, from a node through one  *)
(* node of each type of the sequence, from the i-th on; <<>> when there is none.       *)
(* `onward' has those of the next type.                                                *)
Extended(r, i, m, onward) ==
  LET near(j) == node[edges[m][j]].at - node[m].at <= r.window
      good == {j \in DOMAIN edges[m] : near(j) /\ onward[edges[m][j]] # <<>>}
  IN IF TypeOf(m) # r.sequence[i] THEN <<>>
     ELSE IF i = Len(r.sequence) THEN <<m>>
     ELSE IF good = {} THEN <<>> ELSE <<m>> \o onward[edges[m][Min(good)]]

Walk(r) == LET walk[i \in DOMAIN r.sequence] == [m \in Nodes |-> Extended(r, i, m, walk[i + 1])]
           IN walk

Chain(r, n) == IF r.sequence = <<>> THEN <<>> ELSE Walk(r)[1][n]

BugRootIsTrigger(chain) == node[Head(chain)].pid
Root(chain) ==
  LET earliest == Min({node[chain[i]].at : i \in DOMAIN chain})
  IN node[chain[Min({i \in DOMAIN chain : node[chain[i]].at = earliest})]].pid

Following(c) == Judging(call[c].n, call[c].rule + 1)

(* A match whose key is not suppressed goes on to the channel. *)
Suppressed(r, root) == [rule |-> r, root |-> root] \in suppressed

Judge(c) ==
  /\ call[c].at = "judge"
  /\ LET r == call[c].rule
         chain == Chain(Rules[r], call[c].n)
     IN call' = [call EXCEPT ![c] =
                  IF chain = <<>> \/ Suppressed(r, Root(chain)) THEN Following(c)
                  ELSE [at |-> "send", n |-> @.n, rule |-> r, root |-> Root(chain), chain |-> chain]]
  /\ UNCHANGED <<now, node, edges, shard, lock, suppressed, alerts, raced>>

BugFullLate == Len(alerts) > ChanLimit
Full == Len(alerts) >= ChanLimit

(* The send does not block: the alert is lost when the channel is full. *)
Send(c) ==
  /\ call[c].at = "send"
  /\ alerts' = IF Full THEN alerts
               ELSE Append(alerts, [rule |-> call[c].rule, root |-> call[c].root,
                                    chain |-> call[c].chain])
  /\ call' = [call EXCEPT ![c] = Following(c)]
  /\ UNCHANGED <<now, node, edges, shard, lock, suppressed, raced>>

Ingest(c) == Enter(c) \/ Orphan(c) \/ Link(c) \/ Spawned(c) \/ Back(c) \/ Judge(c) \/ Send(c)

SuppressAlert == \E r \in DOMAIN Rules, pid \in Pids :
  /\ suppressed' = suppressed \cup {[rule |-> r, root |-> pid]}
  /\ UNCHANGED <<now, node, edges, shard, lock, call, alerts, raced>>

Take == /\ alerts # <<>> /\ alerts' = Tail(alerts)
        /\ UNCHANGED <<now, node, edges, shard, lock, call, suppressed, raced>>

Clock == /\ now < MaxTime /\ now' = now + 1
         /\ UNCHANGED <<node, edges, shard, lock, call, suppressed, alerts, raced>>

Next == (\E c \in Callers : Ingest(c)) \/ SuppressAlert \/ Take \/ Clock

Spec == Init /\ [][Next]_vars

-----------------------------------------------------------------------------
(* Every variable keeps its range; a current node is one of its id. *)
TypeOK ==
  /\ now \in Nat /\ suppressed \subseteq [rule : DOMAIN Rules, root : Pids]
  /\ node \in Seq([id : Ids, pid : Pids, parent : Pids \cup {0}, at : Nat])
  /\ edges \in Seq(Seq(Nodes)) /\ Len(edges) = Len(node)
  /\ DOMAIN shard \subseteq Ids /\ \A i \in DOMAIN shard : shard[i] \in Nodes /\ node[shard[i]].id = i
  /\ lock \in [Shards -> Callers \cup {NoOne}]
  /\ \A c \in Callers : call[c].at \in {"idle", "link", "spawn", "back", "judge", "send"}
  /\ Len(alerts) <= ChanLimit /\ raced \subseteq Nodes

(* A process whose parent was in the graph when it came, and still is, is linked with *)
(* it both ways once its Ingest has left the parent's lock.                           *)
Linking(k) == \E c \in Callers : call[c].at \in {"link", "spawn", "back"} /\ call[c].n = k

Child(k, m) == /\ node[k].id # File /\ ~Linking(k) /\ m <= k
               /\ node[k].parent \in DOMAIN shard /\ shard[node[k].parent] = m

Joined(k, m) == Contains(edges[k], m) /\ Contains(edges[m], k)

Linked == \A k, m \in Nodes : Child(k, m) => Joined(k, m)

(* What Linked says, but for nodes on which two unguarded appends have overlapped: *)
(* expiry, reuse of a PID, and an Ingest that merely comes in between lose nothing. *)
LinkedOrRaced ==
  \A k, m \in Nodes : Child(k, m) => Joined(k, m) \/ k \in raced \/ m \in raced

(* An alert is about a chain of the rule's types in which each next node is the parent or *)
(* a child of the one before it, and its root is the chain's oldest.                      *)
Kin(n, m) == node[n].parent = node[m].id \/ node[m].parent = node[n].id

AlertSound ==
  \A i \in DOMAIN alerts : LET a == alerts[i] IN
    /\ [j \in DOMAIN a.chain |-> TypeOf(a.chain[j])] = Rules[a.rule].sequence
    /\ \A j \in 1 .. Len(a.chain) - 1 : Kin(a.chain[j], a.chain[j + 1])
    /\ \E n \in ToSet(a.chain) : /\ node[n].pid = a.root
                                  /\ \A m \in ToSet(a.chain) : node[n].at <= node[m].at

(* The state has its type, the channel stays within its capacity, and the alerts that *)
(* reach it are about real chains.                                                    *)
Sound == TypeOK /\ AlertSound

(* A shard's lock is held exactly by the caller that is appending under it: a holder *)
(* never waits for a second lock, and none is left locked for the others.            *)
LocksHeld ==
  \A s \in Shards, c \in Callers :
    lock[s] = c <=> call[c].at \in {"spawn", "back"} /\ s = ShardOf[Parent(c)]

(* An alert that goes from a process to the parent it was ingested after is about a *)
(* process that started within the rule's window after that parent.                *)
WithinWindow ==
  \A i \in DOMAIN alerts : LET a == alerts[i] IN
    \A j \in 1 .. Len(a.chain) - 1 : LET k == a.chain[j]  p == a.chain[j + 1] IN
      node[k].parent = node[p].id /\ p < k => node[k].at - node[p].at <= Rules[a.rule].window
=============================================================================
