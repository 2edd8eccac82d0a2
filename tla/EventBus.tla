------------------------------ MODULE EventBus ------------------------------
(***************************************************************************)
(* internal/core's EventBus: Subscribe adds a buffered channel to a topic  *)
(* under the lock; Publish offers its event to the topic's channels one    *)
(* after the other under the read lock, which several publishers can hold, *)
(* and skips a channel that is full.                                       *)
(*                                                                         *)
(* An event is the number of its Publish.  `finished', `arrived' and the   *)
(* field `after' are history.                                              *)
(***************************************************************************)
EXTENDS Integers, Sequences

CONSTANTS Publishers,   \* goroutines that call Publish
          Topics,
          BusCapacity,  \* 100 in Subscribe
          MaxSubs,      \* bound: the subscriptions
          MaxPublished  \* bound: the events

ASSUME BusAssumption == BusCapacity \in Nat \ {0} /\ MaxSubs \in Nat /\ MaxPublished \in Nat

VARIABLES
  chans,      \* every channel subscribed, with its topic and what it buffers
  posts,      \* the events published: their topics, and the events finished before
  publishing, \* the event a publisher is in the middle of, and the channels to go
  finished,   \* history: the events whose Publish has returned
  arrived     \* history: what was sent to each channel, in order

busVars == <<chans, posts, publishing, finished, arrived>>

NoPost == [event |-> 0, todo |-> {}]

BusInit == /\ chans = <<>> /\ posts = <<>> /\ finished = {} /\ arrived = <<>>
           /\ publishing = [p \in Publishers |-> NoPost]

-----------------------------------------------------------------------------
Reading(p) == publishing[p].event # 0

Subscribe(topic) ==
  /\ Len(chans) < MaxSubs /\ \A p \in Publishers : ~Reading(p)
  /\ chans' = Append(chans, [topic |-> topic, buffer |-> <<>>])
  /\ arrived' = Append(arrived, <<>>)
  /\ UNCHANGED <<posts, publishing, finished>>

(* The channels of a topic. *)
BugSubscribers(topic) == DOMAIN chans
Subscribers(topic) == {i \in DOMAIN chans : chans[i].topic = topic}

Publish(p, topic) ==
  /\ ~Reading(p) /\ Len(posts) < MaxPublished
  /\ posts' = Append(posts, [topic |-> topic, after |-> finished])
  /\ publishing' = [publishing EXCEPT ![p] = [event |-> Len(posts) + 1, todo |-> Subscribers(topic)]]
  /\ UNCHANGED <<chans, finished, arrived>>

BugFull(i) == Len(chans[i].buffer) > BusCapacity
Full(i) == Len(chans[i].buffer) >= BusCapacity

(* To the channel that subscribed first among those to go. *)
Offer(p) ==
  /\ Reading(p)
  /\ \E i \in publishing[p].todo :
       /\ \A j \in publishing[p].todo : i <= j
       /\ IF Full(i) THEN UNCHANGED <<chans, arrived>>
          ELSE /\ chans' = [chans EXCEPT ![i].buffer = Append(@, publishing[p].event)]
               /\ arrived' = [arrived EXCEPT ![i] = Append(@, publishing[p].event)]
       /\ publishing' = [publishing EXCEPT ![p].todo = @ \ {i}]
  /\ UNCHANGED <<posts, finished>>

Published(p) ==
  /\ Reading(p) /\ publishing[p].todo = {}
  /\ finished' = finished \cup {publishing[p].event}
  /\ publishing' = [publishing EXCEPT ![p] = NoPost]
  /\ UNCHANGED <<chans, posts, arrived>>

(* A subscriber receives from its channel. *)
Consume(i) ==
  /\ chans[i].buffer # <<>> /\ chans' = [chans EXCEPT ![i].buffer = Tail(@)]
  /\ UNCHANGED <<posts, publishing, finished, arrived>>

BusNext == \/ \E topic \in Topics : Subscribe(topic) \/ \E p \in Publishers : Publish(p, topic)
           \/ \E p \in Publishers : Offer(p) \/ Published(p)
           \/ \E i \in DOMAIN chans : Consume(i)

BusSpec == BusInit /\ [][BusNext]_busVars

-----------------------------------------------------------------------------
(* Every variable keeps its range; no channel buffers more than its capacity. *)
BusTypeOK ==
  /\ chans \in Seq([topic : Topics, buffer : Seq(DOMAIN posts)])
  /\ \A i \in DOMAIN chans : Len(chans[i].buffer) <= BusCapacity
  /\ posts \in Seq([topic : Topics, after : SUBSET finished])
  /\ publishing \in [Publishers -> [event : {0} \cup DOMAIN posts, todo : SUBSET DOMAIN chans]]
  /\ finished \subseteq DOMAIN posts
  /\ arrived \in Seq(Seq(DOMAIN posts)) /\ Len(arrived) = Len(chans)

(* A channel gets events of its own topic only, each at most once, and never an event *)
(* before one whose Publish had returned when its own began: two subscribers can see  *)
(* two events in different orders only if the two Publishes overlapped.               *)
BusOrder ==
  \A i \in DOMAIN arrived : \A j \in DOMAIN arrived[i] :
    /\ posts[arrived[i][j]].topic = chans[i].topic
    /\ \A k \in j + 1 .. Len(arrived[i]) :
         arrived[i][k] # arrived[i][j] /\ arrived[i][k] \notin posts[arrived[i][j]].after
=============================================================================
