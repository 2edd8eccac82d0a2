---------------------------- MODULE EventRouter ----------------------------
(***************************************************************************)
(* internal/eventrouter: producers fill pooled *Event objects and Submit   *)
(* them to a bounded channel; one worker goroutine batches what it         *)
(* receives and writes each batch in one database transaction.  Objects    *)
(* are recycled through eventPool, so every pointer must have one owner.   *)
(*                                                                         *)
(* `accepted', `settled', `decided', `lost', `closedAt' and the ticket of  *)
(* an event are history variables: the code does not have them.            *)
(***************************************************************************)
EXTENDS Naturals, Sequences, FiniteSets

CONSTANTS Producers,   \* goroutines that call Submit
          Objects,     \* the Event objects eventPool can hand out
          Capacity,    \* NewRouter's capacity argument
          Percent,     \* of the capacity where triage starts: 80 in Submit
          BatchLimit,  \* 100 in Start
          Offered,     \* the kinds of event the producers submit
          MaxOffers,   \* bound: how many events the producers fill
          NoOne        \* no producer, no object

(* The classes of event that Submit and processBatchEvent tell apart: "file" *)
(* is a file event on an ordinary path or an "open", "read" a file event     *)
(* whose action is "read", "tamper" any other action on one of the agent's   *)
(* own paths; "other" is an event of a type no table exists for.             *)
Kinds == {"process", "network", "file", "read", "tamper", "other"}

ASSUME RouterAssumption ==
  /\ Producers # {} /\ IsFiniteSet(Producers)
  /\ Capacity \in Nat \ {0} /\ BatchLimit \in Nat \ {0} /\ MaxOffers \in Nat
  /\ Percent \in 0 .. 100
  /\ Offered \subseteq Kinds
  /\ NoOne \notin Producers \cup Objects

VARIABLES
  pool,       \* eventPool: the objects it can hand out
  data,       \* the fields of every Event object
  held,       \* held[p]: the object producer p has taken and not submitted yet
  ppc,        \* where producer p stands in Submit
  offers,     \* how many events the producers have filled
  eventChan,  \* the channel: the objects sent and not received
  dropped,    \* droppedEvents
  wpc,        \* where the worker goroutine of Start stands
  resume,     \* where it goes on after flush()
  batch,      \* its batch: the objects received and not handled yet
  tx,         \* the rows the open transaction has inserted
  db,         \* the rows committed, in insertion order
  owner,      \* the caller of Start and Stop; "closing" once closeChan is closed
  accepted,   \* history: the kinds of the events accepted, in order
  settled,    \* history: how many of them the worker has handed back to the pool
  decided,    \* history: how many of them have been stored or given up
  lost,       \* history: the rows whose loss has been logged as an error
  closedAt    \* history: Len(accepted) when closeChan was closed

producerVars == <<held, ppc, offers, dropped>>
workerVars   == <<wpc, resume, batch, tx, db, settled, decided, lost>>
ownerVars    == <<owner, closedAt>>
vars == <<pool, data, eventChan, accepted, producerVars, workerVars, ownerVars>>

-----------------------------------------------------------------------------
Blank == [kind |-> "none", by |-> NoOne, ticket |-> 0]

Watermark == (Percent * Capacity) \div 100

Closed == owner \in {"closing", "stopped"}

TableNames == {"processes", "network_connections", "file_modifications", "alert_logs"}

(* The tables an event has rows in: the self-defense alert is inserted first. *)
Tables(kind) ==
  CASE kind = "process"           -> {"processes"}
    [] kind = "network"           -> {"network_connections"}
    [] kind \in {"file", "read"}  -> {"file_modifications"}
    [] kind = "tamper"            -> {"alert_logs", "file_modifications"}
    [] OTHER                      -> {}

RowsOf(n, kind) == {[ticket |-> n, table |-> t] : t \in Tables(kind)}

(* Names that start with Bug are the mistakes each property is checked against: *)
(* no action uses them.                                                         *)
BugGetShared(o) == o \in pool /\ UNCHANGED pool
GetEvent(o) == o \in pool /\ pool' = pool \ {o}

BugPutDirty(o) == pool' = pool \cup {o} /\ UNCHANGED data
PutEvent(o) == pool' = pool \cup {o} /\ data' = [data EXCEPT ![o] = Blank]

Init ==
  /\ pool = Objects /\ data = [o \in Objects |-> Blank]
  /\ held = [p \in Producers |-> NoOne]
  /\ ppc = [p \in Producers |-> "idle"]
  /\ offers = 0 /\ dropped = 0
  /\ eventChan = <<>> /\ batch = <<>> /\ tx = <<>> /\ db = <<>>
  /\ wpc = "off" /\ resume = "select"
  /\ owner = "new" /\ closedAt = 0
  /\ accepted = <<>> /\ settled = 0 /\ decided = 0 /\ lost = {}

-----------------------------------------------------------------------------
(* Producers.  Submit reads len(eventChan) in one step and sends in another. *)

Prepare(p) ==
  /\ ppc[p] = "idle" /\ offers < MaxOffers
  /\ \E o \in Objects, k \in Offered :
       /\ GetEvent(o)
       /\ data' = [data EXCEPT ![o] = [kind |-> k, by |-> p, ticket |-> 0]]
       /\ held' = [held EXCEPT ![p] = o]
  /\ ppc' = [ppc EXCEPT ![p] = "check"]
  /\ offers' = offers + 1
  /\ UNCHANGED <<dropped, eventChan, accepted, workerVars, ownerVars>>

BugCountRacy == dropped' \in {dropped, dropped + 1}
CountDrop == dropped' = dropped + 1

Refuse(p) ==
  /\ CountDrop
  /\ PutEvent(held[p])
  /\ held' = [held EXCEPT ![p] = NoOne]
  /\ ppc' = [ppc EXCEPT ![p] = "idle"]
  /\ UNCHANGED <<offers, eventChan, accepted, workerVars, ownerVars>>

BugTriagedWhenFull(p) == Len(eventChan) >= Capacity /\ data[held[p]].kind = "read"
Triaged(p) == Len(eventChan) >= Watermark /\ data[held[p]].kind = "read"

CheckPressure(p) ==
  /\ ppc[p] = "check"
  /\ \/ /\ Triaged(p)
        /\ Refuse(p)
     \/ /\ ~Triaged(p)
        /\ ppc' = [ppc EXCEPT ![p] = "send"]
        /\ UNCHANGED <<pool, data, held, offers, dropped, eventChan, accepted,
                       workerVars, ownerVars>>

BugFullLate == Len(eventChan) > Capacity
Full == Len(eventChan) >= Capacity

Send(p) ==
  /\ ppc[p] = "send" /\ ~Full
  /\ eventChan' = Append(eventChan, held[p])
  /\ accepted' = Append(accepted, data[held[p]].kind)
  /\ data' = [data EXCEPT ![held[p]] = [kind |-> @.kind, by |-> @.by,
                                         ticket |-> Len(accepted) + 1]]
  /\ held' = [held EXCEPT ![p] = NoOne]
  /\ ppc' = [ppc EXCEPT ![p] = "idle"]
  /\ UNCHANGED <<pool, offers, dropped, workerVars, ownerVars>>

Overflow(p) == ppc[p] = "send" /\ Full /\ Refuse(p)

Submit(p) == CheckPressure(p) \/ Send(p) \/ Overflow(p)

-----------------------------------------------------------------------------
(* The worker: the select loop, the drain loop after closeChan, and flush(). *)

Flush(next) == IF batch = <<>> THEN wpc' = next /\ UNCHANGED resume
                               ELSE wpc' = "begin" /\ resume' = next

(* A receive, in either loop: the batch is flushed when it reaches the limit. *)
Receive ==
  /\ wpc \in {"select", "drain"} /\ eventChan # <<>>
  /\ batch' = Append(batch, Head(eventChan))
  /\ eventChan' = Tail(eventChan)
  /\ IF Len(batch) + 1 >= BatchLimit THEN wpc' = "begin" /\ resume' = wpc
                                     ELSE UNCHANGED <<wpc, resume>>
  /\ UNCHANGED <<pool, data, accepted, tx, db, settled, decided, lost,
                 producerVars, ownerVars>>

BugTickFullOnly == wpc = "select" /\ Len(batch) >= BatchLimit /\ Flush("select")
Tick      == wpc = "select" /\ batch # <<>> /\ Flush("select")
SeeClosed == wpc = "select" /\ Closed /\ wpc' = "drain" /\ UNCHANGED resume
BugDrainOnce    == wpc = "drain" /\ Flush("done")
BugDrainForever == wpc = "drain" /\ eventChan = <<>> /\ Flush("drain")
DrainEnd  == wpc = "drain" /\ eventChan = <<>> /\ Flush("done")

(* store.Begin: a failure sends the whole batch back to the pool. *)
Begin      == wpc = "begin" /\ wpc' \in {"write", "discard"} /\ UNCHANGED resume
DiscardEnd == wpc = "discard" /\ batch = <<>> /\ wpc' = resume /\ UNCHANGED resume

Turn == /\ Tick \/ SeeClosed \/ DrainEnd \/ Begin \/ DiscardEnd
        /\ UNCHANGED <<pool, data, eventChan, accepted, batch, tx, db, settled, decided,
                       lost, producerVars, ownerVars>>

RecycleHead == /\ PutEvent(Head(batch))
               /\ batch' = Tail(batch)
               /\ settled' = settled + 1

BugNoAlertRow ==
  {r \in RowsOf(data[Head(batch)].ticket, data[Head(batch)].kind) : r.table # "alert_logs"}
HeadRows == RowsOf(data[Head(batch)].ticket, data[Head(batch)].kind)

(* processBatchEvent and PutEvent: each insert succeeds or is logged as failed, *)
(* and the alert, when there is one, goes before the file row.                  *)
AlertRows == {r \in HeadRows : r.table = "alert_logs"}

BugRetriedRuns == {<<>>} \cup {<<r, r>> : r \in HeadRows}
InsertRuns == {<<>>} \cup {<<r>> : r \in HeadRows}
                     \cup {<<a, r>> : a \in AlertRows, r \in HeadRows \ AlertRows}

WriteEvent ==
  /\ wpc = "write" /\ batch # <<>>
  /\ \E ins \in InsertRuns :
       /\ tx' = tx \o ins
       /\ lost' = lost \cup {r \in HeadRows : \A i \in DOMAIN ins : ins[i] # r}
  /\ RecycleHead
  /\ UNCHANGED <<eventChan, accepted, wpc, resume, db, decided, producerVars, ownerVars>>

Commit ==
  /\ wpc = "write" /\ batch = <<>>
  /\ \/ db' = db \o tx /\ UNCHANGED lost
     \/ lost' = lost \cup {tx[i] : i \in DOMAIN tx} /\ UNCHANGED db
  /\ tx' = <<>>
  /\ decided' = settled
  /\ wpc' = resume
  /\ UNCHANGED <<pool, data, eventChan, accepted, resume, batch, settled,
                 producerVars, ownerVars>>

DiscardEvent ==
  /\ wpc = "discard" /\ batch # <<>>
  /\ RecycleHead
  /\ lost' = lost \cup HeadRows
  /\ decided' = decided + 1
  /\ UNCHANGED <<eventChan, accepted, wpc, resume, tx, db, producerVars, ownerVars>>

Worker == Receive \/ Turn \/ WriteEvent \/ Commit \/ DiscardEvent

-----------------------------------------------------------------------------
(* The router's owner calls Start, at most once, and Stop. *)

Start == /\ owner = "new"
         /\ owner' = "running" /\ wpc' = "select" /\ UNCHANGED closedAt

StopClose == /\ owner \in {"new", "running"}
             /\ owner' = "closing" /\ closedAt' = Len(accepted) /\ UNCHANGED wpc

StopWait == /\ owner = "closing" /\ wpc \in {"off", "done"}
            /\ owner' = "stopped" /\ UNCHANGED <<wpc, closedAt>>

Owner == /\ Start \/ StopClose \/ StopWait
         /\ UNCHANGED <<pool, data, eventChan, accepted, producerVars, resume, batch, tx,
                        db, settled, decided, lost>>

Next == \/ \E p \in Producers : Prepare(p) \/ Submit(p)
        \/ Worker \/ Owner

(* Goroutines that can run do; the ticker keeps ticking; Stop's wg.Wait returns *)
(* once the worker has.  Nobody has to produce events, nor to Start or to Stop. *)
Fairness == /\ WF_vars(Worker) /\ WF_vars(Owner /\ StopWait)
            /\ \A p \in Producers : WF_vars(Submit(p))

Spec == Init /\ [][Next]_vars
FairSpec == Spec /\ Fairness

-----------------------------------------------------------------------------
Rows == [ticket : Nat, table : TableNames]

(* Every variable keeps its range; the channel never holds more than its capacity. *)
TypeOK ==
  /\ pool \subseteq Objects
  /\ data \in [Objects -> [kind : Kinds \cup {"none"}, by : Producers \cup {NoOne},
                           ticket : Nat]]
  /\ held \in [Producers -> Objects \cup {NoOne}]
  /\ ppc \in [Producers -> {"idle", "check", "send"}]
  /\ offers \in Nat /\ dropped \in Nat
  /\ eventChan \in Seq(Objects) /\ Len(eventChan) <= Capacity
  /\ batch \in Seq(Objects)
  /\ wpc \in {"off", "select", "drain", "begin", "write", "discard", "done"}
  /\ resume \in {"select", "drain", "done"}
  /\ tx \in Seq(Rows) /\ db \in Seq(Rows) /\ lost \subseteq Rows
  /\ owner \in {"new", "running", "closing", "stopped"}
  /\ accepted \in Seq(Kinds)
  /\ settled \in Nat /\ decided \in Nat /\ closedAt \in Nat

(* A pooled object is blank and nobody else's: no producer holds it, it is not *)
(* queued nor in the worker's batch, and no two producers hold the same one.   *)
(* (PutEvent on each of the four paths out of Submit and flushBatch.)          *)
OneOwner ==
  /\ \A o \in pool : data[o] = Blank
  /\ \A i \in DOMAIN eventChan : eventChan[i] \notin pool
  /\ \A i \in DOMAIN batch : batch[i] \notin pool
  /\ \A p \in Producers : held[p] # NoOne =>
       /\ held[p] \notin pool
       /\ data[held[p]].ticket = 0
       /\ \A q \in Producers \ {p} : held[q] # held[p]

(* What the worker has not handled yet is exactly the events accepted and not  *)
(* settled, each once, in the order of acceptance, batch before channel, with  *)
(* the contents it was submitted with: nothing vanishes between Submit's true  *)
(* and flushBatch.                                                             *)
Custody ==
  /\ settled + Len(batch) + Len(eventChan) = Len(accepted)
  /\ \A i \in DOMAIN batch : /\ data[batch[i]].ticket = settled + i
                             /\ data[batch[i]].kind = accepted[settled + i]
  /\ \A i \in DOMAIN eventChan :
       /\ data[eventChan[i]].ticket = settled + Len(batch) + i
       /\ data[eventChan[i]].kind = accepted[settled + Len(batch) + i]

(* Every event offered has been accepted, counted by DroppedCount, or is still *)
(* inside Submit.                                                              *)
Accounting ==
  offers = Len(accepted) + dropped + Cardinality({p \in Producers : ppc[p] # "idle"})

(* Triage keeps the top of the queue for the other events: although Submit reads *)
(* the length and sends later, no producer ever has two file reads queued above  *)
(* the watermark.                                                                *)
TopReads(p) == {i \in Watermark + 1 .. Len(eventChan) :
                  data[eventChan[i]].kind = "read" /\ data[eventChan[i]].by = p}

TriageReserve == \A p \in Producers : \A i, j \in TopReads(p) : i = j

(* Every row an accepted event stands for is in the database or its loss has been *)
(* logged, once the event has been decided: a tamper attempt leaves its alert.    *)
StoredOrLogged ==
  \A t \in 1 .. decided : \A r \in RowsOf(t, accepted[t]) :
     r \in lost \/ \E i \in DOMAIN db : db[i] = r

(* Stop waits for the events accepted before it: when the worker has returned all *)
(* of them are decided, and no transaction is open on the store about to close.   *)
DrainedOnStop == wpc = "done" => /\ decided >= closedAt
                                 /\ batch = <<>> /\ tx = <<>>

(* Accepted events are decided in order, stored at most once, with their own rows, *)
(* and never taken back.                                                           *)
Log == INSTANCE TelemetryLog WITH Events <- Kinds, stored <- db
ImplementsLog == Log!LogSpec

(* An event accepted while the worker runs, before Stop, is eventually decided. *)
EventuallyDecided ==
  \A t \in 1 .. MaxOffers :
    (owner = "running" /\ Len(accepted) >= t) ~> (decided >= t)

(* Stop returns. *)
StopReturns == (owner = "closing") ~> (owner = "stopped")
=============================================================================
