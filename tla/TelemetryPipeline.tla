------------------------- MODULE TelemetryPipeline -------------------------
(***************************************************************************)
(* internal/telemetry: any goroutine may call Ingest, which deduplicates,  *)
(* filters and queues the event; one worker batches the queue and, event   *)
(* by event, stores it and calls the correlation and analytics hooks.      *)
(*                                                                         *)
(* An event is the key IsDuplicate makes of it; what the rest of the code  *)
(* looks at is a function of the key.  `accepted', `handled', `overflowed' *)
(* and `closedAt' are history variables.                                   *)
(***************************************************************************)
EXTENDS Integers, Sequences, FiniteSets

CONSTANTS Callers,     \* goroutines that call Ingest
          Keys,        \* the deduplication keys of the events
          KindOf,      \* [Keys -> Kinds]
          Capacity,    \* NewPipeline's capacity argument
          BatchLimit,  \* 100 in Start
          TTL,         \* NewPipeline's dedupTTL argument
          CacheLimit,  \* 10000 in IsDuplicate
          MaxIngests,  \* bound: the calls of Ingest
          MaxTime      \* bound: the clock of the deduplicator

(* "excluded" is a file event under one of ExcludePaths; "other" is an event of a *)
(* type flushBatch has no insert for.                                             *)
Kinds == {"process", "file", "network", "excluded", "other"}

ASSUME PipelineAssumption ==
  /\ IsFiniteSet(Callers) /\ IsFiniteSet(Keys)
  /\ KindOf \in [Keys -> Kinds]
  /\ Capacity \in Nat \ {0} /\ BatchLimit \in Nat \ {0}
  /\ TTL \in Nat /\ CacheLimit \in Nat /\ MaxIngests \in Nat /\ MaxTime \in Nat

VARIABLES
  now,         \* the clock
  cache,       \* Deduplicator.cache: when a key was last let through, for the keys in it
  metrics,     \* Metrics
  call,        \* where a caller stands in Ingest, and with which event
  queue,       \* the channel
  wpc, resume, \* the worker goroutine of Start, and where it goes on after flush()
  batch,       \* the events received and not passed to every hook yet
  expired,     \* whether flushBatch's 5 s context has run out
  rows,        \* what the store holds, in insertion order
  correlated,  \* the calls of the correlation hook
  analysed,    \* the calls of the analytics hook
  owner,       \* the caller of Start and Stop; "closing" once closeChan is closed
  cancelled,   \* whether Start's ctx is done
  accepted,    \* history: the events queued, in order
  handled,     \* history: how many of them flushBatch has stored or failed to store
  overflowed,  \* history: the events dropped because the queue was full
  closedAt     \* history: Len(accepted) when closeChan was closed

workVars   == <<wpc, resume, batch, expired, rows, correlated, analysed, handled>>
ownerVars  == <<owner, cancelled, closedAt>>
vars == <<now, cache, metrics, call, queue, accepted, overflowed, workVars, ownerVars>>

-----------------------------------------------------------------------------
Closed == owner \in {"closing", "stopped"}

Count(m) == metrics' = [metrics EXCEPT ![m] = @ + 1]

HasTable(k) == KindOf[k] \in {"process", "file", "network"}

Idle == [at |-> "idle"]

RowsOf(n, k) == IF HasTable(k) THEN {[ticket |-> n, key |-> k]} ELSE {}

Init ==
  /\ now = 0 /\ cache = <<>>
  /\ metrics = [Ingested |-> 0, Deduplicated |-> 0, Filtered |-> 0, Buffered |-> 0, Persisted |-> 0]
  /\ call = [c \in Callers |-> Idle]
  /\ queue = <<>> /\ accepted = <<>> /\ overflowed = 0
  /\ wpc = "off" /\ resume = "select" /\ batch = <<>> /\ expired = FALSE
  /\ rows = <<>> /\ correlated = <<>> /\ analysed = <<>> /\ handled = 0
  /\ owner = "new" /\ cancelled = FALSE /\ closedAt = 0

-----------------------------------------------------------------------------
(* Ingest.  IsDuplicate runs under its mutex; the send and the increment of *)
(* BufferedCount after it are two steps.                                    *)

Enter(c, k) ==
  /\ call[c] = Idle /\ metrics.Ingested < MaxIngests
  /\ Count("Ingested")
  /\ call' = [call EXCEPT ![c] = [at |-> "judge", event |-> k]]
  /\ UNCHANGED <<now, cache, queue, accepted, overflowed, workVars, ownerVars>>

Dedup == INSTANCE Deduplicator WITH judged <- <<>>, MaxCalls <- MaxIngests

Outcome(k) == IF Dedup!Fresh(k) THEN "Deduplicated"
              ELSE IF KindOf[k] = "excluded" THEN "Filtered" ELSE "pass"

Judge(c) == LET k == call[c].event IN
  /\ call[c].at = "judge"
  /\ Dedup!IsDuplicate(k)
  /\ \/ Outcome(k) # "pass" /\ Count(Outcome(k)) /\ call' = [call EXCEPT ![c] = Idle]
     \/ Outcome(k) = "pass" /\ call' = [call EXCEPT ![c].at = "send"] /\ UNCHANGED metrics
  /\ UNCHANGED <<now, queue, accepted, overflowed, workVars, ownerVars>>

BugFullLate == Len(queue) > Capacity
Full == Len(queue) >= Capacity

Send(c) ==
  /\ call[c].at = "send"
  /\ \/ /\ ~Full
        /\ queue' = Append(queue, call[c].event) /\ accepted' = Append(accepted, call[c].event)
        /\ call' = [call EXCEPT ![c].at = "count"] /\ UNCHANGED overflowed
     \/ /\ Full
        /\ overflowed' = overflowed + 1
        /\ call' = [call EXCEPT ![c] = Idle] /\ UNCHANGED <<queue, accepted>>
  /\ UNCHANGED <<now, cache, metrics, workVars, ownerVars>>

BugNotCounted == UNCHANGED metrics
CountBuffered == Count("Buffered")

Buffered(c) ==
  /\ call[c].at = "count" /\ CountBuffered
  /\ call' = [call EXCEPT ![c] = Idle]
  /\ UNCHANGED <<now, cache, queue, accepted, overflowed, workVars, ownerVars>>

Ingest(c) == Judge(c) \/ Send(c) \/ Buffered(c)

-----------------------------------------------------------------------------
(* The worker.  flushBatch handles the batch from its head. *)

Flush(next) == IF batch = <<>> THEN wpc' = next /\ UNCHANGED <<resume, expired>>
                               ELSE wpc' = "store" /\ resume' = next /\ UNCHANGED expired

Receive ==
  /\ wpc \in {"select", "drain"} /\ queue # <<>>
  /\ batch' = Append(batch, Head(queue)) /\ queue' = Tail(queue)
  /\ IF Len(batch) + 1 >= BatchLimit
     THEN wpc' = "store" /\ resume' = wpc
     ELSE UNCHANGED <<wpc, resume>>
  /\ UNCHANGED <<expired, now, cache, metrics, call, accepted, overflowed, rows, correlated,
                 analysed, handled, ownerVars>>

BugTickFullOnly == wpc = "select" /\ Len(batch) >= BatchLimit /\ Flush("select")
Tick         == wpc = "select" /\ batch # <<>> /\ Flush("select")
SeeClosed    == wpc = "select" /\ Closed /\ wpc' = "drain" /\ UNCHANGED <<resume, expired>>
SeeCancelled == wpc = "select" /\ cancelled /\ Flush("done")
BugDrainOnce    == wpc = "drain" /\ Flush("done")
BugDrainForever == wpc = "drain" /\ queue = <<>> /\ Flush("drain")
DrainEnd     == wpc = "drain" /\ queue = <<>> /\ Flush("done")
FlushEnd     == wpc = "store" /\ batch = <<>> /\ wpc' = resume /\ expired' = FALSE /\ resume' = "select"
Expire       == wpc = "store" /\ ~expired /\ expired' = TRUE /\ UNCHANGED <<wpc, resume>>

Turn == /\ Tick \/ SeeClosed \/ SeeCancelled \/ DrainEnd \/ FlushEnd \/ Expire
        /\ UNCHANGED <<now, cache, metrics, call, queue, accepted, overflowed, batch,
                       rows, correlated, analysed, handled, ownerVars>>

(* An insert fails on an error of the store, and always once the context of the *)
(* batch has expired; an event without a table "succeeds" and inserts nothing.  *)
BugInsertTwice(k) == rows \o [i \in 1 .. 2 |-> [ticket |-> handled + 1, key |-> k]]
Insert(k) == Append(rows, [ticket |-> handled + 1, key |-> k])

Store ==
  /\ wpc = "store" /\ batch # <<>>
  /\ LET k == Head(batch) IN
     \/ /\ ~HasTable(k) \/ ~expired
        /\ rows' = IF HasTable(k) THEN Insert(k) ELSE rows
        /\ Count("Persisted")
     \/ HasTable(k) /\ UNCHANGED <<rows, metrics>>
  /\ handled' = handled + 1
  /\ wpc' = "correlate"
  /\ UNCHANGED <<now, cache, call, queue, accepted, overflowed, resume, batch, expired,
                 correlated, analysed, ownerVars>>

BugHookSkipped == IF Len(rows) = handled THEN Append(correlated, Head(batch)) ELSE correlated
Corr == Append(correlated, Head(batch))

Correlate ==
  /\ wpc = "correlate"
  /\ correlated' = Corr /\ wpc' = "analyse"
  /\ UNCHANGED <<now, cache, metrics, call, queue, accepted, overflowed, resume, batch,
                 expired, rows, analysed, handled, ownerVars>>

Analyse ==
  /\ wpc = "analyse"
  /\ analysed' = Append(analysed, Head(batch)) /\ batch' = Tail(batch) /\ wpc' = "store"
  /\ UNCHANGED <<now, cache, metrics, call, queue, accepted, overflowed, resume, expired,
                 rows, correlated, handled, ownerVars>>

Worker == Receive \/ Turn \/ Store \/ Correlate \/ Analyse

-----------------------------------------------------------------------------
Start     == owner = "new" /\ owner' = "running" /\ wpc' = "select" /\ UNCHANGED <<closedAt, cancelled>>
StopClose == /\ owner \in {"new", "running"} /\ owner' = "closing"
             /\ closedAt' = Len(accepted) /\ UNCHANGED <<wpc, cancelled>>
StopWait  == /\ owner = "closing" /\ wpc \in {"off", "done"} /\ owner' = "stopped"
             /\ UNCHANGED <<wpc, closedAt, cancelled>>
Cancel    == ~cancelled /\ cancelled' = TRUE /\ UNCHANGED <<wpc, owner, closedAt>>

Owner == /\ Start \/ StopClose \/ StopWait \/ Cancel
         /\ UNCHANGED <<now, cache, metrics, call, queue, accepted, overflowed, resume,
                        batch, expired, rows, correlated, analysed, handled>>

Clock == /\ now < MaxTime /\ now' = now + 1
         /\ UNCHANGED <<cache, metrics, call, queue, accepted, overflowed, workVars, ownerVars>>

Next == \/ \E c \in Callers : Ingest(c) \/ \E k \in Keys : Enter(c, k)
        \/ Worker \/ Owner \/ Clock

(* The hooks and the store return; the ticker ticks; nobody has to call anything. *)
Fairness == /\ WF_vars(Worker) /\ WF_vars(Owner /\ StopWait)
            /\ \A c \in Callers : WF_vars(Ingest(c))

Spec == Init /\ [][Next]_vars
FairSpec == Spec /\ Fairness

-----------------------------------------------------------------------------
Row == [ticket : Nat \ {0}, key : Keys]

(* Every variable keeps its range; the queue never exceeds its capacity. *)
TypeOK ==
  /\ now \in Nat /\ DOMAIN cache \subseteq Keys /\ cache \in [DOMAIN cache -> Nat]
  /\ metrics \in [{"Ingested", "Deduplicated", "Filtered", "Buffered", "Persisted"} -> Nat]
  /\ call \in [Callers -> {Idle} \cup [at : {"judge", "send", "count"}, event : Keys]]
  /\ queue \in Seq(Keys) /\ Len(queue) <= Capacity
  /\ accepted \in Seq(Keys) /\ batch \in Seq(Keys)
  /\ wpc \in {"off", "select", "drain", "store", "correlate", "analyse", "done"}
  /\ resume \in {"select", "drain", "done"} /\ expired \in BOOLEAN
  /\ rows \in Seq(Row) /\ correlated \in Seq(Keys) /\ analysed \in Seq(Keys)
  /\ owner \in {"new", "running", "closing", "stopped"} /\ cancelled \in BOOLEAN
  /\ handled \in Nat /\ overflowed \in Nat /\ closedAt \in Nat

At(pc) == Cardinality({c \in Callers : call[c].at = pc})

Underway == Cardinality({c \in Callers : call[c].at # "idle"})

(* PersistedCount can run ahead of BufferedCount only by the callers that have sent *)
(* and not counted yet.                                                             *)
PersistedWithinBuffered == metrics.Persisted <= metrics.Buffered + At("count")

(* GetMetrics accounts for every event: each is in exactly one counter, dropped by the *)
(* overflow branch, which no counter records, or still inside its Ingest; and no more  *)
(* are persisted than have been sent.                                                  *)
MetricsConserved ==
  /\ metrics.Ingested = metrics.Deduplicated + metrics.Filtered + metrics.Buffered
                        + overflowed + Underway
  /\ metrics.Buffered + At("count") = Len(accepted)
  /\ PersistedWithinBuffered

(* Both hooks see the accepted events, each once and in order, correlation first, and *)
(* only after the event has been stored or its insert has failed.                     *)
HooksInOrder ==
  /\ correlated = SubSeq(accepted, 1, Len(correlated))
  /\ analysed = SubSeq(correlated, 1, Len(analysed))
  /\ handled - Len(correlated) = (IF wpc = "correlate" THEN 1 ELSE 0)
  /\ Len(correlated) - Len(analysed) = (IF wpc = "analyse" THEN 1 ELSE 0)

(* When the worker has returned every event it received is handled; and unless its    *)
(* context was cancelled, so is every event accepted before Stop closed the pipeline. *)
DrainedOnStop == wpc = "done" => batch = <<>> /\ (cancelled \/ handled >= closedAt)

Log == INSTANCE TelemetryLog WITH Events <- Keys, stored <- rows, decided <- handled

(* Accepted events are stored in order, at most once, under their own tables. *)
ImplementsLog == Log!LogSpec

(* Every event accepted while the worker runs reaches the analytics hook, also when Stop *)
(* comes in between, unless the context is cancelled: the worker catches up with all     *)
(* that was accepted before Stop, here with a bounded number of calls to Ingest.         *)
Due == IF Closed THEN closedAt ELSE Len(accepted)

EventuallyAnalysed == (owner = "running") ~> (Len(analysed) >= Due \/ cancelled)

(* Stop returns. *)
StopReturns == (owner = "closing") ~> (owner = "stopped")
=============================================================================
