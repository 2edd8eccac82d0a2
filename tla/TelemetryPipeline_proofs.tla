---------------------- MODULE TelemetryPipeline_proofs ----------------------
(* The pipeline's safety properties, for any callers, keys, capacity, batch limit, *)
(* TTL and cache limit.                                                            *)
EXTENDS TelemetryPipeline, FiniteSetTheorems, SequenceTheorems, TLAPS

Counters == {"Ingested", "Deduplicated", "Filtered", "Buffered", "Persisted"}

(* The accepted events are, in order, those analysed, the batch and the queue; the *)
(* head of the batch may already be with the hooks.                                *)
InHooks == wpc \in {"correlate", "analyse"}

Custody ==
  /\ accepted = analysed \o (batch \o queue)
  /\ correlated = IF wpc = "analyse" THEN Append(analysed, Head(batch)) ELSE analysed
  /\ handled = Len(analysed) + (IF InHooks THEN 1 ELSE 0)
  /\ InHooks => batch # <<>>
  /\ owner = "new" => wpc = "off"

Order == TypeOK /\ Custody

-----------------------------------------------------------------------------
(* Sequences: a head moved across a boundary, an element added at the end, a prefix. *)

LEMMA MoveHead ==
  ASSUME NEW S, NEW s \in Seq(S), NEW t \in Seq(S), t # <<>>
  PROVE  /\ Head(t) \in S /\ Tail(t) \in Seq(S) /\ Append(s, Head(t)) \in Seq(S)
         /\ Append(s, Head(t)) \o Tail(t) = s \o t
<1>1. Head(t) = t[1] /\ Head(t) \in S /\ Tail(t) \in Seq(S) /\ <<Head(t)>> \in Seq(S)
      /\ Len(t) \in Nat /\ Len(t) >= 1
  OBVIOUS
<1>2. SubSeq(t, 1, Len(t)) = <<t[1]>> \o SubSeq(t, 1 + 1, Len(t))
  BY <1>1, SubSeqRecursiveFirst
<1>3. t = <<Head(t)>> \o Tail(t)
  BY <1>1, <1>2, SubSeqFull, TailIsSubSeq
<1>4. Append(s, Head(t)) = s \o <<Head(t)>>
  BY <1>1, AppendIsConcat
<1>5. (s \o <<Head(t)>>) \o Tail(t) = s \o (<<Head(t)>> \o Tail(t))
  BY <1>1, ConcatAssociative
<1>6. QED BY <1>1, <1>3, <1>4, <1>5

LEMMA AddLast ==
  ASSUME NEW S, NEW s \in Seq(S), NEW t \in Seq(S), NEW e \in S
  PROVE  s \o Append(t, e) = Append(s \o t, e)
<1>1. Append(t, e) = t \o <<e>> /\ <<e>> \in Seq(S)
  BY AppendIsConcat
<1>2. s \o t \in Seq(S)
  BY ConcatProperties
<1>3. Append(s \o t, e) = (s \o t) \o <<e>>
  BY <1>2, AppendIsConcat
<1>4. QED BY <1>1, <1>3, ConcatAssociative

LEMMA PrefixOfConcat ==
  ASSUME NEW S, NEW s \in Seq(S), NEW t \in Seq(S)
  PROVE  s = SubSeq(s \o t, 1, Len(s))
<1>1. CASE Len(s) = 0
  <2>1. s = <<>>
    BY <1>1
  <2>2. SubSeq(s \o t, 1, 0) = <<>>
    BY SubSeqEmpty
  <2>3. QED BY <1>1, <2>1, <2>2
<1>2. CASE Len(s) # 0
  <2>1. 1 \in 1 .. Len(s) /\ Len(s) \in 1 .. Len(s)
    BY <1>2
  <2>2. SubSeq(s \o t, 1, Len(s)) = SubSeq(s, 1, Len(s))
    BY <2>1, SubSeqOfConcat1
  <2>3. QED BY <2>2, SubSeqFull
<1>3. QED BY <1>1, <1>2

-----------------------------------------------------------------------------
LEMMA CacheTyped ==
  ASSUME NEW k \in Keys, TypeOK, Dedup!IsDuplicate(k)
  PROVE  DOMAIN cache' \subseteq Keys /\ cache' \in [DOMAIN cache' -> Nat]
<1>1. DOMAIN cache \subseteq Keys /\ cache \in [DOMAIN cache -> Nat] /\ now \in Nat
  BY DEF TypeOK
<1>2. DOMAIN Dedup!Noted(k) \subseteq Keys /\ Dedup!Noted(k) \in [DOMAIN Dedup!Noted(k) -> Nat]
  BY <1>1 DEF Dedup!Noted
<1>3. ASSUME NEW c, DOMAIN c \subseteq Keys, c \in [DOMAIN c -> Nat]
      PROVE  /\ DOMAIN Dedup!Evict(c) \subseteq Keys
             /\ Dedup!Evict(c) \in [DOMAIN Dedup!Evict(c) -> Nat]
  BY <1>3 DEF Dedup!Evict
<1>4. QED BY <1>1, <1>2, <1>3 DEF Dedup!IsDuplicate

LEMMA CountTyped ==
  ASSUME NEW m \in Counters, Count(m), metrics \in [Counters -> Nat]
  PROVE  /\ metrics' \in [Counters -> Nat]
         /\ metrics'[m] = metrics[m] + 1
         /\ \A l \in Counters \ {m} : metrics'[l] = metrics[l]
BY DEF Count

LEMMA OrderInit == Init => Order
<1> SUFFICES ASSUME Init PROVE Order
  OBVIOUS
<1>1. metrics \in [Counters -> Nat]
  BY DEF Init, Counters
<1>2. cache = <<>> /\ DOMAIN cache = {}
  BY DEF Init
<1>3. TypeOK
  <2>1. /\ now \in Nat /\ DOMAIN cache \subseteq Keys /\ cache \in [DOMAIN cache -> Nat]
        /\ call \in [Callers -> {Idle} \cup [at : {"judge", "send", "count"}, event : Keys]]
    BY <1>2 DEF Init
  <2>2. /\ queue \in Seq(Keys) /\ Len(queue) <= Capacity /\ accepted \in Seq(Keys)
        /\ batch \in Seq(Keys) /\ rows \in Seq(Row) /\ correlated \in Seq(Keys)
        /\ analysed \in Seq(Keys)
    BY PipelineAssumption DEF Init
  <2>3. expired \in BOOLEAN /\ cancelled \in BOOLEAN
    BY DEF Init
  <2>4. QED BY <1>1, <2>1, <2>2, <2>3 DEF Init, TypeOK, Counters
<1>4. Custody
  BY ConcatEmptySeq DEF Init, Custody, InHooks
<1>5. QED BY <1>3, <1>4 DEF Order

CallStates == {Idle} \cup [at : {"judge", "send", "count"}, event : Keys]

LEMMA Inside ==
  ASSUME TypeOK, NEW c \in Callers, call[c].at # "idle"
  PROVE  call[c] \in [at : {"judge", "send", "count"}, event : Keys] /\ call[c].event \in Keys
BY DEF TypeOK, Idle

LEMMA TypeNext == ASSUME Order, [Next]_vars PROVE TypeOK'
<1> USE DEF Order
<1>0. /\ metrics \in [Counters -> Nat] /\ call \in [Callers -> CallStates]
      /\ "Ingested" \in Counters /\ "Deduplicated" \in Counters /\ "Filtered" \in Counters
      /\ "Buffered" \in Counters /\ "Persisted" \in Counters
  BY DEF TypeOK, Counters, CallStates
<1>1. ASSUME NEW c \in Callers, NEW k \in Keys, Enter(c, k) PROVE TypeOK'
  <2>1. metrics' \in [Counters -> Nat]
    BY <1>0, <1>1, CountTyped DEF Enter
  <2>2. call' \in [Callers -> CallStates]
    BY <1>0, <1>1 DEF Enter, CallStates
  <2>3. QED BY <1>1, <2>1, <2>2 DEF Enter, TypeOK, Counters, CallStates, workVars, ownerVars
<1>2. ASSUME NEW c \in Callers, Judge(c) PROVE TypeOK'
  <2>0. call[c].event \in Keys /\ call[c] \in [at : {"judge", "send", "count"}, event : Keys]
    BY <1>2, Inside DEF Judge
  <2>1. DOMAIN cache' \subseteq Keys /\ cache' \in [DOMAIN cache' -> Nat]
    BY <1>2, <2>0, CacheTyped DEF Judge
  <2>2. metrics' \in [Counters -> Nat]
    <3>1. Outcome(call[c].event) \in {"Deduplicated", "Filtered", "pass"}
      BY DEF Outcome
    <3>2. QED BY <1>0, <1>2, <3>1, CountTyped DEF Judge
  <2>3. call' \in [Callers -> CallStates]
    BY <1>0, <1>2, <2>0 DEF Judge, CallStates
  <2>4. QED BY <1>2, <2>1, <2>2, <2>3 DEF Judge, TypeOK, Counters, CallStates, workVars, ownerVars
<1>3. ASSUME NEW c \in Callers, Send(c) PROVE TypeOK'
  <2>0. call[c].event \in Keys /\ call[c] \in [at : {"judge", "send", "count"}, event : Keys]
    BY <1>3, Inside DEF Send
  <2>1. call' \in [Callers -> CallStates]
    <3>1. \/ call' = [call EXCEPT ![c].at = "count"]
          \/ call' = [call EXCEPT ![c] = Idle]
      BY <1>3 DEF Send
    <3>2. [call[c] EXCEPT !.at = "count"] \in CallStates /\ Idle \in CallStates
      BY <2>0 DEF CallStates
    <3>3. QED BY <1>0, <3>1, <3>2
  <2>2. /\ queue' \in Seq(Keys) /\ Len(queue') <= Capacity
        /\ accepted' \in Seq(Keys) /\ overflowed' \in Nat
    <3>1. /\ queue \in Seq(Keys) /\ Len(queue) \in Nat /\ Len(queue) <= Capacity
          /\ accepted \in Seq(Keys) /\ overflowed \in Nat /\ Capacity \in Nat
      BY PipelineAssumption DEF TypeOK
    <3>2. CASE ~Full
      <4>1. /\ queue' = Append(queue, call[c].event) /\ accepted' = Append(accepted, call[c].event)
            /\ overflowed' = overflowed
        BY <1>3, <3>2, Zenon DEF Send
      <4>2. ~(Len(queue) >= Capacity)
        BY <3>2 DEF Full
      <4>3. QED BY <2>0, <3>1, <4>1, <4>2
    <3>3. CASE Full
      BY <1>3, <3>1, <3>3 DEF Send
    <3>4. QED BY <3>2, <3>3
  <2>3. QED BY <1>3, <2>1, <2>2 DEF Send, TypeOK, CallStates, workVars, ownerVars
<1>4. ASSUME NEW c \in Callers, Buffered(c) PROVE TypeOK'
  <2>1. metrics' \in [Counters -> Nat]
    BY <1>0, <1>4, CountTyped DEF Buffered, CountBuffered
  <2>2. call' \in [Callers -> CallStates]
    BY <1>0, <1>4 DEF Buffered, CallStates
  <2>3. QED BY <1>4, <2>1, <2>2 DEF Buffered, TypeOK, Counters, CallStates, workVars, ownerVars
<1>5. CASE Receive
  <2>1. /\ queue' \in Seq(Keys) /\ Len(queue') <= Capacity /\ batch' \in Seq(Keys)
    <3>1. /\ queue \in Seq(Keys) /\ Len(queue) <= Capacity /\ batch \in Seq(Keys)
          /\ queue # <<>> /\ Capacity \in Nat
      BY <1>5, PipelineAssumption DEF Receive, TypeOK
    <3>2. Head(queue) \in Keys /\ Tail(queue) \in Seq(Keys) /\ Len(Tail(queue)) = Len(queue) - 1
      BY <3>1
    <3>3. QED BY <1>5, <3>1, <3>2 DEF Receive
  <2>2. wpc' \in {"store", "select", "drain"} /\ resume' \in {"select", "drain", "done"}
    BY <1>5 DEF Receive, TypeOK
  <2>3. QED BY <1>5, <2>1, <2>2 DEF Receive, TypeOK, ownerVars
<1>6. CASE Turn
  <2>1. /\ wpc' \in {"select", "drain", "store", "done"}
        /\ resume' \in {"select", "drain", "done"} /\ expired' \in BOOLEAN
    BY <1>6 DEF Turn, TypeOK, Tick, SeeClosed, SeeCancelled, DrainEnd, FlushEnd, Expire, Flush
  <2>2. QED BY <1>6, <2>1 DEF Turn, TypeOK, ownerVars
<1>7. CASE Store
  <2>0. batch \in Seq(Keys) /\ handled \in Nat
    BY DEF TypeOK
  <2>1. Head(batch) \in Keys /\ handled' \in Nat
    BY <1>7, <2>0 DEF Store
  <2>2. metrics' \in [Counters -> Nat]
    BY <1>0, <1>7, CountTyped DEF Store
  <2>3. rows' \in Seq(Row)
    <3>1. [ticket |-> handled + 1, key |-> Head(batch)] \in Row
      <4>1. handled + 1 \in Nat \ {0}
        BY <2>0
      <4>2. QED BY <2>1, <4>1 DEF Row
    <3>2. rows' = rows \/ rows' = Append(rows, [ticket |-> handled + 1, key |-> Head(batch)])
      BY <1>7 DEF Store, Insert
    <3>3. rows \in Seq(Row)
      BY DEF TypeOK
    <3>4. QED BY <3>1, <3>2, <3>3
  <2>4. QED BY <1>7, <2>1, <2>2, <2>3 DEF Store, TypeOK, Counters, ownerVars
<1>8. CASE Correlate
  <2>1. Head(batch) \in Keys
    BY <1>8 DEF Correlate, TypeOK, Custody, InHooks
  <2>2. correlated' \in Seq(Keys)
    BY <1>8, <2>1 DEF Correlate, Corr, TypeOK
  <2>3. QED BY <1>8, <2>2 DEF Correlate, TypeOK, ownerVars
<1>9. CASE Analyse
  <2>1. Head(batch) \in Keys /\ batch' \in Seq(Keys)
    BY <1>9 DEF Analyse, TypeOK, Custody, InHooks
  <2>2. analysed' \in Seq(Keys)
    BY <1>9, <2>1 DEF Analyse, TypeOK
  <2>3. QED BY <1>9, <2>1, <2>2 DEF Analyse, TypeOK, ownerVars
<1>10. CASE Owner
  <2>1. /\ owner' \in {"new", "running", "closing", "stopped"} /\ closedAt' \in Nat
        /\ cancelled' \in BOOLEAN
        /\ wpc' \in {"off", "select", "drain", "store", "correlate", "analyse", "done"}
    <3>1. /\ owner \in {"new", "running", "closing", "stopped"} /\ closedAt \in Nat
          /\ accepted \in Seq(Keys)
          /\ wpc \in {"off", "select", "drain", "store", "correlate", "analyse", "done"}
      BY DEF TypeOK
    <3>2. cancelled' \in BOOLEAN
      BY <1>10 DEF Owner, Start, StopClose, StopWait, Cancel, TypeOK
    <3>3. closedAt' \in Nat
      BY <1>10, <3>1 DEF Owner, Start, StopClose, StopWait, Cancel
    <3>4. QED BY <1>10, <3>1, <3>2, <3>3 DEF Owner, Start, StopClose, StopWait, Cancel
  <2>2. QED BY <1>10, <2>1 DEF Owner, TypeOK
<1>11. CASE Clock
  BY <1>11 DEF Clock, TypeOK, workVars, ownerVars
<1>12. CASE UNCHANGED vars
  BY <1>12 DEF vars, TypeOK, workVars, ownerVars
<1>13. QED BY <1>1, <1>2, <1>3, <1>4, <1>5, <1>6, <1>7, <1>8, <1>9, <1>10, <1>11, <1>12
           DEF Next, Ingest, Worker

LEMMA CustodyNext == ASSUME Order, TypeOK', [Next]_vars PROVE Custody'
<1>0. /\ accepted \in Seq(Keys) /\ batch \in Seq(Keys) /\ queue \in Seq(Keys)
      /\ correlated \in Seq(Keys) /\ analysed \in Seq(Keys) /\ handled \in Nat
  BY DEF Order, TypeOK
<1>c. /\ accepted = analysed \o (batch \o queue)
      /\ correlated = IF wpc = "analyse" THEN Append(analysed, Head(batch)) ELSE analysed
      /\ handled = Len(analysed) + (IF InHooks THEN 1 ELSE 0)
      /\ InHooks => batch # <<>>
      /\ owner = "new" => wpc = "off"
  BY DEF Order, Custody
<1>1. ASSUME NEW c \in Callers, Send(c) PROVE Custody'
  <2>0. call[c].event \in Keys
    BY <1>1, Inside DEF Send, Order
  <2>1. UNCHANGED <<wpc, batch, correlated, analysed, handled, owner>>
    BY <1>1 DEF Send, workVars, ownerVars
  <2>2. accepted' = analysed \o (batch \o queue')
    <3>1. CASE ~Full
      <4>0. queue' = Append(queue, call[c].event) /\ accepted' = Append(accepted, call[c].event)
        BY <1>1, <3>1, Zenon DEF Send
      <4>1. batch \o queue \in Seq(Keys)
        BY <1>0, ConcatProperties
      <4>2. batch \o queue' = Append(batch \o queue, call[c].event)
        BY <1>0, <2>0, <4>0, AddLast
      <4>3. analysed \o (batch \o queue') = Append(accepted, call[c].event)
        <5>1. analysed \o Append(batch \o queue, call[c].event)
                = Append(analysed \o (batch \o queue), call[c].event)
          BY <1>0, <2>0, <4>1, AddLast
        <5>2. QED BY <1>c, <4>2, <5>1
      <4>4. QED BY <4>0, <4>3
    <3>2. CASE Full
      BY <1>1, <1>c, <3>2, Zenon DEF Send
    <3>3. QED BY <3>1, <3>2
  <2>3. QED BY <1>c, <2>1, <2>2 DEF Custody, InHooks
<1>2. CASE Receive
  <2>1. /\ queue # <<>> /\ batch' = Append(batch, Head(queue)) /\ queue' = Tail(queue)
        /\ UNCHANGED <<accepted, correlated, analysed, handled, owner>>
        /\ wpc \in {"select", "drain"} /\ wpc' \in {"select", "drain", "store"}
    BY <1>2 DEF Receive, ownerVars
  <2>2. batch' \o queue' = batch \o queue
    BY <1>0, <2>1, MoveHead
  <2>3. QED BY <1>c, <2>1, <2>2 DEF Custody, InHooks
<1>3. CASE Turn
  <2>1. /\ UNCHANGED <<accepted, queue, batch, correlated, analysed, handled, owner>>
        /\ wpc \in {"select", "drain", "store"} /\ wpc' \in {"select", "drain", "store", "done"}
    BY <1>3 DEF Turn, Tick, SeeClosed, SeeCancelled, DrainEnd, FlushEnd, Expire, Flush, Order, TypeOK,
             ownerVars
  <2>2. QED BY <1>c, <2>1 DEF Custody, InHooks
<1>4. CASE Store
  <2>1. /\ UNCHANGED <<accepted, queue, batch, correlated, analysed, owner>>
        /\ handled' = handled + 1 /\ wpc = "store" /\ wpc' = "correlate" /\ batch # <<>>
    BY <1>4 DEF Store, ownerVars
  <2>2. QED BY <1>0, <1>c, <2>1 DEF Custody, InHooks
<1>5. CASE Correlate
  <2>1. /\ UNCHANGED <<accepted, queue, batch, analysed, handled, owner>>
        /\ wpc = "correlate" /\ wpc' = "analyse" /\ correlated' = Append(correlated, Head(batch))
    BY <1>5 DEF Correlate, Corr, ownerVars
  <2>2. QED BY <1>0, <1>c, <2>1 DEF Custody, InHooks
<1>6. CASE Analyse
  <2>1. /\ UNCHANGED <<accepted, queue, correlated, handled, owner>>
        /\ wpc = "analyse" /\ wpc' = "store" /\ batch # <<>>
        /\ analysed' = Append(analysed, Head(batch)) /\ batch' = Tail(batch)
    BY <1>6, <1>c DEF Analyse, ownerVars, InHooks
  <2>2. /\ analysed' \in Seq(Keys) /\ batch' \in Seq(Keys)
        /\ analysed' \o batch' = analysed \o batch /\ Head(batch) \in Keys
    <3>1. Head(batch) \in Keys /\ Tail(batch) \in Seq(Keys)
      BY <1>0, <2>1
    <3>2. Append(analysed, Head(batch)) \in Seq(Keys)
      BY <1>0, <3>1
    <3>3. Append(analysed, Head(batch)) \o Tail(batch) = analysed \o batch
      BY <1>0, <2>1, MoveHead
    <3>4. QED BY <2>1, <3>1, <3>2, <3>3
  <2>3. analysed' \o (batch' \o queue) = analysed \o (batch \o queue)
    <3>0. analysed' \in Seq(Keys) /\ batch' \in Seq(Keys) /\ queue \in Seq(Keys)
      BY <1>0, <2>2
    <3>1. (analysed' \o batch') \o queue = analysed' \o (batch' \o queue)
      BY <3>0, ConcatAssociative, SMTT(30)
    <3>2. (analysed \o batch) \o queue = analysed \o (batch \o queue)
      BY <1>0, ConcatAssociative
    <3>3. QED BY <2>2, <3>1, <3>2
  <2>4. handled = Len(analysed') /\ correlated = analysed'
    BY <1>0, <1>c, <2>1, <2>2 DEF InHooks
  <2>5. accepted' = analysed' \o (batch' \o queue')
    BY <1>c, <2>1, <2>3
  <2>6. owner' = "new" => wpc' = "off"
    BY <1>c, <2>1
  <2>7. QED BY <2>1, <2>4, <2>5, <2>6 DEF Custody, InHooks
<1>7. CASE Owner
  <2>1. /\ UNCHANGED <<accepted, queue, batch, correlated, analysed, handled>>
        /\ \/ wpc' = wpc /\ (owner' = "new" => owner = "new")
           \/ wpc = "off" /\ wpc' = "select" /\ owner' = "running"
    BY <1>c, <1>7 DEF Owner, Start, StopClose, StopWait, Cancel
  <2>2. QED BY <1>c, <2>1 DEF Custody, InHooks
<1>8. ASSUME UNCHANGED <<accepted, queue, wpc, batch, correlated, analysed, handled, owner>>
      PROVE  Custody'
  BY <1>c, <1>8 DEF Custody, InHooks
<1>9. QED BY <1>1, <1>2, <1>3, <1>4, <1>5, <1>6, <1>7, <1>8
          DEF Next, Ingest, Worker, Enter, Judge, Buffered, Clock, vars, workVars, ownerVars

(* The inductive invariant: the history of what is queued, batched and passed to the *)
(* hooks is the accepted events in their order.                                      *)
THEOREM PipelineOrder == Spec => []Order
<1>1. Order /\ [Next]_vars => Order'
  BY TypeNext, CustodyNext DEF Order
<1>2. QED BY OrderInit, <1>1, PTL DEF Spec

(* Type correctness, and the queue within its capacity. *)
THEOREM PipelineTypeOK == Spec => []TypeOK
<1>1. Order => TypeOK
  BY DEF Order
<1>2. QED BY <1>1, PipelineOrder, PTL

(* The hooks see every accepted event once, in order, stored or not. *)
THEOREM PipelineHooks == Spec => []HooksInOrder
<1>1. ASSUME Order PROVE HooksInOrder
  <2>0. /\ batch \in Seq(Keys) /\ queue \in Seq(Keys) /\ analysed \in Seq(Keys)
        /\ batch \o queue \in Seq(Keys)
    BY <1>1, ConcatProperties DEF Order, TypeOK
  <2>c. /\ accepted = analysed \o (batch \o queue)
        /\ correlated = IF wpc = "analyse" THEN Append(analysed, Head(batch)) ELSE analysed
        /\ handled = Len(analysed) + (IF InHooks THEN 1 ELSE 0)
        /\ InHooks => batch # <<>>
    BY <1>1 DEF Order, Custody
  <2>1. CASE wpc = "analyse"
    <3>1. /\ Head(batch) \in Keys /\ Tail(batch) \in Seq(Keys) /\ correlated \in Seq(Keys)
          /\ correlated \o Tail(batch) = analysed \o batch
          /\ correlated = Append(analysed, Head(batch))
      BY <2>0, <2>1, <2>c, MoveHead DEF InHooks
    <3>2. correlated \o (Tail(batch) \o queue) = accepted
      <4>1. (correlated \o Tail(batch)) \o queue = correlated \o (Tail(batch) \o queue)
        BY <2>0, <3>1, ConcatAssociative, SMTT(30)
      <4>2. (analysed \o batch) \o queue = analysed \o (batch \o queue)
        BY <2>0, ConcatAssociative
      <4>3. QED BY <2>c, <3>1, <4>1, <4>2
    <3>3. Tail(batch) \o queue \in Seq(Keys)
      BY <2>0, <3>1, ConcatProperties
    <3>4. correlated = SubSeq(accepted, 1, Len(correlated))
      BY <3>1, <3>2, <3>3, PrefixOfConcat
    <3>5. correlated = analysed \o <<Head(batch)>> /\ <<Head(batch)>> \in Seq(Keys)
      BY <2>0, <3>1, AppendIsConcat
    <3>6. analysed = SubSeq(correlated, 1, Len(analysed))
      BY <2>0, <3>5, PrefixOfConcat
    <3>7. Len(correlated) = Len(analysed) + 1 /\ Len(analysed) \in Nat
      BY <2>0, <3>1
    <3>8. QED BY <2>1, <2>c, <3>4, <3>6, <3>7 DEF HooksInOrder, InHooks
  <2>2. CASE wpc # "analyse"
    <3>1. correlated = analysed /\ Len(analysed) \in Nat
      BY <2>0, <2>2, <2>c
    <3>2. analysed = SubSeq(accepted, 1, Len(analysed))
      BY <2>0, <2>c, PrefixOfConcat
    <3>3. analysed = SubSeq(analysed, 1, Len(analysed))
      BY <2>0, SubSeqFull
    <3>4. handled = Len(analysed) + (IF wpc = "correlate" THEN 1 ELSE 0)
      BY <2>2, <2>c DEF InHooks
    <3>5. handled - Len(correlated) = (IF wpc = "correlate" THEN 1 ELSE 0)
      BY <3>1, <3>4
    <3>6. Len(correlated) - Len(analysed) = (IF wpc = "analyse" THEN 1 ELSE 0)
      BY <2>2, <3>1
    <3>7. correlated = SubSeq(accepted, 1, Len(correlated))
          /\ analysed = SubSeq(correlated, 1, Len(analysed))
      BY <3>1, <3>2, <3>3
    <3>8. QED BY <3>5, <3>6, <3>7 DEF HooksInOrder
  <2>3. QED BY <2>1, <2>2
<1>2. QED BY <1>1, PipelineOrder, PTL

-----------------------------------------------------------------------------
(* Counting.  A step of one caller moves at most that caller. *)

LEMMA OneMoves ==
  ASSUME NEW c \in Callers, NEW In \in SUBSET Callers, NEW Out \in SUBSET Callers,
         Out \ {c} = In \ {c}
  PROVE  /\ Cardinality(In) \in Nat /\ Cardinality(Out) \in Nat
         /\ c \in In /\ c \in Out => Cardinality(Out) = Cardinality(In)
         /\ c \notin In /\ c \notin Out => Cardinality(Out) = Cardinality(In)
         /\ c \in In /\ c \notin Out => Cardinality(Out) = Cardinality(In) - 1
         /\ c \notin In /\ c \in Out => Cardinality(Out) = Cardinality(In) + 1
<1>1. IsFiniteSet(In) /\ IsFiniteSet(Out)
  BY PipelineAssumption, FS_Subset
<1>2. Cardinality(In) \in Nat /\ Cardinality(Out) \in Nat
  BY <1>1, FS_CardinalityType
<1>3. Cardinality(In \cup {c}) = IF c \in In THEN Cardinality(In) ELSE Cardinality(In) + 1
  BY <1>1, FS_AddElement
<1>4. Cardinality(In \ {c}) = IF c \in In THEN Cardinality(In) - 1 ELSE Cardinality(In)
  BY <1>1, FS_RemoveElement
<1>5. /\ c \in In /\ c \notin Out => Out = In \ {c}
      /\ c \notin In /\ c \in Out => Out = In \cup {c}
      /\ (c \in In <=> c \in Out) => Out = In
  OBVIOUS
<1>6. QED BY <1>2, <1>3, <1>4, <1>5

LEMMA Moves ==
  ASSUME NEW c \in Callers, \A d \in Callers \ {c} : call'[d] = call[d]
  PROVE  /\ At("count") \in Nat /\ Underway \in Nat
         /\ At("count")' = IF call[c].at = "count"
                           THEN IF call'[c].at = "count" THEN At("count") ELSE At("count") - 1
                           ELSE IF call'[c].at = "count" THEN At("count") + 1 ELSE At("count")
         /\ Underway' = IF call[c].at # "idle"
                        THEN IF call'[c].at # "idle" THEN Underway ELSE Underway - 1
                        ELSE IF call'[c].at # "idle" THEN Underway + 1 ELSE Underway
<1>1. /\ At("count") \in Nat
      /\ At("count")' = IF call[c].at = "count"
                        THEN IF call'[c].at = "count" THEN At("count") ELSE At("count") - 1
                        ELSE IF call'[c].at = "count" THEN At("count") + 1 ELSE At("count")
  <2> DEFINE In == {d \in Callers : call[d].at = "count"}
             Out == {d \in Callers : call'[d].at = "count"}
  <2>1. /\ In \in SUBSET Callers /\ Out \in SUBSET Callers /\ Out \ {c} = In \ {c}
        /\ (c \in In <=> call[c].at = "count") /\ (c \in Out <=> call'[c].at = "count")
    OBVIOUS
  <2>2. At("count") = Cardinality(In) /\ At("count")' = Cardinality(Out)
    BY DEF At
  <2> HIDE DEF In, Out
  <2>3. QED BY <2>1, <2>2, OneMoves
<1>2. /\ Underway \in Nat
      /\ Underway' = IF call[c].at # "idle"
                     THEN IF call'[c].at # "idle" THEN Underway ELSE Underway - 1
                     ELSE IF call'[c].at # "idle" THEN Underway + 1 ELSE Underway
  <2> DEFINE In == {d \in Callers : call[d].at # "idle"}
             Out == {d \in Callers : call'[d].at # "idle"}
  <2>1. /\ In \in SUBSET Callers /\ Out \in SUBSET Callers /\ Out \ {c} = In \ {c}
        /\ (c \in In <=> call[c].at # "idle") /\ (c \in Out <=> call'[c].at # "idle")
    OBVIOUS
  <2>2. Underway = Cardinality(In) /\ Underway' = Cardinality(Out)
    BY DEF Underway
  <2> HIDE DEF In, Out
  <2>3. QED BY <2>1, <2>2, OneMoves
<1>3. QED BY <1>1, <1>2

LEMMA HandledBound == ASSUME Order PROVE handled <= Len(accepted)
<1>1. /\ batch \in Seq(Keys) /\ queue \in Seq(Keys) /\ analysed \in Seq(Keys)
      /\ batch \o queue \in Seq(Keys)
  BY ConcatProperties DEF Order, TypeOK
<1>2. /\ accepted = analysed \o (batch \o queue)
      /\ handled = Len(analysed) + (IF InHooks THEN 1 ELSE 0)
      /\ InHooks => batch # <<>>
  BY DEF Order, Custody
<1>3. Len(accepted) = Len(analysed) + (Len(batch) + Len(queue))
  BY <1>1, <1>2, ConcatProperties
<1>4. Len(analysed) \in Nat /\ Len(batch) \in Nat /\ Len(queue) \in Nat
      /\ (batch # <<>> => Len(batch) >= 1)
  BY <1>1
<1>5. QED BY <1>2, <1>3, <1>4

(* The counters and the calls under way; and what is persisted has been handled, which *)
(* cannot be more than was accepted.                                                   *)
Counted ==
  /\ metrics.Ingested = metrics.Deduplicated + metrics.Filtered + metrics.Buffered
                        + overflowed + Underway
  /\ metrics.Buffered + At("count") = Len(accepted)
  /\ metrics.Persisted <= handled

LEMMA CountedInit == Init => Counted
<1> SUFFICES ASSUME Init PROVE Counted
  OBVIOUS
<1>1. At("count") = 0 /\ Underway = 0
  <2>1. {c \in Callers : call[c].at = "count"} = {} /\ {c \in Callers : call[c].at # "idle"} = {}
    BY DEF Init, Idle
  <2>2. QED BY <2>1, FS_EmptySet DEF At, Underway
<1>2. /\ metrics.Ingested = 0 /\ metrics.Deduplicated = 0 /\ metrics.Filtered = 0
      /\ metrics.Buffered = 0 /\ metrics.Persisted = 0
      /\ overflowed = 0 /\ Len(accepted) = 0 /\ handled = 0
  BY DEF Init
<1>3. QED BY <1>1, <1>2 DEF Counted

(* A unit moved from the callers under way to one of the counters. *)
LEMMA UnitMoves ==
  ASSUME NEW i \in Nat, NEW d \in Nat, NEW f \in Nat, NEW b \in Nat, NEW o \in Nat,
         NEW u \in Nat, i = d + f + b + o + u
  PROVE  /\ i = d + f + (b + 1) + o + (u - 1)
         /\ i = d + f + b + (o + 1) + (u - 1)
         /\ i = (d + f + 1) + b + o + (u - 1)
OBVIOUS

(* The caller that moves takes its event from one place of the sum to another. *)
LEMMA CountedNext == ASSUME Order, Order', Counted, [Next]_vars PROVE Counted'
<1>0. /\ metrics \in [Counters -> Nat] /\ call \in [Callers -> CallStates]
      /\ accepted \in Seq(Keys)
  BY DEF Order, TypeOK, Counters, CallStates
<1>n. /\ metrics.Ingested \in Nat /\ metrics.Deduplicated \in Nat /\ metrics.Filtered \in Nat
      /\ metrics.Buffered \in Nat /\ metrics.Persisted \in Nat
      /\ overflowed \in Nat /\ Len(accepted) \in Nat /\ handled \in Nat
  <2>1. overflowed \in Nat /\ handled \in Nat
    BY DEF Order, TypeOK
  <2>2. QED BY <1>0, <2>1 DEF Counters
<1>t. /\ metrics.Ingested = metrics.Deduplicated + metrics.Filtered + metrics.Buffered
                            + overflowed + Underway
      /\ metrics.Buffered + At("count") = Len(accepted)
      /\ metrics.Persisted <= handled
  BY DEF Counted
<1>1. ASSUME NEW c \in Callers, NEW k \in Keys, Enter(c, k) PROVE Counted'
  <2>1. /\ call[c].at = "idle" /\ call'[c].at = "judge"
        /\ \A d \in Callers \ {c} : call'[d] = call[d]
    BY <1>0, <1>1 DEF Enter, Idle
  <2>2. /\ Underway' = Underway + 1 /\ At("count")' = At("count")
        /\ Underway \in Nat /\ At("count") \in Nat
    BY <2>1, Moves
  <2>3. /\ metrics'.Ingested = metrics.Ingested + 1
        /\ UNCHANGED <<metrics.Deduplicated, metrics.Filtered, metrics.Buffered,
                       metrics.Persisted, overflowed, accepted, handled>>
    BY <1>0, <1>1, CountTyped DEF Enter, Counters, workVars
  <2>4. metrics'.Ingested = metrics'.Deduplicated + metrics'.Filtered + metrics'.Buffered
                               + overflowed' + Underway'
    <3> DEFINE Sum == metrics.Deduplicated + metrics.Filtered + metrics.Buffered + overflowed
    <3>1. Sum \in Nat /\ metrics.Ingested = Sum + Underway
      BY <1>n, <1>t
    <3>2. metrics'.Ingested = Sum + Underway'
      <4> HIDE DEF Sum
      <4>1. QED BY <2>2, <2>3, <3>1
    <3>3. QED BY <2>3, <3>2
  <2>5. metrics'.Buffered + At("count")' = Len(accepted') /\ metrics'.Persisted <= handled'
    BY <1>t, <2>2, <2>3
  <2>6. QED BY <2>4, <2>5 DEF Counted
<1>2. ASSUME NEW c \in Callers, Judge(c) PROVE Counted'
  <2>1. call[c].at = "judge" /\ UNCHANGED <<overflowed, accepted, handled>>
    BY <1>2 DEF Judge, workVars
  <2>2. CASE Outcome(call[c].event) # "pass"
    <3>1. Count(Outcome(call[c].event)) /\ call' = [call EXCEPT ![c] = Idle]
      BY <1>2, <2>2, Zenon DEF Judge
    <3>2. Outcome(call[c].event) \in {"Deduplicated", "Filtered"}
      BY <2>2 DEF Outcome
    <3>3. call'[c].at = "idle" /\ \A d \in Callers \ {c} : call'[d] = call[d]
      BY <1>0, <3>1 DEF Idle
    <3>4. /\ Underway' = Underway - 1 /\ At("count")' = At("count")
          /\ Underway \in Nat /\ At("count") \in Nat
      BY <2>1, <3>3, Moves
    <3>5. /\ metrics'.Deduplicated + metrics'.Filtered = metrics.Deduplicated + metrics.Filtered + 1
          /\ metrics'.Deduplicated \in Nat /\ metrics'.Filtered \in Nat
          /\ UNCHANGED <<metrics.Ingested, metrics.Buffered, metrics.Persisted>>
      <4>1. CASE Outcome(call[c].event) = "Deduplicated"
        BY <1>0, <3>1, <4>1, CountTyped DEF Counters
      <4>2. CASE Outcome(call[c].event) = "Filtered"
        BY <1>0, <3>1, <4>2, CountTyped DEF Counters
      <4>3. QED BY <3>2, <4>1, <4>2
    <3>6. metrics'.Ingested = metrics'.Deduplicated + metrics'.Filtered + metrics'.Buffered
                                 + overflowed' + Underway'
      <4>1. metrics.Ingested = metrics.Deduplicated + metrics.Filtered + metrics.Buffered
                                  + overflowed + Underway /\ Underway \in Nat
        BY <1>n, <1>t, <2>1, <3>4, <3>5
      <4>2. metrics.Ingested = (metrics.Deduplicated + metrics.Filtered + 1) + metrics.Buffered
                                  + overflowed + (Underway - 1)
        BY <4>1, <1>n, UnitMoves
      <4>3. QED BY <4>2, <2>1, <3>4, <3>5
    <3>7. metrics'.Buffered + At("count")' = Len(accepted') /\ metrics'.Persisted <= handled'
      BY <1>n, <1>t, <2>1, <3>4, <3>5
    <3>8. QED BY <3>6, <3>7 DEF Counted
  <2>3. CASE Outcome(call[c].event) = "pass"
    <3>1. call' = [call EXCEPT ![c].at = "send"] /\ UNCHANGED metrics
      BY <1>2, <2>3, Zenon DEF Judge
    <3>2. call'[c].at = "send" /\ \A d \in Callers \ {c} : call'[d] = call[d]
      BY <1>0, <2>1, <3>1, Inside DEF Order
    <3>3. Underway' = Underway /\ At("count")' = At("count")
      BY <2>1, <3>2, Moves
    <3>4. QED BY <1>n, <1>t, <2>1, <3>1, <3>3 DEF Counted
  <2>4. QED BY <2>2, <2>3
<1>3. ASSUME NEW c \in Callers, Send(c) PROVE Counted'
  <2>1. call[c].at = "send" /\ UNCHANGED <<metrics, handled>> /\ call[c].event \in Keys
    BY <1>3, Inside DEF Send, workVars, Order
  <2>2. CASE ~Full
    <3>1. /\ call' = [call EXCEPT ![c].at = "count"] /\ UNCHANGED overflowed
          /\ accepted' = Append(accepted, call[c].event)
      BY <1>3, <2>2, Zenon DEF Send
    <3>2. call'[c].at = "count" /\ \A d \in Callers \ {c} : call'[d] = call[d]
      BY <1>0, <2>1, <3>1, Inside DEF Order
    <3>3. Underway' = Underway /\ At("count")' = At("count") + 1 /\ At("count") \in Nat
      BY <2>1, <3>2, Moves
    <3>4. Len(accepted') = Len(accepted) + 1
      BY <1>0, <2>1, <3>1
    <3>5. QED BY <1>n, <1>t, <2>1, <3>1, <3>3, <3>4 DEF Counted
  <2>3. CASE Full
    <3>1. call' = [call EXCEPT ![c] = Idle] /\ overflowed' = overflowed + 1 /\ UNCHANGED accepted
      BY <1>3, <2>3, Zenon DEF Send
    <3>2. call'[c].at = "idle" /\ \A d \in Callers \ {c} : call'[d] = call[d]
      BY <1>0, <3>1 DEF Idle
    <3>3. Underway' = Underway - 1 /\ At("count")' = At("count") /\ Underway \in Nat
      BY <2>1, <3>2, Moves
    <3>4. metrics'.Ingested = metrics'.Deduplicated + metrics'.Filtered + metrics'.Buffered
                                 + overflowed' + Underway'
      <4>1. metrics.Ingested = metrics.Deduplicated + metrics.Filtered + metrics.Buffered
                                  + overflowed + Underway /\ Underway \in Nat
        BY <1>n, <1>t, <2>1, <3>1, <3>3
      <4>2. metrics.Ingested = metrics.Deduplicated + metrics.Filtered + metrics.Buffered
                                  + (overflowed + 1) + (Underway - 1)
        BY <4>1, <1>n, UnitMoves
      <4>3. QED BY <4>2, <2>1, <3>1, <3>3
    <3>5. metrics'.Buffered + At("count")' = Len(accepted') /\ metrics'.Persisted <= handled'
      BY <1>n, <1>t, <2>1, <3>1, <3>3
    <3>6. QED BY <3>4, <3>5 DEF Counted
  <2>4. QED BY <2>2, <2>3
<1>4. ASSUME NEW c \in Callers, Buffered(c) PROVE Counted'
  <2>1. /\ call[c].at = "count" /\ call'[c].at = "idle"
        /\ \A d \in Callers \ {c} : call'[d] = call[d]
        /\ UNCHANGED <<overflowed, accepted, handled>>
    BY <1>0, <1>4 DEF Buffered, Idle, workVars
  <2>2. /\ Underway' = Underway - 1 /\ At("count")' = At("count") - 1
        /\ Underway \in Nat /\ At("count") \in Nat
    BY <2>1, Moves
  <2>3. /\ metrics'.Buffered = metrics.Buffered + 1
        /\ UNCHANGED <<metrics.Deduplicated, metrics.Filtered, metrics.Ingested, metrics.Persisted>>
    BY <1>0, <1>4, CountTyped DEF Buffered, CountBuffered, Counters
  <2>4. metrics'.Ingested = metrics'.Deduplicated + metrics'.Filtered + metrics'.Buffered
                               + overflowed' + Underway'
    <3>1. metrics.Ingested = metrics.Deduplicated + metrics.Filtered + metrics.Buffered
                                + overflowed + Underway /\ Underway \in Nat
      BY <1>n, <1>t, <2>1, <2>2, <2>3
    <3> DEFINE Sum == metrics.Deduplicated + metrics.Filtered + metrics.Buffered + overflowed
    <3>2. Sum \in Nat /\ metrics.Ingested = Sum + Underway
      <4>1. Sum \in Nat
        BY <1>n
      <4>2. metrics.Ingested = Sum + Underway
        BY <3>1, Zenon
      <4>3. QED BY <4>1, <4>2
    <3>3. metrics'.Deduplicated + metrics'.Filtered + metrics'.Buffered + overflowed' = Sum + 1
      BY <1>n, <2>1, <2>3
    <3>4. metrics'.Ingested = Sum + 1 + Underway'
      <4> HIDE DEF Sum
      <4>1. QED BY <2>2, <2>3, <3>1, <3>2
    <3>5. QED BY <3>3, <3>4
  <2>5. metrics'.Buffered + At("count")' = Len(accepted') /\ metrics'.Persisted <= handled'
    <3>1. /\ At("count") \in Nat /\ metrics.Buffered \in Nat
          /\ metrics.Buffered + At("count") = Len(accepted) /\ metrics.Persisted <= handled
      BY <1>n, <1>t, <2>2
    <3>2. (metrics.Buffered + 1) + (At("count") - 1) = Len(accepted)
      BY <3>1
    <3>3. QED BY <2>1, <2>2, <2>3, <3>1, <3>2
  <2>6. QED BY <2>4, <2>5 DEF Counted
<1>5. CASE Store
  <2>1. UNCHANGED <<call, overflowed, accepted>> /\ handled' = handled + 1
    BY <1>5 DEF Store
  <2>2. /\ UNCHANGED <<metrics.Deduplicated, metrics.Filtered, metrics.Ingested, metrics.Buffered>>
        /\ metrics'.Persisted \in {metrics.Persisted, metrics.Persisted + 1}
    <3>1. CASE UNCHANGED metrics
      BY <3>1
    <3>2. CASE Count("Persisted")
      BY <1>0, <3>2, CountTyped DEF Counters
    <3>3. QED BY <1>5, <3>1, <3>2 DEF Store
  <2>3. At("count")' = At("count") /\ Underway' = Underway
    BY <2>1 DEF At, Underway
  <2>4. metrics'.Persisted <= handled'
    <3>1. metrics.Persisted \in Nat /\ handled \in Nat /\ metrics.Persisted <= handled
      BY <1>n, <1>t
    <3>2. QED BY <2>1, <2>2, <3>1
  <2>5. QED BY <1>t, <2>1, <2>2, <2>3, <2>4 DEF Counted
<1>6. ASSUME UNCHANGED <<metrics, call, overflowed, accepted, handled>> PROVE Counted'
  <2>1. At("count")' = At("count") /\ Underway' = Underway
    BY <1>6 DEF At, Underway
  <2>2. QED BY <1>t, <1>6, <2>1 DEF Counted
<1>7. ASSUME Receive \/ Turn \/ Correlate \/ Analyse \/ Owner \/ Clock \/ UNCHANGED vars
      PROVE  UNCHANGED <<metrics, call, overflowed, accepted, handled>>
  BY <1>7 DEF Receive, Turn, Correlate, Analyse, Owner, Clock, vars, workVars
<1>8. QED BY <1>1, <1>2, <1>3, <1>4, <1>5, <1>6, <1>7 DEF Next, Ingest, Worker

LEMMA CountedAlways == Spec => []Counted
<1>1. Order /\ Order' /\ Counted /\ [Next]_vars => Counted'
  BY CountedNext
<1>2. QED BY CountedInit, <1>1, PipelineOrder, PTL DEF Spec

(* Every call of Ingest is in exactly one counter, dropped, or under way, and PersistedCount *)
(* is ahead of BufferedCount at most by the callers about to count.                          *)
THEOREM PipelineMetrics == Spec => []MetricsConserved
<1>1. ASSUME Order, Counted PROVE MetricsConserved
  <2>1. /\ metrics.Persisted \in Nat /\ metrics.Buffered \in Nat /\ handled \in Nat
        /\ Len(accepted) \in Nat
    BY <1>1 DEF Order, TypeOK
  <2>2. handled <= Len(accepted)
    BY <1>1, HandledBound
  <2>3. PersistedWithinBuffered
    BY <1>1, <2>1, <2>2 DEF Counted, PersistedWithinBuffered
  <2>4. QED BY <1>1, <2>3 DEF Counted, MetricsConserved
<1>2. QED BY <1>1, CountedAlways, PipelineOrder, PTL

-----------------------------------------------------------------------------
(* Draining.  The worker drains only a closed pipeline, and comes to its end only *)
(* after a cancellation or with everything accepted before the close in hand.     *)

Flushing == {"store", "correlate", "analyse"}

InHand == Len(analysed) + Len(batch)

Draining ==
  /\ closedAt <= Len(accepted)
  /\ wpc = "drain" => Closed
  /\ wpc \in Flushing /\ resume = "drain" => Closed
  /\ wpc \in Flushing /\ resume = "done" => cancelled \/ (Closed /\ InHand >= closedAt)
  /\ wpc = "done" => batch = <<>> /\ (cancelled \/ (Closed /\ InHand >= closedAt))

LEMMA ConcatLengths ==
  ASSUME NEW S, NEW s \in Seq(S), NEW t \in Seq(S), NEW u \in Seq(S)
  PROVE  /\ Len(s) \in Nat /\ Len(t) \in Nat /\ Len(u) \in Nat
         /\ Len(s \o (t \o u)) = (Len(s) + Len(t)) + Len(u)
<1>1. t \o u \in Seq(S) /\ Len(t \o u) = Len(t) + Len(u)
  BY ConcatProperties
<1>2. Len(s \o (t \o u)) = Len(s) + Len(t \o u)
  BY <1>1, ConcatProperties
<1>3. QED BY <1>1, <1>2

LEMMA Lengths ==
  /\ Order => /\ InHand \in Nat /\ Len(queue) \in Nat /\ Len(accepted) = InHand + Len(queue)
  /\ Order' => /\ InHand' \in Nat /\ Len(queue') \in Nat /\ Len(accepted') = InHand' + Len(queue')
<1>1. ASSUME Order
      PROVE  /\ InHand \in Nat /\ Len(queue) \in Nat /\ Len(accepted) = InHand + Len(queue)
  <2>1. /\ batch \in Seq(Keys) /\ queue \in Seq(Keys) /\ analysed \in Seq(Keys)
        /\ accepted = analysed \o (batch \o queue)
    BY <1>1 DEF Order, TypeOK, Custody
  <2>2. QED BY <2>1, ConcatLengths DEF InHand
<1>2. ASSUME Order'
      PROVE  /\ InHand' \in Nat /\ Len(queue') \in Nat /\ Len(accepted') = InHand' + Len(queue')
  <2>1. /\ batch' \in Seq(Keys) /\ queue' \in Seq(Keys) /\ analysed' \in Seq(Keys)
        /\ accepted' = analysed' \o (batch' \o queue')
    BY <1>2 DEF Order, TypeOK, Custody
  <2>2. QED BY <2>1, ConcatLengths DEF InHand
<1>3. QED BY <1>1, <1>2

LEMMA DrainingNext == ASSUME Order, Order', Draining, [Next]_vars PROVE Draining'
<1>0. /\ Len(accepted) \in Nat /\ Len(queue) \in Nat
      /\ closedAt \in Nat /\ InHand \in Nat /\ Len(accepted) = InHand + Len(queue)
  <2>1. InHand \in Nat /\ Len(queue) \in Nat /\ Len(accepted) = InHand + Len(queue)
    BY Lengths
  <2>2. closedAt \in Nat
    BY DEF Order, TypeOK
  <2>3. QED BY <2>1, <2>2
<1>p. /\ Len(accepted') \in Nat /\ Len(queue') \in Nat /\ InHand' \in Nat
      /\ Len(accepted') = InHand' + Len(queue')
  <2>1. InHand' \in Nat /\ Len(queue') \in Nat /\ Len(accepted') = InHand' + Len(queue')
    BY Lengths
  <2>2. QED BY <2>1
<1>t. /\ batch \in Seq(Keys) /\ queue \in Seq(Keys) /\ analysed \in Seq(Keys)
      /\ resume \in {"select", "drain", "done"}
      /\ owner \in {"new", "running", "closing", "stopped"}
  BY DEF Order, TypeOK
<1>1. ASSUME NEW c \in Callers, Send(c) PROVE Draining'
  <2>1. UNCHANGED <<wpc, resume, batch, analysed, owner, cancelled, closedAt>>
    BY <1>1 DEF Send, workVars, ownerVars
  <2>2. Len(accepted') >= Len(accepted)
    <3>1. accepted \in Seq(Keys) /\ call[c].event \in Keys
      BY <1>1, Inside DEF Send, Order, TypeOK
    <3>2. accepted' = accepted \/ accepted' = Append(accepted, call[c].event)
      BY <1>1, Zenon DEF Send
    <3>3. QED BY <3>1, <3>2
  <2>3. closedAt' <= Len(accepted')
    BY <1>0, <1>p, <2>1, <2>2 DEF Draining
  <2>4. QED BY <2>1, <2>3 DEF Draining, Closed, InHand
<1>2. CASE Receive
  <2>1. /\ wpc \in {"select", "drain"}
        /\ (wpc' = "store" /\ resume' = wpc) \/ UNCHANGED <<wpc, resume>>
        /\ UNCHANGED <<accepted, owner, cancelled, closedAt>>
    BY <1>2 DEF Receive, ownerVars
  <2>2. QED BY <2>1 DEF Draining, Closed, Flushing
<1>3. CASE Turn
  <2>0. UNCHANGED <<accepted, queue, batch, analysed, owner, cancelled, closedAt>>
    BY <1>3 DEF Turn, ownerVars
  <2>1. CASE Tick \/ SeeClosed \/ Expire
    BY <2>0, <2>1 DEF Tick, SeeClosed, Expire, Flush, Draining, Closed, Flushing, InHand
  <2>2. CASE SeeCancelled
    BY <2>0, <2>2 DEF SeeCancelled, Flush, Draining, Closed, Flushing, InHand
  <2>3. CASE DrainEnd
    <3>1. wpc = "drain" /\ queue = <<>> /\ Flush("done")
      BY <2>3 DEF DrainEnd
    <3>2. Len(queue) = 0
      BY <3>1
    <3>3. InHand >= closedAt /\ closedAt <= Len(accepted)
      BY <1>0, <3>2 DEF Draining
    <3>4. Closed
      BY <3>1 DEF Draining
    <3>5. QED BY <2>0, <3>1, <3>3, <3>4 DEF Flush, Draining, Closed, Flushing, InHand
  <2>4. CASE FlushEnd
    BY <2>0, <2>4, <1>t DEF FlushEnd, Draining, Closed, Flushing, InHand
  <2>5. QED BY <1>3, <2>1, <2>2, <2>3, <2>4 DEF Turn
<1>4. CASE Store \/ Correlate
  <2>1. /\ UNCHANGED <<accepted, queue, resume, batch, analysed, owner, cancelled, closedAt>>
        /\ wpc \in Flushing /\ wpc' \in Flushing
    BY <1>4 DEF Store, Correlate, ownerVars, Flushing
  <2>2. QED BY <2>1 DEF Draining, Closed, Flushing, InHand
<1>5. CASE Analyse
  <2>1. /\ UNCHANGED <<accepted, queue, resume, owner, cancelled, closedAt>>
        /\ wpc \in Flushing /\ wpc' = "store"
    BY <1>5 DEF Analyse, ownerVars, Flushing
  <2>2. InHand' = InHand
    BY <1>0, <1>p, <2>1
  <2>3. QED BY <2>1, <2>2 DEF Draining, Closed, Flushing
<1>6. CASE Owner
  <2>0. UNCHANGED <<accepted, queue, resume, batch, analysed>>
    BY <1>6 DEF Owner
  <2>1. CASE Start
    <3>1. wpc' = "select" /\ UNCHANGED <<closedAt, cancelled>>
      BY <2>1 DEF Start
    <3>2. QED BY <2>0, <3>1 DEF Draining, Flushing
  <2>2. CASE StopClose
    <3>1. ~Closed /\ Closed' /\ closedAt' = Len(accepted) /\ UNCHANGED <<wpc, cancelled>>
      BY <2>2 DEF StopClose, Closed
    <3>2. closedAt' <= Len(accepted')
      BY <1>0, <2>0, <3>1
    <3>3. QED BY <2>0, <3>1, <3>2 DEF Draining, Flushing
  <2>3. CASE StopWait
    BY <2>0, <2>3 DEF StopWait, Draining, Closed, Flushing, InHand
  <2>4. CASE Cancel
    BY <2>0, <2>4 DEF Cancel, Draining, Closed, Flushing, InHand
  <2>5. QED BY <1>6, <2>1, <2>2, <2>3, <2>4 DEF Owner
<1>7. ASSUME UNCHANGED <<accepted, wpc, resume, batch, analysed, owner, cancelled, closedAt>>
      PROVE  Draining'
  BY <1>7 DEF Draining, Closed, Flushing, InHand
<1>8. QED BY <1>1, <1>2, <1>3, <1>4, <1>5, <1>6, <1>7
          DEF Next, Ingest, Worker, Enter, Judge, Buffered, Clock, vars, workVars, ownerVars

(* When the worker has returned, nothing it received is left, and nothing accepted *)
(* before the close is either, unless its context was cancelled.                   *)
THEOREM PipelineDrained == Spec => []DrainedOnStop
<1>1. Init => Draining
  BY DEF Init, Draining, Flushing
<1>2. Order /\ Order' /\ Draining /\ [Next]_vars => Draining'
  BY DrainingNext
<1>3. ASSUME Order, Draining PROVE DrainedOnStop
  <2> SUFFICES ASSUME wpc = "done" PROVE batch = <<>> /\ (cancelled \/ handled >= closedAt)
    BY DEF DrainedOnStop
  <2>1. batch = <<>> /\ (cancelled \/ InHand >= closedAt)
    BY <1>3 DEF Draining
  <2>2. Len(batch) = 0
    BY <2>1
  <2>3. handled = InHand
    BY <1>3, <2>2 DEF Order, TypeOK, Custody, InHooks, InHand
  <2>4. QED BY <2>1, <2>3
<1>4. QED BY <1>1, <1>2, <1>3, PipelineOrder, PTL DEF Spec

-----------------------------------------------------------------------------
(* The pipeline implements the log: a send accepts, storing an event decides it. *)

LEMMA PipelineLogStep == ASSUME Order, [Next]_vars PROVE [Log!LogNext]_(Log!logVars)
<1>1. ASSUME NEW c \in Callers, Send(c) PROVE [Log!LogNext]_(Log!logVars)
  <2>1. call[c].event \in Keys /\ UNCHANGED <<rows, handled>>
    BY <1>1, Inside DEF Send, Order, workVars
  <2>2. accepted' = accepted \/ accepted' = Append(accepted, call[c].event)
    BY <1>1, Zenon DEF Send
  <2>3. QED BY <2>1, <2>2 DEF Log!LogNext, Log!Accept, Log!logVars
<1>2. CASE Store
  <2>0. /\ batch \in Seq(Keys) /\ queue \in Seq(Keys) /\ analysed \in Seq(Keys)
        /\ batch \o queue \in Seq(Keys) /\ rows \in Seq(Row) /\ handled \in Nat
        /\ accepted \in Seq(Keys)
    BY ConcatProperties DEF Order, TypeOK
  <2>1. /\ wpc = "store" /\ batch # <<>> /\ handled' = handled + 1 /\ UNCHANGED accepted
        /\ rows' = rows \/ (HasTable(Head(batch)) /\ rows' = Insert(Head(batch)))
    <3>1. wpc = "store" /\ batch # <<>> /\ handled' = handled + 1 /\ UNCHANGED accepted
      BY <1>2 DEF Store
    <3>2. \/ rows' = IF HasTable(Head(batch)) THEN Insert(Head(batch)) ELSE rows
          \/ UNCHANGED rows
      BY <1>2, Zenon DEF Store
    <3>3. QED BY <3>1, <3>2
  <2>2. /\ accepted = analysed \o (batch \o queue) /\ handled = Len(analysed)
        /\ Len(accepted) = Len(analysed) + (Len(batch) + Len(queue))
        /\ Len(analysed) \in Nat /\ Len(batch) \in Nat /\ Len(queue) \in Nat /\ Len(batch) >= 1
    <3>1. accepted = analysed \o (batch \o queue) /\ handled = Len(analysed)
      BY <2>0, <2>1 DEF Order, Custody, InHooks
    <3>2. QED BY <2>0, <2>1, <3>1, ConcatProperties
  <2>3. accepted[handled + 1] = Head(batch)
    <3>1. (batch \o queue)[1] = batch[1]
      BY <2>0, <2>2, ConcatProperties
    <3>2. Len(batch \o queue) = Len(batch) + Len(queue)
      BY <2>0, ConcatProperties
    <3>3. (analysed \o (batch \o queue))[Len(analysed) + 1] = (batch \o queue)[1]
      BY <2>0, <2>2, <3>2
    <3>4. Head(batch) = batch[1]
      BY <2>0, <2>1
    <3>5. QED BY <2>2, <3>1, <3>3, <3>4
  <2>4. handled' \in handled + 1 .. Len(accepted)
    BY <2>0, <2>1, <2>2
  <2>5. CASE rows' = rows
    <3>1. Log!Added = {} /\ Log!Grows
      BY <2>0, <2>5 DEF Log!Added, Log!Grows
    <3>2. QED BY <2>1, <2>4, <3>1 DEF Log!LogNext, Log!Decide
  <2>6. CASE HasTable(Head(batch)) /\ rows' = Insert(Head(batch))
    <3> DEFINE r == [ticket |-> handled + 1, key |-> Head(batch)]
    <3>1. rows' = Append(rows, r) /\ r \in Row
      <4>1. Head(batch) \in Keys
        BY <2>0, <2>1
      <4>2. QED BY <2>0, <2>6, <4>1 DEF Insert, Row
    <3> HIDE DEF r
    <3>2. Log!Grows /\ Log!Added = {Len(rows) + 1} /\ rows'[Len(rows) + 1] = r
      BY <2>0, <3>1 DEF Log!Added, Log!Grows
    <3>3. r \in RowsOf(handled + 1, accepted[handled + 1])
      BY <2>3, <2>6 DEF RowsOf, r
    <3>4. handled + 1 \in handled + 1 .. handled'
      BY <2>0, <2>1
    <3>5. \A i, j \in Log!Added : ~(i < j)
      BY <2>0, <3>2
    <3>6. QED BY <2>1, <2>4, <3>2, <3>3, <3>4, <3>5 DEF Log!LogNext, Log!Decide
  <2>7. QED BY <2>1, <2>5, <2>6
<1>3. ASSUME UNCHANGED <<accepted, rows, handled>> PROVE [Log!LogNext]_(Log!logVars)
  BY <1>3 DEF Log!logVars
<1>4. QED BY <1>1, <1>2, <1>3
          DEF Next, Ingest, Worker, Owner, Enter, Judge, Buffered, Clock, Receive, Turn, Correlate,
              Analyse, vars, workVars, ownerVars

(* Accepted events are stored in order, at most once, under their own tables. *)
THEOREM PipelineImplementsLog == Spec => ImplementsLog
<1>1. Init => Log!LogInit
  BY DEF Init, Log!LogInit
<1>2. Order /\ [Next]_vars => [Log!LogNext]_(Log!logVars)
  BY PipelineLogStep
<1>3. QED BY <1>1, <1>2, PipelineOrder, PTL DEF Spec, ImplementsLog, Log!LogSpec
=============================================================================
