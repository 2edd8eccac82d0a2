------------------------- MODULE EventRouter_proofs -------------------------
(* Proofs about the event router, for every value of its constants. *)
EXTENDS EventRouter, SequenceTheorems, FiniteSetTheorems, TLAPS

USE DEF Full, CountDrop

(* The classes of events only have rows in the four tables of the database. *)
LEMMA TablesNamed == \A k : Tables(k) \subseteq TableNames
BY DEF Tables, TableNames

LEMMA RowsTyped == \A n \in Nat : \A k : RowsOf(n, k) \subseteq Rows
BY TablesNamed DEF RowsOf, Rows

(* The runs of rows one event can leave in the transaction are sequences of its rows. *)
LEMMA RunsTyped ==
  ASSUME TypeOK, batch # <<>>
  PROVE  /\ HeadRows \subseteq Rows
         /\ InsertRuns \subseteq Seq(HeadRows)
         /\ InsertRuns \subseteq Seq(Rows)
<1>1. Head(batch) \in Objects
  BY DEF TypeOK
<1>2. data[Head(batch)].ticket \in Nat
  BY <1>1 DEF TypeOK
<1>3. HeadRows \subseteq Rows
  BY <1>2, RowsTyped DEF HeadRows
<1>4. ASSUME NEW ins \in InsertRuns PROVE ins \in Seq(HeadRows)
  <2>1. CASE ins = <<>>
    BY <2>1
  <2>2. ASSUME NEW r \in HeadRows, ins = <<r>> PROVE ins \in Seq(HeadRows)
    BY <2>2
  <2>3. ASSUME NEW a \in AlertRows, NEW r \in HeadRows, ins = <<a, r>>
        PROVE  ins \in Seq(HeadRows)
    BY <2>3 DEF AlertRows
  <2>4. QED BY <1>4, <2>1, <2>2, <2>3 DEF InsertRuns
<1>5. Seq(HeadRows) \subseteq Seq(Rows)
  BY <1>3
<1>6. QED BY <1>3, <1>4, <1>5

-----------------------------------------------------------------------------
(* Who holds what inside Submit; the rest of the ownership argument. *)
Holding ==
  \A p \in Producers :
    /\ ppc[p] = "idle" <=> held[p] = NoOne
    /\ held[p] # NoOne => data[held[p]].kind \in Kinds /\ data[held[p]].by = p

Ownership == TypeOK /\ Holding /\ OneOwner /\ Custody

LEMMA OwnershipInit == Init => Ownership
<1> SUFFICES ASSUME Init PROVE Ownership
  OBVIOUS
<1> USE RouterAssumption
<1>1. TypeOK
  BY DEF Init, TypeOK, Blank, Kinds
<1>2. Holding /\ OneOwner
  BY DEF Init, Holding, OneOwner
<1>3. Custody
  BY DEF Init, Custody
<1>4. QED BY <1>1, <1>2, <1>3 DEF Ownership

LEMMA TypeNext == ASSUME Ownership, [Next]_vars PROVE TypeOK'
<1> USE RouterAssumption DEF Ownership
<1>1. ASSUME NEW p \in Producers, Prepare(p) PROVE TypeOK'
  BY <1>1 DEF TypeOK, Prepare, GetEvent, workerVars, ownerVars, Kinds
<1>2. ASSUME NEW p \in Producers, Submit(p) PROVE TypeOK'
  <2>1. ppc[p] # "idle" /\ held[p] \in Objects /\ data[held[p]].kind \in Kinds
    BY <1>2 DEF TypeOK, Holding, Submit, CheckPressure, Send, Overflow
  <2>2. CASE Refuse(p)
    BY <2>1, <2>2 DEF TypeOK, Refuse, PutEvent, Blank, workerVars, ownerVars
  <2>3. CASE CheckPressure(p) /\ ~Refuse(p)
    BY <2>1, <2>3 DEF TypeOK, CheckPressure, workerVars, ownerVars
  <2>4. CASE Send(p)
    BY <2>1, <2>4 DEF TypeOK, Send, workerVars, ownerVars
  <2>5. QED BY <1>2, <2>2, <2>3, <2>4 DEF Submit, Overflow
<1>3. CASE Receive
  BY <1>3 DEF TypeOK, Receive, producerVars, ownerVars
<1>4. CASE WriteEvent
  <2>1. batch # <<>> /\ Head(batch) \in Objects /\ Tail(batch) \in Seq(Objects)
    BY <1>4 DEF TypeOK, WriteEvent
  <2>2. PICK ins \in InsertRuns :
          /\ tx' = tx \o ins
          /\ lost' = lost \cup {r \in HeadRows : \A i \in DOMAIN ins : ins[i] # r}
    BY <1>4 DEF WriteEvent
  <2>3. tx' \in Seq(Rows) /\ lost' \subseteq Rows
    BY <2>1, <2>2, RunsTyped DEF TypeOK
  <2>4. QED BY <1>4, <2>1, <2>3 DEF TypeOK, WriteEvent, RecycleHead, PutEvent, Blank,
                                   producerVars, ownerVars
<1>5. CASE Commit
  <2>1. /\ db \in Seq(Rows) /\ db \o tx \in Seq(Rows)
        /\ {tx[i] : i \in DOMAIN tx} \subseteq Rows
    BY DEF TypeOK
  <2>2. db' \in Seq(Rows) /\ tx' \in Seq(Rows)
    <3>1. (db' = db \/ db' = db \o tx) /\ tx' = <<>>
      BY <1>5 DEF Commit
    <3>2. db' \in Seq(Rows)
      BY <2>1, <3>1
    <3>3. tx' \in Seq(Rows)
      BY <3>1
    <3>4. QED BY <3>2, <3>3
  <2>3. lost' \subseteq Rows
    BY <1>5, <2>1 DEF TypeOK, Commit
  <2>4. QED BY <1>5, <2>2, <2>3 DEF TypeOK, Commit, producerVars, ownerVars
<1>6. CASE DiscardEvent
  <2>1. batch # <<>> /\ Head(batch) \in Objects /\ Tail(batch) \in Seq(Objects)
    BY <1>6 DEF TypeOK, DiscardEvent
  <2>2. lost' \subseteq Rows
    BY <1>6, <2>1, RunsTyped DEF TypeOK, DiscardEvent
  <2>3. QED BY <1>6, <2>1, <2>2 DEF TypeOK, DiscardEvent, RecycleHead, PutEvent, Blank,
                                   producerVars, ownerVars
<1>7. CASE Turn
  BY <1>7 DEF TypeOK, Turn, Tick, SeeClosed, DrainEnd, Begin, DiscardEnd, Flush, producerVars, ownerVars
<1>8. CASE Owner
  BY <1>8 DEF TypeOK, Owner, Start, StopClose, StopWait, producerVars, workerVars
<1>9. CASE UNCHANGED vars
  BY <1>9 DEF TypeOK, vars, producerVars, workerVars, ownerVars
<1>10. QED
  BY <1>1, <1>2, <1>3, <1>4, <1>5, <1>6, <1>7, <1>8, <1>9 DEF Next, Worker

(* The object at the head of the batch is in nobody else's hands. *)
LEMMA HeadAlone ==
  ASSUME Ownership, batch # <<>>
  PROVE  /\ Head(batch) \in Objects
         /\ \A p \in Producers : held[p] # Head(batch)
         /\ \A i \in 2 .. Len(batch) : batch[i] # Head(batch)
         /\ \A i \in DOMAIN eventChan : eventChan[i] # Head(batch)
<1> USE RouterAssumption DEF Ownership
<1>1. Head(batch) \in Objects /\ Head(batch) = batch[1] /\ 1 \in DOMAIN batch
  BY DEF TypeOK
<1>2. data[Head(batch)].ticket = settled + 1
  BY <1>1 DEF Custody
<1>3. \A p \in Producers : held[p] # Head(batch)
  BY <1>1, <1>2 DEF OneOwner, TypeOK
<1>4. \A i \in 2 .. Len(batch) : batch[i] # Head(batch)
  <2>1. \A i \in 2 .. Len(batch) : data[batch[i]].ticket = settled + i
    BY DEF Custody, TypeOK
  <2>2. QED BY <1>2, <2>1 DEF TypeOK
<1>5. \A i \in DOMAIN eventChan : eventChan[i] # Head(batch)
  <2>1. \A i \in DOMAIN eventChan :
          i \in Nat \ {0} /\ data[eventChan[i]].ticket = settled + Len(batch) + i
    BY DEF Custody, TypeOK
  <2>2. Len(batch) \in Nat
    BY DEF TypeOK
  <2>3. QED BY <1>2, <2>1, <2>2 DEF TypeOK
<1>6. QED BY <1>1, <1>3, <1>4, <1>5

(* An object a producer holds is in nobody else's hands. *)
LEMMA HeldAlone ==
  ASSUME Ownership, NEW p \in Producers, ppc[p] # "idle"
  PROVE  /\ held[p] \in Objects /\ held[p] # NoOne
         /\ data[held[p]].kind \in Kinds /\ data[held[p]].by = p
         /\ \A i \in DOMAIN batch : batch[i] # held[p]
         /\ \A i \in DOMAIN eventChan : eventChan[i] # held[p]
<1> USE RouterAssumption DEF Ownership
<1>1. held[p] \in Objects /\ held[p] # NoOne /\ data[held[p]].ticket = 0
  BY DEF Holding, OneOwner, TypeOK
<1>2. QED BY <1>1 DEF Holding, Custody, TypeOK

(* Handing the head of the batch back to the pool keeps every object's owner unique. *)
LEMMA RecycleKeeps ==
  ASSUME Ownership, TypeOK', batch # <<>>, RecycleHead,
         UNCHANGED <<eventChan, accepted, producerVars>>
  PROVE  (Holding /\ OneOwner /\ Custody)'
<1> USE RouterAssumption DEF Ownership, RecycleHead, PutEvent, producerVars
<1>1. \A o \in Objects : o # Head(batch) => data'[o] = data[o]
  BY HeadAlone DEF TypeOK
<1>2. data'[Head(batch)] = Blank
  BY HeadAlone DEF TypeOK
<1>3. /\ Len(batch') = Len(batch) - 1 /\ DOMAIN batch' = 1 .. Len(batch) - 1
      /\ DOMAIN batch = 1 .. Len(batch)
      /\ \A i \in DOMAIN batch' : i + 1 \in DOMAIN batch /\ batch'[i] = batch[i + 1]
  BY DEF TypeOK
<1>4. Holding'
  BY <1>1, HeadAlone DEF Holding, TypeOK
<1>5. OneOwner'
  <2>1. \A o \in pool' : data'[o] = Blank
    BY <1>1, <1>2 DEF OneOwner, TypeOK
  <2>2. \A i \in DOMAIN eventChan : eventChan[i] \notin pool'
    BY HeadAlone DEF OneOwner
  <2>3. \A i \in DOMAIN batch' : batch'[i] \notin pool'
    BY <1>3, HeadAlone DEF OneOwner
  <2>4. \A p \in Producers : held[p] # NoOne =>
          /\ held[p] \notin pool' /\ data'[held[p]].ticket = 0
          /\ \A q \in Producers \ {p} : held[q] # held[p]
    BY <1>1, HeadAlone DEF OneOwner, TypeOK
  <2>5. QED BY <2>1, <2>2, <2>3, <2>4 DEF OneOwner
<1>6. Custody'
  <2>1. settled' + Len(batch') = settled + Len(batch)
    BY <1>3 DEF TypeOK
  <2>2. \A i \in DOMAIN batch' : /\ data'[batch'[i]] = data[batch[i + 1]]
                                 /\ settled' + i = settled + (i + 1)
    <3> SUFFICES ASSUME NEW i \in DOMAIN batch'
                 PROVE  /\ data'[batch'[i]] = data[batch[i + 1]]
                        /\ settled' + i = settled + (i + 1)
      OBVIOUS
    <3>0. Len(batch) \in Nat /\ batch \in Seq(Objects)
      BY DEF TypeOK
    <3>1. i \in Nat /\ i + 1 \in 2 .. Len(batch) /\ batch'[i] = batch[i + 1]
      BY <1>3, <3>0
    <3>2. batch[i + 1] \in Objects
      BY <1>3, <3>0
    <3>4. batch[i + 1] # Head(batch)
      BY <3>1, HeadAlone
    <3>5. settled' + i = settled + (i + 1)
      <4>1. settled \in Nat /\ settled' = settled + 1
        BY DEF TypeOK
      <4>2. QED BY <3>1, <4>1
    <3>6. QED BY <1>1, <3>1, <3>2, <3>4, <3>5
  <2>3. \A i \in DOMAIN batch' : /\ data'[batch'[i]].ticket = settled' + i
                                 /\ data'[batch'[i]].kind = accepted[settled' + i]
    BY <1>3, <2>2 DEF Custody
  <2>4. \A i \in DOMAIN eventChan : data'[eventChan[i]] = data[eventChan[i]]
    <3>1. \A i \in DOMAIN eventChan : eventChan[i] \in Objects
      BY DEF TypeOK
    <3>2. \A i \in DOMAIN eventChan : eventChan[i] # Head(batch)
      BY HeadAlone
    <3>3. QED BY <1>1, <3>1, <3>2
  <2>5. QED BY <2>1, <2>3, <2>4 DEF Custody
<1>7. QED BY <1>4, <1>5, <1>6

LEMMA OwnershipNext == ASSUME Ownership, [Next]_vars PROVE (Holding /\ OneOwner /\ Custody)'
<1> USE RouterAssumption DEF Ownership
<1>0. TypeOK'
  BY TypeNext
<1>1. ASSUME NEW p \in Producers, Prepare(p) PROVE (Holding /\ OneOwner /\ Custody)'
  <2>1. PICK o \in Objects, k \in Offered :
          /\ o \in pool /\ pool' = pool \ {o}
          /\ data' = [data EXCEPT ![o] = [kind |-> k, by |-> p, ticket |-> 0]]
          /\ held' = [held EXCEPT ![p] = o]
    BY <1>1 DEF Prepare, GetEvent
  <2>2. /\ \A q \in Producers : held[q] # o
        /\ held[p] = NoOne
        /\ \A i \in DOMAIN batch : batch[i] # o
        /\ \A i \in DOMAIN eventChan : eventChan[i] # o
    BY <1>1, <2>1 DEF OneOwner, Holding, Prepare
  <2>3. Holding'
    BY <1>1, <2>1, <2>2 DEF Holding, Prepare, TypeOK
  <2>4. OneOwner'
    BY <1>1, <2>1, <2>2 DEF OneOwner, Prepare, TypeOK, workerVars
  <2>5. Custody'
    BY <1>1, <2>1, <2>2 DEF Custody, Prepare, TypeOK, workerVars
  <2>6. QED BY <2>3, <2>4, <2>5
<1>2. ASSUME NEW p \in Producers, Submit(p) PROVE (Holding /\ OneOwner /\ Custody)'
  <2>1. ppc[p] # "idle"
    BY <1>2 DEF Submit, CheckPressure, Send, Overflow
  <2>2. CASE Refuse(p)
    <3>1. Holding'
      BY <2>1, <2>2, HeldAlone DEF Holding, OneOwner, Refuse, PutEvent, TypeOK
    <3>2. OneOwner'
      BY <2>1, <2>2, HeldAlone DEF OneOwner, Refuse, PutEvent, TypeOK, workerVars
    <3>3. Custody'
      BY <2>1, <2>2, HeldAlone DEF Custody, Refuse, PutEvent, TypeOK, workerVars
    <3>4. QED BY <3>1, <3>2, <3>3
  <2>3. CASE CheckPressure(p) /\ ~Refuse(p)
    <3>1. /\ UNCHANGED <<pool, data, held, eventChan, accepted, batch, settled>>
          /\ ppc' = [ppc EXCEPT ![p] = "send"]
      BY <2>3 DEF CheckPressure, workerVars
    <3>2. Holding' /\ OneOwner'
      BY <2>1, <3>1 DEF Holding, OneOwner, TypeOK
    <3>3. Custody'
      BY <3>1 DEF Custody
    <3>4. QED BY <3>2, <3>3
  <2>4. CASE Send(p)
    <3>1. Holding'
      BY <2>1, <2>4, HeldAlone DEF Holding, OneOwner, Send, TypeOK
    <3>2. OneOwner'
      BY <2>1, <2>4, HeldAlone DEF OneOwner, Send, TypeOK, workerVars
    <3>3. Custody'
      <4>1. /\ eventChan' = Append(eventChan, held[p]) /\ batch' = batch /\ settled' = settled
            /\ accepted' = Append(accepted, data[held[p]].kind)
            /\ held[p] \in Objects /\ data[held[p]].kind \in Kinds
        BY <2>1, <2>4, HeldAlone DEF Send, workerVars
      <4>2. /\ data'[held[p]].ticket = Len(accepted) + 1
            /\ data'[held[p]].kind = data[held[p]].kind
            /\ \A o \in Objects : o # held[p] => data'[o] = data[o]
        BY <2>4, <4>1 DEF Send, TypeOK
      <4>3. /\ \A i \in DOMAIN batch : data'[batch[i]] = data[batch[i]]
            /\ \A i \in DOMAIN eventChan : data'[eventChan[i]] = data[eventChan[i]]
        BY <2>1, <4>2, HeldAlone DEF TypeOK
      <4>4. /\ Len(accepted') = Len(accepted) + 1 /\ Len(eventChan') = Len(eventChan) + 1
            /\ \A i \in 1 .. Len(accepted) : accepted'[i] = accepted[i]
            /\ accepted'[Len(accepted) + 1] = data[held[p]].kind
            /\ \A i \in 1 .. Len(eventChan) : eventChan'[i] = eventChan[i]
            /\ eventChan'[Len(eventChan) + 1] = held[p]
            /\ DOMAIN eventChan' = 1 .. Len(eventChan) + 1
            /\ DOMAIN eventChan = 1 .. Len(eventChan) /\ DOMAIN batch = 1 .. Len(batch)
        BY <4>1 DEF TypeOK
      <4>5. settled' + Len(batch') + Len(eventChan') = Len(accepted')
        <5>1. settled + Len(batch) + Len(eventChan) = Len(accepted)
          BY DEF Custody
        <5>2. /\ settled' = settled /\ Len(batch') = Len(batch)
              /\ Len(accepted') = Len(accepted) + 1 /\ Len(eventChan') = Len(eventChan) + 1
          BY <4>1, <4>4
        <5>3. /\ settled \in Nat /\ Len(batch) \in Nat /\ Len(eventChan) \in Nat
              /\ Len(accepted) \in Nat
          BY DEF TypeOK
        <5>4. QED BY <5>1, <5>2, <5>3
      <4>6. \A i \in DOMAIN batch' : /\ data'[batch'[i]].ticket = settled' + i
                                     /\ data'[batch'[i]].kind = accepted'[settled' + i]
        BY <4>1, <4>3, <4>4 DEF Custody, TypeOK
      <4>7. \A i \in DOMAIN eventChan' :
              /\ data'[eventChan'[i]].ticket = settled' + Len(batch') + i
              /\ data'[eventChan'[i]].kind = accepted'[settled' + Len(batch') + i]
        <5> SUFFICES ASSUME NEW i \in DOMAIN eventChan'
                     PROVE  /\ data'[eventChan'[i]].ticket = settled' + Len(batch') + i
                            /\ data'[eventChan'[i]].kind = accepted'[settled' + Len(batch') + i]
          OBVIOUS
        <5>1. settled + Len(batch) + Len(eventChan) = Len(accepted)
          BY DEF Custody
        <5>2. CASE i = Len(eventChan) + 1
          <6>1. settled' + Len(batch') + i = Len(accepted) + 1
            <7>1. settled' = settled /\ Len(batch') = Len(batch)
              BY <4>1
            <7>2. settled \in Nat /\ Len(batch) \in Nat /\ Len(eventChan) \in Nat
              BY DEF TypeOK
            <7>3. QED BY <5>1, <5>2, <7>1, <7>2
          <6>2. eventChan'[i] = held[p]
            BY <4>4, <5>2
          <6>3. QED BY <4>2, <4>4, <6>1, <6>2
        <5>3. CASE i \in 1 .. Len(eventChan)
          <6>1. settled + Len(batch) + i \in 1 .. Len(accepted)
            BY <5>1, <5>3 DEF TypeOK
          <6>2. accepted'[settled + Len(batch) + i] = accepted[settled + Len(batch) + i]
            BY <4>4, <6>1
          <6>3. data'[eventChan'[i]] = data[eventChan[i]] /\ i \in DOMAIN eventChan
            BY <4>3, <4>4, <5>3
          <6>4. QED BY <4>1, <6>2, <6>3 DEF Custody
        <5>4. i \in 1 .. Len(eventChan) + 1 /\ Len(eventChan) \in Nat
          BY <4>4 DEF TypeOK
        <5>5. QED BY <5>2, <5>3, <5>4
      <4>8. QED BY <4>5, <4>6, <4>7 DEF Custody
    <3>4. QED BY <3>1, <3>2, <3>3
  <2>5. QED BY <1>2, <2>2, <2>3, <2>4 DEF Submit, Overflow
<1>3. CASE Receive
  <2>1. /\ eventChan # <<>> /\ batch' = Append(batch, Head(eventChan))
        /\ eventChan' = Tail(eventChan)
        /\ UNCHANGED <<pool, data, held, ppc, accepted, settled>>
    BY <1>3 DEF Receive, producerVars
  <2>2. /\ Len(batch') = Len(batch) + 1 /\ Len(eventChan') = Len(eventChan) - 1
        /\ DOMAIN batch = 1 .. Len(batch) /\ DOMAIN batch' = 1 .. Len(batch) + 1
        /\ DOMAIN eventChan = 1 .. Len(eventChan)
        /\ DOMAIN eventChan' = 1 .. Len(eventChan) - 1
        /\ \A i \in 1 .. Len(batch) : batch'[i] = batch[i]
        /\ batch'[Len(batch) + 1] = eventChan[1]
        /\ \A i \in 1 .. Len(eventChan) - 1 : eventChan'[i] = eventChan[i + 1]
        /\ Len(batch) \in Nat /\ Len(eventChan) \in Nat \ {0}
    BY <2>1 DEF TypeOK
  <2>3. Holding'
    BY <2>1 DEF Holding
  <2>4. OneOwner'
    <3>1. \A i \in DOMAIN eventChan' : eventChan'[i] \notin pool
      BY <2>2 DEF OneOwner
    <3>2. \A i \in DOMAIN batch' : batch'[i] \notin pool
      BY <2>2 DEF OneOwner
    <3>3. QED BY <2>1, <3>1, <3>2 DEF OneOwner
  <2>5. Custody'
    <3>0. settled \in Nat /\ Len(accepted) \in Nat
      BY DEF TypeOK
    <3>1. settled + Len(batch') + Len(eventChan') = Len(accepted)
      <4>1. settled + Len(batch) + Len(eventChan) = Len(accepted)
        BY DEF Custody
      <4>2. /\ Len(batch') = Len(batch) + 1 /\ Len(eventChan') = Len(eventChan) - 1
            /\ Len(batch) \in Nat /\ Len(eventChan) \in Nat
        BY <2>2
      <4>3. QED BY <3>0, <4>1, <4>2
    <3>2. ASSUME NEW i \in DOMAIN batch'
          PROVE  /\ data[batch'[i]].ticket = settled + i
                 /\ data[batch'[i]].kind = accepted[settled + i]
      <4>1. CASE i \in 1 .. Len(batch)
        BY <2>2, <4>1 DEF Custody
      <4>2. CASE i = Len(batch) + 1
        <5>1. settled + i = settled + Len(batch) + 1 /\ 1 \in DOMAIN eventChan
          BY <2>2, <3>0, <4>2
        <5>2. batch'[i] = eventChan[1]
          BY <2>2, <4>2
        <5>3. QED BY <5>1, <5>2 DEF Custody
      <4>3. QED BY <2>2, <4>1, <4>2
    <3>3. ASSUME NEW i \in DOMAIN eventChan'
          PROVE  /\ data[eventChan'[i]].ticket = settled + Len(batch') + i
                 /\ data[eventChan'[i]].kind = accepted[settled + Len(batch') + i]
      <4>1. /\ settled + Len(batch') + i = settled + Len(batch) + (i + 1)
            /\ i + 1 \in DOMAIN eventChan
        BY <2>2, <3>0
      <4>2. eventChan'[i] = eventChan[i + 1]
        BY <2>2
      <4>3. QED BY <4>1, <4>2 DEF Custody
    <3>4. QED BY <2>1, <3>1, <3>2, <3>3 DEF Custody
  <2>6. QED BY <2>3, <2>4, <2>5
<1>4. CASE WriteEvent
  BY <1>0, <1>4, RecycleKeeps DEF WriteEvent
<1>5. CASE Commit
  BY <1>5 DEF Holding, OneOwner, Custody, Commit, producerVars
<1>6. CASE DiscardEvent
  BY <1>0, <1>6, RecycleKeeps DEF DiscardEvent
<1>7. CASE Turn
  BY <1>7 DEF Holding, OneOwner, Custody, Turn, Tick, SeeClosed, DrainEnd, Begin, DiscardEnd,
              Flush, producerVars
<1>8. CASE Owner
  <2>1. UNCHANGED <<pool, data, held, ppc, eventChan, accepted, batch, settled>>
    BY <1>8 DEF Owner, Start, StopClose, StopWait, producerVars, workerVars
  <2>2. QED BY <2>1 DEF Holding, OneOwner, Custody
<1>9. CASE UNCHANGED vars
  BY <1>9 DEF Holding, OneOwner, Custody, vars, producerVars, workerVars
<1>10. QED
  BY <1>1, <1>2, <1>3, <1>4, <1>5, <1>6, <1>7, <1>8, <1>9 DEF Next, Worker

(* Every pointer has one owner, and what is between Submit and flushBatch is the *)
(* accepted events in order: in every behaviour of the router.                   *)
THEOREM RouterOwnership == Spec => []Ownership
<1>1. Ownership /\ [Next]_vars => Ownership'
  BY TypeNext, OwnershipNext DEF Ownership
<1>2. QED BY OwnershipInit, <1>1, PTL DEF Spec

(* The type invariant of the router. *)
THEOREM RouterTypeOK == Spec => []TypeOK
BY RouterOwnership, PTL DEF Ownership

(* No Event object is shared: the pool, the producers, the channel and the batch *)
(* never hold the same pointer.                                                  *)
THEOREM RouterOneOwner == Spec => []OneOwner
BY RouterOwnership, PTL DEF Ownership

(* Nothing accepted vanishes, doubles or overtakes on its way to flushBatch. *)
THEOREM RouterCustody == Spec => []Custody
BY RouterOwnership, PTL DEF Ownership
-----------------------------------------------------------------------------
(* What the router does with the events it accepts and refuses: accounting, *)
(* triage, drain on Stop, and the fate of every row.                          *)

Busy == {p \in Producers : ppc[p] # "idle"}

LEMMA AccountingInit == Init => Accounting
<1> SUFFICES ASSUME Init PROVE Accounting
  OBVIOUS
<1>1. Busy = {}
  BY DEF Init, Busy
<1>2. Cardinality(Busy) = 0
  BY <1>1, FS_EmptySet
<1>3. QED BY <1>2 DEF Init, Accounting, Busy

LEMMA BusyCount ==
  ASSUME Ownership, Ownership', NEW p \in Producers
  PROVE  /\ Cardinality(Busy) \in Nat
         /\ (ppc[p] = "idle" /\ Busy' = Busy \cup {p}) =>
                Cardinality(Busy') = Cardinality(Busy) + 1
         /\ (ppc[p] # "idle" /\ Busy' = Busy \ {p}) =>
                Cardinality(Busy') = Cardinality(Busy) - 1
<1>1. IsFiniteSet(Busy)
  BY RouterAssumption, FS_Subset DEF Busy
<1>2. Cardinality(Busy) \in Nat
  BY <1>1, FS_CardinalityType
<1>3. ppc[p] = "idle" => Cardinality(Busy \cup {p}) = Cardinality(Busy) + 1
  BY <1>1, FS_AddElement DEF Busy
<1>4. ppc[p] # "idle" => Cardinality(Busy \ {p}) = Cardinality(Busy) - 1
  BY <1>1, FS_RemoveElement DEF Busy
<1>5. QED BY <1>2, <1>3, <1>4

LEMMA AccountingNext == ASSUME Ownership, Ownership', Accounting, [Next]_vars PROVE Accounting'
<1>0. /\ offers \in Nat /\ dropped \in Nat /\ Len(accepted) \in Nat
      /\ ppc \in [Producers -> {"idle", "check", "send"}]
      /\ offers = Len(accepted) + dropped + Cardinality(Busy)
  <2>1. TypeOK
    BY DEF Ownership
  <2>2. /\ offers \in Nat /\ dropped \in Nat /\ accepted \in Seq(Kinds)
        /\ ppc \in [Producers -> {"idle", "check", "send"}]
    BY <2>1 DEF TypeOK
  <2>3. Len(accepted) \in Nat
    BY <2>2, LenProperties
  <2>4. offers = Len(accepted) + dropped + Cardinality(Busy)
    BY DEF Accounting, Busy
  <2>5. QED BY <2>2, <2>3, <2>4
<1>1. ASSUME NEW p \in Producers, Prepare(p) PROVE Accounting'
  <2>1. /\ ppc[p] = "idle" /\ Busy' = Busy \cup {p}
        /\ offers' = offers + 1 /\ UNCHANGED <<dropped, accepted>>
    BY <1>0, <1>1 DEF Prepare, Busy
  <2>2. Cardinality(Busy') = Cardinality(Busy) + 1 /\ Cardinality(Busy) \in Nat
    BY <2>1, BusyCount
  <2>3. QED BY <1>0, <2>1, <2>2 DEF Accounting, Busy
<1>2. ASSUME NEW p \in Producers, Submit(p) PROVE Accounting'
  <2>1. CASE Refuse(p)
    <3>1. /\ ppc[p] # "idle" /\ Busy' = Busy \ {p}
          /\ dropped' = dropped + 1 /\ UNCHANGED <<offers, accepted>>
      BY <1>0, <1>2, <2>1 DEF Submit, CheckPressure, Send, Overflow, Refuse, Busy
    <3>2. Cardinality(Busy') = Cardinality(Busy) - 1 /\ Cardinality(Busy) \in Nat
      BY <3>1, BusyCount
    <3>3. QED BY <1>0, <3>1, <3>2 DEF Accounting, Busy
  <2>2. CASE CheckPressure(p) /\ ~Refuse(p)
    <3>1. Busy' = Busy /\ UNCHANGED <<offers, dropped, accepted>>
      BY <1>0, <2>2 DEF CheckPressure, Busy
    <3>2. QED BY <1>0, <3>1 DEF Accounting, Busy
  <2>3. CASE Send(p)
    <3>1. /\ ppc[p] # "idle" /\ Busy' = Busy \ {p}
          /\ Len(accepted') = Len(accepted) + 1 /\ UNCHANGED <<offers, dropped>>
      <4>1. ppc[p] = "send" /\ ppc' = [ppc EXCEPT ![p] = "idle"] /\ UNCHANGED <<offers, dropped>>
        BY <2>3 DEF Send
      <4>2. Busy' = Busy \ {p}
        BY <1>0, <4>1 DEF Busy
      <4>3. accepted' = Append(accepted, data[held[p]].kind)
        BY <2>3 DEF Send
      <4>4. accepted \in Seq(Kinds) /\ data[held[p]].kind \in Kinds
        BY <4>1, HeldAlone DEF Ownership, TypeOK
      <4>5. Len(accepted') = Len(accepted) + 1
        BY <4>3, <4>4
      <4>6. QED BY <4>1, <4>2, <4>5
    <3>2. Cardinality(Busy') = Cardinality(Busy) - 1 /\ Cardinality(Busy) \in Nat
      BY <3>1, BusyCount
    <3>3. QED BY <1>0, <3>1, <3>2 DEF Accounting, Busy
  <2>4. QED BY <1>2, <2>1, <2>2, <2>3 DEF Submit, Overflow
<1>3. ASSUME Worker \/ Owner \/ UNCHANGED vars PROVE Accounting'
  <2>1. UNCHANGED <<offers, dropped, accepted, ppc>>
    BY <1>3 DEF Worker, Receive, Turn, WriteEvent, Commit, DiscardEvent, Owner, Start, StopClose, StopWait, vars, producerVars
  <2>2. QED BY <2>1 DEF Accounting
<1>4. QED BY <1>1, <1>2, <1>3 DEF Next

(* DroppedCount is exact: what was offered was accepted, dropped or is in Submit. *)
THEOREM RouterAccounting == Spec => []Accounting
<1>1. Ownership /\ Ownership' /\ Accounting /\ [Next]_vars => Accounting'
  BY AccountingNext
<1>2. QED BY AccountingInit, <1>1, RouterOwnership, PTL DEF Spec

-----------------------------------------------------------------------------
(* A producer about to send a file read has none above the watermark: it saw the *)
(* queue below it, and only its own sends could have put one there since.        *)
PendingRead(p) == ppc[p] = "send" /\ data[held[p]].kind = "read"

Triage == TriageReserve /\ \A p \in Producers : PendingRead(p) => TopReads(p) = {}

LEMMA WatermarkType == Watermark \in Nat
<1>1. Percent \in Nat /\ Capacity \in Nat
  BY RouterAssumption
<1>2. Percent * Capacity \in Nat
  BY <1>1
<1>3. \A n \in Nat : n \div 100 \in Nat
  OBVIOUS
<1>4. QED BY <1>2, <1>3 DEF Watermark

LEMMA TopReadsKept ==
  ASSUME Ownership, UNCHANGED eventChan,
         \A i \in DOMAIN eventChan : data'[eventChan[i]] = data[eventChan[i]]
  PROVE  \A q \in Producers : TopReads(q)' = TopReads(q)
<1>1. Watermark \in Nat /\ Watermark' = Watermark
  BY WatermarkType DEF Watermark
<1>2. DOMAIN eventChan = 1 .. Len(eventChan) /\ Len(eventChan) \in Nat
  BY DEF Ownership, TypeOK
<1>3. \A i \in Watermark + 1 .. Len(eventChan) : i \in DOMAIN eventChan
  BY <1>1, <1>2
<1>4. QED BY <1>1, <1>3 DEF TopReads

LEMMA TriageInit == Init => Triage
BY WatermarkType DEF Init, Triage, TriageReserve, TopReads, PendingRead

LEMMA TriageNext == ASSUME Ownership, Ownership', Triage, [Next]_vars PROVE Triage'
<1>0. Watermark \in Nat /\ Len(eventChan) \in Nat /\ Watermark' = Watermark
  BY WatermarkType DEF Watermark, Ownership, TypeOK
<1>1. ASSUME NEW p \in Producers, Prepare(p) PROVE Triage'
  <2>1. \A i \in DOMAIN eventChan : data'[eventChan[i]] = data[eventChan[i]]
    BY <1>1 DEF Prepare, GetEvent, Ownership, OneOwner, TypeOK
  <2>2. \A q \in Producers : TopReads(q)' = TopReads(q)
    BY <1>1, <2>1, TopReadsKept DEF Prepare
  <2>3. \A q \in Producers : PendingRead(q)' => PendingRead(q)
    BY <1>1 DEF PendingRead, Prepare, GetEvent, Ownership, TypeOK, Holding, OneOwner
  <2>4. QED BY <2>2, <2>3 DEF Triage, TriageReserve
<1>2. ASSUME NEW p \in Producers, Submit(p) PROVE Triage'
  <2>1. ppc[p] # "idle"
    BY <1>2 DEF Submit, CheckPressure, Send, Overflow
  <2>2. CASE Refuse(p)
    <3>1. \A i \in DOMAIN eventChan : data'[eventChan[i]] = data[eventChan[i]]
      BY <2>1, <2>2, HeldAlone DEF Refuse, PutEvent, Ownership, TypeOK
    <3>2. \A q \in Producers : TopReads(q)' = TopReads(q)
      BY <2>2, <3>1, TopReadsKept DEF Refuse
    <3>3. \A q \in Producers : PendingRead(q)' => PendingRead(q)
      BY <2>1, <2>2, HeldAlone DEF PendingRead, Refuse, PutEvent, Blank, Ownership, TypeOK, Holding, OneOwner
    <3>4. QED BY <3>2, <3>3 DEF Triage, TriageReserve
  <2>3. CASE CheckPressure(p) /\ ~Refuse(p)
    <3>1. \A q \in Producers : TopReads(q)' = TopReads(q)
      BY <1>0, <2>3 DEF TopReads, CheckPressure
    <3>2. \A q \in Producers \ {p} : PendingRead(q)' => PendingRead(q)
      BY <2>3 DEF PendingRead, CheckPressure, Ownership, TypeOK
    <3>3. PendingRead(p)' => TopReads(p) = {}
      <4>1. PendingRead(p)' => data[held[p]].kind = "read"
        BY <2>3 DEF PendingRead, CheckPressure
      <4>2. ~Triaged(p)
        BY <2>3 DEF CheckPressure
      <4>3. PendingRead(p)' => Len(eventChan) < Watermark
        BY <1>0, <4>1, <4>2 DEF Triaged
      <4>4. Len(eventChan) < Watermark => Watermark + 1 .. Len(eventChan) = {}
        BY <1>0
      <4>5. QED BY <4>3, <4>4 DEF TopReads
    <3>4. QED BY <3>1, <3>2, <3>3 DEF Triage, TriageReserve
  <2>4. CASE Send(p)
    <3>1. /\ eventChan' = Append(eventChan, held[p]) /\ held[p] \in Objects
          /\ ppc[p] = "send" /\ ppc'[p] = "idle"
      BY <2>4, HeldAlone, <2>1 DEF Send, Ownership, TypeOK
    <3>2. /\ \A i \in 1 .. Len(eventChan) :
               eventChan'[i] = eventChan[i] /\ data'[eventChan[i]] = data[eventChan[i]]
          /\ eventChan'[Len(eventChan) + 1] = held[p]
          /\ Len(eventChan') = Len(eventChan) + 1
      <4>0. /\ eventChan \in Seq(Objects) /\ DOMAIN eventChan = 1 .. Len(eventChan)
            /\ DOMAIN data = Objects
        BY DEF Ownership, TypeOK
      <4>1. \A i \in 1 .. Len(eventChan) : eventChan[i] # held[p] /\ eventChan[i] \in Objects
        <5>1. \A i \in DOMAIN eventChan : eventChan[i] # held[p]
          BY <2>1, HeldAlone
        <5>2. QED BY <4>0, <5>1
      <4>2. \A i \in 1 .. Len(eventChan) : data'[eventChan[i]] = data[eventChan[i]]
        <5>1. \A o \in Objects : o # held[p] => data'[o] = data[o]
          BY <2>4, <4>0 DEF Send
        <5>2. QED BY <4>1, <5>1
      <4>3. QED BY <3>1, <4>0, <4>2
    <3>3. /\ data'[held[p]].kind = data[held[p]].kind /\ data'[held[p]].by = p
      BY <2>1, <2>4, HeldAlone DEF Send, Ownership, TypeOK
    <3>4. \A q \in Producers \ {p} : TopReads(q)' = TopReads(q)
      BY <1>0, <3>2, <3>3 DEF TopReads
    <3>5. \A q \in Producers \ {p} : PendingRead(q)' => PendingRead(q)
      BY <2>1, <2>4, HeldAlone DEF PendingRead, Send, Ownership, TypeOK, Holding, OneOwner
    <3>6. \A i, j \in TopReads(p)' : i = j
      <4>1. CASE data[held[p]].kind = "read"
        <5>1. TopReads(p) = {}
          BY <3>1, <4>1 DEF Triage, PendingRead
        <5>2. TopReads(p)' \subseteq {Len(eventChan) + 1}
          BY <1>0, <3>2, <5>1 DEF TopReads
        <5>3. QED BY <5>2
      <4>2. CASE data[held[p]].kind # "read"
        <5>1. TopReads(p)' = TopReads(p)
          BY <1>0, <3>2, <3>3, <4>2 DEF TopReads
        <5>2. QED BY <5>1 DEF Triage, TriageReserve
      <4>3. QED BY <4>1, <4>2
    <3>7. QED BY <3>1, <3>4, <3>5, <3>6 DEF Triage, TriageReserve, PendingRead
  <2>5. QED BY <1>2, <2>2, <2>3, <2>4 DEF Submit, Overflow
<1>3. CASE Receive
  <2>1. /\ UNCHANGED <<data, ppc, held>>
        /\ Len(eventChan) \in Nat \ {0} /\ Len(eventChan') = Len(eventChan) - 1
        /\ \A i \in 1 .. Len(eventChan) - 1 : eventChan'[i] = eventChan[i + 1]
    BY <1>3 DEF Receive, producerVars, Ownership, TypeOK
  <2>2. \A q \in Producers : \A i \in TopReads(q)' : i \in Nat /\ i + 1 \in TopReads(q)
    BY <1>0, <2>1 DEF TopReads
  <2>3. QED BY <2>1, <2>2 DEF Triage, TriageReserve, PendingRead
<1>4. CASE WriteEvent \/ DiscardEvent
  <2>1. /\ batch # <<>> /\ RecycleHead /\ UNCHANGED <<eventChan, ppc, held>>
    BY <1>4 DEF WriteEvent, DiscardEvent, producerVars
  <2>2. \A i \in DOMAIN eventChan : data'[eventChan[i]] = data[eventChan[i]]
    <3>1. \A i \in DOMAIN eventChan : eventChan[i] \in Objects /\ eventChan[i] # Head(batch)
      <4>1. \A i \in DOMAIN eventChan : eventChan[i] \in Objects
        BY DEF Ownership, TypeOK
      <4>2. QED BY <2>1, <4>1, HeadAlone
    <3>2. data' = [data EXCEPT ![Head(batch)] = Blank]
      BY <2>1 DEF RecycleHead, PutEvent
    <3>3. QED BY <3>1, <3>2 DEF Ownership, TypeOK
  <2>3. \A q \in Producers : TopReads(q)' = TopReads(q)
    BY <2>1, <2>2, TopReadsKept
  <2>4. \A q \in Producers : PendingRead(q)' => PendingRead(q)
    <3> SUFFICES ASSUME NEW q \in Producers, PendingRead(q)' PROVE PendingRead(q)
      OBVIOUS
    <3>1. data' = [data EXCEPT ![Head(batch)] = Blank] /\ DOMAIN data = Objects
      BY <2>1 DEF RecycleHead, PutEvent, Ownership, TypeOK
    <3>2. ppc[q] = "send" /\ data'[held[q]].kind = "read"
      BY <2>1 DEF PendingRead
    <3>3. held[q] \in Objects
      BY <3>2, HeldAlone
    <3>4. held[q] # Head(batch)
      BY <2>1, HeadAlone
    <3>5. data'[held[q]] = data[held[q]]
      BY <3>1, <3>3, <3>4
    <3>6. QED BY <3>2, <3>5 DEF PendingRead
  <2>5. QED BY <2>3, <2>4 DEF Triage, TriageReserve
<1>5. ASSUME Turn \/ Commit \/ Owner
             \/ UNCHANGED vars
      PROVE  Triage'
  <2>1. UNCHANGED <<eventChan, data, ppc, held>>
    BY <1>5 DEF Turn, Commit, Owner, Start, StopClose,
                StopWait, vars, producerVars
  <2>2. \A q \in Producers : TopReads(q)' = TopReads(q) /\ PendingRead(q)' = PendingRead(q)
    BY <1>0, <2>1 DEF TopReads, PendingRead
  <2>3. QED BY <2>2 DEF Triage, TriageReserve
<1>6. QED BY <1>1, <1>2, <1>3, <1>4, <1>5 DEF Next, Worker

(* Whatever the interleaving of Submit's check and send, a producer has at most one *)
(* file read queued above the watermark.                                            *)
THEOREM RouterTriage == Spec => []TriageReserve
<1>1. Ownership /\ Ownership' /\ Triage /\ [Next]_vars => Triage'
  BY TriageNext
<1>2. Triage => TriageReserve
  BY DEF Triage
<1>3. QED BY TriageInit, <1>1, <1>2, RouterOwnership, PTL DEF Spec

-----------------------------------------------------------------------------
(* How far the worker is with its batch and with the drain that Stop waits for. *)
Flushing == wpc \in {"begin", "write", "discard"}

Phases ==
  /\ owner = "new" => wpc = "off"
  /\ decided <= settled
  /\ wpc # "write" => tx = <<>> /\ decided = settled
  /\ closedAt <= Len(accepted)
  /\ wpc \in {"drain", "done"} => Closed
  /\ Flushing /\ resume \in {"drain", "done"} => Closed
  /\ Flushing /\ resume = "done" => settled + Len(batch) >= closedAt
  /\ wpc = "done" => batch = <<>> /\ settled >= closedAt

LEMMA PhasesInit == Init => Phases
BY DEF Init, Phases, Flushing

LEMMA PhasesNext == ASSUME Ownership, Ownership', Phases, [Next]_vars PROVE Phases'
<1>0. /\ settled \in Nat /\ decided \in Nat /\ closedAt \in Nat
      /\ Len(batch) \in Nat /\ Len(eventChan) \in Nat /\ Len(accepted) \in Nat
      /\ settled + Len(batch) + Len(eventChan) = Len(accepted)
  <2>1. TypeOK /\ Custody
    BY DEF Ownership
  <2>2. /\ settled \in Nat /\ decided \in Nat /\ closedAt \in Nat
        /\ batch \in Seq(Objects) /\ eventChan \in Seq(Objects) /\ accepted \in Seq(Kinds)
    BY <2>1 DEF TypeOK
  <2>3. settled + Len(batch) + Len(eventChan) = Len(accepted)
    BY <2>1 DEF Custody
  <2>4. Len(batch) \in Nat /\ Len(eventChan) \in Nat /\ Len(accepted) \in Nat
    BY <2>2, LenProperties
  <2>5. QED BY <2>2, <2>3, <2>4
<1>1. ASSUME NEW p \in Producers, Prepare(p) \/ Submit(p) PROVE Phases'
  <2>1. UNCHANGED <<workerVars, ownerVars>>
    BY <1>1 DEF Prepare, Submit, CheckPressure, Refuse, Send, Overflow
  <2>2. Len(accepted') >= Len(accepted)
    <3>1. \/ accepted' = accepted
          \/ \E k \in Kinds : accepted' = Append(accepted, k)
      BY <1>1, HeldAlone DEF Prepare, Submit, CheckPressure, Refuse, Send, Overflow
    <3>2. accepted \in Seq(Kinds)
      BY DEF Ownership, TypeOK
    <3>3. ASSUME NEW k \in Kinds, accepted' = Append(accepted, k)
          PROVE  Len(accepted') = Len(accepted) + 1
      BY <3>2, <3>3
    <3>4. QED BY <1>0, <3>1, <3>3
  <2>3. closedAt' <= Len(accepted')
    BY <1>0, <2>1, <2>2 DEF Phases, ownerVars, Ownership, TypeOK
  <2>4. QED BY <2>1, <2>3 DEF Phases, Flushing, Closed, workerVars, ownerVars
<1>2. CASE Receive
  <2>1. /\ wpc \in {"select", "drain"} /\ Len(batch') = Len(batch) + 1
        /\ UNCHANGED <<accepted, tx, settled, decided, owner, closedAt>>
        /\ \/ wpc' = "begin" /\ resume' = wpc
           \/ wpc' = wpc
    BY <1>2 DEF Receive, ownerVars, Ownership, TypeOK
  <2>2. QED BY <1>0, <2>1 DEF Phases, Flushing, Closed
<1>3. CASE Turn /\ ~DrainEnd
  BY <1>0, <1>3 DEF Phases, Flushing, Closed, Turn, Tick, SeeClosed, Begin, DiscardEnd, Flush, ownerVars
<1>4. CASE Turn /\ DrainEnd
  <2>1. eventChan = <<>> /\ Len(eventChan) = 0
    BY <1>4 DEF DrainEnd
  <2>2. settled + Len(batch) >= closedAt
    BY <1>0, <2>1 DEF Phases
  <2>3. batch = <<>> => settled >= closedAt
    BY <1>0, <2>2
  <2>4. QED BY <1>0, <1>4, <2>2, <2>3 DEF Phases, Flushing, Closed, Turn, DrainEnd, Flush, ownerVars
<1>5. CASE WriteEvent
  <2>1. /\ wpc = "write" /\ wpc' = "write" /\ settled' = settled + 1
        /\ Len(batch') = Len(batch) - 1
        /\ UNCHANGED <<accepted, resume, decided, owner, closedAt>>
    BY <1>5 DEF WriteEvent, RecycleHead, ownerVars, Ownership, TypeOK
  <2>2. settled' + Len(batch') = settled + Len(batch)
    BY <1>0, <2>1
  <2>3. decided' <= settled' /\ closedAt' <= Len(accepted')
    BY <1>0, <2>1 DEF Phases
  <2>4. (Flushing /\ resume = "done" => settled + Len(batch) >= closedAt)'
    BY <2>1, <2>2 DEF Phases, Flushing
  <2>5. QED BY <2>1, <2>3, <2>4 DEF Phases, Flushing, Closed
<1>6. CASE Commit
  <2>1. /\ wpc = "write" /\ wpc' = resume /\ batch = <<>> /\ batch' = <<>> /\ tx' = <<>>
        /\ decided' = settled /\ UNCHANGED <<accepted, resume, settled, owner, closedAt>>
    BY <1>6 DEF Commit, ownerVars
  <2>2. Len(batch) = 0 /\ (resume = "done" => settled >= closedAt)
    BY <1>0, <2>1 DEF Phases, Flushing
  <2>3. resume \in {"select", "drain", "done"}
    BY DEF Ownership, TypeOK
  <2>4. QED BY <1>0, <2>1, <2>2, <2>3 DEF Phases, Flushing, Closed
<1>7. CASE DiscardEvent
  <2>1. /\ wpc = "discard" /\ wpc' = "discard" /\ settled' = settled + 1
        /\ decided' = decided + 1 /\ Len(batch') = Len(batch) - 1
        /\ UNCHANGED <<accepted, tx, resume, owner, closedAt>>
    BY <1>7 DEF DiscardEvent, RecycleHead, ownerVars, Ownership, TypeOK
  <2>2. settled' + Len(batch') = settled + Len(batch)
    BY <1>0, <2>1
  <2>3. QED BY <1>0, <2>1, <2>2 DEF Phases, Flushing, Closed
<1>8. CASE Owner
  <2>1. /\ UNCHANGED <<accepted, tx, settled, decided, resume, batch>>
        /\ \/ owner = "new" /\ owner' = "running" /\ wpc' = "select" /\ UNCHANGED closedAt
           \/ ~Closed /\ owner' = "closing" /\ closedAt' = Len(accepted) /\ UNCHANGED wpc
           \/ owner' = "stopped" /\ UNCHANGED <<wpc, closedAt>> /\ Closed
    BY <1>8 DEF Owner, Start, StopClose, StopWait, workerVars, Closed
  <2>2. CASE wpc' = "select"
    BY <1>0, <2>1, <2>2 DEF Phases, Flushing, Closed
  <2>3. CASE wpc' = wpc
    BY <1>0, <2>1, <2>3 DEF Phases, Flushing, Closed
  <2>4. QED BY <2>1, <2>2, <2>3
<1>9. CASE UNCHANGED vars
  BY <1>9 DEF Phases, Flushing, Closed, vars, workerVars, ownerVars
<1>10. QED
  BY <1>1, <1>2, <1>3, <1>4, <1>5, <1>6, <1>7, <1>8, <1>9 DEF Next, Worker

(* When the worker has returned, every event accepted before Stop closed the router *)
(* has been handled and no transaction is open.                                     *)
THEOREM RouterDrained == Spec => []DrainedOnStop
<1>1. Ownership /\ Ownership' /\ Phases /\ [Next]_vars => Phases'
  BY PhasesNext
<1>2. Phases => DrainedOnStop
  BY DEF Phases, DrainedOnStop
<1>3. QED BY PhasesInit, <1>1, <1>2, RouterOwnership, PTL DEF Spec

-----------------------------------------------------------------------------
(* The fate of the rows of the events handled and not decided yet: they are in the *)
(* open transaction, in the order of the events, or their loss has been logged.    *)
InTx(r) == \E i \in DOMAIN tx : tx[i] = r
InDb(r) == \E i \in DOMAIN db : db[i] = r

Pending == \A t \in decided + 1 .. settled : \A r \in RowsOf(t, accepted[t]) :
             r \in lost \/ InTx(r)

TxOrder ==
  /\ \A i \in DOMAIN tx : \E t \in decided + 1 .. settled : tx[i] \in RowsOf(t, accepted[t])
  /\ \A i, j \in DOMAIN tx : i < j => tx[i].ticket <= tx[j].ticket /\ tx[i] # tx[j]

Fates == StoredOrLogged /\ Pending /\ TxOrder

LEMMA FatesInit == Init => Fates
BY DEF Init, Fates, StoredOrLogged, Pending, TxOrder

(* Appending the rows of one more event after those of the earlier ones. *)
LEMMA HeadIsNext ==
  ASSUME Ownership, batch # <<>>
  PROVE  HeadRows = RowsOf(settled + 1, accepted[settled + 1])
<1>1. 1 \in DOMAIN batch /\ Head(batch) = batch[1]
  BY DEF Ownership, TypeOK
<1>2. /\ data[batch[1]].ticket = settled + 1
      /\ data[batch[1]].kind = accepted[settled + 1]
  BY <1>1 DEF Ownership, Custody
<1>3. QED BY <1>1, <1>2 DEF HeadRows

LEMMA RunsOrdered ==
  ASSUME Ownership, batch # <<>>, NEW ins \in InsertRuns
  PROVE  /\ \A i \in DOMAIN ins : ins[i] \in HeadRows /\ ins[i].ticket = settled + 1
         /\ \A i, j \in DOMAIN ins : i < j => ins[i] # ins[j]
<1>1. \A r \in HeadRows : r.ticket = settled + 1
  BY HeadIsNext DEF RowsOf
<1>2. ins \in Seq(HeadRows)
  BY RunsTyped DEF Ownership
<1>3. \A i, j \in DOMAIN ins : i < j => ins[i] # ins[j]
  <2>1. CASE ins = <<>>
    BY <2>1
  <2>2. ASSUME NEW r \in HeadRows, ins = <<r>>
        PROVE  \A i, j \in DOMAIN ins : i < j => ins[i] # ins[j]
    BY <2>2
  <2>3. ASSUME NEW a \in AlertRows, NEW r \in HeadRows \ AlertRows, ins = <<a, r>>
        PROVE  \A i, j \in DOMAIN ins : i < j => ins[i] # ins[j]
    BY <2>3
  <2>4. QED BY <2>1, <2>2, <2>3 DEF InsertRuns
<1>4. QED BY <1>1, <1>2, <1>3

LEMMA HowFar ==
  ASSUME Ownership
  PROVE  /\ settled \in Nat /\ decided \in Nat /\ Len(accepted) \in Nat
         /\ settled <= Len(accepted)
<1>1. /\ settled \in Nat /\ decided \in Nat /\ Len(accepted) \in Nat
      /\ Len(batch) \in Nat /\ Len(eventChan) \in Nat
  BY DEF Ownership, TypeOK
<1>2. settled + Len(batch) + Len(eventChan) = Len(accepted)
  BY DEF Ownership, Custody
<1>3. QED BY <1>1, <1>2

LEMMA FatesNext ==
  ASSUME Ownership, Ownership', Phases, Fates, [Next]_vars PROVE Fates'
<1>0. /\ settled \in Nat /\ decided \in Nat /\ decided <= settled
      /\ Len(accepted) \in Nat /\ settled <= Len(accepted)
  BY HowFar DEF Phases
<1>1. ASSUME NEW p \in Producers, Prepare(p) \/ Submit(p) PROVE Fates'
  <2>1. UNCHANGED <<settled, decided, lost, tx, db>>
    BY <1>1 DEF Prepare, Submit, CheckPressure, Refuse, Send, Overflow, workerVars
  <2>2. \A t \in 1 .. Len(accepted) : accepted'[t] = accepted[t]
    <3>1. \/ accepted' = accepted
          \/ \E k \in Kinds : accepted' = Append(accepted, k)
      BY <1>1, HeldAlone DEF Prepare, Submit, CheckPressure, Refuse, Send, Overflow
    <3>2. accepted \in Seq(Kinds)
      BY DEF Ownership, TypeOK
    <3>3. ASSUME NEW k \in Kinds, accepted' = Append(accepted, k)
          PROVE  \A t \in 1 .. Len(accepted) : accepted'[t] = accepted[t]
      BY <3>2, <3>3
    <3>4. QED BY <3>1, <3>3
  <2>3. \A t \in 1 .. settled : RowsOf(t, accepted[t])' = RowsOf(t, accepted[t])
    BY <1>0, <2>2 DEF RowsOf
  <2>4. \A t \in 1 .. decided : t \in 1 .. settled
    BY <1>0
  <2>5. \A t \in decided + 1 .. settled : t \in 1 .. settled
    BY <1>0
  <2>6. StoredOrLogged'
    BY <2>1, <2>3, <2>4 DEF Fates, StoredOrLogged
  <2>7. Pending'
    BY <2>1, <2>3, <2>5 DEF Fates, Pending, InTx
  <2>8. TxOrder'
    BY <2>1, <2>3, <2>5 DEF Fates, TxOrder
  <2>9. QED BY <2>6, <2>7, <2>8 DEF Fates
<1>2. CASE WriteEvent
  <2>1. PICK ins \in InsertRuns :
          /\ tx' = tx \o ins
          /\ lost' = lost \cup {r \in HeadRows : \A i \in DOMAIN ins : ins[i] # r}
    BY <1>2 DEF WriteEvent
  <2>2. batch # <<>> /\ settled' = settled + 1 /\ UNCHANGED <<accepted, decided, db>>
    BY <1>2 DEF WriteEvent, RecycleHead
  <2>3. tx \in Seq(Rows) /\ ins \in Seq(Rows)
    BY <2>2, RunsTyped DEF Ownership, TypeOK
  <2>4. /\ DOMAIN tx = 1 .. Len(tx) /\ DOMAIN ins = 1 .. Len(ins)
        /\ Len(tx) \in Nat /\ Len(ins) \in Nat
        /\ DOMAIN tx' = 1 .. Len(tx) + Len(ins)
        /\ \A i \in 1 .. Len(tx) : tx'[i] = tx[i]
        /\ \A i \in 1 .. Len(ins) : tx'[Len(tx) + i] = ins[i]
    BY <2>1, <2>3
  <2>5. StoredOrLogged'
    BY <2>1, <2>2 DEF Fates, StoredOrLogged
  <2>6. Pending'
    <3>1. \A r : InTx(r) => InTx(r)'
      BY <2>4 DEF InTx
    <3>2. \A i \in DOMAIN ins : InTx(ins[i])'
      <4>1. \A i \in DOMAIN ins : Len(tx) + i \in DOMAIN tx'
        BY <2>4
      <4>2. QED BY <2>4, <4>1 DEF InTx
    <3>3. \A r \in HeadRows : r \in lost' \/ InTx(r)'
      BY <2>1, <3>2
    <3>4. \A r \in RowsOf(settled + 1, accepted[settled + 1]) : r \in lost' \/ InTx(r)'
      BY <2>2, <3>3, HeadIsNext
    <3>5. \A t \in decided + 1 .. settled : \A r \in RowsOf(t, accepted[t]) :
            r \in lost' \/ InTx(r)'
      BY <2>1, <3>1 DEF Fates, Pending
    <3>6. \A t \in decided' + 1 .. settled' : t \in decided + 1 .. settled \/ t = settled + 1
      BY <1>0, <2>2
    <3>7. QED BY <2>2, <3>4, <3>5, <3>6 DEF Pending, RowsOf
  <2>7. TxOrder'
    <3>1. /\ \A i \in DOMAIN ins : ins[i].ticket = settled + 1
          /\ \A i \in DOMAIN ins : ins[i] \in RowsOf(settled + 1, accepted[settled + 1])
          /\ \A i, j \in DOMAIN ins : i < j => ins[i] # ins[j]
      BY <2>2, RunsOrdered, HeadIsNext
    <3>2. \A i \in DOMAIN tx : tx[i].ticket \in decided + 1 .. settled
      BY DEF Fates, TxOrder, RowsOf
    <3>3. \A i \in DOMAIN tx' : \/ i \in DOMAIN tx /\ tx'[i] = tx[i]
                               \/ /\ i - Len(tx) \in DOMAIN ins
                                  /\ tx'[i] = ins[i - Len(tx)]
      <4> SUFFICES ASSUME NEW i \in DOMAIN tx', i \notin DOMAIN tx
                   PROVE  i - Len(tx) \in DOMAIN ins /\ tx'[i] = ins[i - Len(tx)]
        BY <2>4
      <4>1. i - Len(tx) \in 1 .. Len(ins) /\ Len(tx) + (i - Len(tx)) = i
        BY <2>4
      <4>2. QED BY <2>4, <4>1
    <3>4. \A i \in DOMAIN tx' : \E t \in decided' + 1 .. settled' : tx'[i] \in RowsOf(t, accepted'[t])
      <4>1. settled + 1 \in decided' + 1 .. settled'
        BY <1>0, <2>2
      <4>2. \A t \in decided + 1 .. settled : t \in decided' + 1 .. settled'
        BY <1>0, <2>2
      <4>3. \A i \in DOMAIN tx : \E t \in decided + 1 .. settled : tx[i] \in RowsOf(t, accepted[t])
        BY DEF Fates, TxOrder
      <4>4. QED BY <2>2, <3>1, <3>3, <4>1, <4>2, <4>3
    <3>5. ASSUME NEW i \in DOMAIN tx', NEW j \in DOMAIN tx', i < j
          PROVE  tx'[i].ticket <= tx'[j].ticket /\ tx'[i] # tx'[j]
      <4>1. CASE i \in DOMAIN tx /\ j \in DOMAIN tx
        BY <2>4, <3>5, <4>1 DEF Fates, TxOrder
      <4>2. CASE i \in DOMAIN tx /\ j \notin DOMAIN tx
        <5>1. tx'[i] = tx[i] /\ tx[i].ticket \in decided + 1 .. settled
          BY <2>4, <3>2, <4>2
        <5>2. tx'[j].ticket = settled + 1
          BY <3>1, <3>3, <4>2
        <5>3. QED BY <1>0, <5>1, <5>2
      <4>3. CASE i \notin DOMAIN tx /\ j \notin DOMAIN tx
        <5>1. /\ i - Len(tx) \in DOMAIN ins /\ tx'[i] = ins[i - Len(tx)]
              /\ j - Len(tx) \in DOMAIN ins /\ tx'[j] = ins[j - Len(tx)]
          BY <3>3, <4>3
        <5>2. i - Len(tx) < j - Len(tx)
          BY <2>4, <3>5
        <5>3. QED BY <1>0, <3>1, <5>1, <5>2
      <4>4. CASE i \notin DOMAIN tx /\ j \in DOMAIN tx
        BY <2>4, <3>5, <4>4
      <4>5. QED BY <4>1, <4>2, <4>3, <4>4
    <3>6. QED BY <3>4, <3>5 DEF TxOrder
  <2>8. QED BY <2>5, <2>6, <2>7 DEF Fates
<1>3. CASE Commit
  <2>1. /\ UNCHANGED <<accepted, settled>> /\ decided' = settled /\ tx' = <<>>
        /\ \/ db' = db \o tx /\ lost' = lost
           \/ lost' = lost \cup {tx[i] : i \in DOMAIN tx} /\ db' = db
    BY <1>3 DEF Commit
  <2>0. db' = db \o tx => /\ \A i \in DOMAIN db : i \in DOMAIN db' /\ db'[i] = db[i]
                          /\ \A i \in DOMAIN tx : /\ Len(db) + i \in DOMAIN db'
                                                  /\ db'[Len(db) + i] = tx[i]
    <3>1. db \in Seq(Rows) /\ tx \in Seq(Rows)
      BY DEF Ownership, TypeOK
    <3>2. QED BY <3>1
  <2>2. \A r : InDb(r) => InDb(r)'
    BY <2>0, <2>1 DEF InDb
  <2>3. \A r : InTx(r) => InDb(r)' \/ r \in lost'
    <3>1. CASE db' = db \o tx
      BY <2>0, <3>1 DEF InTx, InDb
    <3>2. CASE lost' = lost \cup {tx[i] : i \in DOMAIN tx}
      BY <3>2 DEF InTx
    <3>3. QED BY <2>1, <3>1, <3>2
  <2>4. \A r \in lost : r \in lost'
    BY <2>1
  <2>5. \A t \in 1 .. settled : t \in 1 .. decided \/ t \in decided + 1 .. settled
    BY <1>0
  <2>6. \A t \in 1 .. settled : \A r \in RowsOf(t, accepted[t]) : r \in lost' \/ InDb(r)'
    <3>1. \A t \in 1 .. decided : \A r \in RowsOf(t, accepted[t]) : r \in lost \/ InDb(r)
      BY DEF Fates, StoredOrLogged, InDb
    <3>2. \A t \in decided + 1 .. settled : \A r \in RowsOf(t, accepted[t]) : r \in lost \/ InTx(r)
      BY DEF Fates, Pending
    <3>3. QED BY <2>2, <2>3, <2>4, <2>5, <3>1, <3>2
  <2>7. StoredOrLogged'
    BY <2>1, <2>6 DEF StoredOrLogged, InDb, RowsOf
  <2>8. Pending' /\ TxOrder'
    BY <1>0, <2>1 DEF Pending, TxOrder
  <2>9. QED BY <2>7, <2>8 DEF Fates
<1>4. CASE DiscardEvent
  <2>1. /\ batch # <<>> /\ settled' = settled + 1 /\ decided' = decided + 1
        /\ decided = settled /\ tx = <<>> /\ lost' = lost \cup HeadRows
        /\ UNCHANGED <<accepted, db, tx>>
    BY <1>4 DEF DiscardEvent, RecycleHead, Phases
  <2>2. \A t \in 1 .. decided' : t \in 1 .. decided \/ t = settled + 1
    BY <1>0, <2>1
  <2>3. StoredOrLogged'
    BY <2>1, <2>2, HeadIsNext DEF Fates, StoredOrLogged, RowsOf
  <2>4. Pending' /\ TxOrder'
    BY <1>0, <2>1 DEF Pending, TxOrder
  <2>5. QED BY <2>3, <2>4 DEF Fates
<1>5. ASSUME Receive \/ Turn \/ Owner
             \/ UNCHANGED vars
      PROVE  Fates'
  <2>1. UNCHANGED <<accepted, settled, decided, lost, tx, db>>
    BY <1>5 DEF Receive, Turn, Owner, Start, StopClose,
                StopWait, vars, workerVars
  <2>2. QED BY <2>1 DEF Fates, StoredOrLogged, Pending, TxOrder, InTx, RowsOf
<1>6. QED BY <1>1, <1>2, <1>3, <1>4, <1>5 DEF Next, Worker

(* No row of a decided event is lost without an error in the log. *)
THEOREM RouterStoredOrLogged == Spec => []StoredOrLogged
<1>1. Ownership /\ Ownership' /\ Phases /\ Fates /\ [Next]_vars => Fates'
  BY FatesNext
<1>2. Ownership /\ Ownership' /\ Phases /\ [Next]_vars => Phases'
  BY PhasesNext
<1>3. Fates => StoredOrLogged
  BY DEF Fates
<1>4. QED BY PhasesInit, FatesInit, <1>1, <1>2, <1>3, RouterOwnership, PTL DEF Spec

-----------------------------------------------------------------------------
(* Every step of the router is a step of the telemetry log or leaves it alone. *)
LEMMA LogStep ==
  ASSUME Ownership, Phases, Fates, [Next]_vars
  PROVE  [Log!LogNext]_(Log!logVars)
<1>0. /\ settled \in Nat /\ decided \in Nat /\ decided <= settled
      /\ Len(accepted) \in Nat /\ settled <= Len(accepted)
  BY HowFar DEF Phases
<1>1. ASSUME NEW p \in Producers, Send(p) PROVE Log!Accept
  <2>1. data[held[p]].kind \in Kinds
    BY <1>1, HeldAlone DEF Send
  <2>2. QED BY <1>1, <2>1 DEF Send, Log!Accept, workerVars
<1>2. CASE Commit
  <2>1. CASE decided = settled
    <3>1. tx = <<>>
      <4>1. DOMAIN tx = {}
        <5>1. decided + 1 .. settled = {}
          BY <1>0, <2>1
        <5>2. \A i \in DOMAIN tx : \E t \in decided + 1 .. settled : tx[i] \in RowsOf(t, accepted[t])
          BY DEF Fates, TxOrder
        <5>3. QED BY <5>1, <5>2
      <4>2. QED BY <4>1 DEF Ownership, TypeOK
    <3>2. db' = db
      BY <1>2, <3>1 DEF Commit, Ownership, TypeOK
    <3>3. QED BY <1>2, <2>1, <3>2 DEF Commit, Log!logVars
  <2>2. CASE decided # settled
    <3>1. /\ decided' = settled /\ UNCHANGED accepted /\ (db' = db \o tx \/ db' = db)
          /\ db \in Seq(Rows) /\ tx \in Seq(Rows)
      BY <1>2 DEF Commit, Ownership, TypeOK
    <3>2. decided' \in decided + 1 .. Len(accepted)
      BY <1>0, <2>2, <3>1
    <3>3. CASE db' = db
      <4>1. Len(db) \in Nat /\ Log!Added = {}
        BY <3>1, <3>3 DEF Log!Added
      <4>2. QED BY <3>1, <3>2, <3>3, <4>1 DEF Log!LogNext, Log!Decide, Log!Grows
    <3>4. CASE db' = db \o tx
      <4>1. /\ Len(db) \in Nat /\ Len(tx) \in Nat /\ Len(db') = Len(db) + Len(tx)
            /\ \A i \in 1 .. Len(db) : db'[i] = db[i]
            /\ \A i \in 1 .. Len(tx) : db'[Len(db) + i] = tx[i]
            /\ DOMAIN tx = 1 .. Len(tx)
        BY <3>1, <3>4
      <4>2. Log!Grows
        BY <4>1 DEF Log!Grows
      <4>3. \A i \in Log!Added : i - Len(db) \in DOMAIN tx /\ db'[i] = tx[i - Len(db)]
        <5> SUFFICES ASSUME NEW i \in Log!Added
                     PROVE  i - Len(db) \in DOMAIN tx /\ db'[i] = tx[i - Len(db)]
          OBVIOUS
        <5>1. /\ i \in Nat /\ i - Len(db) \in 1 .. Len(tx)
              /\ Len(db) + (i - Len(db)) = i
          BY <4>1 DEF Log!Added
        <5>2. QED BY <4>1, <5>1
      <4>4. \A i \in Log!Added : \E t \in decided + 1 .. decided' :
              db'[i] \in RowsOf(t, accepted[t])
        BY <3>1, <4>3 DEF Fates, TxOrder
      <4>5. \A i, j \in Log!Added : i < j => db'[i].ticket <= db'[j].ticket /\ db'[i] # db'[j]
        <5>1. \A i, j \in Log!Added : i < j => i - Len(db) < j - Len(db)
          BY <4>1 DEF Log!Added
        <5>2. QED BY <4>3, <5>1 DEF Fates, TxOrder
      <4>6. QED BY <3>1, <3>2, <4>2, <4>4, <4>5 DEF Log!LogNext, Log!Decide
    <3>5. QED BY <3>1, <3>3, <3>4
  <2>3. QED BY <2>1, <2>2
<1>3. CASE DiscardEvent
  <2>1. /\ wpc = "discard" /\ decided' = decided + 1 /\ UNCHANGED <<accepted, db>>
        /\ Len(batch) \in Nat \ {0}
    BY <1>3 DEF DiscardEvent, Ownership, TypeOK
  <2>2. decided = settled /\ decided + 1 <= Len(accepted)
    BY <1>0, <2>1 DEF Phases, Ownership, Custody, TypeOK
  <2>3. Len(db) \in Nat /\ Log!Added = {}
    BY <2>1 DEF Log!Added, Ownership, TypeOK
  <2>4. decided' \in decided + 1 .. Len(accepted)
    BY <1>0, <2>1, <2>2
  <2>5. QED BY <2>1, <2>3, <2>4 DEF Log!LogNext, Log!Decide, Log!Grows
<1>4. ASSUME NEW p \in Producers, Prepare(p) \/ CheckPressure(p) \/ Overflow(p)
      PROVE  UNCHANGED Log!logVars
  BY <1>4 DEF Prepare, CheckPressure, Refuse, Overflow, workerVars, Log!logVars
<1>5. ASSUME Receive \/ Turn \/ WriteEvent
             \/ Owner \/ UNCHANGED vars
      PROVE  UNCHANGED Log!logVars
  BY <1>5 DEF Receive, Turn, WriteEvent, Owner, Start,
              StopClose, StopWait, vars, workerVars, Log!logVars
<1>6. QED BY <1>1, <1>2, <1>3, <1>4, <1>5 DEF Next, Worker, Submit, Log!LogNext

(* The router implements the telemetry log: what it accepted is decided in order, *)
(* stored at most once under its own tables, and never taken back.                *)
THEOREM RouterImplementsLog == Spec => ImplementsLog
<1>1. Init => Log!LogInit
  BY DEF Init, Log!LogInit
<1>2. Ownership /\ Phases /\ Fates /\ [Next]_vars => [Log!LogNext]_(Log!logVars)
  BY LogStep
<1>3. Ownership /\ Ownership' /\ Phases /\ Fates /\ [Next]_vars => Fates'
  BY FatesNext
<1>4. Ownership /\ Ownership' /\ Phases /\ [Next]_vars => Phases'
  BY PhasesNext
<1>5. QED
  BY <1>1, <1>2, <1>3, <1>4, PhasesInit, FatesInit, RouterOwnership, PTL
     DEF Spec, ImplementsLog, Log!LogSpec
=============================================================================
