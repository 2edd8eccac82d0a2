---------------------------- MODULE TelemetryLog ----------------------------
(***************************************************************************)
(* What the collection side of the agent promises of the events it has     *)
(* accepted, whatever queue, batches and transactions it uses inside: the  *)
(* accepted events form one sequence; a growing prefix of it is decided;   *)
(* when an event is decided it is stored or given up, once and for all; and *)
(* what is stored is never taken back, doubled, or put in another order.   *)
(***************************************************************************)
EXTENDS Naturals, Sequences

CONSTANTS Events,        \* what may be accepted
          RowsOf(_, _)   \* RowsOf(n, e): the rows of event e accepted as the n-th

VARIABLES accepted,      \* the events accepted, in order
          decided,       \* how many of them have been stored or given up
          stored         \* the rows in the database, in insertion order

logVars == <<accepted, decided, stored>>

LogInit == accepted = <<>> /\ decided = 0 /\ stored = <<>>

Accept == /\ \E e \in Events : accepted' = Append(accepted, e)
          /\ UNCHANGED <<decided, stored>>

Grows == /\ Len(stored') >= Len(stored)
         /\ \A i \in 1 .. Len(stored) : stored'[i] = stored[i]

Added == Len(stored) + 1 .. Len(stored')

(* A run of accepted events is decided at once: the rows added belong to these *)
(* events and to no other, follow their order, and no row is added twice.      *)
Decide ==
  /\ decided' \in decided + 1 .. Len(accepted)
  /\ Grows
  /\ \A i \in Added : \E t \in decided + 1 .. decided' :
                         stored'[i] \in RowsOf(t, accepted[t])
  /\ \A i, j \in Added : i < j => /\ stored'[i].ticket <= stored'[j].ticket
                                  /\ stored'[i] # stored'[j]
  /\ UNCHANGED accepted

LogNext == Accept \/ Decide

LogSpec == LogInit /\ [][LogNext]_logVars
=============================================================================
