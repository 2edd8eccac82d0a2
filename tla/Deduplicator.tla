---------------------------- MODULE Deduplicator ----------------------------
(***************************************************************************)
(* internal/telemetry's Deduplicator: a cache of when each key was last    *)
(* let through, under a mutex, trimmed when it grows past a limit.  Its    *)
(* callers make one call at a time (the mutex), at any time.               *)
(***************************************************************************)
EXTENDS Integers, Sequences, FiniteSets

CONSTANTS Keys,        \* the deduplication keys of the events
          TTL,         \* NewDeduplicator's argument
          CacheLimit,  \* 10000 in IsDuplicate
          MaxCalls,    \* bound: the calls of IsDuplicate
          MaxTime      \* bound: the clock

ASSUME DedupAssumption == TTL \in Nat /\ CacheLimit \in Nat /\ MaxCalls \in Nat /\ MaxTime \in Nat

VARIABLES now,         \* the clock
          cache,       \* when a key was last let through, for the keys in it
          judged       \* history: the calls and their answers, in order

dedupVars == <<now, cache, judged>>

DedupInit == now = 0 /\ cache = <<>> /\ judged = <<>>

BugFreshAtTTL(k) == k \in DOMAIN cache /\ now - cache[k] <= TTL
Fresh(k) == k \in DOMAIN cache /\ now - cache[k] < TTL

Noted(k) == [j \in DOMAIN cache \cup {k} |-> IF j = k THEN now ELSE cache[j]]

BugEvictAll(c) == IF Cardinality(DOMAIN c) > CacheLimit THEN <<>> ELSE c
Evict(c) == IF Cardinality(DOMAIN c) > CacheLimit
            THEN [j \in {i \in DOMAIN c : now - c[i] <= TTL} |-> c[j]] ELSE c

(* IsDuplicate: an event that is not fresh is noted, and the cache trimmed. *)
IsDuplicate(k) == cache' = IF Fresh(k) THEN cache ELSE Evict(Noted(k))

Call(k) == /\ Len(judged) < MaxCalls
           /\ IsDuplicate(k)
           /\ judged' = Append(judged, [key |-> k, at |-> now, dup |-> Fresh(k)])
           /\ UNCHANGED now

Clock == now < MaxTime /\ now' = now + 1 /\ UNCHANGED <<cache, judged>>

DedupNext == (\E k \in Keys : Call(k)) \/ Clock

DedupSpec == DedupInit /\ [][DedupNext]_dedupVars

-----------------------------------------------------------------------------
(* IsDuplicate says of an event exactly whether an equal one was let through less *)
(* than a TTL before it: trimming the cache never changes an answer.              *)
Verdict(j) == \E i \in 1 .. j - 1 : /\ judged[i].key = judged[j].key /\ ~judged[i].dup
                                    /\ judged[j].at - judged[i].at < TTL

DedupExact == \A j \in DOMAIN judged : judged[j].dup <=> Verdict(j)

(* The cache holds every key let through less than a TTL ago, with its time: what   *)
(* trimming removes can only be stale.                                              *)
CacheComplete ==
  \A j \in DOMAIN judged : (~judged[j].dup /\ now - judged[j].at < TTL) =>
     judged[j].key \in DOMAIN cache /\ cache[judged[j].key] = judged[j].at
=============================================================================
