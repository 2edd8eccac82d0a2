----------------------------- MODULE IntelFeed -----------------------------
(***************************************************************************)
(* internal/intel: FeedManager.Sync polls its sources one after the other, *)
(* inserts what they serve into the indicators table row by row, reads the *)
(* whole table back and loads it into the ReputationEngine, which detection *)
(* looks patterns up in.  Only the copy of the settings and the load hold  *)
(* a lock, so Syncs overlap.                                               *)
(*                                                                         *)
(* The cache keeps the row an entry came from in place of its label.       *)
(* `loads' and the field `since' are history.                              *)
(***************************************************************************)
EXTENDS Integers, Sequences, FiniteSets
LOCAL INSTANCE Functions

CONSTANTS FeedCallers,  \* goroutines that call Sync and IngestMockBundle
          FeedSources,  \* the feeds' addresses
          Serves,       \* [FeedSources -> Seq(STIXObject)]: the bundle a feed serves
          Patterns,     \* what indicators match
          PatternTypes, \* the pattern types feeds give them
          MaxSyncs      \* bound: the calls

(* The types the engine keeps a map for; a row of any other type counts as a hash. *)
IOCTypes == {"hash", "domain", "url", "certificate", "ja3", "ja4", "mitre"}

STIXObject == [type : {"indicator", "malware"}, pattern : Patterns, ptype : PatternTypes]

ASSUME FeedAssumption == Serves \in [FeedSources -> Seq(STIXObject)] /\ MaxSyncs \in Nat

VARIABLES feed,        \* FeedManager: its mode, sources and version
          indicators,  \* the table
          reputation,  \* ReputationEngine.cache: the entry of a type and pattern
          fcall,       \* what a caller is doing
          syncs,       \* how many calls have been made
          loads        \* history: the Loads, in order

feedVars == <<feed, indicators, reputation, fcall, syncs, loads>>

NoSync == [at |-> "idle"]

FeedInit == /\ feed = [offline |-> FALSE, sources |-> <<>>, version |-> 1]
            /\ indicators = <<>> /\ reputation = <<>> /\ syncs = 0 /\ loads = <<>>
            /\ fcall = [c \in FeedCallers |-> NoSync]

-----------------------------------------------------------------------------
SetOfflineMode == /\ feed' = [feed EXCEPT !.offline = ~@]
                  /\ UNCHANGED <<indicators, reputation, fcall, syncs, loads>>

AddSource == /\ \E s \in FeedSources \ Range(feed.sources) :
                  feed' = [feed EXCEPT !.sources = Append(@, s)]
             /\ UNCHANGED <<indicators, reputation, fcall, syncs, loads>>

BeginFeed(c) == fcall[c] = NoSync /\ syncs < MaxSyncs /\ syncs' = syncs + 1

Goto(c, at) == fcall' = [fcall EXCEPT ![c].at = at]

(* Sync copies the settings and takes the next version. *)
Sync(c) ==
  /\ BeginFeed(c)
  /\ feed' = [feed EXCEPT !.version = @ + 1]
  /\ fcall' = [fcall EXCEPT ![c] =
       [at |-> IF feed.offline THEN "offline" ELSE "poll", todo |-> feed.sources, objs |-> <<>>,
        success |-> feed.sources = <<>>, ver |-> feed'.version, since |-> Len(indicators), read |-> 0]]
  /\ UNCHANGED <<indicators, reputation, loads>>

(* IngestMockBundle hands a bundle to the client directly. *)
IngestMockBundle(c, s) ==
  /\ BeginFeed(c)
  /\ fcall' = [fcall EXCEPT ![c] = [at |-> "mock", objs |-> Serves[s]]]
  /\ UNCHANGED <<feed, indicators, reputation, loads>>

(* PollFeed: no answer, or not a bundle; or its objects are ingested. *)
Poll(c) ==
  /\ fcall[c].at = "poll" /\ fcall[c].todo # <<>>
  /\ fcall' \in {[fcall EXCEPT ![c].todo = Tail(@)],
                 [fcall EXCEPT ![c].at = "ingest",
                                ![c].objs = Serves[Head(fcall[c].todo)]]}
  /\ UNCHANGED <<feed, indicators, reputation, syncs, loads>>

(* IngestSTIXBundle inserts one indicator after the other, passes over the other *)
(* objects and stops at an error.                                                *)
BundleEnd(c, done) == LET call == fcall[c] IN
  fcall' = [fcall EXCEPT ![c] =
              IF call.at = "mock" THEN NoSync
              ELSE [call EXCEPT !.at = "poll", !.todo = Tail(call.todo), !.objs = <<>>,
                                !.success = call.success \/ done]]

InsertIndicator(c) ==
  /\ fcall[c].at \in {"ingest", "mock"} /\ fcall[c].objs # <<>>
  /\ \/ /\ indicators' = IF Head(fcall[c].objs).type = "indicator"
                         THEN Append(indicators, Head(fcall[c].objs)) ELSE indicators
        /\ fcall' = [fcall EXCEPT ![c].objs = Tail(@)]
     \/ Head(fcall[c].objs).type = "indicator" /\ UNCHANGED indicators /\ BundleEnd(c, FALSE)
  /\ UNCHANGED <<feed, reputation, syncs, loads>>

BundleDone(c) ==
  /\ fcall[c].at \in {"ingest", "mock"} /\ fcall[c].objs = <<>> /\ BundleEnd(c, TRUE)
  /\ UNCHANGED <<feed, indicators, reputation, syncs, loads>>

Polled(c) ==
  /\ fcall[c].at = "poll" /\ fcall[c].todo = <<>>
  /\ Goto(c, IF fcall[c].success THEN "query" ELSE "offline")
  /\ UNCHANGED <<feed, indicators, reputation, syncs, loads>>

(* loadOfflineIndicators reads the version without the lock. *)
LoadOffline(c) ==
  /\ fcall[c].at = "offline"
  /\ fcall' = [fcall EXCEPT ![c].at = "query", ![c].ver = feed.version]
  /\ UNCHANGED <<feed, indicators, reputation, syncs, loads>>

(* The query fails, or reads the table: all of it, or what came before an error that *)
(* nobody asks rows.Err() about.                                                     *)
Query(c) ==
  /\ fcall[c].at = "query"
  /\ \/ fcall' = [fcall EXCEPT ![c] = NoSync]
     \/ \E n \in 0 .. Len(indicators) :
          fcall' = [fcall EXCEPT ![c].at = "load", ![c].read = n]
  /\ UNCHANGED <<feed, indicators, reputation, syncs, loads>>

KeyOf(i) == LET o == indicators[i] IN
            <<IF o.ptype \in IOCTypes THEN o.ptype ELSE "hash", o.pattern>>

RowsOf(n, k) == {i \in 1 .. n : KeyOf(i) = k}

Latest(n, k) == CHOOSE i \in RowsOf(n, k) : \A j \in RowsOf(n, k) : j <= i

BugKeepFirst(n) == {KeyOf(i) : i \in 1 .. n} \ DOMAIN reputation
LoadedKeys(n) == {KeyOf(i) : i \in 1 .. n}

Load(c) == LET n == fcall[c].read IN
  /\ fcall[c].at = "load"
  /\ reputation' = [k \in DOMAIN reputation \cup LoadedKeys(n) |->
       IF k \in LoadedKeys(n) THEN [row |-> Latest(n, k), version |-> fcall[c].ver]
                              ELSE reputation[k]]
  /\ loads' = Append(loads, [since |-> fcall[c].since, read |-> n])
  /\ fcall' = [fcall EXCEPT ![c] = NoSync]
  /\ UNCHANGED <<feed, indicators, syncs>>

FeedNext == \/ SetOfflineMode \/ AddSource
            \/ \E c \in FeedCallers :
                 \/ Sync(c) \/ \E s \in FeedSources : IngestMockBundle(c, s)
                 \/ Poll(c) \/ InsertIndicator(c) \/ BundleDone(c) \/ Polled(c)
                 \/ LoadOffline(c) \/ Query(c) \/ Load(c)

FeedSpec == FeedInit /\ [][FeedNext]_feedVars

-----------------------------------------------------------------------------
Syncing == [at : {"offline", "poll", "ingest", "query", "load"}, todo : Seq(FeedSources),
            objs : Seq(STIXObject), success : BOOLEAN, ver : 1 .. feed.version,
            since : 0 .. Len(indicators), read : 0 .. Len(indicators)]

FeedTypeOK ==
  /\ fcall \in [FeedCallers -> {NoSync} \cup [at : {"mock"}, objs : Seq(STIXObject)] \cup Syncing]
  /\ feed \in [offline : BOOLEAN, sources : Seq(FeedSources), version : Nat \ {0}]
  /\ indicators \in Seq(STIXObject)
  /\ \A k \in DOMAIN reputation : /\ k \in IOCTypes \X Patterns
                                  /\ reputation[k].row \in RowsOf(Len(indicators), k)
                                  /\ reputation[k].version \in 1 .. feed.version
  /\ loads \in Seq([since : Nat, read : 0 .. Len(indicators)])
  /\ syncs \in Nat

(* After a Sync, what the store held when it began can be looked up under its type,   *)
(* unless the read was cut short; and as the newest row of the pattern describes it,  *)
(* unless a Sync that had read less of the table loads over it afterwards.            *)
SyncedReach ==
  \A a \in DOMAIN loads : \A i \in 1 .. loads[a].since : loads[a].read >= loads[a].since =>
    /\ KeyOf(i) \in DOMAIN reputation
    /\ (\A b \in a + 1 .. Len(loads) : loads[b].read >= loads[a].read) => reputation[KeyOf(i)].row >= i
=============================================================================
