----------------------------- MODULE MCServices -----------------------------
(***************************************************************************)
(* Small instances of the agent's in-process services.  They share no      *)
(* state, so that a behaviour of the agent is one of each of them; a run    *)
(* picks one of them at the start and lets the others rest, which explores  *)
(* the sum of their states in place of the product.                        *)
(***************************************************************************)
EXTENDS Correlation, AgentCore, EventBus, PluginManager, IntelFeed, Deduplicator, Daemon, TLC

CONSTANTS k1, k2, k3,  \* the keys the deduplicator is given
          f1, f2       \* the feeds

VARIABLE part  \* the service that runs

others == <<corrVars, coreVars, busVars, plugVars, feedVars, dedupVars, daemonVars>>

ServicesVars == <<part, others>>

(* Every plugin wants the same name; the third is built for another API version. *)
MCPlugNameOf == [p \in Plugins |-> CHOOSE n \in PlugNames : TRUE]

MCOffers == (Plugins \ OtherApi) \X Capabilities

STIX(t, y) == [type |-> t, pattern |-> "x", ptype |-> y]

(* Two feeds that tell the same pattern, one of them as two types. *)
MCServes == [f \in FeedSources |->
  IF f = f1 THEN <<STIX("indicator", "domain"), STIX("malware", "domain")>>
            ELSE <<STIX("indicator", "sha256"), STIX("indicator", "domain")>>]

ServicesInit ==
  /\ part \in {"correlation", "lifecycle", "services", "scheduler", "bus", "plugins", "feeds", "dedup", "daemon"}
  /\ CorrInit /\ CoreInit /\ BusInit /\ PlugInit /\ FeedInit /\ DedupInit /\ DaemonInit

ServicesNext ==
  /\ UNCHANGED part
  /\ \/ /\ part = "correlation" /\ CorrNext
        /\ UNCHANGED <<coreVars, busVars, plugVars, feedVars, dedupVars, daemonVars>>
     \/ /\ \/ part = "lifecycle" /\ Lifecycle
           \/ part = "services" /\ ServiceCalls
           \/ part = "scheduler" /\ Scheduler
        /\ UNCHANGED <<corrVars, busVars, plugVars, feedVars, dedupVars, daemonVars>>
     \/ /\ part = "bus" /\ BusNext
        /\ UNCHANGED <<corrVars, coreVars, plugVars, feedVars, dedupVars, daemonVars>>
     \/ /\ part = "plugins" /\ PlugNext
        /\ UNCHANGED <<corrVars, coreVars, busVars, feedVars, dedupVars, daemonVars>>
     \/ /\ part = "feeds" /\ FeedNext
        /\ UNCHANGED <<corrVars, coreVars, busVars, plugVars, dedupVars, daemonVars>>
     \/ /\ part = "dedup" /\ DedupNext
        /\ UNCHANGED <<corrVars, coreVars, busVars, plugVars, feedVars, daemonVars>>
     \/ /\ part = "daemon" /\ DaemonNext
        /\ UNCHANGED <<corrVars, coreVars, busVars, plugVars, feedVars, dedupVars>>

ServicesSpec == ServicesInit /\ [][ServicesNext]_ServicesVars

Symmetry == Permutations(Keys)

(* Every service's state has its type. *)
ServicesTypeOK == CorrTypeOK /\ CoreTypeOK /\ BusTypeOK /\ PlugTypeOK /\ FeedTypeOK /\ DaemonTypeOK
=============================================================================
