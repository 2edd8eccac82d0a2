# Aegis EDR: specifications

TLA+ specifications of the endpoint agent in this repository, the TLC
configurations that check them on small instances, and TLAPS proofs of the main
results for every value of the constants.  Run everything from this directory:

    tlc -workers 2 -config MCEventRouter.cfg MCEventRouter
    tlapm EventRouter_proofs.tla

`PROJECT.json` relates the definitions to source lines, the runs to properties,
and the hazards of the code to the properties that watch them.

## 1. The system

Platform monitors and gRPC callers produce telemetry.  It goes through one of
two collection paths into a SQLite file; correlation engines, detection engines
and the policy turn events into alerts and verdicts, and the response package
acts on them.  `aegisd` is the daemon, `aegis` the command line.  In the present
state of the code the daemon opens the store, starts the API server (with the
response engines behind it) and the pruning goroutine; the router, the pipeline,
the correlation engines, `internal/core`, the plugin manager, the feeds, the policy and
the detection pipeline are driven by their tests, the benchmark and the doctor command,
not yet by the daemon.  Each is modelled under the callers its own locks prepare for.

| component (source) | state | operations | who touches it concurrently |
|---|---|---|---|
| event router (`internal/eventrouter`) | pool of `*Event`, bounded channel, drop counter, the worker's batch | `GetEvent`, `PutEvent`, `Submit`, `Start`, `Stop`, `flushBatch`, `processBatchEvent` | any number of producers, one worker, the caller of `Stop`; writes the store |
| telemetry pipeline (`internal/telemetry`) | deduplication cache, metrics, queue, batch, two hooks | `Ingest`, `Start`, `Stop`, `flushBatch`, `Replay` | any number of callers of `Ingest`, one worker, a context; writes the store, calls correlation and analytics |
| storage (`internal/storage`, the pruning loop of `cmd/aegisd`) | five tables, foreign keys, one connection | inserts, queries, `Begin`, `PruneOldTelemetry`, `NewStorage`, `Close` | router, pipeline, API and the pruner; crash and restart on a file that may be corrupt |
| sharded correlation (`internal/correlation/nextgen`) | 16 shards of nodes with edges, rules, suppressed keys, alert channel | `Ingest`, `AddRule`, `SuppressAlert`, `ReconstructTimeline` | any number of callers, one lock per shard |
| correlation (`internal/correlation`) | the process of a PID, children lists, what each process did | `Correlate`, `RecordAlert`, `ReconstructTimeline`, `GroupAlerts` | one lock |
| agent core (`internal/core`) | state, shutdown hooks, services, tasks, the bus's channels | `Initialize`, `Run`, `TriggerShutdown`, `StartAll`, `StopAll`, `Schedule`, `Subscribe`, `Publish` | the signal and other callers of shutdown, scheduler goroutines, publishers |
| plugin manager (`pkg/sdk/plugin`) | map of running plugins, a WASM runtime | register, unregister, hot reload, negotiate and execute, close | concurrent callers; a plugin is used after the lock is released |
| policy (`internal/policy`) | policies with parents, the active one | load, activate, evaluate, mitigate | one lock; mitigation runs without it |
| threat intelligence (`internal/intel`) | feed settings and version, the indicators table, the reputation cache | `AddSource`, `SetOfflineMode`, `Sync`, `IngestMockBundle`, `Lookup` | concurrent `Sync`s share the table and the cache |
| detection, scoring (`internal/detect`, `internal/scoring`) | the stages, the alert channel | `Process`, `CalculateCompoundScore` | the reader of the channel |
| response (`internal/response`) | none: the host's firewall, processes, files and the vault | isolate, restore, kill, quarantine | API handlers, the policy engine, the host itself |
| API server (`pkg/api`) | the token | `TriggerResponse` and its read-only neighbours, two interceptors | gRPC goroutines |
| daemon and its clients (`cmd/aegisd`, `getGRPCClient` of `cmd/aegis`) | the socket and the token file | start, serve, drain, clean up; dial | other daemons on the same paths, clients, crashes |

Every other part (scanners, forensics, reporting, configuration, certificates,
monitors, generated code) is listed in `PROJECT.json` with the reason it is not
modelled: matching and formatting of strings, sequential I/O, stubs, or
generated code.

### What is hard, and what makes each component correct

*Event router.*  The objects are pooled, so a pointer put back while the queue or
a batch still holds it would let a producer overwrite somebody else's event.
`Submit` reads `len(eventChan)` and sends later, so its triage decision is stale
when it acts.  The batch is written in one transaction in which each insert, and
the commit, may fail.  `Stop` races the producers and may find the queue full
and the batch half filled.  Correct means: one owner per object; nothing
accepted vanishes or changes; every offer is accepted or counted; file reads
cannot fill the reserve above the watermark; every row is stored or its loss
logged; `Stop` drains and returns.

*Telemetry pipeline.*  Six counters are updated at different moments by
different goroutines.  One five-second context covers a whole batch.  A
cancelled context ends the worker without draining.  Hooks must see every
accepted event, once, in order, stored or not.  Trimming the cache must not
forget a live key.

*Storage.*  Other writers insert between the pruner's three `DELETE`s, alerts
among them; a kill may hit a transaction or a cycle; the foreign keys may refuse
the third statement; the cutoff is local time and the rows are UTC.  No row may lose its
process, evidence must stay, what is not evidence must go, and nothing before its time.

*Sharded correlation.*  Linking a child touches two nodes under one lock, and
rule matching walks the graph with none.  Locks of two shards are taken one
after the other.  PIDs are reused and nodes expire while links are being made.

*Correlation.*  A process leaves the map by expiry or by the reuse of its PID while
its parent's list still points to it, and the queries recurse along the lists without a
mark of where they have been.  The lists must form a forest, and a timeline must have
what its process and its descendants did, each thing once.

*Agent core.*  Several goroutines may shut down at the same time, publishers offer to the
same channels in turns, and a channel may be full for one subscriber only.

*Plugins, feeds.*  A hot reload and a `Sync` are several locked steps with anything in
between.  A running plugin must stay within reach of `Close`; after a `Sync` what the table
held must be found, as its newest row describes it.

*Detection and policy.*  Scores are products over a varying number of verdicts, and must not
fall when evidence is added.  A policy's parent may be missing, replaced or its own
descendant.

*Response.*  Commands fail one by one, with the agent not looking, on a firewall that may have
rules already; processes fork and die while their tree is being killed, and a signal may leave its process alive; a file is read, written elsewhere and removed in steps
that a failure, a crash or another call may separate.

*Daemon.*  All daemons share two paths, remove what they find there at the start and what
they left there at the end, and leave both behind when they crash.

*Known and not pursued.*  Limits that a run would only restate: an event submitted after the
worker has returned stays in the channel for ever, and a second `Stop` panics; `int(cap * 0.8)` is 0 for
a capacity of 1, so that such a router drops every file read; `SYSTEM_DESIGN.md:287` bounds the drain to 3 seconds, the loop has
no bound; an event is noted as seen before the queue may drop it (`pipeline.go:190`); a hook registered during the shutdown is never
called (`lifecycle.go:49`); a scheduled task may start after `Stop` (`scheduler.go:28`); `StartAll` leaves the services before the failing
one running; `NegotiateAndExecute` calls a plugin after it has released the lock; a client that reads the token just
before a daemon is replaced is refused.

The main hazards, one by one and at their lines, are in `PROJECT.json`.

## 2. Modules

| module | models | proofs |
|---|---|---|
| `TelemetryLog` | abstract: what either collection path promises of the events it has accepted | |
| `EventRouter` | `internal/eventrouter` | `EventRouter_proofs` |
| `TelemetryPipeline` | `Ingest`, the worker, `Start`, `Stop`, the context of `internal/telemetry` | `TelemetryPipeline_proofs` |
| `Deduplicator` | `IsDuplicate`; used by `TelemetryPipeline` through `INSTANCE` and checked by itself in `MCServices` | `Services_proofs` |
| `Storage` | `internal/storage` and the pruning goroutine of `aegisd` | `Storage_proofs` |
| `ShardedCorrelation` | `internal/correlation/nextgen` | `ShardedCorrelation_proofs` |
| `Correlation` | `internal/correlation` | `Services_proofs` |
| `AgentCore` | bootstrap, lifecycle, services and scheduler of `internal/core` | `Services_proofs` |
| `EventBus` | the event bus of `internal/core` | `Services_proofs` |
| `PluginManager` | `pkg/sdk/plugin` | `Services_proofs` |
| `IntelFeed` | `internal/intel` | `Services_proofs` |
| `Daemon` | start and end of `aegisd`, the interceptors of `pkg/api`, the clients of `aegis` | `Services_proofs` |
| `Detection` | `internal/detect/pipeline`, `internal/scoring` | `Decisions_proofs` |
| `Policy` | loading, activation and evaluation in `internal/policy` | `Decisions_proofs` |
| `Host` | which system's files were built in | |
| `Isolation`, `KillTree`, `Quarantine` | the three packages of `internal/response` | `Response_proofs` |
| `Response` | composes the three: `TriggerResponse` of `pkg/api`, `EvaluateAndMitigate` of `internal/policy` | `Response_proofs` |

The `MC` modules give the constants their values for TLC.  `Storage` needs none.
`MCServices` and `MCResponse` hold several components that share no state.  A variable
`part`, chosen at the start, says which of them moves while the others rest in their initial
states.  Every invariant they check is about one component, whose reachable
states are the same whether the others move or not; so the sum of their state spaces
shows what the product would.  `Services_proofs` and `Response_proofs` extend these two, and prove
about each component by itself and about the types of the composition.

`LeastElement` models nothing.  It has the lemmas that stand in for induction: a nonempty set of
numbers has a least element, a bounded one a greatest; a function computed step by step
exists (`StepsExist`), and two that start alike and step alike are alike (`SameSteps`).

Names that start with `Bug` are mistakes a programmer could make in the definition
next to them.  No action uses one; each property was seen to fail when the
definition is replaced by the mistake (`"mutants"` in `PROJECT.json`).

### TelemetryLog

Three variables: the sequence of accepted events, how many are decided, the rows
stored.  `Accept` appends an event.  `Decide` decides a run of them at once; the
rows it adds belong to the events of the run, follow their order, and appear
once.  Nothing is ever taken back.  `EventRouter` implements it with whole
batches as runs and `TelemetryPipeline` with single events.

### EventRouter

`Prepare` is the producer filling an object from the pool.  `Submit` is two
steps: `CheckPressure` reads the length of the channel, `Send` or `Overflow` is the
non-blocking send.  The worker's program counter `wpc` is the place in `Start`'s
goroutine: `select`, `drain` (the loop after `closeChan`), and inside `flush` the
states `begin`, `write`, `discard`; `resume` is where `flush` returns to.  The
`select` between ready cases is a free choice, as in Go.  `WriteEvent` is one
iteration of the batch loop: the inserts of the event, each of which may fail,
then `PutEvent`.  `Commit` may fail.  The rows of a tamper attempt are its alert
and then its file row, as in `processBatchEvent`.

Abstractions: an event is its class as far as the code tells classes apart;
`sync.Pool` hands out any of its objects and need not be short of them;
the ticker may fire whenever the batch is not empty.  The ticket an event carries,
`accepted`, `settled`, `decided`, `lost` and `closedAt` are history variables.

### TelemetryPipeline and Deduplicator

An event is its deduplication key; whether it has a table or lies under an
excluded path is a function of the key.  `Enter`, `Judge`, `Send`, `Buffered` are the
steps of `Ingest`: the counter increments are separate steps where another
goroutine can see the difference.  `NormalizedCount` is left out: it is
incremented next to `IngestedCount`, on every path.  `Store`, `Correlate`,
`Analyse` are one iteration of `flushBatch`; `Expire` is its context running out
and `Cancel` the context given to `Start`.  `Store` counts an event without a table as persisted, as the
code does.  `TelemetryPipeline` uses the operators of `Deduplicator`, not a copy.
`Replay` is not modelled: it calls `Ingest`, as any caller does, with what it reads back.

### Storage

`conn` is the single connection (`SetMaxOpenConns(1)`): a transaction has it until
`Commit` or `Rollback`, and single statements commit by themselves.  `Kill` is the
process dying at any moment, `Launch` the next `NewStorage`, on the same file or,
when the integrity check fails, on an empty one.  The pruner is one action per
statement with everybody else in between.  `PruneProcesses` either deletes all
expired, unalerted rows or, when one of them is still referenced, nothing.
`sequence` is `AUTOINCREMENT`'s counter.

Abstractions: a row is its process, its time and its table; rows of one table
equal in both are one row.  Times are numbers of UTC.  The cutoff is a Go time of the
host's zone, which the driver (`modernc.org/sqlite`) binds as its text, local time with the zone behind it, and
SQLite compares with the text of `CURRENT_TIMESTAMP`, which is UTC.  What that does to the order is
in the model: `Zones` is what local time may be ahead of UTC, `SetCutoff` adds one of them
(daylight saving may change it between cycles), and a row of the cutoff's own second, whose text is a prefix, is past it
(`Past`).  `StorageAssumption` has the zone shorter than the retention.
SQLite itself is external; the model takes from it foreign keys, statement and
transaction atomicity, and durability of what is committed.

### ShardedCorrelation

`Enter` is `Ingest` up to the release of the first lock (expiry of that shard and
insertion).  `Link`, `Spawned` and `Back` are the part under the parent's lock:
an append to a slice reads it in one step and writes it back in the next, because
the lock held need not be the one that guards the other appender.  `Judge` and
`Send` are one rule each, and `Judging` is where a caller goes for the next one.  `raced` is a history variable: the nodes on which two
appends overlapped.

Abstractions: the outcome of a data race is a lost update; a torn slice header is
not modelled.  The walk of one rule reads the edges in one step.  A process is
not its own parent.  Locks are those held over more than one step.  `AddRule`
is called before the first `Ingest`; `ReconstructTimeline` only reads and is left
out.

### Correlation

`Launch` is a process event: expiry (`Unexpired`), the node in the map, then its parent's list.
`Hold` is any other event, or an alert, on the node its PID leads to.  A node is the index
it was made with, so that a node out of the map is still there for the lists.
A node has its alerts in a list of their own.  `Collected` is the recursion of both queries: what a
node yields, and then what its children bring (`Gathered`).  It is defined for the children that are
younger than their parent, and `Endless` says of which nodes the code's recursion does not end.  That
no other kind of child exists is `Forest`.  The field `by` is history: `TimelineExact` says by it
who descends from whom, not by the lists the code follows.  The order of a timeline is left out.

### AgentCore and EventBus

`Trigger`, `CallHook`, `Stopped` are the locked section, the loop and the last locked section of
`TriggerShutdown`; `Run` reaches it through `EnterRun` and `Signalled`, everybody else at any
time.  Services and tasks are the callers' code: a start or a stop may fail, a task runs for a while and
its panic is recovered.  In `EventBus` an event is the number of its `Publish`; `Offer` is the
non-blocking send to one channel, `Subscribe` has to wait for every publisher to be out.

### PluginManager

Each locked section is one action: `ReloadStop` and `ReloadStart` are the two of a hot reload,
`Negotiate` the lookup of `NegotiateAndExecute`, whose call of the plugin follows without the
lock.  `Init`, `Start` and `Stop` of a plugin may fail; the manager ignores a failing `Stop`, and so
does the property.  `replaced` remembers the registrations that took a name over.

### IntelFeed

`Sync` copies the settings; `Poll`, `InsertIndicator` and `BundleDone` are one source's answer, row
by row; `Polled` chooses between the read and the offline path; `Query` reads the table, or the
beginning of it, and `Load` puts it in the cache under the engine's lock.  A feed's content does not
change and labels are left out: two rows of the same key differ by their place in the table.

### Daemon

A daemon is started, removes the old socket, listens, takes its token, serves, drains, and
removes both paths, each as a step of its own between those of others; `DaemonCrash` may come at any
of them.  A token is the number of the start that made it.  A Unix listener unlinks its
path when it is closed, which is the standard library's doing.  Flags, logging and the store's opening are left out:
a failure there is a crash before the socket.  The random source does not fail.

### Detection and Policy

An event is the set of signs the stages look for.  Severities and weights are in tenths and
scores in units of 10^-7, which is exact for as many verdicts as there are stages.  The stages are a constant:
the run uses the list of the repository's own test.  `Passing` is the context of an event by the number
of stages it has passed.  `evaluateChain` is the answer of each policy by the number of policies that
may still be asked; a chain of more of them than there are IDs is a circle, on which the code
does not return.

### Isolation, KillTree, Quarantine and Response

`Isolation`: an operation is the list of commands of its system, each of which may fail; the effect
of a command is external.  On Linux the `OUTPUT` chain is a sequence of rules, of which the first
that is about some traffic decides, and the policy when there is none.  It may begin with rules of the
host (`Standing`).  `-A` appends, so that these stay in front; `-F` takes them out with the agent's own.
Traffic is the agent's port, the loopback, and all the rest, DNS and DHCP included, for which `IsolateHost` has no rule.
`mishap` is history: an ignored failure, or opposite operations at the same time.
Bounds on the host: the policy is ACCEPT at the start, nobody else changes the chain, and a rule that is already there is
not repeated, since the second one would decide nothing.

`KillTree`: a frame of the stack is a recursive call.  `ListChildren` is `pgrep`, `Signal`
the end of a frame: it kills whoever has the PID, finds nobody, is refused (`EPERM`), or is without effect (`init`,
kernel threads), and the call returns an error or not accordingly; a parent's frame ignores a child's error
(`kill_unix.go:23`).  Processes fork (taking over any free PID) and exit at any time.  `excused` is history: who
was forked by a process already listed, has died before being listed, was missed by a failing `pgrep`, or was
left alive by a signal, as far as a call is concerned.

`Quarantine`: `OpenVault` truncates and `WriteVault` writes; a second writer in between may leave a mix,
which nothing can decrypt.

`Response`: `TriggerResponse` starts a single action and `EvaluateAndMitigate` a list of them, of
which a failing one is the last.  `ResponseCrash` is the agent dying: the host keeps what was done.
The command line's timeout does not reach the handlers, so a retry is a second caller.

## 3. Runs

| run | instance | states | shows |
|---|---|---|---|
| `router` | 2 producers, 4 objects, channel of 3, watermark 1, batches of 2, 4 events of 3 classes | 1.80 M | type, ownership, custody, accounting, triage, rows stored or logged, drain |
| `router_live` | 2 producers, channel of 2, 3 events of 2 classes, fair | 335 k | implements `TelemetryLog`; accepted events are decided; `Stop` returns |
| `pipeline` | 2 callers, 3 keys (table, excluded, no table), queue of 1, batches of 2, 3 calls, TTL 1, time to 1, fair | 733 k | type, conservation of the counters, hooks in order, drain; implements `TelemetryLog`; accepted events reach the analytics hook; `Stop` returns |
| `storage` | 2 PIDs, 2 process rows, 3 child rows, retention 2, zones 0 and 1, time to 2, faults | 1.63 M | no orphans, evidence kept, clean cycles, only old rows pruned |
| `sharded` | 2 callers, 2 PIDs and a file over 2 shards, 3 nodes, window 0, time to 1 | 589 k | links kept unless appends overlap, sound alerts, lock discipline |
| `services` | one at a time: 3 PIDs, 4 entries, window 0; 2 stoppers beside `Run`, 2 hooks, 2 services, 2 tasks; 2 publishers, 2 topics, 3 channels of 1, 3 events; 2 callers, 3 plugins of one name, 6 calls; 2 callers, 2 feeds that share a pattern, 2 syncs; 3 keys, TTL 2, cache trimmed beyond 1, 5 calls; 2 daemons, 4 starts, a client | 1.44 M | forest and timelines, hooks, bus order, reachable plugins, findable indicators, exact deduplication, reachable daemon |
| `response` | one at a time, and all engines together: 10 stages and 128 events taken two at a time, 8 policies over 4 IDs, 3 systems, 3 chains to begin with, 2 callers, 4 processes over 3 PIDs, 2 files of one base name, 3 calls | 1.56 M | monotone verdicts, closest rule, whitelist, tree kill, quarantine |
| `storage_retention` | no faults | violation | finding 1 |
| `storage_attribution` | no faults | violation | finding 2 |
| `storage_zone` | retention 2, zone 1 | violation | finding 3 |
| `sharded_links` | 3 PIDs | violation | finding 4 |
| `sharded_window` | window 1 | violation | finding 5 |

Why the bounds are enough.  Two producers and a watermark two below the capacity
are what it takes for one producer's stale check to overtake another's, and for
two reads of one producer to be a violation rather than impossible.  Batches of
two against a channel of three give batches flushed by the limit, by the ticker,
and by the drain, and a drain of more than one batch.  A queue of one makes every
second pipeline event meet the overflow branch; a cache limit of one makes
every second key trim.  Retention 2, zones 0 and 1 and time 2 give rows older than, at and younger
than the cutoff, and a cutoff of either zone.  Two shards and three nodes are the least for a node linked under
two different locks, and for a PID that is reused.  In `services`, four entries are a process, its child,
the reuse of a PID and something to remember; a bus channel of one is full after one event; six plugin
calls are two reloads around a registration; two syncs are one that overtakes another; four starts are
a crash, a restart, and a second daemon.  In `response`, four processes are a parent, a child, a grandchild and
a late fork, over three PIDs so that one is reused; the chains are empty, one that accepts the rest, and one that
refuses the agent's port; `KillTree` runs for Linux and Windows, macOS having the code of Linux; pairs of events are all that a monotone
score is about; two files of one name are what it takes to overwrite evidence.  With all the engines
together the host stays nearly still (one process, one content), since the engines share only the
order of the actions.

Deadlock checking is off in every run: producers may stop producing, the owner may
have stopped, and the bounded counters may be exhausted.  What must not stop is
stated as liveness instead (`StopReturns`, `EventuallyDecided`,
`EventuallyAnalysed`) or as the absence of hold-and-wait (`LocksHeld`).

### Fairness

`WF(Worker)`: a goroutine that can take a step is eventually scheduled, database
calls and hooks return (each insert is under a context or runs on a local file),
and the 100 ms ticker keeps ticking.  Weak fairness of the worker as a whole
suffices: each of its states has at least one way on, and `Receive` and
`DrainEnd` exclude each other in the drain loop.  `WF(StopWait)`: `wg.Wait` returns
when the worker has.  `WF(Submit(p))`, `WF(Ingest(c))`: a call that has begun goes
on.  Nobody is obliged to submit, start, stop or cancel, and the clock need not
advance.  Go's `select` chooses among ready cases without a promise to any; nothing here
relies on its choosing a particular one infinitely often.

The progress of the drain loop needs finitely many events: `MaxOffers` and
`MaxIngests` bound them.  The code itself bounds neither the loop nor its time,
although `docs/architecture/SYSTEM_DESIGN.md:287` speaks of three seconds; producers that never pause could keep it busy.

## 4. Proofs

Every theorem holds for all values of the constants: any finite set of producers or
callers, any set of objects, keys, PIDs, plugins, feeds or policies, any list of stages, any capacity,
batch limit, TTL, cache limit, percentage and retention, and any value of the bounds.  The only
premises are the named assumptions of the modules (`RouterAssumption`, `PipelineAssumption`,
`DedupAssumption`, `StorageAssumption`, `ShardedAssumption`, `CoreAssumption`, `BusAssumption`,
`CorrAssumption`, `PluginAssumption`, `FeedAssumption`, `DaemonAssumption`, `DetectionAssumption`,
`PolicyAssumption`, `HostAssumption`, `IsolationAssumption`, `KillAssumption`, `QuarantineAssumption`, `ResponseAssumption`),
which TLC evaluates in the runs, and, for `VerdictMonotone`, `NormalizerFirst`.

Every invariant and action property of a passing run, and both refinements of `TelemetryLog`, are
stated by a theorem.

Several properties are about what a function computes by its own earlier values: a chain of policies,
a walk along edges, a timeline, a line of ancestors.  Each is proved in the same two steps.  The function is
shown to exist, as the definition of the last of a series of partial ones, so that it can be unfolded.  Then the claim
is made of every argument, and the least (or greatest) one for which it fails is refuted
with the arguments before (`LeastElement`).

### Event router

`EventRouter_proofs`.  `TypeOK`, `OneOwner` and
`Custody` are not inductive.  What makes them so is *who holds what when*:

- `Holding`: a producer holds an object exactly while it is inside `Submit`, with
  the contents it filled in, and no held object is queued or batched;
- `Ownership` = `TypeOK`, `Holding`, `OneOwner`, `Custody`.  Custody gives the
  queue and the batch pairwise different tickets, hence different objects, so that
  recycling the head of the batch or sending a held object disturbs no other place
  (`HeadAlone`, `HeldAlone`, `RecycleKeeps`).

On top of `Ownership`, each delivery result has its own strengthening:

- `RouterAccounting`: a step moves at most one producer in or out of `Submit`
  (`BusyCount`);
- `RouterTriage`: a producer about to send a file read (`PendingRead`) has none of its
  reads above the watermark: it saw the queue below it, and only its own sends could
  have put one there since;
- `RouterDrained`: `Phases` ties each place of the worker to what must be empty
  there, and says that a worker in or after the drain loop was preceded by
  the closing;
- `RouterStoredOrLogged` and `RouterImplementsLog`: `Fates` = `StoredOrLogged`, `Pending`,
  `TxOrder`.  Every row of an event between `decided` and `settled` is in the open
  transaction or logged as lost, and the transaction holds only such rows, ordered
  and without repetition.  A step of the router then is a step of `TelemetryLog`
  (`Accept` for `Send`, `Decide` for a commit or a discard that decides something) or a
  stutter (`LogStep`).

### Telemetry pipeline and deduplicator

`TelemetryPipeline_proofs`.  `Order` is the type invariant and `Custody`: the accepted
events are `analysed \o (batch \o queue)`, with the head of the batch possibly in the
hooks.  It is inductive and gives `HooksInOrder`.  On top of it:

- `Counted`: the sum in `MetricsConserved`, and `Persisted` never ahead of `handled`, from which the rest of it follows.  `Moves` says what
  a step of one caller does to the two numbers of callers in it;
- `Draining`: the worker drains only a closed pipeline, and heads for its end only after a
  cancellation or with everything accepted before the close analysed or in the batch;
- `PipelineLogStep`: the event being stored is the accepted one after the last decided.

`Services_proofs`.  `DedupExact` needs to know what the cache means: `CacheComplete`
(it holds all that is less than a TTL old) and `CacheSound` (it holds nothing else than
times at which a key was let through).  Trimming keeps both because it removes
stale keys only.

### Storage

`Storage_proofs`.  A rollback or a kill brings back the tables in `undo`, so that an invariant of
the current tables alone is not inductive.  The conditions are therefore stated of *any*
tables: `Sound` (types, row ids under the counter, no orphan), `Kept` (evidence is there,
and its process has an alert), `Swept` (what the finished statements of a cycle have left) and
`Recorded` (a committed alert has made its process's rows evidence).  `StoreInv` claims them of
the tables and, while a transaction is open, of `undo`.  Evidence survives the pruner
because its process has an alert and every statement spares the processes that have one;
a transaction in progress can only have added rows, at the present time, which no cutoff
of a cycle reaches (`Controls`), whatever its zone.  That the cutoff is at most the present time less the retention, plus a zone,
stays true while time goes on, and gives `PrunesOnlyOld`.

### Sharded correlation

`ShardedCorrelation_proofs`.  `LinkedOrRaced` speaks of the two edges once a caller has left the lock; the
strengthening (`ShardInv`) says what they are on the way there.  `Fresh`: an append writes back what
its node still has, and is the only one there, unless the node has been raced for.  `Underway`: the
node a caller is linking with is the only one of the parent's id that can be as old as the child, since
a later one has a larger number; between the two appends the parent has the edge already.  `AppendKeeps`
then says that no append takes an edge from a node that has not been raced for, and `GraphKeeps` that
finished links stay.  `LocksHeld` is inductive with the types, because `Link` alone takes a lock and
comes from a place that holds none.

`Sound` says that an alert's chain goes from kin to kin, has the types its rule wants, and that the root is its earliest node.
`AlertInv` says where a chain comes from: every edge leads to kin (`Nearby`), a shard maps an
id to a node of that id (`Current`), and a caller about to append has read kin and is to append
kin (`Reading`); so the chain that a walk has found is `Genuine`, and remains so while it waits to be sent
(`Matching`) and when it has been (`Delivered`).  That a walk finds nothing else is the unfolding of `Walk`: from the last
place in a rule from which the chain of some node would not be `Fitting`, one step leads to chains that are.

### Correlation

`Services_proofs`.  `Forest` is inductive once the state is typed (`ForestInv`).  The one step that
counts is a launch: the new node is the largest number, is put at the end of at most one list, and that
list is its own only if the process is its own parent (`LaunchGrows`); a list is otherwise what it was, so
two occurrences of one child are two old ones, or both the new one (`LaunchKeeps`).  Expiry and reuse of a PID change the map
and no list.

`TimelineExact` needs two more facts.  `Linked`: who has a node in its list is who launched it, and the other way round,
so that descent along the lists is descent by history.  `Filed`: an entry is in one list of one node, once, and it is
its own node's.  With these, `CollectedTimes` counts: what one node yields once, the recursion brings
once to every node it is under, and not at all to the others.  It is refuted at the greatest node for which it
fails: all children are greater, and at most one of them can be what the entry comes by,
since no node is under two siblings (`OneSibling`).

### Agent core and event bus

`Services_proofs`.  `HooksBeforeStopped` says that a hook of the first copy has been called when the state is
STOPPED, whoever was the first to end.  The strengthening (`HooksAhead`) says it of every moment before: a hook of
the first copy has been called, or every caller inside the loop that has not called it still has it left.

`BusOrder` says that a channel has its events in an order of their publishers.  `UnderWay` adds what
it takes for one more: an event that is being published is of one publisher only, has not finished, and the
channels it still has to be offered to have not had it.

### Plugins and feeds

`Services_proofs`.  `RunningReachable`: a plugin that runs is in the map, or its name was taken over by a registration or by a
reload that others came in between.  `NameFree` is what an undisturbed reload relies on: between
its two locked sections nobody has its name, so that its second one takes over nothing.

`SyncedReach` is about what the table held when a `Sync` began.  `Reached` says it of all that its load read: it can be
looked up, and as a row as new describes it, unless a later load had read less of the table, which is
what two overlapping `Sync`s may do.  `Ingests`: the step that ends a bundle finds the feed it was for.

### Daemon

`Services_proofs`.  `Alone`: a daemon nobody has disturbed is the only one up.  `Paths`: what is at the two paths at
each place of such a daemon: no socket once it has removed the old one, its own after
listening, its token, or the configured one, where a client looks when it serves.  What earlier ones
left behind does not occur in it, because each step overwrites what it needs.

### Policy and detection

`Decisions_proofs`.  `ClosestRule`: the policies that are asked are the ancestors of the active one, as far as
each has a parent that is loaded (`AskedFrom`).  A policy that has a matching rule answers in as many steps as it
takes to come to it (`AnsweredInTime`).  If nobody on the way has one, the steps run out, in a chain that ends with
"Monitor", and in a circle without an answer (`NeverAnswered`); more steps than there are policies tell the one from the other.

`VerdictMonotone` is proved stage by stage: the context of an event with more signs has at least as many verdicts and a
score as high, and its verdicts spare no more (`Exceeds`); a score never exceeds what the verdicts come to
(`Fine`), so that a stage that sets it anew does not fall behind.  The hypothesis `NormalizerFirst` is that the list of stages begins with the normalizer, as
it does wherever the repository makes one (`pipeline_test.go:27`, `purple_test.go:35`, `benchmark.go:174`); the stages after it
look at what it has normalized.

### Response

`Response_proofs`.  The engines share the order of the actions and no state, so that the invariant (`ResponseInv`) is one part for
each of them, and `Planning` and `Serving`: a caller is in at most one engine, that of the action it has come to.

- `WhitelistUnlessRaced` (`NetInv`): without a mishap no isolation runs beside a restoration, and what an operation has
  done so far nobody has undone (`Kept`), so that the last command of an isolation finds both
  rules in the chain (`Own`).  The first rule of the chain about their traffic is then one of these or one
  of the host before it.
- `SurvivorsEscaped` (`TreeInv`): while a call runs (`Underway`), a dead process is listed or excused; whoever was forked by a
  listed process is listed, excused, or ahead of some frame; a listed one that lives is excused or has a frame that will signal
  it (`Doomed`).  When the last frame returns, nothing is ahead, and a survivor's line of ancestors leads over somebody
  excused (`Escaped`).  `Family` is what the host keeps: a PID has one living process, and a process its
  parent while that lives.
- `QuarantineKeeps` (`QInv`): calls have ids of their own (`OwnId`); a file that was read holds that or something later
  (`NoOlder`); what was written is in the vault until somebody else writes there (`Written`).

### Compositions

`ServicesTypeOK` and `MCTypeOK` follow from the invariants of all parts together (`ServicesInv`, `MCInv`): a step moves
one of them, and the variables of the others stay.

### What is only model-checked

Liveness (`EventuallyDecided`, `EventuallyAnalysed`, and `StopReturns` of the two collection paths), which is
out of the prover's reach; and the five violations of section 5, which are counterexamples.

## 5. Findings

1. `storage_retention`.  One recent row of an old, unalerted process makes the
   foreign keys refuse the pruner's third statement as a whole, so *no* expired process row
   is deleted, for as long as such a process exists.
   `docs/reference/DATABASE.md` promises daily deletion.
2. `storage_attribution`.  `process_id` of `processes` is a row number; file, network
   and alert rows carry the PID there.  A row then belongs to a process it is not
   about, or is refused.  `DATABASE.md` calls both the PID.
3. `storage_zone`.  The pruner's cutoff is written in the host's local time and compared with rows in UTC.  East of
   UTC a row is deleted as many hours before it is seven days old as local time is ahead (west of it, later).
   `docs/architecture/ARCHITECTURE.md:139` has a 7-day rolling window.  `PrunesOnlyOld`, which passes, says that this
   is all that is lost early.
4. `sharded_links`.  A node's edges are appended to under the locks of two shards,
   when it is linked with its parent and when a child is linked with it; one of the
   edges is lost.  The design draws a "Thread-Safe Write".
   `LinkedOrRaced`, which passes, says that nothing else loses an edge.
5. `sharded_window`.  The window check subtracts the node's time from its
   neighbour's.  When a child is ingested after its parent, the walk goes from the child to the parent, the
   difference is negative, and the alert is raised however much later the child is.

Disagreements that the models state without a run of their own:

- `configs/aegis.yaml:34` sets a risk threshold of 8.5, but `CalculateCompoundScore` never gives
  more than 1 (`docs/architecture/DETECTION_ENGINE.md` describes scores up to 10), and the configured actions
  `isolate_network` and `kill_process` are none of the names `EvaluateAndMitigate` knows.  Automatic
  mitigation as configured does nothing.
- Every severity a stage gives is above 1 and is cut down to 1, so weights alone tell verdicts apart.
- `docs/architecture/RESPONSE_ENGINE.md:38` describes a whitelist of processes that are never killed; there is none in
  the code.  On Windows `KillTree` kills the process alone, on macOS isolation only
  turns the packet filter on, and neither of these two has an exception for the operator.
- `docs/architecture/RESPONSE_ENGINE.md:106` has the isolation rules inserted at the top of the chain;
  `isolate_linux.go:16-18` appends them (`-A`).  A rule that the host has before them keeps deciding: one that refuses port 8443
  cuts the host off from its operator, and one that accepts other traffic leaves it unisolated, although line 103 has all
  communication blocked but the agent's and the loopback's.  `WhitelistUnlessRaced` says the first; nothing says that the rest is blocked, since it is not.
- `docs/architecture/RESPONSE_ENGINE.md:108` whitelists the gRPC port, DNS and DHCP; the code has a rule for TCP port 8443 and one for the
  loopback interface, and a host that is isolated resolves no name and renews no lease.
- `RestoreHost` empties the whole chain, the host's own rules included, and makes the policy ACCEPT whatever it was.
- `RestoreHost` returns the error of its second command only: a host may stay cut off although it
  reports success.
- `docs/architecture/RESPONSE_ENGINE.md:64-66` ends a termination with a check that the process has exited.  `KillTree` makes none: a child that
  a signal does not kill is passed over without an error, and so is a target that ignores it (`SurvivorsEscaped` counts both among those that get away).
- A policy that is its own ancestor, and a process that is its own parent, make the code recurse until the
  program ends (`ClosestRule` and `Forest` say exactly when).
- A name registered twice, and two quarantined files of one base name, replace one another silently
  (`RunningReachable`, `QuarantineKeeps` name these as the only cases).
- A daemon that ends removes the socket and token file of one that was started meanwhile.

## 6. Not modelled, and the plan

Not modelled, for the reasons in `PROJECT.json`: forensics, scanners, platform monitors, diagnostics and reporting,
configuration and logging, certificates, the container and the health report, generated code, and of the
command line all but its connection.  These are matching and formatting, sequential reads,
stubs, or generated; there is no order of steps in them to explore.  `Replay` and the sharded engine's
`ReconstructTimeline` are left out too: the one is a sequence of `Ingest` calls, the other a read.

Still worth doing, in this order:

1. The composition of the router and the pipeline with `Storage`: what is accepted ends up under a
   process row that survives pruning.
2. The sharded engine's `ReconstructTimeline` against concurrent appends.
