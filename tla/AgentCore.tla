----------------------------- MODULE AgentCore -----------------------------
(***************************************************************************)
(* internal/core: Bootstrap runs the agent between its start-up checks and *)
(* a signal, LifecycleManager calls the shutdown hooks, ServiceManager the *)
(* services and Scheduler the periodic tasks.                              *)
(*                                                                         *)
(* The three do not touch each other's state.  `hookRuns' and `firstCopy'  *)
(* are history variables.                                                  *)
(***************************************************************************)
EXTENDS Integers, Sequences, FiniteSets

CONSTANTS Stoppers,      \* goroutines that call TriggerShutdown beside Bootstrap.Run
          Run,           \* the goroutine of Bootstrap.Run
          Services,      \* the services a name may be registered with
          SvcNames,      \* the names they are registered under
          Tasks,         \* the goroutines Schedule starts
          MaxHooks       \* bound: the hooks registered

ASSUME CoreAssumption == MaxHooks \in Nat /\ Run \notin Stoppers /\ IsFiniteSet(Stoppers)

Callers == Stoppers \cup {Run}

VARIABLES
  appState,    \* LifecycleManager.state
  hooks,       \* len(shutdownHooks): hooks are numbered in the order they were registered
  lpc,         \* where a caller stands in Run or TriggerShutdown
  left,        \* the hooks its copy still has it call
  hookRuns,    \* history: how often each hook has been called
  firstCopy,   \* history: how many hooks the first copy had, -1 before it is made
  services,    \* ServiceManager.services: the service of a name
  svcRunning,  \* the services that were started and not stopped
  task,        \* what a scheduled goroutine is doing
  schedOn      \* whether the Scheduler's context is still alive

lifeVars  == <<appState, hooks, lpc, left, hookRuns, firstCopy>>
svcVars   == <<services, svcRunning>>
schedVars == <<task, schedOn>>
coreVars  == <<lifeVars, svcVars, schedVars>>

CoreInit ==
  /\ appState = "INITIALIZING" /\ hooks = 0
  /\ lpc = [c \in Callers |-> IF c = Run THEN "booting" ELSE "idle"]
  /\ left = [c \in Callers |-> <<>>] /\ hookRuns = <<>> /\ firstCopy = -1
  /\ services = <<>> /\ svcRunning = {}
  /\ task = [t \in Tasks |-> "unscheduled"] /\ schedOn = TRUE

-----------------------------------------------------------------------------
(* Lifecycle.  Bootstrap.Initialize fails if the start-up check does. *)

RegisterHook == /\ hooks < MaxHooks /\ hooks' = hooks + 1 /\ hookRuns' = Append(hookRuns, 0)
                /\ UNCHANGED <<appState, lpc, left, firstCopy>>

SetState(s) == appState' = s

Initialize == /\ lpc[Run] = "booting" /\ lpc' \in {[lpc EXCEPT ![Run] = "booted"],
                                                   [lpc EXCEPT ![Run] = "failed"]}
              /\ UNCHANGED <<appState, hooks, left, hookRuns, firstCopy>>

EnterRun == /\ lpc[Run] = "booted" /\ SetState("RUNNING")
            /\ lpc' = [lpc EXCEPT ![Run] = "waiting"]
            /\ UNCHANGED <<hooks, left, hookRuns, firstCopy>>

Signalled == /\ lpc[Run] = "waiting" /\ SetState("STOPPING")
             /\ lpc' = [lpc EXCEPT ![Run] = "idle"]
             /\ UNCHANGED <<hooks, left, hookRuns, firstCopy>>

CopyOf == [i \in 1 .. hooks |-> i]

(* TriggerShutdown: one locked section, the hooks, another locked section. *)
Trigger(c) ==
  /\ lpc[c] = "idle" /\ SetState("STOPPING")
  /\ left' = [left EXCEPT ![c] = CopyOf]
  /\ firstCopy' = IF firstCopy = -1 THEN hooks ELSE firstCopy
  /\ lpc' = [lpc EXCEPT ![c] = "hooks"]
  /\ UNCHANGED <<hooks, hookRuns>>

CallHook(c) ==
  /\ lpc[c] = "hooks" /\ left[c] # <<>>
  /\ hookRuns' = [hookRuns EXCEPT ![Head(left[c])] = @ + 1]
  /\ left' = [left EXCEPT ![c] = Tail(@)]
  /\ UNCHANGED <<appState, hooks, lpc, firstCopy>>

BugHooksLeft(c) == lpc[c] = "hooks" /\ Len(left[c]) <= 1
HooksCalled(c) == lpc[c] = "hooks" /\ left[c] = <<>>

Stopped(c) ==
  /\ HooksCalled(c) /\ SetState("STOPPED")
  /\ lpc' = [lpc EXCEPT ![c] = "returned"]
  /\ UNCHANGED <<hooks, left, hookRuns, firstCopy>>

Lifecycle == /\ \/ RegisterHook \/ Initialize \/ EnterRun \/ Signalled
                \/ \E c \in Callers : Trigger(c) \/ CallHook(c) \/ Stopped(c)
             /\ UNCHANGED <<svcVars, schedVars>>

-----------------------------------------------------------------------------
(* Services.  StartAll goes through the map in any order, and returns at the first *)
(* error with what it has started left running; StopAll ignores errors.            *)
AllServices == {services[n] : n \in DOMAIN services}

RegisterService(n, s) ==
  /\ services' = [m \in DOMAIN services \cup {n} |-> IF m = n THEN s ELSE services[m]]
  /\ UNCHANGED svcRunning

StartAll ==
  /\ \/ svcRunning' = svcRunning \cup AllServices
     \/ \E s \in AllServices, started \in SUBSET AllServices :
          s \notin started /\ svcRunning' = svcRunning \cup started
  /\ UNCHANGED services

StopAll == /\ \E failing \in SUBSET AllServices :
                svcRunning' = svcRunning \ (AllServices \ failing)
           /\ UNCHANGED services

ServiceCalls == /\ StartAll \/ StopAll \/ \E n \in SvcNames, s \in Services : RegisterService(n, s)
                /\ UNCHANGED <<lifeVars, schedVars>>

-----------------------------------------------------------------------------
(* Scheduler.  A goroutine selects between its ticker and the context, either of *)
(* them when both are ready; a panic of the task is recovered; Stop does not     *)
(* wait for the task that runs.                                                  *)

Schedule(t)  == task[t] = "unscheduled" /\ task' = [task EXCEPT ![t] = "select"] /\ UNCHANGED schedOn
TaskStart(t) == task[t] = "select" /\ task' = [task EXCEPT ![t] = "running"] /\ UNCHANGED schedOn
TaskEnd(t)   == task[t] = "running" /\ task' = [task EXCEPT ![t] = "select"] /\ UNCHANGED schedOn
TaskDone(t)  == task[t] = "select" /\ ~schedOn /\ task' = [task EXCEPT ![t] = "done"]
                /\ UNCHANGED schedOn
StopScheduler == schedOn /\ schedOn' = FALSE /\ UNCHANGED task

Scheduler == /\ \/ StopScheduler
                \/ \E t \in Tasks : Schedule(t) \/ TaskStart(t) \/ TaskEnd(t) \/ TaskDone(t)
             /\ UNCHANGED <<lifeVars, svcVars>>

CoreNext == Lifecycle \/ ServiceCalls \/ Scheduler

CoreSpec == CoreInit /\ [][CoreNext]_coreVars

-----------------------------------------------------------------------------
CoreTypeOK ==
  /\ appState \in {"INITIALIZING", "RUNNING", "STOPPING", "STOPPED"}
  /\ hooks \in Nat /\ hookRuns \in [1 .. hooks -> Nat] /\ firstCopy \in Nat \cup {-1}
  /\ lpc \in [Callers -> {"booting", "booted", "failed", "waiting", "idle", "hooks", "returned"}]
  /\ left \in [Callers -> Seq(1 .. hooks)]
  /\ DOMAIN services \subseteq SvcNames /\ AllServices \subseteq Services
  /\ svcRunning \subseteq Services
  /\ task \in [Tasks -> {"unscheduled", "select", "running", "done"}] /\ schedOn \in BOOLEAN

(* When the agent says STOPPED, every hook registered before the first shutdown began *)
(* has been called, whoever else shuts down at the same time.                         *)
HooksBeforeStopped == appState = "STOPPED" => \A h \in 1 .. firstCopy : hookRuns[h] > 0
=============================================================================
