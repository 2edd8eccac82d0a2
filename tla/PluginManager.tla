--------------------------- MODULE PluginManager ---------------------------
(***************************************************************************)
(* pkg/sdk/plugin's Manager: plugin objects registered under their names,  *)
(* and WASM modules run in a runtime of its own.  A mutex is held through  *)
(* RegisterPlugin, UnregisterPlugin and Close, but HotReloadPlugin takes   *)
(* it twice, and NegotiateAndExecute calls the plugin without it.          *)
(*                                                                         *)
(* `replaced' is a history variable, and so is the field `raced'.          *)
(***************************************************************************)
EXTENDS Integers, FiniteSets

CONSTANTS PlugCallers,   \* goroutines that call the manager
          Plugins,       \* the plugin objects
          PlugNames,     \* their names
          PlugNameOf,    \* [Plugins -> PlugNames \cup {NoName}]
          NoName,        \* the empty name
          OtherApi,      \* the plugins of another API version
          Offers,        \* the pairs of a plugin and a capability in its metadata
          Capabilities,  \* what callers ask for
          MaxPlugCalls   \* bound: the calls

ASSUME PluginAssumption ==
  /\ PlugNameOf \in [Plugins -> PlugNames \cup {NoName}] /\ NoName \notin PlugNames
  /\ OtherApi \subseteq Plugins /\ Offers \subseteq Plugins \X Capabilities
  /\ MaxPlugCalls \in Nat

VARIABLES registry,   \* Manager.plugins: the plugin of a name, for the names in it
          life,       \* the last of Init, Start, Stop that succeeded on a plugin
          runtimeOn,  \* whether the WASM runtime is open
          compiled,   \* how many compiled modules it keeps
          pcall,      \* what a caller is doing
          plugCalls,  \* how many calls have been made
          replaced    \* history: the registrations that took over a name

plugVars == <<registry, life, runtimeOn, compiled, pcall, plugCalls, replaced>>

NotCalling == [at |-> "idle"]

PlugInit ==
  /\ registry = <<>> /\ life = [p \in Plugins |-> "new"] /\ runtimeOn = TRUE /\ compiled = 0
  /\ pcall = [c \in PlugCallers |-> NotCalling] /\ plugCalls = 0 /\ replaced = {}

-----------------------------------------------------------------------------
BeginPlug(c) == pcall[c] = NotCalling /\ plugCalls < MaxPlugCalls /\ plugCalls' = plugCalls + 1

Acceptable(p) == PlugNameOf[p] # NoName /\ p \notin OtherApi

(* The plugin that registering p would push out of the map. *)
Ousted(p) == {q \in Plugins \ {p} : PlugNameOf[p] \in DOMAIN registry
                                    /\ registry[PlugNameOf[p]] = q}

Without(name) == [n \in DOMAIN registry \ {name} |-> registry[n]]

With(p) == [n \in DOMAIN registry \cup {PlugNameOf[p]} |->
              IF n = PlugNameOf[p] THEN p ELSE registry[n]]

(* A caller between the halves of its HotReloadPlugin learns that its name was taken. *)
Disturb(p, taken) == [c \in PlugCallers |->
  IF /\ taken # registry
     /\ pcall[c].at = "reload" /\ PlugNameOf[pcall[c].plugin] = PlugNameOf[p]
  THEN [pcall[c] EXCEPT !.raced = TRUE] ELSE pcall[c]]

(* RegisterPlugin: refused; failed by Init or by Start; or registered, over the *)
(* plugin that had the name, which is not stopped.                              *)
Register(p, op, raced) ==
  \/ ~Acceptable(p) /\ UNCHANGED <<registry, life, replaced>>
  \/ /\ Acceptable(p)
     /\ life' \in {life, [life EXCEPT ![p] = "initialised"]}
     /\ UNCHANGED <<registry, replaced>>
  \/ /\ Acceptable(p)
     /\ life' = [life EXCEPT ![p] = "running"]
     /\ registry' = With(p)
     /\ replaced' = replaced \cup {[plugin |-> q, by |-> op, raced |-> raced] : q \in Ousted(p)}

(* The manager ignores what Stop returns. *)
BugNoStop(set) == set \subseteq Plugins /\ UNCHANGED life
Stop(set) == \E failing \in SUBSET set :
  life' = [p \in Plugins |-> IF p \in failing THEN "stop failed"
                             ELSE IF p \in set THEN "stopped" ELSE life[p]]

Unregister(name) ==
  IF name \in DOMAIN registry
  THEN Stop({registry[name]}) /\ registry' = Without(name)
  ELSE UNCHANGED <<registry, life>>

RegisterPlugin(c, p) ==
  /\ BeginPlug(c) /\ Register(p, "register", FALSE)
  /\ pcall' = Disturb(p, registry') /\ UNCHANGED <<runtimeOn, compiled>>

UnregisterPlugin(c, name) ==
  /\ BeginPlug(c) /\ Unregister(name)
  /\ UNCHANGED <<pcall, runtimeOn, compiled, replaced>>

ReloadStop(c, p) ==
  /\ BeginPlug(c) /\ Unregister(PlugNameOf[p])
  /\ pcall' = [pcall EXCEPT ![c] = [at |-> "reload", plugin |-> p, raced |-> FALSE]]
  /\ UNCHANGED <<runtimeOn, compiled, replaced>>

ReloadStart(c) ==
  /\ pcall[c].at = "reload"
  /\ Register(pcall[c].plugin, "reload", pcall[c].raced)
  /\ pcall' = [Disturb(pcall[c].plugin, registry') EXCEPT ![c] = NotCalling]
  /\ UNCHANGED <<runtimeOn, compiled, plugCalls>>

ClosePlugins(c) ==
  /\ BeginPlug(c) /\ Stop({registry[n] : n \in DOMAIN registry})
  /\ runtimeOn' = FALSE /\ compiled' = 0
  /\ UNCHANGED <<registry, pcall, replaced>>

-----------------------------------------------------------------------------
(* NegotiateAndExecute finds the plugin under the read lock, and calls it without. *)

Negotiate(c, name) ==
  /\ BeginPlug(c) /\ name \in DOMAIN registry
  /\ pcall' = [pcall EXCEPT ![c] = [at |-> "found", plugin |-> registry[name]]]
  /\ UNCHANGED <<registry, life, runtimeOn, compiled, replaced>>

Execute(c) ==
  /\ pcall[c].at = "found"
  /\ \E cap \in Capabilities :
       pcall' = [pcall EXCEPT ![c] = IF <<pcall[c].plugin, cap>> \in Offers
                                     THEN [at |-> "executing", plugin |-> pcall[c].plugin]
                                     ELSE NotCalling]
  /\ UNCHANGED <<registry, life, runtimeOn, compiled, plugCalls, replaced>>

Executed(c) ==
  /\ pcall[c].at = "executing" /\ pcall' = [pcall EXCEPT ![c] = NotCalling]
  /\ UNCHANGED <<registry, life, runtimeOn, compiled, plugCalls, replaced>>

(* ExecutePlugin compiles, instantiates and calls a module; nothing closes what it *)
(* compiled but the runtime.  Any step can fail, and does once the runtime is      *)
(* closed; the deferred calls then free the buffer and close the module.           *)
Compile(c) ==
  /\ BeginPlug(c) /\ runtimeOn
  /\ compiled' = compiled + 1
  /\ pcall' = [pcall EXCEPT ![c] = [at |-> "compiled"]]
  /\ UNCHANGED <<registry, life, runtimeOn, replaced>>

SandboxNext == [compiled |-> "instantiated", instantiated |-> "allocated", allocated |-> "idle"]

Sandbox(c) ==
  /\ pcall[c].at \in DOMAIN SandboxNext
  /\ \/ runtimeOn /\ pcall' = [pcall EXCEPT ![c] = [at |-> SandboxNext[pcall[c].at]]]
     \/ pcall' = [pcall EXCEPT ![c] = NotCalling]
  /\ UNCHANGED <<registry, life, runtimeOn, compiled, plugCalls, replaced>>

PlugNext == \E c \in PlugCallers :
  \/ \E p \in Plugins : RegisterPlugin(c, p) \/ ReloadStop(c, p)
  \/ \E name \in PlugNames : UnregisterPlugin(c, name) \/ Negotiate(c, name)
  \/ ReloadStart(c) \/ ClosePlugins(c)
  \/ Execute(c) \/ Executed(c) \/ Compile(c) \/ Sandbox(c)

PlugSpec == PlugInit /\ [][PlugNext]_plugVars

-----------------------------------------------------------------------------
PlugTypeOK ==
  /\ DOMAIN registry \subseteq PlugNames
  /\ \A n \in DOMAIN registry : registry[n] \in Plugins /\ PlugNameOf[registry[n]] = n
  /\ life \in [Plugins -> {"new", "initialised", "running", "stopped", "stop failed"}]
  /\ runtimeOn \in BOOLEAN /\ compiled \in Nat /\ plugCalls \in Nat
  /\ pcall \in [PlugCallers -> [at : {"idle", "compiled", "instantiated", "allocated"}]
                  \cup [at : {"found", "executing"}, plugin : Plugins]
                  \cup [at : {"reload"}, plugin : Plugins, raced : BOOLEAN]]
  /\ replaced \subseteq [plugin : Plugins, by : {"register", "reload"}, raced : BOOLEAN]

Registered(p) == \E n \in DOMAIN registry : registry[n] = p

(* A plugin that was started and not stopped is in the map, where UnregisterPlugin and *)
(* Close can reach it, unless RegisterPlugin put another one over it; HotReloadPlugin, *)
(* which stops the old one first, does so only if the name is taken again in between.  *)
RunningReachable ==
  \A p \in Plugins : life[p] = "running" =>
    \/ Registered(p)
    \/ \E r \in replaced : r.plugin = p /\ (r.by = "register" \/ r.raced)
=============================================================================
