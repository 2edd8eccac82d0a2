-------------------------------- MODULE Host --------------------------------
(* Which of the files named for an operating system the agent was built from. *)
CONSTANT Platforms
VARIABLE platform

ASSUME HostAssumption == Platforms \subseteq {"linux", "darwin", "windows"}

HostInit == platform \in Platforms
=============================================================================
