------------------------------- MODULE Daemon -------------------------------
(***************************************************************************)
(* cmd/aegisd's start and shutdown, the server's interceptors and the      *)
(* clients of cmd/aegis.  They meet at a socket and a token file, whose    *)
(* paths every daemon uses, whatever another one does with them or has     *)
(* left behind.                                                            *)
(*                                                                         *)
(* `disturbed' is history.                                                 *)
(***************************************************************************)
EXTENDS Integers, FiniteSets

CONSTANTS Daemons,    \* processes that run aegisd
          Clients,    \* processes that run a command of aegis
          NoDaemon,
          MaxStarts   \* bound: the starts of a daemon

ASSUME DaemonAssumption == NoDaemon \notin Daemons /\ MaxStarts \in Nat

Blank == 0        \* no token
FromConfig == -1  \* agent.ipc_token, where it is set

VARIABLES configured, \* agent.ipc_token by now: FromConfig or Blank
          sock,       \* whose listener the socket's path leads to; NoDaemon: there is no such file
          tokenFile,  \* what /tmp/aegis.token holds, Blank if it is not there
          daemon,     \* where a daemon stands, its token, and the number of its start
          client,     \* where a client stands, with its token and the daemon it is connected to
          starts,     \* how many starts there have been; a start's number is the token it would make
          disturbed   \* history: the daemons that met another one, a new configuration or a failed write

daemonVars == <<configured, sock, tokenFile, daemon, client, starts, disturbed>>

Down == [at |-> "down", token |-> Blank, start |-> 0]
NoClient == [at |-> "idle", token |-> Blank, to |-> NoDaemon]

(* The configuration that comes with the agent sets no token. *)
DaemonInit == /\ configured = Blank /\ sock = NoDaemon /\ tokenFile = Blank
              /\ daemon = [d \in Daemons |-> Down] /\ client = [c \in Clients |-> NoClient]
              /\ starts = 0 /\ disturbed = {}

-----------------------------------------------------------------------------
At(d, place) == daemon[d].at = place
Goes(d, place) == daemon' = [daemon EXCEPT ![d].at = place]

Up == {d \in Daemons : ~At(d, "down")}

(* The operator edits the configuration. *)
Configure == /\ configured' \in {Blank, FromConfig} \ {configured}
             /\ disturbed' = Up
             /\ UNCHANGED <<sock, tokenFile, daemon, client, starts>>

StartDaemon(d) ==
  /\ At(d, "down") /\ starts < MaxStarts /\ starts' = starts + 1
  /\ daemon' = [daemon EXCEPT ![d] = [at |-> "started", token |-> configured, start |-> starts']]
  /\ disturbed' = IF Up = {} THEN {} ELSE Up \cup {d}
  /\ UNCHANGED <<configured, sock, tokenFile, client>>

RemoveOldSocket(d) == /\ At(d, "started") /\ sock' = NoDaemon /\ Goes(d, "clear")
                      /\ UNCHANGED <<configured, tokenFile, client, starts, disturbed>>

(* Listen fails if the path is taken, and the daemon exits. *)
Listen(d) == /\ At(d, "clear")
             /\ IF sock = NoDaemon THEN sock' = d /\ Goes(d, "listening")
                ELSE UNCHANGED sock /\ daemon' = [daemon EXCEPT ![d] = Down]
             /\ UNCHANGED <<configured, tokenFile, client, starts, disturbed>>

BugWrites == tokenFile = Blank
Writes == TRUE

(* A daemon without a token makes one and writes the file, or logs that it could not. *)
TakeToken(d) ==
  /\ At(d, "listening")
  /\ \/ /\ daemon[d].token # Blank /\ Goes(d, "serving")
        /\ UNCHANGED <<tokenFile, disturbed>>
     \/ /\ daemon[d].token = Blank
        /\ daemon' = [daemon EXCEPT ![d].at = "serving", ![d].token = daemon[d].start]
        /\ \/ tokenFile' = (IF Writes THEN daemon[d].start ELSE tokenFile) /\ UNCHANGED disturbed
           \/ disturbed' = disturbed \cup {d} /\ UNCHANGED tokenFile
  /\ UNCHANGED <<configured, sock, client, starts>>

(* GracefulStop closes the listener, which unlinks its path, whoever's socket is there, *)
(* and waits for the calls under way; the daemon then removes both paths.               *)
Terminate(d) == /\ At(d, "serving") /\ sock' = NoDaemon /\ Goes(d, "draining")
                /\ UNCHANGED <<configured, tokenFile, client, starts, disturbed>>

Connected(d) == {c \in Clients : client[c].at = "calling" /\ client[c].to = d}

CleanUp(d) ==
  /\ At(d, "draining") /\ Connected(d) = {} /\ sock' = NoDaemon /\ Goes(d, "clean")
  /\ UNCHANGED <<configured, tokenFile, client, starts, disturbed>>

RemoveToken(d) == /\ At(d, "clean") /\ tokenFile' = Blank
                  /\ daemon' = [daemon EXCEPT ![d] = Down]
                  /\ UNCHANGED <<configured, sock, client, starts, disturbed>>

(* A daemon that dies leaves both files. *)
DaemonCrash(d) ==
  /\ ~At(d, "down") /\ daemon' = [daemon EXCEPT ![d] = Down]
  /\ client' = [c \in Clients |-> IF client[c].to = d THEN NoClient ELSE client[c]]
  /\ UNCHANGED <<configured, sock, tokenFile, starts, disturbed>>

-----------------------------------------------------------------------------
(* getGRPCClient: the configured token, or what the file holds. *)
TokenToShow == IF configured # Blank THEN configured ELSE tokenFile

ReadToken(c) == /\ client[c].at = "idle"
                /\ client' = [client EXCEPT ![c] = [at |-> "ready", token |-> TokenToShow, to |-> NoDaemon]]
                /\ UNCHANGED <<configured, sock, tokenFile, daemon, starts, disturbed>>

(* The interceptors let a call through if it shows the token; no daemon goes without one. *)
Admits(d, token) == token = daemon[d].token

Dial(c) ==
  /\ client[c].at = "ready"
  /\ client' = [client EXCEPT ![c] =
       IF sock # NoDaemon /\ At(sock, "serving") /\ Admits(sock, client[c].token)
       THEN [@ EXCEPT !.at = "calling", !.to = sock] ELSE NoClient]
  /\ UNCHANGED <<configured, sock, tokenFile, daemon, starts, disturbed>>

Answered(c) == /\ client[c].at = "calling" /\ client' = [client EXCEPT ![c] = NoClient]
               /\ UNCHANGED <<configured, sock, tokenFile, daemon, starts, disturbed>>

DaemonNext ==
  \/ Configure
  \/ \E d \in Daemons : \/ StartDaemon(d) \/ RemoveOldSocket(d) \/ Listen(d) \/ TakeToken(d)
                        \/ Terminate(d) \/ CleanUp(d) \/ RemoveToken(d) \/ DaemonCrash(d)
  \/ \E c \in Clients : ReadToken(c) \/ Dial(c) \/ Answered(c)

DaemonSpec == DaemonInit /\ [][DaemonNext]_daemonVars

-----------------------------------------------------------------------------
DaemonTypeOK ==
  /\ configured \in {Blank, FromConfig} /\ sock \in Daemons \cup {NoDaemon}
  /\ starts \in Nat /\ tokenFile \in 0 .. starts /\ disturbed \subseteq Daemons
  /\ daemon \in [Daemons -> [at : {"down", "started", "clear", "listening", "serving", "draining", "clean"},
                             token : {FromConfig} \cup 0 .. starts, start : 0 .. starts]]
  /\ client \in [Clients -> [at : {"idle", "ready", "calling"}, token : {FromConfig} \cup 0 .. starts,
                             to : Daemons \cup {NoDaemon}]]

(* Whatever died before it, and whatever that left behind, a daemon that serves can be   *)
(* reached and a client that comes now shows its token; unless another daemon was up at  *)
(* the same time, or the configuration was edited, or the token file was not written.    *)
Reachable ==
  \A d \in Daemons : At(d, "serving") /\ d \notin disturbed =>
    sock = d /\ Admits(d, TokenToShow)
=============================================================================
