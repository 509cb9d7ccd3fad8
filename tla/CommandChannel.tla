--------------------------- MODULE CommandChannel ---------------------------
(***************************************************************************)
(* What the modules that serve the server's commands share: the agent's    *)
(* process and the authenticated control channel, a pair of FIFO queues    *)
(* that are lost with the connection.  ControlChannel models how the       *)
(* channel comes about.                                                    *)
(***************************************************************************)
EXTENDS Integers, Sequences

CONSTANTS
    None,  \* no argument, no core module, no hash
    Setups \* the settings of the agent that are possible: see Setup

\* noUpdateCoreModule, forceUpdate and fakeUpdate are settings of the database.
\* service: JSRunningAsService.  zipped: the server sends zip files.  dbFails,
\* diskFails: writes to the database, or to the files of an update, may fail.
\* current: at first the agent's program is the one the server distributes.
\* changes: bound on the times the administrator changes the core module.
Setup == [noUpdateCoreModule : BOOLEAN, forceUpdate : BOOLEAN, fakeUpdate : BOOLEAN,
          service : BOOLEAN, zipped : BOOLEAN, dbFails : BOOLEAN, diskFails : BOOLEAN,
          current : BOOLEAN, changes : Nat]

ASSUME SetupsAssumption == Setups \subseteq Setup

VARIABLES
    setup,     \* the settings of this agent
    phase,     \* of the process: see Phases
    connected, \* serverConnectionState = 2
    toAgent,   \* commands of the server not handled yet
    toServer   \* replies of the agent the server has not read

channel == <<connected, toAgent, toServer>>

\* "exiting": the chain was told to stop and its last iteration goes on.
\* "installing", "copying": the chain is gone, see SelfUpdate.
Phases == {"down", "up", "exiting", "installing", "copying"}

\* The chain dispatches until the iteration it was stopped in is over.
Running == phase \in {"up", "exiting"}

Message(cmd, arg) == [cmd |-> cmd, arg |-> arg]

\* The next command on the channel is this one.
Comes(cmd, arg) ==
    /\ Running
    /\ connected
    /\ toAgent # <<>>
    /\ Head(toAgent) = Message(cmd, arg)

\* MeshServer_ProcessCommand takes it off the channel.
Receive(cmd, arg) ==
    /\ Comes(cmd, arg)
    /\ toAgent' = Tail(toAgent)
    /\ UNCHANGED connected

Reply(cmd, arg) == toServer' = Append(toServer, Message(cmd, arg))
Silent == UNCHANGED toServer

Unconnected == connected' = FALSE /\ toAgent' = <<>> /\ toServer' = <<>>
=============================================================================
