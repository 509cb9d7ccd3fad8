--------------------------- MODULE AgentCommands ----------------------------
(***************************************************************************)
(* The commands that change the agent lastingly, MeshServer_ProcessCommand *)
(* for an authenticated server: CoreModule and SelfUpdate put together     *)
(* with the process they share and the server at the other end.            *)
(*                                                                         *)
(* They meet in the heap: whatever stops the core module takes the unzips  *)
(* of an update with it.                                                   *)
(***************************************************************************)
EXTENDS CoreModule, SelfUpdate

VARIABLES
    wanted,   \* the core module the server wants the agent to run
    changes,  \* times it was changed
    transfer  \* the block of the update the server awaits the
              \* acknowledgement of; 0 when it sends none

server == <<wanted, changes, transfer>>
vars == <<setup, phase, channel, coreVars, updateVars, server>>

Commands ==
    [cmd : {"agentHash", "coreHash", "coreOk", "update", "updateEnd"}, arg : {None}]
    \cup [cmd : {"coreModule"}, arg : MaybeCore]
    \cup [cmd : {"block"}, arg : 1 .. Blocks]
Replies ==
    [cmd : {"coreHash"}, arg : MaybeCore]
    \cup [cmd : {"agentHash"}, arg : {None, "own", "new", "forced"}]
    \cup [cmd : {"block"}, arg : {None}]

TypeOK ==
    /\ setup \in Setup
    /\ phase \in Phases
    /\ connected \in BOOLEAN
    /\ toAgent \in Seq(Commands)
    /\ toServer \in Seq(Replies)
    /\ CoreTypeOK
    /\ UpdateTypeOK
    /\ wanted \in MaybeCore
    /\ changes \in 0 .. setup.changes
    /\ transfer \in 0 .. Blocks

Init ==
    /\ setup \in Setups
    /\ phase = "down"
    /\ connected = FALSE /\ toAgent = <<>> /\ toServer = <<>>
    /\ CoreInit
    /\ UpdateInit
    /\ wanted \in IF setup.changes = 0 THEN {None} ELSE MaybeCore
    /\ changes = 0
    /\ transfer = 0

-----------------------------------------------------------------------------
(* The agent *)

\* The handlers that destroy the heap.
HandlesInNewHeap ==
    /\ \/ (ClearCoreModule \/ DumpCoreModule) /\ SettingKept
       \/ (\E c \in Cores : CoreModuleStored(c)) /\ SettingFades
    /\ UnzipsLost
    /\ UNCHANGED server

\* The others of CoreModule.
HandlesCore ==
    /\ \/ ClearCoreModuleIgnored \/ CoreModuleHash \/ CoreOk \/ ServerTimeout \/ RestartCore
       \/ \E c \in Cores : CoreModuleKept(c)
    /\ UNCHANGED <<updateVars, server>>

\* What scripts do with the database.
HandlesDatabase ==
    /\ Compact \/ OtherPutFails
    /\ SettingFades
    /\ UNCHANGED <<program, update, unzips, output, flags, perform, installs, touched, faulted, server>>

HandlesUpdate ==
    /\ \/ AgentHash \/ UpdateStart \/ UpdateFailed \/ UpdateReceived \/ UnzipDone \/ UnzipFails
       \/ \E b \in 1 .. Blocks : UpdateBlock(b) \/ UpdatesDisabled("block", b)
       \/ UpdatesDisabled("update", None) \/ UpdatesDisabled("updateEnd", None)
    /\ UNCHANGED <<coreVars, server>>

\* MeshAgent_AgentMode until the chain is started.
Start ==
    /\ phase = "down"
    /\ phase' = "up"
    /\ StartCore
    /\ StartUpdate
    /\ UNCHANGED <<channel, server>>

\* The chain ends, and with it the channel and the heap.
Exits ==
    /\ Exit
    /\ Unconnected
    /\ CoreEnded
    /\ UNCHANGED server

Installs ==
    /\ InstallService \/ RemoveProgram \/ CopyUpdate
    /\ UNCHANGED <<coreVars, server>>

\* The process is killed.
Crash ==
    /\ phase # "down"
    /\ phase' = "down"
    /\ Unconnected
    /\ \/ CoreEnded
       \/ \E c \in Cores : EndsInPut(c)
    /\ UpdateEnded
    /\ UNCHANGED server

-----------------------------------------------------------------------------
(* The server, and the network *)

\* The control channel has been authenticated; the server asks what the agent
\* is and runs.
Connect ==
    /\ phase = "up"
    /\ ~connected
    /\ ReadFlags
    /\ connected' = TRUE
    /\ toAgent' = <<Message("agentHash", None), Message("coreHash", None)>>
    /\ toServer' = <<>>
    /\ transfer' = 0
    /\ UNCHANGED <<phase, coreVars, wanted, changes>>

Disconnect ==
    /\ Running
    /\ connected
    /\ Unconnected
    /\ transfer' = 0
    /\ UNCHANGED <<phase, coreVars, updateVars, wanted, changes>>

Sends(s) == toAgent' = toAgent \o s

\* An administrator chooses another core module, or none.
ChangeCore(c) ==
    /\ changes < setup.changes
    /\ c # wanted
    /\ wanted' = c
    /\ changes' = changes + 1
    /\ IF connected THEN Sends(<<Message("coreModule", c)>>) ELSE UNCHANGED toAgent
    /\ UNCHANGED <<phase, connected, toServer, coreVars, updateVars, transfer>>

\* What the server answers to the hash of the core module.
CoreVerdict(h) ==
    IF h = None /\ wanted = None THEN <<>>
    ELSE IF h = wanted THEN <<Message("coreOk", None)>>
    ELSE <<Message("coreModule", wanted)>>

ServerReads ==
    /\ connected
    /\ toServer # <<>>
    /\ toServer' = Tail(toServer)
    /\ \/ /\ Head(toServer).cmd = "coreHash"
          /\ Sends(CoreVerdict(Head(toServer).arg))
          /\ UNCHANGED transfer
       \/ /\ Head(toServer).cmd = "agentHash"
          /\ IF Head(toServer).arg \in {"own", "forced"} /\ transfer = 0
             THEN Sends(<<Message("update", None), Message("block", 1)>>) /\ transfer' = 1
             ELSE UNCHANGED <<toAgent, transfer>>
       \/ /\ Head(toServer).cmd = "block"
          /\ IF transfer < Blocks
             THEN Sends(<<Message("block", transfer + 1)>>) /\ transfer' = transfer + 1
             ELSE Sends(<<Message("updateEnd", None)>>) /\ transfer' = 0
    /\ UNCHANGED <<phase, connected, coreVars, updateVars, wanted, changes>>

-----------------------------------------------------------------------------
Agent == HandlesInNewHeap \/ HandlesCore \/ HandlesDatabase \/ HandlesUpdate \/ Exits \/ Installs

Next ==
    /\ \/ Agent \/ Start \/ Crash \/ Connect \/ Disconnect \/ ServerReads
       \/ \E c \in MaybeCore : ChangeCore(c)
    /\ UNCHANGED setup

\* The chain serves what has arrived and the timers that expired, each whatever
\* the others do, and the server reads what the agent sent.  Nothing makes an
\* administrator act, a connection fail or a process end.
Step(Action) == Action /\ UNCHANGED setup
Fairness ==
    /\ WF_vars(Step(Agent /\ toAgent' # toAgent))
    /\ WF_vars(Step(Agent /\ heap.timer /\ ~heap'.timer))
    /\ WF_vars(Step(Agent /\ dump /\ ~dump'))
    /\ WF_vars(Step(Agent /\ unzips' < unzips))
    /\ WF_vars(Step(Exits \/ Installs))
    /\ WF_vars(Step(ServerReads))

Spec == Init /\ [][Next]_vars /\ Fairness

-----------------------------------------------------------------------------
(* Properties *)

\* meshcore/agentcore.c:5452-5461, 3153: CoreOk cancels the timer coreTimeout
\* names, so it must not come when the heap of that timer is gone.  The handler
\* that stores a core module resets it, the one that clears it does not.  (When
\* the deletion could not be written and then a value of another key either, the
\* core module is back, and the server accepts it without an upload.)
NoStaleTimeout == Comes("coreOk", None) => coreTimeout # "stale" \/ reverted

\* meshcore/agentcore.c:3218-3226: a core module whose hash the agent confirms
\* is running or about to be: the server has no other way to know.  (Not after
\* the process was killed while it was stored, or a write to the database had
\* failed.)
ReportedCoreRuns ==
    [][\A c \in Cores :
        toServer' = Append(toServer, Message("coreHash", c)) /\ ~setup.dbFails /\ db'.whole
        => heap'.core = c \/ heap'.timer \/ dump']_vars

\* meshcore/agentcore.c:3263-3336, 4663-4693: the server's verdict, the timer,
\* an upload and a restart may come in any order, and no core module is
\* launched on top of another one in the same heap.
OneCorePerHeap == heap.launches <= 1

\* meshcore/agentcore.c:3384-3445, 6213-6295: the agent's program is at all
\* times a whole one, whenever transfers are cut short or the process is killed.
\* (Except while it is copied, not moved; after a write error; and when a
\* second update overtook one that was verified.)
ProgramIntact == Whole(program) \/ phase = "copying" \/ touched \/ faulted

\* meshcore/agentcore.h:288-289: forceUpdate and fakeUpdate, which make an agent
\* update whatever its version is, do so once, whenever it is restarted.  (After a
\* write error the database may forget disableUpdate, which ends the updates.)
ForcedOnce == setup.forceUpdate \/ setup.fakeUpdate => installs <= 1 \/ forgotten

\* meshcore/agentcore.c:5452-5454: a stored core module runs in the end, also
\* when the server is never reached, unless the process ends.  (After a write
\* error a core module that was cleared stays in the cache, or comes back.)
StoredCoreRuns ==
    phase = "up" /\ Readable(db) ~>
        heap.core = Hash(db) \/ phase # "up" \/ ~Readable(db) \/ db.cache # None \/ reverted

\* meshcore/agentcore.c:3138-3249: as long as the channel lasts, the agent comes
\* to run the core module the server wants, whatever was stored, under way or
\* being restarted when it changed its mind.  (Not when core modules are not
\* updated, when this one does not inflate, when it was being stored as the
\* process was killed, or after a write error.)
WantedCoreRuns ==
    connected /\ wanted \in Cores \ BadCores ~>
        \/ heap.core = wanted
        \/ ~connected
        \/ wanted \notin Cores \ BadCores
        \/ setup.noUpdateCoreModule
        \/ Hash(db) = wanted /\ ~Readable(db)
        \/ db.cache # None
        \/ reverted
=============================================================================
