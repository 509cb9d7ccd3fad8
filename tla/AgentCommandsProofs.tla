------------------------ MODULE AgentCommandsProofs -------------------------
(***************************************************************************)
(* Theorems about AgentCommands: whatever fails and however commands,      *)
(* kills and lost connections are interleaved, the agent's program stays   *)
(* whole and a forced update is made once.                                 *)
(***************************************************************************)
EXTENDS AgentCommands, TLAPS

-----------------------------------------------------------------------------
(* The program stays whole *)

\* What unzips and the flag to install go with.
UnzipInv ==
    /\ unzips \in Nat
    /\ unzips > 0 => Running
    /\ unzips > 1 => touched
    /\ unzips > 0 /\ perform => touched

PhaseInv ==
    /\ phase \in Phases
    /\ perform => phase \in {"exiting", "installing", "copying"}
    /\ phase \in {"installing", "copying"} => perform

\* The process runs from a whole program until that is removed, and what will
\* take its place is whole.
ProgramInv ==
    /\ phase \in {"up", "exiting", "installing"} => Whole(program)
    /\ perform => Whole(update) \/ touched \/ faulted
    /\ ProgramIntact

UpdateInv == UnzipInv /\ PhaseInv /\ ProgramInv

\* No handler of CoreModule starts or stops the process.
LEMMA CoreKeepsPhase ==
    ASSUME \/ ClearCoreModule \/ DumpCoreModule \/ \E c \in Cores : CoreModuleStored(c)
           \/ ClearCoreModuleIgnored \/ CoreModuleHash \/ CoreOk \/ ServerTimeout \/ RestartCore
           \/ Compact \/ OtherPutFails \/ \E c \in Cores : CoreModuleKept(c)
    PROVE  phase' = phase /\ connected' = connected
BY DEF ClearCoreModule, DumpCoreModule, CoreModuleStored, ClearCoreModuleIgnored, CoreModuleHash,
       CoreOk, ServerTimeout, RestartCore, CoreModuleKept, Compact, OtherPutFails, Receive, channel

LEMMA UpdateInvInit == Init => UpdateInv
BY DEF Init, UpdateInit, UpdateInv, UnzipInv, PhaseInv, ProgramInv, ProgramIntact, Whole, Phases, Running

\* The steps that leave the files and flags of the update alone.
LEMMA UpdateInvKept ==
    ASSUME UpdateInv, phase' = phase, setup' = setup,
           UNCHANGED <<program, update, unzips, perform, touched, faulted>>
    PROVE  UpdateInv'
BY DEF UpdateInv, UnzipInv, PhaseInv, ProgramInv, ProgramIntact, Whole, New, Running

LEMMA UpdateInvHandlesUpdate ==
    ASSUME UpdateInv, HandlesUpdate, setup' = setup
    PROVE  UpdateInv'
<1> USE DEF UpdateInv
<1>1. CASE AgentHash \/ (\E b \in 1 .. Blocks : UpdatesDisabled("block", b))
           \/ UpdatesDisabled("update", None) \/ UpdatesDisabled("updateEnd", None)
    BY <1>1, UpdateInvKept DEF AgentHash, UpdatesDisabled, updateVars
<1>2. CASE UpdateStart \/ UpdateFailed \/ \E b \in 1 .. Blocks : UpdateBlock(b)
    <2>1. UNCHANGED <<phase, program, unzips, perform, faulted>>
        BY <1>2 DEF UpdateStart, UpdateFailed, UpdateBlock
    <2>2. touched \/ Verified => touched'
        BY <1>2 DEF UpdateStart, UpdateFailed, UpdateBlock
    <2>3. PhaseInv'
        BY <2>1 DEF PhaseInv
    <2>4. UnzipInv'
        BY <2>1, <2>2 DEF UnzipInv, Running
    <2>5. ProgramInv'
        BY <2>1, <2>2 DEF ProgramInv, ProgramIntact, Whole, New, Verified
    <2> QED
        BY <2>3, <2>4, <2>5
<1>3. CASE UpdateReceived
    <2>1. /\ Running
          /\ program' = program
          /\ update = Package
          /\ update' \in Overridden
          /\ faulted' = (faulted \/ update' = Cut)
        BY <1>3 DEF UpdateReceived, Receive, Comes
    <2>2. Whole(program) /\ Whole(program)'
        BY <2>1 DEF Running, ProgramInv, Whole, New
    <2>3. touched \/ Verified => touched'
        BY <1>3 DEF UpdateReceived
    <2>4. CASE unzips' = unzips + 1 /\ UNCHANGED <<phase, perform>>
        <3>1. UnzipInv'
            BY <2>1, <2>3, <2>4 DEF UnzipInv, Running, Verified
        <3>2. PhaseInv'
            BY <2>4 DEF PhaseInv
        <3>3. perform => touched'
            BY <2>3 DEF Verified
        <3> QED
            BY <3>1, <3>2, <3>3, <2>2, <2>4 DEF ProgramInv, ProgramIntact
    <2>5. CASE update' \notin Zips /\ Continue /\ unzips' = unzips
        <3>1. UnzipInv' /\ PhaseInv'
            BY <2>1, <2>3, <2>5 DEF Continue, UnzipInv, PhaseInv, Running, Verified, Phases
        <3>2. update' \in {Package, program, Cut}
            BY <2>1, <2>5 DEF Overridden, Zips
        <3>3. update' = Package => Whole(update)'
            BY <2>5 DEF Zips, Whole, New
        <3>4. Whole(update)' \/ faulted'
            BY <2>1, <2>2, <3>2, <3>3 DEF Whole
        <3> QED
            BY <3>1, <3>4, <2>2 DEF ProgramInv, ProgramIntact
    <2> QED
        BY <1>3, <2>4, <2>5 DEF UpdateReceived
<1>4. CASE UnzipDone
    <2>1. /\ Running /\ unzips > 0
          /\ unzips' = unzips - 1
          /\ update' \in Outputs
          /\ faulted' = (faulted \/ (setup.diskFails /\ update' = Cut))
          /\ phase' = "exiting" /\ perform' = TRUE
          /\ program' = program /\ touched' = touched
        BY <1>4 DEF UnzipDone, Continue
    <2>2. Whole(program) /\ Whole(program)'
        BY <2>1 DEF Running, ProgramInv, Whole, New
    <2>3. UnzipInv' /\ PhaseInv'
        BY <2>1 DEF UnzipInv, PhaseInv, Running, Phases
    <2>4. update' # Cut => Whole(update)'
        BY <2>1 DEF Outputs, Whole, New
    <2>5. update' = Cut => touched' \/ faulted' \/ Whole(update)'
        BY <2>1 DEF Outputs, UnzipInv, Whole, New
    <2> QED
        BY <2>1, <2>2, <2>3, <2>4, <2>5 DEF ProgramInv, ProgramIntact
<1>5. CASE UnzipFails
    <2>1. /\ Running /\ unzips > 0
          /\ unzips' = unzips - 1
          /\ UNCHANGED <<phase, program, perform, touched, faulted>>
        BY <1>5 DEF UnzipFails
    <2>2. UnzipInv' /\ PhaseInv'
        BY <2>1 DEF UnzipInv, PhaseInv, Running
    <2> QED
        BY <2>1, <2>2 DEF UnzipInv, ProgramInv, ProgramIntact, Whole, New
<1> QED
    BY <1>1, <1>2, <1>3, <1>4, <1>5 DEF HandlesUpdate

LEMMA UpdateInvInstalls ==
    ASSUME UpdateInv, Installs, setup' = setup
    PROVE  UpdateInv'
<1> USE DEF UpdateInv
<1>1. CASE InstallService
    <2>1. /\ phase = "installing" /\ phase' = "down"
          /\ perform' = FALSE
          /\ program' = program \/ program' = update
          /\ UNCHANGED <<unzips, touched, faulted>>
        BY <1>1 DEF InstallService, Installed
    <2>2. unzips = 0 /\ perform
        BY <2>1 DEF UnzipInv, PhaseInv, Running
    <2>3. UnzipInv' /\ PhaseInv'
        BY <2>1, <2>2 DEF UnzipInv, PhaseInv, Phases
    <2>4. ProgramInv'
        BY <2>1, <2>2 DEF ProgramInv, ProgramIntact, Whole, New
    <2> QED
        BY <2>3, <2>4
<1>2. CASE RemoveProgram
    <2>1. /\ phase = "installing" /\ phase' = "copying"
          /\ UNCHANGED <<update, unzips, perform, touched, faulted>>
        BY <1>2 DEF RemoveProgram
    <2>2. unzips = 0 /\ perform
        BY <2>1 DEF UnzipInv, PhaseInv, Running
    <2>3. UnzipInv' /\ PhaseInv'
        BY <2>1, <2>2 DEF UnzipInv, PhaseInv, Phases
    <2>4. ProgramInv'
        BY <2>1, <2>2 DEF ProgramInv, ProgramIntact, Whole, New
    <2> QED
        BY <2>3, <2>4
<1>3. CASE CopyUpdate
    <2>1. /\ phase = "copying" /\ phase' = "down"
          /\ perform' = FALSE
          /\ UNCHANGED <<unzips, touched>>
        BY <1>3 DEF CopyUpdate, Installed
    <2>2. (program' = update /\ (faulted => faulted')) \/ faulted'
        BY <1>3 DEF CopyUpdate
    <2>3. unzips = 0 /\ perform
        BY <2>1 DEF UnzipInv, PhaseInv, Running
    <2>4. UnzipInv' /\ PhaseInv'
        BY <2>1, <2>3 DEF UnzipInv, PhaseInv, Phases
    <2>5. ProgramInv'
        BY <2>1, <2>2, <2>3 DEF ProgramInv, ProgramIntact, Whole, New
    <2> QED
        BY <2>4, <2>5
<1> QED
    BY <1>1, <1>2, <1>3 DEF Installs

LEMMA UpdateInvCrash ==
    ASSUME UpdateInv, Crash, setup' = setup
    PROVE  UpdateInv'
<1>1. phase' = "down" /\ perform' = FALSE /\ unzips' = 0 /\ touched' = touched
    BY DEF Crash, UpdateEnded
<1>2. faulted \/ phase = "copying" => faulted'
    BY DEF Crash, UpdateEnded
<1>3. phase # "copying" => program' = program
    BY DEF Crash, UpdateEnded
<1>4. UnzipInv' /\ PhaseInv'
    BY <1>1 DEF UnzipInv, PhaseInv, Phases
<1>5. ProgramInv'
    BY <1>1, <1>2, <1>3 DEF UpdateInv, ProgramInv, ProgramIntact, Whole, New
<1> QED
    BY <1>4, <1>5 DEF UpdateInv

LEMMA UpdateInvNext ==
    ASSUME UpdateInv, [Next]_vars
    PROVE  UpdateInv'
<1> USE DEF UpdateInv
<1>1. setup' = setup
    BY DEF Next, vars
<1>2. CASE HandlesInNewHeap
    <2>1. phase' = phase
        BY <1>2, CoreKeepsPhase DEF HandlesInNewHeap
    <2>2. unzips' = 0 /\ UNCHANGED <<program, update, perform, touched, faulted>>
        BY <1>2 DEF HandlesInNewHeap, UnzipsLost
    <2>3. UnzipInv'
        BY <2>2 DEF UnzipInv
    <2>4. PhaseInv' /\ ProgramInv'
        BY <1>1, <2>1, <2>2 DEF PhaseInv, ProgramInv, ProgramIntact, Whole, New
    <2> QED
        BY <2>3, <2>4
<1>3. CASE HandlesCore
    <2>1. phase' = phase
        BY <1>3, CoreKeepsPhase DEF HandlesCore
    <2>2. UNCHANGED <<program, update, unzips, perform, touched, faulted>>
        BY <1>3 DEF HandlesCore, updateVars
    <2> QED
        BY <1>1, <2>1, <2>2, UpdateInvKept
<1>11. CASE HandlesDatabase
    <2>1. phase' = phase
        BY <1>11, CoreKeepsPhase DEF HandlesDatabase
    <2>2. UNCHANGED <<program, update, unzips, perform, touched, faulted>>
        BY <1>11 DEF HandlesDatabase
    <2> QED
        BY <1>1, <2>1, <2>2, UpdateInvKept
<1>4. CASE HandlesUpdate
    BY <1>1, <1>4, UpdateInvHandlesUpdate
<1>5. CASE Exits
    <2>1. /\ phase = "exiting"
          /\ phase' = IF perform THEN "installing" ELSE "down"
          /\ unzips' = 0
          /\ UNCHANGED <<program, update, perform, touched, faulted>>
        BY <1>5 DEF Exits, Exit, UnzipsLost
    <2>2. UnzipInv' /\ PhaseInv'
        BY <2>1 DEF UnzipInv, PhaseInv, Phases
    <2>3. ProgramInv'
        BY <1>1, <2>1 DEF ProgramInv, ProgramIntact, Whole, New
    <2> QED
        BY <2>2, <2>3
<1>6. CASE Installs
    BY <1>1, <1>6, UpdateInvInstalls
<1>7. CASE Start
    <2>1. /\ phase = "down" /\ phase' = "up"
          /\ Whole(program)
          /\ touched' = FALSE
          /\ UNCHANGED <<program, unzips, perform, faulted>>
        BY <1>7 DEF Start, StartUpdate
    <2>2. unzips = 0 /\ ~perform
        BY <2>1 DEF UnzipInv, PhaseInv, Running
    <2>3. UnzipInv' /\ PhaseInv'
        BY <2>1, <2>2 DEF UnzipInv, PhaseInv, Phases
    <2>4. ProgramInv'
        BY <1>1, <2>1, <2>2 DEF ProgramInv, ProgramIntact, Whole, New
    <2> QED
        BY <2>3, <2>4
<1>8. CASE Crash
    BY <1>1, <1>8, UpdateInvCrash
<1>9. CASE \/ Connect \/ Disconnect \/ ServerReads
           \/ \E c \in MaybeCore : ChangeCore(c)
    <2>1. phase' = phase
        BY <1>9 DEF Connect, Disconnect, ServerReads, ChangeCore
    <2>2. UNCHANGED <<program, update, unzips, perform, touched, faulted>>
        BY <1>9 DEF Connect, Disconnect, ServerReads, ChangeCore, ReadFlags, updateVars
    <2> QED
        BY <1>1, <2>1, <2>2, UpdateInvKept
<1>10. CASE UNCHANGED vars
    BY <1>10, UpdateInvKept DEF vars, updateVars
<1> QED
    BY <1>2, <1>3, <1>4, <1>5, <1>6, <1>7, <1>8, <1>9, <1>10, <1>11 DEF Next, Agent

\* meshcore/agentcore.c:3384-3445, 6213-6295: with any number of blocks and of
\* unzips, whenever transfers are cut short or the process is killed, the
\* program is whole: it is replaced only by a file that was verified, unzipped
\* to its end and not written to since.
THEOREM ProgramIntactAlways == Spec => []ProgramIntact
<1>1. Init => UpdateInv
    BY UpdateInvInit
<1>2. UpdateInv /\ [Next]_vars => UpdateInv'
    BY UpdateInvNext
<1>3. UpdateInv => ProgramIntact
    BY DEF UpdateInv, ProgramInv
<1> QED
    BY <1>1, <1>2, <1>3, PTL DEF Spec

-----------------------------------------------------------------------------
(* A forced update is made once *)

Once == setup.forceUpdate \/ setup.fakeUpdate

\* The flags of a connected agent are those of its settings.
FlagsInv ==
    /\ connected => flags.forceUpdate = setup.forceUpdate
    /\ connected => flags.fakeUpdate = setup.fakeUpdate
    /\ connected => Running

\* disableUpdate is found before the update it allows is under way, and a process
\* that finds it begins no other.
OnceInv ==
    Once /\ ~forgotten =>
        /\ installs \in {0, 1}
        /\ unzips > 0 => dbDisable # "none"
        /\ perform => dbDisable # "none"
        /\ installs = 1 => dbDisable # "none" /\ unzips = 0 /\ ~perform
        /\ installs = 1 /\ connected => flags.disableUpdate

ForcedInv == UpdateInv /\ FlagsInv /\ OnceInv

LEMMA ForcedInvInit == Init => ForcedInv
<1> SUFFICES ASSUME Init PROVE FlagsInv /\ OnceInv
    BY UpdateInvInit DEF ForcedInv
<1>1. installs = 0 /\ unzips = 0 /\ ~perform /\ ~connected
    BY DEF Init, UpdateInit
<1> QED
    BY <1>1 DEF FlagsInv, OnceInv

\* The steps that neither connect the agent nor begin, make or end an update.
LEMMA ForcedInvKept ==
    ASSUME FlagsInv, OnceInv, UNCHANGED <<setup, flags, installs>>,
           UNCHANGED <<dbDisable, forgotten>> \/ Forgets,
           connected' => connected /\ Running',
           unzips' = unzips \/ unzips' = 0,
           perform' => perform
    PROVE  FlagsInv' /\ OnceInv'
<1>1. ~forgotten' => ~forgotten /\ (dbDisable # "none" => dbDisable' # "none")
    BY Zenon DEF Forgets
<1>2. FlagsInv'
    BY DEF FlagsInv
<1>3. OnceInv'
    BY <1>1 DEF OnceInv, Once, FlagsInv
<1> QED
    BY <1>2, <1>3

LEMMA ForcedInvHandlesUpdate ==
    ASSUME ForcedInv, HandlesUpdate, setup' = setup
    PROVE  FlagsInv' /\ OnceInv'
<1> USE DEF ForcedInv
<1>1. CASE \/ AgentHash \/ UpdateStart \/ UpdateFailed
           \/ \E b \in 1 .. Blocks : UpdateBlock(b) \/ UpdatesDisabled("block", b)
           \/ UpdatesDisabled("update", None) \/ UpdatesDisabled("updateEnd", None)
    <2>1. UNCHANGED <<phase, connected, flags, installs, dbDisable, forgotten, unzips, perform>>
        BY <1>1 DEF AgentHash, UpdateStart, UpdateFailed, UpdateBlock, UpdatesDisabled,
                    Receive, updateVars
    <2> QED
        BY <2>1, ForcedInvKept DEF FlagsInv, Running
<1>2. CASE UpdateReceived
    <2>1. /\ Running /\ connected /\ connected' = connected
          /\ ~flags.disableUpdate
          /\ dbDisable' \in Disabled
          /\ UNCHANGED <<flags, installs, forgotten>>
        BY <1>2 DEF UpdateReceived, Receive, Comes
    <2>2. phase' = phase \/ phase' = "exiting"
        BY <1>2 DEF UpdateReceived, Continue
    <2>3. FlagsInv'
        BY <2>1, <2>2 DEF FlagsInv, Running
    <2>4. Once => dbDisable' # "none"
        BY <2>1 DEF FlagsInv, Disabled, OnlyOnce, Once
    <2>5. Once /\ ~forgotten => installs = 0
        BY <2>1 DEF OnceInv
    <2>6. OnceInv'
        BY <2>1, <2>4, <2>5 DEF OnceInv, Once
    <2> QED
        BY <2>3, <2>6
<1>3. CASE UnzipDone
    <2>1. /\ Running /\ unzips > 0
          /\ unzips' = unzips - 1
          /\ phase' = "exiting"
          /\ UNCHANGED <<connected, flags, installs, dbDisable, forgotten>>
        BY <1>3 DEF UnzipDone, Continue, channel
    <2>2. FlagsInv'
        BY <2>1 DEF FlagsInv, Running
    <2>3. Once /\ ~forgotten => installs = 0 /\ dbDisable # "none"
        BY <2>1 DEF OnceInv, UpdateInv, UnzipInv
    <2>4. OnceInv'
        BY <2>1, <2>3 DEF OnceInv, Once
    <2> QED
        BY <2>2, <2>4
<1>4. CASE UnzipFails
    <2>1. /\ unzips > 0
          /\ unzips' = unzips - 1
          /\ UNCHANGED <<phase, connected, flags, installs, dbDisable, forgotten, perform>>
        BY <1>4 DEF UnzipFails, channel
    <2>2. FlagsInv'
        BY <2>1 DEF FlagsInv, Running
    <2>3. Once /\ ~forgotten => installs = 0 /\ dbDisable # "none"
        BY <2>1 DEF OnceInv, UpdateInv, UnzipInv
    <2>4. OnceInv'
        BY <2>1, <2>3 DEF OnceInv, Once
    <2> QED
        BY <2>2, <2>4
<1> QED
    BY <1>1, <1>2, <1>3, <1>4 DEF HandlesUpdate

LEMMA ForcedInvNext ==
    ASSUME ForcedInv, [Next]_vars
    PROVE  ForcedInv'
<1> SUFFICES FlagsInv' /\ OnceInv'
    BY UpdateInvNext DEF ForcedInv
<1> USE DEF ForcedInv
<1>1. setup' = setup
    BY DEF Next, vars
<1>2. CASE HandlesInNewHeap \/ HandlesCore \/ HandlesDatabase
    <2>1. phase' = phase /\ connected' = connected
        BY <1>2, CoreKeepsPhase DEF HandlesInNewHeap, HandlesCore, HandlesDatabase
    <2>2. /\ UNCHANGED <<flags, installs, perform>>
          /\ unzips' = unzips \/ unzips' = 0
        BY <1>2 DEF HandlesInNewHeap, HandlesCore, HandlesDatabase, UnzipsLost, updateVars
    <2>3. UNCHANGED <<dbDisable, forgotten>> \/ Forgets
        BY <1>2 DEF HandlesInNewHeap, HandlesCore, HandlesDatabase, SettingKept, SettingFades, updateVars
    <2> QED
        BY <1>1, <2>1, <2>2, <2>3, ForcedInvKept DEF FlagsInv, Running
<1>3. CASE HandlesUpdate
    BY <1>1, <1>3, ForcedInvHandlesUpdate
<1>4. CASE Exits \/ Crash
    <2>1. ~connected' /\ unzips' = 0 /\ (perform' => perform)
          /\ UNCHANGED <<flags, installs>>
          /\ Forgets
        BY <1>4 DEF Exits, Exit, Crash, UnzipsLost, UpdateEnded, SettingEnds, Unconnected
    <2> QED
        BY <1>1, <2>1, ForcedInvKept
<1>5. CASE RemoveProgram
    <2>1. /\ phase = "installing"
          /\ UNCHANGED <<connected, flags, installs, dbDisable, forgotten, unzips, perform>>
        BY <1>5 DEF RemoveProgram, channel
    <2>2. ~connected
        BY <2>1 DEF FlagsInv, Running
    <2> QED
        BY <1>1, <2>1, <2>2, ForcedInvKept
<1>6. CASE InstallService \/ CopyUpdate
    <2>1. /\ phase \in {"installing", "copying"}
          /\ perform' = FALSE
          /\ installs' = IF installs < 2 THEN installs + 1 ELSE 2
          /\ UNCHANGED <<connected, flags, dbDisable, forgotten, unzips>>
        BY <1>6 DEF InstallService, CopyUpdate, Installed, channel
    <2>2. perform /\ unzips = 0 /\ ~connected
        BY <2>1 DEF UpdateInv, PhaseInv, UnzipInv, FlagsInv, Running
    <2>3. Once /\ ~forgotten => installs = 0 /\ dbDisable # "none"
        BY <2>2 DEF OnceInv
    <2> QED
        BY <1>1, <2>1, <2>2, <2>3 DEF FlagsInv, OnceInv, Once
<1>7. CASE Start
    <2>1. /\ phase = "down"
          /\ UNCHANGED <<connected, flags, installs, dbDisable, forgotten, unzips, perform>>
        BY <1>7 DEF Start, StartUpdate, channel
    <2>2. ~connected
        BY <2>1 DEF FlagsInv, Running
    <2> QED
        BY <1>1, <2>1, <2>2, ForcedInvKept
<1>8. CASE Connect
    <2>1. /\ phase = "up" /\ phase' = phase
          /\ flags' = [disableUpdate |-> dbDisable # "none", forceUpdate |-> setup.forceUpdate,
                       fakeUpdate |-> setup.fakeUpdate]
          /\ UNCHANGED <<unzips, dbDisable, forgotten, perform, installs>>
        BY <1>8 DEF Connect, ReadFlags
    <2>2. FlagsInv'
        BY <1>1, <2>1 DEF FlagsInv, Running
    <2>3. OnceInv'
        BY <1>1, <2>1 DEF OnceInv, Once
    <2> QED
        BY <2>2, <2>3
<1>9. CASE Disconnect \/ ServerReads \/ (\E c \in MaybeCore : ChangeCore(c)) \/ UNCHANGED vars
    <2>1. phase' = phase /\ UNCHANGED <<flags, installs, dbDisable, forgotten, unzips, perform>>
        BY <1>9 DEF Disconnect, ServerReads, ChangeCore, vars, updateVars
    <2>2. ~connected' \/ connected' = connected
        BY <1>9 DEF Disconnect, Unconnected, ServerReads, ChangeCore, vars, channel
    <2> QED
        BY <1>1, <2>1, <2>2, ForcedInvKept DEF FlagsInv, Running
<1> QED
    BY <1>2, <1>3, <1>4, <1>5, <1>6, <1>7, <1>8, <1>9 DEF Next, Agent, Installs

\* meshcore/agentcore.h:288-289: with any number of blocks, restarts, lost
\* connections and unzips at a time, an agent that is set to be updated whatever
\* its version is installs one update, unless its database, after a write error,
\* has lost the setting that ends them.
THEOREM ForcedOnceAlways == Spec => []ForcedOnce
<1>1. Init => ForcedInv
    BY ForcedInvInit
<1>2. ForcedInv /\ [Next]_vars => ForcedInv'
    BY ForcedInvNext
<1>3. ForcedInv => ForcedOnce
    BY DEF ForcedInv, OnceInv, Once, ForcedOnce
<1> QED
    BY <1>1, <1>2, <1>3, PTL DEF Spec
=============================================================================
