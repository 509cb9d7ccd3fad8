----------------------------- MODULE SelfUpdate -----------------------------
(***************************************************************************)
(* meshcore/agentcore.c and modules/update-helper.js: the server replaces  *)
(* the agent's program.  It sends the new one in blocks, which the agent   *)
(* appends to the file ".update" next to its own and acknowledges one by   *)
(* one, and then the hash.  If the file has that hash it is unzipped when  *)
(* it is a zip file, which takes place in the heap of the core module,     *)
(* over many iterations of the chain, and the chain is stopped.  The       *)
(* program is replaced after the chain has ended.  (POSIX; on Windows a    *)
(* script run by cmd.exe does it.)                                         *)
(*                                                                         *)
(* The content of a file is a sequence of numbers: the package sent is     *)
(* 1 .. Blocks, and 0 is a part of a block or of a program.                *)
(***************************************************************************)
EXTENDS CommandChannel

CONSTANTS
    Blocks,    \* blocks of a package
    MaxUnzips  \* bound: unzips under way

ASSUME UpdateAssumption ==
    /\ Blocks \in Nat \ {0}
    /\ MaxUnzips \in Nat \ {0}

VARIABLES
    program,   \* the agent's own file
    update,    \* the file ".update"; empty when there is none
    unzips,    \* unzips under way
    output,    \* there is a ".update_unzipped" they write to
    flags,     \* see Flags
    dbDisable, \* disableUpdate in the database: see Settings
    perform,   \* performSelfUpdate # 0
    installs,  \* history: installations, counted to 2
    touched,   \* history: ".update" or the output was written to by one
               \* update after another one had been verified
    faulted,   \* history: a write failed while unzipping or installing
    forgotten  \* history: disableUpdate was put and is gone

updateVars == <<program, update, unzips, output, flags, dbDisable,
                perform, installs, touched, faulted, forgotten>>

\* "process": this process finds the setting, the next one does not.
Settings == {"none", "process", "file"}

\* agent->disableUpdate, forceUpdate and fakeUpdate, read when connecting.
Flags == [disableUpdate : BOOLEAN, forceUpdate : BOOLEAN, fakeUpdate : BOOLEAN]
NoFlags == [disableUpdate |-> FALSE, forceUpdate |-> FALSE, fakeUpdate |-> FALSE]

Package == [i \in 1 .. Blocks |-> i]
Cut == <<0>>
Unpacked == <<Blocks + 1>>
Own == <<Blocks + 2>>
New == IF setup.zipped THEN Unpacked ELSE Package

\* A zip file next to the program that fakeUpdate takes, and what is in it.
FakeZip == <<Blocks + 3>>
FakeProgram == <<Blocks + 4>>

Zips == {FakeZip} \cup (IF setup.zipped THEN {Package} ELSE {})
Whole(p) == p \in {Own, New} \cup (IF setup.fakeUpdate THEN {FakeProgram} ELSE {})
Content == Seq(0 .. Blocks + 4)

\* A file the agent has verified is waiting to be unzipped or installed.
Verified == unzips > 0 \/ perform

-----------------------------------------------------------------------------
(* The commands *)

\* MeshCommand_AgentHash.  "forced": all bits set, so that no hash is the same.
AgentHash ==
    /\ Receive("agentHash", None)
    /\ Reply("agentHash",
             IF flags.disableUpdate THEN None
             ELSE IF flags.forceUpdate THEN "forced"
             ELSE IF program = New THEN "new" ELSE "own")
    /\ UNCHANGED <<phase, updateVars>>

\* MeshCommand_AgentUpdate and MeshCommand_AgentUpdateBlock.
UpdatesDisabled(cmd, arg) ==
    /\ Receive(cmd, arg)
    /\ flags.disableUpdate
    /\ Silent
    /\ UNCHANGED <<phase, updateVars>>

\* MeshCommand_AgentUpdate, start of the transfer.
UpdateStart ==
    /\ Receive("update", None)
    /\ ~flags.disableUpdate
    /\ update' = <<>>
    /\ touched' = (touched \/ Verified)
    /\ Silent
    /\ UNCHANGED <<phase, program, unzips, output, flags, dbDisable,
                   perform, installs, faulted, forgotten>>

\* What the attempts to append a block may leave: an attempt that failed may
\* have appended a part of it.
Appended(b) == {update \o <<b>>} \cup (IF setup.diskFails THEN {update \o <<0, b>>} ELSE {})
NotAppended == IF setup.diskFails THEN {update, update \o <<0>>} ELSE {}

\* MeshCommand_AgentUpdateBlock.  After four attempts the server gets no
\* acknowledgement, and no block after this one comes.
UpdateBlock(b) ==
    /\ Receive("block", b)
    /\ ~flags.disableUpdate
    /\ \/ update' \in Appended(b) /\ Reply("block", None)
       \/ update' \in NotAppended /\ Silent
    /\ touched' = (touched \/ Verified)
    /\ UNCHANGED <<phase, program, unzips, output, flags, dbDisable,
                   perform, installs, faulted, forgotten>>

\* MeshServer_selfupdate_continue.
Continue ==
    /\ perform' = TRUE
    /\ phase' = "exiting"

\* With fakeUpdate a zip file next to the agent's program, if there is one, or else
\* the program itself takes the place of the package.  When that cannot be written
\* nobody notices.
Overridden ==
    IF ~flags.fakeUpdate THEN {update}
    ELSE {FakeZip, program} \cup (IF setup.diskFails THEN {update, Cut} ELSE {})

\* With either setting no update is made after this one: disableUpdate is put, if
\* it is not there.  Nobody looks whether that worked: after a write error only
\* this process has the setting, and so it is when it was put behind what another
\* write had left in the file.
OnlyOnce == flags.fakeUpdate \/ flags.forceUpdate
Disabled ==
    IF ~OnlyOnce \/ dbDisable # "none" THEN {dbDisable}
    ELSE {"file"} \cup (IF setup.dbFails THEN {"process"} ELSE {})

\* MeshCommand_AgentUpdate, end of the transfer: the hash is wrong.
UpdateFailed ==
    /\ Receive("updateEnd", None)
    /\ ~flags.disableUpdate
    /\ update # Package
    /\ update' = <<>>
    /\ touched' = (touched \/ Verified)
    /\ Silent
    /\ UNCHANGED <<phase, program, unzips, output, flags, dbDisable,
                   perform, installs, faulted, forgotten>>

\* Mutants: the hash is not checked; the update is not made the last one.
UpdateReceivedUnchecked ==
    /\ Receive("updateEnd", None) /\ ~flags.disableUpdate
    /\ dbDisable' \in Disabled
    /\ update' \in Overridden
    /\ Continue
    /\ Silent
    /\ UNCHANGED <<program, flags, installs, touched, unzips, output, faulted, forgotten>>
UpdateReceivedAgain ==
    /\ Receive("updateEnd", None) /\ ~flags.disableUpdate /\ update = Package
    /\ update' \in Overridden
    /\ Continue
    /\ Silent
    /\ UNCHANGED <<program, flags, dbDisable, installs, touched, unzips, output, faulted, forgotten>>

\* The same, and the hash is right.  A zip file, also one that was cut short, is
\* opened and unzipped later.
UpdateReceived ==
    /\ Receive("updateEnd", None)
    /\ ~flags.disableUpdate
    /\ update = Package
    /\ dbDisable' \in Disabled
    /\ update' \in Overridden
    /\ \/ /\ update' \in Zips \cup {Cut}
          /\ unzips < MaxUnzips
          /\ unzips' = unzips + 1
          /\ output' = TRUE
          /\ UNCHANGED <<phase, perform>>
       \/ /\ update' \notin Zips
          /\ Continue
          /\ UNCHANGED <<unzips, output>>
    /\ touched' = (touched \/ Verified)
    /\ faulted' = (faulted \/ update' = Cut)
    /\ Silent
    /\ UNCHANGED <<program, flags, installs, forgotten>>

-----------------------------------------------------------------------------
(* disableUpdate *)

\* A compaction whose copy does not reach the file leaves the setting to this
\* process, and a table that is built anew after a write error is without it.
Faded == IF dbDisable = "file" THEN "process" ELSE "none"
Forgets == forgotten' = (forgotten \/ (dbDisable # "none" /\ dbDisable' = "none"))
SettingFades ==
    /\ dbDisable' \in {dbDisable} \cup (IF setup.dbFails THEN {Faded} ELSE {})
    /\ Forgets

SettingKept == UNCHANGED <<dbDisable, forgotten>>

\* The process ends.
SettingEnds ==
    /\ dbDisable' = IF dbDisable = "process" THEN "none" ELSE dbDisable
    /\ Forgets

-----------------------------------------------------------------------------
(* Unzipping *)

\* An unzip has written all of its output; another one may just have emptied
\* the file.  A write that failed goes unnoticed.
Outputs == (IF setup.zipped THEN {Unpacked} ELSE {})
           \cup (IF setup.fakeUpdate THEN {FakeProgram} ELSE {})
           \cup (IF unzips > 1 THEN {Cut} ELSE {})
           \cup (IF setup.diskFails THEN {Cut} ELSE {})

\* update-helper.js when the output is closed, MeshServer_selfupdate_unzip_complete.
UnzipDone ==
    /\ Running
    /\ unzips > 0
    /\ output
    /\ update # <<>>
    /\ unzips' = unzips - 1
    /\ update' \in Outputs
    /\ faulted' = (faulted \/ (setup.diskFails /\ update' = Cut))
    /\ output' = FALSE
    /\ Continue
    /\ UNCHANGED <<channel, program, flags, dbDisable, installs, touched, forgotten>>

\* A step of it throws: there is no ".update" to delete, or no output to copy
\* once ".update" is deleted, or the zip file is not as expected.
UnzipFails ==
    /\ Running
    /\ unzips > 0
    /\ \/ (update = <<>> \/ setup.diskFails) /\ UNCHANGED update
       \/ update # <<>> /\ ~output /\ update' = <<>>
    /\ unzips' = unzips - 1
    /\ UNCHANGED <<phase, channel, program, output, flags, dbDisable,
                   perform, installs, touched, faulted, forgotten>>

\* The heap the unzips take place in is destroyed.
UnzipsLost ==
    /\ unzips' = 0
    /\ output' = FALSE
    /\ UNCHANGED <<program, update, flags, perform, installs, touched, faulted>>

-----------------------------------------------------------------------------
(* The process *)

\* The end of MeshAgent_Start: the database is closed and, with
\* performSelfUpdate, the program replaced.
Exit ==
    /\ phase = "exiting"
    /\ phase' = IF perform THEN "installing" ELSE "down"
    /\ UnzipsLost
    /\ SettingEnds

Installed ==
    /\ phase' = "down"
    /\ perform' = FALSE
    /\ installs' = IF installs < 2 THEN installs + 1 ELSE 2

\* As a service: "mv", within one directory, and the service is restarted.
InstallService ==
    /\ phase = "installing"
    /\ setup.service
    /\ program' = IF update = <<>> THEN program ELSE update
    /\ update' = <<>>
    /\ Installed
    /\ UNCHANGED <<channel, unzips, output, flags, dbDisable, touched, faulted, forgotten>>

\* Otherwise: the program is removed, the file copied to its place and started.
RemoveProgram ==
    /\ phase = "installing"
    /\ ~setup.service
    /\ program' = <<>>
    /\ phase' = "copying"
    /\ UNCHANGED <<channel, update, unzips, output, flags, dbDisable,
                   perform, installs, touched, faulted, forgotten>>

CopyUpdate ==
    /\ phase = "copying"
    /\ program' \in {update} \cup (IF setup.diskFails THEN {Cut} ELSE {})
    /\ faulted' = (faulted \/ (setup.diskFails /\ program' = Cut))
    /\ Installed
    /\ UNCHANGED <<channel, update, unzips, output, flags, dbDisable, touched, forgotten>>

\* MeshAgent_AgentMode deletes ".update".
StartUpdate ==
    /\ Whole(program)
    /\ update' = <<>>
    /\ touched' = FALSE
    /\ UNCHANGED <<program, unzips, output, flags, dbDisable, perform,
                   installs, faulted, forgotten>>

\* MeshServer_Connect reads the settings.
ReadFlags ==
    /\ flags' = [disableUpdate |-> dbDisable # "none", forceUpdate |-> setup.forceUpdate,
                 fakeUpdate |-> setup.fakeUpdate]
    /\ UNCHANGED <<program, update, unzips, output, dbDisable, perform,
                   installs, touched, faulted, forgotten>>

\* The process is gone, perhaps while the program was being replaced.
UpdateEnded ==
    /\ unzips' = 0
    /\ output' = FALSE
    /\ perform' = FALSE
    /\ program' \in {program} \cup (IF phase = "copying" THEN {Cut} ELSE {})
    /\ faulted' = (faulted \/ phase = "copying")
    /\ SettingEnds
    /\ UNCHANGED <<update, flags, installs, touched>>

UpdateInit ==
    /\ program \in IF setup.current THEN {New} ELSE {Own, New}
    /\ update = <<>>
    /\ output = FALSE
    /\ unzips = 0
    /\ flags = NoFlags
    /\ dbDisable = "none"
    /\ perform = FALSE
    /\ installs = 0
    /\ touched = FALSE
    /\ faulted = FALSE
    /\ forgotten = FALSE

UpdateTypeOK ==
    /\ {program, update} \subseteq Content
    /\ unzips \in 0 .. MaxUnzips
    /\ flags \in Flags
    /\ dbDisable \in Settings
    /\ {output, perform, touched, faulted, forgotten} \subseteq BOOLEAN
    /\ installs \in 0 .. 2
=============================================================================
