----------------------------- MODULE CoreModule -----------------------------
(***************************************************************************)
(* meshcore/agentcore.c: the core module, the script that does most of the *)
(* agent's work.  The server uploads it, the agent keeps it in its         *)
(* database and runs it in a Duktape heap.  At start a stored core module  *)
(* is not launched until the server has accepted it (CoreOk) or a minute   *)
(* has passed: a script that crashes the agent at once could never be      *)
(* replaced otherwise.                                                     *)
(*                                                                         *)
(* The database is what CoreDatabase says of the key "CoreModule".         *)
(***************************************************************************)
EXTENDS CommandChannel

CONSTANTS
    Cores,    \* core modules, named by their hash
    BadCores  \* those whose compressed form does not inflate

ASSUME CoresAssumption ==
    /\ BadCores \subseteq Cores
    /\ None \notin Cores

VARIABLES
    db,          \* see CoreDatabase
    heap,        \* agent->meshCoreCtx: see Heap
    coreTimeout, \* agent->coreTimeout: "null", "timer" (the one of this heap),
                 \* "stale" (one of a heap that was destroyed)
    localScript, \* agent->localScript
    dump,        \* dumpCoreModuleEx is waiting for the chain
    reverted     \* history: the table, built anew after a write error, was not
                 \* what it had been

coreVars == <<db, heap, coreTimeout, localScript, dump, reverted>>

INSTANCE CoreDatabase

\* core: the last one launched.  launches: core modules launched in the heap.
\* timer: the one minute timer is pending in it.
Heap == [core : MaybeCore, launches : Nat, timer : BOOLEAN]
NewHeap == [core |-> None, launches |-> 0, timer |-> FALSE]

-----------------------------------------------------------------------------
(* The heap *)

Launched(h, c) == [core |-> c, launches |-> h.launches + 1, timer |-> h.timer]

\* Compile and run what the database returns.
LaunchStored(h, d) == IF Readable(d) THEN Launched(h, Hash(d)) ELSE h

\* The heap is destroyed and with it every timer set in it.
Stopped(timeout) == IF timeout = "timer" THEN "stale" ELSE timeout

-----------------------------------------------------------------------------
(* The commands *)

\* MeshCommand_CoreModule and MeshCommand_CompressedCoreModule that need not or
\* cannot be stored.
CoreModuleKept(c) ==
    /\ Receive("coreModule", c)
    /\ \/ localScript /\ Silent /\ UNCHANGED coreTimeout
       \/ ~localScript /\ Hash(db) = c /\ Reply("coreHash", c) /\ UNCHANGED coreTimeout
       \/ /\ ~localScript
          /\ Hash(db) # c
          /\ c \in BadCores
          /\ coreTimeout' = "null"
          /\ Silent
    /\ UNCHANGED <<phase, db, heap, localScript, dump, reverted>>

\* Mutants: coreTimeout is left set; an upload is refused while the agent waits
\* for the server's verdict.
CoreModuleStoredKeepsTimeout(c) ==
    /\ Receive("coreModule", c) /\ ~localScript /\ Hash(db) # c /\ c \notin BadCores
    /\ db' \in Put(db, c, setup.dbFails) /\ Hash(db') = c
    /\ heap' = Launched(NewHeap, c)
    /\ Reply("coreHash", c)
    /\ coreTimeout' = Stopped(coreTimeout)
    /\ UNCHANGED <<phase, localScript, dump, reverted>>

CoreModuleStoredUnlessWaiting(c) ==
    /\ Receive("coreModule", c) /\ ~localScript /\ Hash(db) # c /\ c \notin BadCores
    /\ IF coreTimeout # "null" THEN Silent /\ UNCHANGED <<db, heap, coreTimeout>>
       ELSE /\ db' \in Put(db, c, setup.dbFails)
            /\ heap' = Launched(NewHeap, c)
            /\ Reply("coreHash", c)
            /\ UNCHANGED coreTimeout
    /\ UNCHANGED <<phase, localScript, dump, reverted>>

\* The others: stored, read back, and run in a new heap.
CoreModuleStored(c) ==
    /\ Receive("coreModule", c)
    /\ ~localScript
    /\ Hash(db) # c
    /\ c \notin BadCores
    /\ coreTimeout' = "null"
    /\ \E d \in Put(db, c, setup.dbFails) :
        \/ /\ Hash(d) = c
           /\ db' \in {d} \cup Compacted(d, setup.dbFails)
           /\ heap' = Launched(NewHeap, c)
           /\ Reply("coreHash", c)
        \/ /\ Hash(d) # c
           /\ db' \in Delete(d, setup.dbFails)
           /\ heap' = NewHeap
           /\ Reply("coreHash", None)
    /\ UNCHANGED <<phase, localScript, dump, reverted>>

\* The same command without a core module.  coreTimeout is left as it is.
ClearCoreModule ==
    /\ Receive("coreModule", None)
    /\ ~localScript
    /\ db' \in Delete(db, setup.dbFails)
    /\ heap' = NewHeap
    /\ coreTimeout' = Stopped(coreTimeout)
    /\ Reply("coreHash", None)
    /\ UNCHANGED <<phase, localScript, dump, reverted>>

ClearCoreModuleIgnored ==
    /\ Receive("coreModule", None)
    /\ localScript
    /\ Silent
    /\ UNCHANGED <<phase, coreVars>>

\* MeshCommand_CoreModuleHash.
CoreModuleHash ==
    /\ Receive("coreHash", None)
    /\ Reply("coreHash", IF localScript THEN None ELSE Hash(db))
    /\ UNCHANGED <<phase, coreVars>>

\* Mutants: the timer is left running; coreTimeout is left set.
CoreOkKeepsTimer ==
    /\ Receive("coreOk", None)
    /\ heap' = IF coreTimeout = "null" THEN heap ELSE LaunchStored(heap, db)
    /\ coreTimeout' = "null"
    /\ Silent
    /\ UNCHANGED <<phase, db, localScript, dump, reverted>>

CoreOkKeepsTimeout ==
    /\ Receive("coreOk", None)
    /\ heap' = IF coreTimeout = "null" THEN heap
               ELSE LaunchStored([heap EXCEPT !.timer = FALSE], db)
    /\ Silent
    /\ UNCHANGED <<phase, db, coreTimeout, localScript, dump, reverted>>

\* MeshCommand_CoreOk.  With a stale coreTimeout the code hands Duktape a freed
\* object: NoStaleTimeout says that this does not happen.
CoreOk ==
    /\ Receive("coreOk", None)
    /\ heap' = IF coreTimeout = "null" THEN heap
               ELSE LaunchStored([heap EXCEPT !.timer = FALSE], db)
    /\ coreTimeout' = "null"
    /\ Silent
    /\ UNCHANGED <<phase, db, localScript, dump, reverted>>

-----------------------------------------------------------------------------
(* What the agent does by itself *)

\* Mutant: nothing is launched.
ServerTimeoutOnly ==
    /\ Running /\ heap.timer
    /\ heap' = [heap EXCEPT !.timer = FALSE]
    /\ coreTimeout' = "null"
    /\ UNCHANGED <<phase, channel, db, localScript, dump, reverted>>

\* MeshAgent_AgentMode_Core_ServerTimeout.
ServerTimeout ==
    /\ Running
    /\ heap.timer
    /\ heap' = LaunchStored([heap EXCEPT !.timer = FALSE], db)
    /\ coreTimeout' = "null"
    /\ UNCHANGED <<phase, channel, db, localScript, dump, reverted>>

\* MeshAgent.restartCore, called by the core module.
RestartCore ==
    /\ Running
    /\ heap.core # None
    /\ ~dump
    /\ localScript' = FALSE
    /\ dump' = TRUE
    /\ UNCHANGED <<phase, channel, db, heap, coreTimeout, reverted>>

\* Mutant: the stored core module is not launched.
DumpCoreModuleOnly ==
    /\ Running /\ dump
    /\ heap' = NewHeap
    /\ coreTimeout' = Stopped(coreTimeout)
    /\ dump' = FALSE
    /\ UNCHANGED <<phase, channel, db, localScript, reverted>>

\* ILibDuktape_MeshAgent_dumpCoreModuleEx.
DumpCoreModule ==
    /\ Running
    /\ dump
    /\ heap' = LaunchStored(NewHeap, db)
    /\ coreTimeout' = Stopped(coreTimeout)
    /\ dump' = FALSE
    /\ UNCHANGED <<phase, channel, db, localScript, reverted>>

\* MeshAgent_AgentMode up to the first attempt to connect.  reset: there is a
\* .corereset file.
StartCore ==
    /\ \E d \in Opened(db), reset \in BOOLEAN :
        db' \in IF reset THEN Delete(d, setup.dbFails) ELSE {d}
    /\ localScript' = (setup.noUpdateCoreModule /\ Readable(db'))
    /\ heap' = IF ~Readable(db') THEN NewHeap
               ELSE IF localScript' THEN LaunchStored(NewHeap, db')
               ELSE [NewHeap EXCEPT !.timer = TRUE]
    /\ coreTimeout' = IF heap'.timer THEN "timer" ELSE "null"
    /\ dump' = FALSE
    /\ UNCHANGED reverted

\* ILibSimpleDataStore_Compact, called by a script, when it returns (SimpleDataStore
\* says when it does not).
Compact ==
    /\ Running
    /\ db' \in Compacted(db, setup.dbFails)
    /\ UNCHANGED <<phase, channel, heap, coreTimeout, localScript, dump, reverted>>

\* ILibSimpleDataStore_PutEx2 of another key, which cannot be written: fwrite fails,
\* or fflush.
OtherPutFails ==
    /\ Running
    /\ setup.dbFails
    /\ db' \in Reread(db) \cup Lost(db)
    /\ reverted' = (reverted \/ db'.table # db.table \/ db'.whole # db.whole)
    /\ UNCHANGED <<phase, channel, heap, coreTimeout, localScript, dump>>

\* The process is gone.
HeapEnded ==
    /\ heap' = NewHeap
    /\ coreTimeout' = "null"
    /\ localScript' = FALSE
    /\ dump' = FALSE
    /\ reverted' = FALSE

CoreEnded == db' = Ended(db) /\ HeapEnded

\* It ends while PutCompressed writes the record, and the file has all of it, or
\* only a part.
EndsInPut(c) ==
    /\ Comes("coreModule", c)
    /\ ~localScript
    /\ Hash(db) # c
    /\ c \notin BadCores
    /\ db.table # c
    /\ db' \in EndedInPut(db, c)
    /\ HeapEnded

CoreInit ==
    /\ db = EmptyDb
    /\ heap = NewHeap
    /\ coreTimeout = "null"
    /\ localScript = FALSE
    /\ dump = FALSE
    /\ reverted = FALSE

CoreTypeOK ==
    /\ db \in Database
    /\ heap \in Heap
    /\ coreTimeout \in {"null", "timer", "stale"}
    /\ coreTimeout = "timer" => heap.timer
    /\ localScript \in BOOLEAN
    /\ dump \in BOOLEAN
    /\ reverted \in BOOLEAN
=============================================================================
