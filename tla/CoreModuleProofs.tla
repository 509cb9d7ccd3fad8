-------------------------- MODULE CoreModuleProofs --------------------------
(***************************************************************************)
(* Theorems about AgentCommands: however commands, timers, restarts, kills *)
(* and lost connections are interleaved, the core module is launched once  *)
(* in a heap, CoreOk never meets a timer of a heap that is gone, and what  *)
(* the agent reports runs.                                                 *)
(***************************************************************************)
EXTENDS AgentCommands, SequenceTheorems, TLAPS

-----------------------------------------------------------------------------
(* The database and the heap *)

\* What is written is in the table, and nowhere else in the process.
LEMMA WrittenType ==
    ASSUME NEW d \in Database, NEW v \in MaybeCore, NEW e, e = Written(d, v) \/ e = Torn(d, v)
    PROVE  e \in Database /\ e.cache = d.cache
<1>1. e \in {d, [d EXCEPT !.file = v, !.end = "whole"], [d EXCEPT !.file = v, !.end = "torn"]}
    BY DEF Written, Torn
<1> QED
    BY <1>1 DEF Database

\* A flush fails: that may be seen in the file.
LEMMA LostType ==
    ASSUME NEW d \in Database, NEW e \in Lost(d)
    PROVE  /\ e \in Database
           /\ e.table = d.table /\ e.cache = d.cache /\ e.whole = d.whole
<1>1. PICK b \in BOOLEAN : b = (d.end # "torn")
    OBVIOUS
<1>2. e = d \/ e = [d EXCEPT !.cut = b]
    BY <1>1 DEF Lost
<1> QED
    BY <1>2 DEF Database

\* The table is that of the file.
LEMMA RereadType ==
    ASSUME NEW d \in Database, NEW e \in Reread(d)
    PROVE  e \in Database /\ e.table = d.file /\ e.cache = d.cache
<1>1. d.cut \in BOOLEAN /\ d.file \in MaybeCore
    BY DEF Database
<1>2. PICK w \in BOOLEAN : w = (d.end = "whole")
    OBVIOUS
<1>3. \E cut \in BOOLEAN : e = [d EXCEPT !.table = d.file, !.whole = w, !.cut = cut]
    BY <1>1, <1>2 DEF Reread
<1> QED
    BY <1>1, <1>3 DEF Database

\* The value is in the table, also when its flush fails, or in the cache.
LEMMA PutType ==
    ASSUME NEW d \in Database, NEW c \in Cores, NEW fails, NEW e \in Put(d, c, fails)
    PROVE  /\ e \in Database
           /\ ~fails => e.table = c /\ e.cache = d.cache
<1>1. c \in MaybeCore
    BY DEF MaybeCore
<1>2. CASE d.table = c /\ e = d
    BY <1>2
<1>3. CASE e = [Written(d, c) EXCEPT !.table = c, !.whole = TRUE]
    <2> DEFINE w == Written(d, c)
    <2>1. w \in Database /\ w.cache = d.cache
        BY <1>1, WrittenType
    <2>2. e = [w EXCEPT !.table = c, !.whole = TRUE]
        BY <1>3
    <2> HIDE DEF w
    <2> QED
        BY <1>1, <2>1, <2>2 DEF Database
<1>4. ASSUME fails, NEW r \in Reread(d), e = [r EXCEPT !.cache = c] PROVE e \in Database
    <2>1. r \in Database
        BY RereadType
    <2> QED
        BY <1>1, <1>4, <2>1 DEF Database
<1>5. ASSUME fails, NEW l \in Lost(d) \cup {Torn(d, c)}, e = [l EXCEPT !.table = c, !.whole = FALSE]
      PROVE  e \in Database
    <2>1. l \in Database
        BY <1>1, LostType, WrittenType
    <2> QED
        BY <1>1, <1>5, <2>1 DEF Database
<1>6. ASSUME fails,
             \/ \E r \in Reread(d) : e = [r EXCEPT !.cache = c]
             \/ \E l \in Lost(d) \cup {Torn(d, c)} : e = [l EXCEPT !.table = c, !.whole = FALSE]
      PROVE  e \in Database
    BY <1>4, <1>5, <1>6
<1>7. \/ d.table = c /\ e = d
      \/ e = [Written(d, c) EXCEPT !.table = c, !.whole = TRUE]
      \/ /\ fails
         /\ \/ \E r \in Reread(d) : e = [r EXCEPT !.cache = c]
            \/ \E l \in Lost(d) \cup {Torn(d, c)} : e = [l EXCEPT !.table = c, !.whole = FALSE]
    BY DEF Put
<1>8. e \in Database
    BY <1>2, <1>3, <1>6, <1>7, Zenon
<1> QED
    BY <1>2, <1>3, <1>7, <1>8, Zenon

LEMMA DeleteType ==
    ASSUME NEW d \in Database, NEW fails, NEW e \in Delete(d, fails)
    PROVE  e \in Database /\ e.table = None /\ e.cache = d.cache
<1>1. None \in MaybeCore
    BY DEF MaybeCore
<1>2. CASE d.table = None
    BY <1>2 DEF Delete
<1>3. CASE d.table # None
    <2>1. PICK w \in {Written(d, None)} \cup Lost(d) : e = [w EXCEPT !.table = None, !.whole = TRUE]
        BY <1>3 DEF Delete
    <2>2. w \in Database /\ w.cache = d.cache
        BY <1>1, WrittenType, LostType
    <2> QED
        BY <1>1, <2>1, <2>2 DEF Database
<1> QED
    BY <1>2, <1>3

LEMMA CopyType ==
    ASSUME NEW d \in Database, NEW e \in {Copied(d)} \cup CopyLost(d)
    PROVE  e \in Database /\ e.table = d.table /\ e.cache = d.cache /\ e.whole = d.whole
<1>1. d.table \in MaybeCore /\ None \in MaybeCore
    BY DEF Database, MaybeCore
<1>2. PICK end \in {"whole", "garbled"} : end = IF d.whole THEN "whole" ELSE "garbled"
    OBVIOUS
<1>3. Copied(d) = [d EXCEPT !.file = d.table, !.end = end, !.cut = FALSE]
    BY <1>2 DEF Copied
<1>4. Copied(d) \in Database
    BY <1>1, <1>3 DEF Database
<1>5. CASE e = Copied(d)
    BY <1>3, <1>4, <1>5 DEF Database
<1>6. ASSUME NEW cut \in BOOLEAN, e = [d EXCEPT !.file = None, !.end = "whole", !.cut = cut]
      PROVE  e \in Database /\ e.table = d.table /\ e.cache = d.cache /\ e.whole = d.whole
    BY <1>1, <1>6 DEF Database
<1>7. ASSUME NEW cut \in BOOLEAN, e = [d EXCEPT !.file = d.table, !.end = end, !.cut = cut]
      PROVE  e \in Database /\ e.table = d.table /\ e.cache = d.cache /\ e.whole = d.whole
    BY <1>1, <1>7 DEF Database
<1>8. ASSUME e = [d EXCEPT !.file = d.table, !.end = "torn", !.cut = FALSE]
      PROVE  e \in Database /\ e.table = d.table /\ e.cache = d.cache /\ e.whole = d.whole
    BY <1>1, <1>8 DEF Database
<1>9. \A cut \in BOOLEAN :
        [Copied(d) EXCEPT !.cut = cut] = [d EXCEPT !.file = d.table, !.end = end, !.cut = cut]
    BY <1>1, <1>3 DEF Database
<1> QED
    BY <1>5, <1>6, <1>7, <1>8, <1>9 DEF CopyLost

LEMMA CompactedType ==
    ASSUME NEW d \in Database, NEW fails, NEW e \in Compacted(d, fails)
    PROVE  /\ e \in Database /\ e.table = d.table /\ e.cache = d.cache
           /\ ~fails => e.whole = d.whole
<1>1. PICK b \in BOOLEAN : b = (d.table = None)
    OBVIOUS
<1> DEFINE g == [d EXCEPT !.whole = b]
<1>2. g \in Database /\ g.table = d.table /\ g.cache = d.cache
    BY DEF Database
<1>3. e \in {Copied(d)} \cup CopyLost(d) \/ (fails /\ e \in CopyLost(g))
    BY <1>1 DEF Compacted
<1> HIDE DEF g
<1> QED
    BY <1>2, <1>3, CopyType

LEMMA EndedType ==
    ASSUME NEW d \in Database, NEW e, e = Ended(d)
    PROVE  e \in Database /\ e.cache = None
<1>1. PICK w \in BOOLEAN : w = (d.end = "whole")
    OBVIOUS
<1>2. e = [d EXCEPT !.table = d.file, !.whole = w, !.cache = None, !.cut = FALSE]
    BY <1>1 DEF Ended
<1> QED
    BY <1>2 DEF Database, MaybeCore

LEMMA EndedInPutType ==
    ASSUME NEW d \in Database, NEW c \in Cores, NEW e \in EndedInPut(d, c)
    PROVE  e \in Database /\ e.cache = None
<1>1. c \in MaybeCore
    BY DEF MaybeCore
<1>2. Written(d, c) \in Database /\ Torn(d, c) \in Database
    BY <1>1, WrittenType
<1> QED
    BY <1>2, EndedType DEF EndedInPut

LEMMA OpenedType ==
    ASSUME NEW d \in Database, NEW e \in Opened(d)
    PROVE  e \in Database /\ e.table = d.table /\ e.cache = d.cache
BY DEF Opened, Database

LEMMA NewHeapType ==
    NewHeap \in Heap /\ NewHeap.launches = 0 /\ ~NewHeap.timer /\ NewHeap.core = None
BY DEF NewHeap, Heap, MaybeCore

LEMMA LaunchedType ==
    ASSUME NEW h \in Heap, NEW c \in MaybeCore
    PROVE  /\ Launched(h, c) \in Heap
           /\ Launched(h, c).timer = h.timer
           /\ Launched(h, c).launches = h.launches + 1
BY DEF Launched, Heap

LEMMA LaunchStoredType ==
    ASSUME NEW h \in Heap, NEW d \in Database, NEW l, l = LaunchStored(h, d)
    PROVE  /\ l \in Heap
           /\ l.timer = h.timer
           /\ l.launches \in {h.launches, h.launches + 1}
<1>1. Hash(d) \in MaybeCore
    BY DEF Hash, Database
<1> QED
    BY <1>1, LaunchedType DEF LaunchStored

LEMMA TimerRemoved ==
    ASSUME NEW h \in Heap, NEW l, l = [h EXCEPT !.timer = FALSE]
    PROVE  l \in Heap /\ l.launches = h.launches /\ l.core = h.core /\ ~l.timer
BY DEF Heap

\* The timer is pending, or CoreOk still to come, only in a heap in which nothing
\* was launched; no restart waits then, and what the timer is for was stored.
CoreInv ==
    /\ CoreTypeOK
    /\ heap.launches \in {0, 1}
    /\ heap.timer \/ coreTimeout # "null" => heap.launches = 0 /\ heap.core = None /\ ~dump
    /\ coreTimeout # "null" => ~localScript /\ db.cache = None
    /\ coreTimeout = "stale" => db.table = None \/ reverted
    /\ ~Running => db.cache = None

LEMMA CoreInvInit == Init => CoreInv
<1>1. EmptyDb \in Database
    BY DEF EmptyDb, Database, MaybeCore
<1>2. EmptyDb.cache = None
    BY DEF EmptyDb
<1> QED
    BY <1>1, <1>2, NewHeapType DEF Init, CoreInit, CoreInv, CoreTypeOK

LEMMA CoreInvEnded ==
    ASSUME db' \in Database, db'.cache = None, HeapEnded
    PROVE  CoreInv'
BY NewHeapType DEF CoreInv, CoreTypeOK, HeapEnded

LEMMA CoreInvNewHeap ==
    ASSUME CoreInv, ClearCoreModule \/ DumpCoreModule \/ \E c \in Cores : CoreModuleStored(c)
    PROVE  CoreInv'
<1> USE DEF CoreInv
<1>1. CASE ClearCoreModule
    <2>1. /\ db' \in Delete(db, setup.dbFails) /\ heap' = NewHeap
          /\ coreTimeout' = Stopped(coreTimeout) /\ UNCHANGED <<localScript, dump, reverted>>
          /\ Running'
        BY <1>1 DEF ClearCoreModule, Receive, Comes, Running
    <2>2. db' \in Database /\ db'.table = None /\ db'.cache = db.cache
        BY <2>1, DeleteType DEF CoreTypeOK
    <2>3. coreTimeout' \in {"null", "stale"} /\ (coreTimeout' # "null" => coreTimeout # "null")
        BY <2>1 DEF Stopped, CoreTypeOK
    <2> QED
        BY <2>1, <2>2, <2>3, NewHeapType DEF CoreTypeOK
<1>2. CASE DumpCoreModule
    <2>1. /\ heap' = LaunchStored(NewHeap, db) /\ dump /\ dump' = FALSE
          /\ coreTimeout' = Stopped(coreTimeout) /\ UNCHANGED <<db, localScript, reverted>>
          /\ Running'
        BY <1>2 DEF DumpCoreModule, Running
    <2>2. coreTimeout' = "null"
        BY <2>1 DEF Stopped
    <2>3. heap' \in Heap /\ ~heap'.timer /\ heap'.launches \in {0, 1}
        BY <2>1, NewHeapType, LaunchStoredType DEF CoreTypeOK
    <2> QED
        BY <2>1, <2>2, <2>3 DEF CoreTypeOK
<1>3. ASSUME NEW c \in Cores, CoreModuleStored(c) PROVE CoreInv'
    <2>1. coreTimeout' = "null" /\ UNCHANGED <<localScript, dump, reverted>> /\ Running'
        BY <1>3 DEF CoreModuleStored, Receive, Comes, Running
    <2>2. PICK d \in Put(db, c, setup.dbFails) :
            \/ db' \in {d} \cup Compacted(d, setup.dbFails) /\ heap' = Launched(NewHeap, c)
            \/ db' \in Delete(d, setup.dbFails) /\ heap' = NewHeap
        BY <1>3 DEF CoreModuleStored
    <2>3. db' \in Database
        BY <2>2, PutType, CompactedType, DeleteType DEF CoreTypeOK
    <2>4. heap' \in Heap /\ ~heap'.timer /\ heap'.launches \in {0, 1}
        BY <2>2, NewHeapType, LaunchedType DEF MaybeCore
    <2> QED
        BY <2>1, <2>3, <2>4 DEF CoreTypeOK
<1> QED
    BY <1>1, <1>2, <1>3

LEMMA CoreInvHandles ==
    ASSUME CoreInv,
           \/ ClearCoreModuleIgnored \/ CoreModuleHash \/ CoreOk \/ ServerTimeout \/ RestartCore
           \/ Compact \/ OtherPutFails \/ \E c \in Cores : CoreModuleKept(c)
    PROVE  CoreInv'
<1> USE DEF CoreInv
<1>0. Running'
    BY DEF ClearCoreModuleIgnored, CoreModuleHash, CoreOk, ServerTimeout, RestartCore, Compact,
           OtherPutFails, CoreModuleKept, Receive, Comes, Running
<1>1. CASE ClearCoreModuleIgnored \/ CoreModuleHash
    BY <1>0, <1>1 DEF ClearCoreModuleIgnored, CoreModuleHash, coreVars, CoreTypeOK
<1>2. ASSUME CoreOk \/ ServerTimeout, heap' # heap PROVE CoreInv'
    <2> DEFINE h == [heap EXCEPT !.timer = FALSE]
    <2>1. /\ heap' = LaunchStored(h, db)
          /\ heap.timer \/ coreTimeout # "null"
          /\ coreTimeout' = "null" /\ UNCHANGED <<db, localScript, dump, reverted>>
        BY <1>2 DEF CoreOk, ServerTimeout
    <2>2. h \in Heap /\ h.launches = 0 /\ ~h.timer
        BY <2>1, TimerRemoved DEF CoreTypeOK
    <2> HIDE DEF h
    <2>3. heap' \in Heap /\ ~heap'.timer /\ heap'.launches \in {0, 1}
        BY <2>1, <2>2, LaunchStoredType DEF CoreTypeOK
    <2> QED
        BY <1>0, <2>1, <2>3 DEF CoreTypeOK
<1>3. ASSUME CoreOk \/ ServerTimeout, heap' = heap PROVE CoreInv'
    BY <1>0, <1>3 DEF CoreOk, ServerTimeout, CoreTypeOK
<1>4. CASE RestartCore
    BY <1>0, <1>4 DEF RestartCore, CoreTypeOK
<1>5. ASSUME NEW c \in Cores, CoreModuleKept(c) PROVE CoreInv'
    BY <1>0, <1>5 DEF CoreModuleKept, CoreTypeOK
<1>6. CASE Compact
    <2>1. db' \in Database /\ db'.table = db.table /\ db'.cache = db.cache
        BY <1>6, CompactedType DEF Compact, CoreTypeOK
    <2> QED
        BY <1>0, <1>6, <2>1 DEF Compact, CoreTypeOK
<1>7. CASE OtherPutFails
    <2>1. /\ db' \in Reread(db) \cup Lost(db)
          /\ reverted' = (reverted \/ db'.table # db.table \/ db'.whole # db.whole)
          /\ UNCHANGED <<heap, coreTimeout, localScript, dump>>
        BY <1>7 DEF OtherPutFails
    <2>2. db' \in Database /\ db'.cache = db.cache
        BY <2>1, RereadType, LostType DEF CoreTypeOK
    <2>3. reverted' \in BOOLEAN /\ (db.table = None \/ reverted => db'.table = None \/ reverted')
        BY <2>1, Zenon DEF CoreTypeOK
    <2> QED
        BY <1>0, <2>1, <2>2, <2>3 DEF CoreTypeOK
<1> QED
    BY <1>1, <1>2, <1>3, <1>4, <1>5, <1>6, <1>7

LEMMA CoreInvStart ==
    ASSUME CoreInv, StartCore, setup \in Setup, ~Running
    PROVE  CoreInv'
<1> USE DEF CoreInv
<1>1. PICK d \in Opened(db) : db' \in Delete(d, setup.dbFails) \/ db' = d
    BY DEF StartCore
<1>2. d \in Database /\ d.cache = None
    BY OpenedType DEF CoreTypeOK
<1>3. db' \in Database /\ db'.cache = None
    BY <1>1, <1>2, DeleteType
<1>4. localScript' \in BOOLEAN /\ dump' = FALSE /\ reverted' \in BOOLEAN
    BY DEF StartCore, Readable, Setup, CoreTypeOK
<1>5. CASE heap'.timer
    <2>1. coreTimeout' = "timer"
        BY <1>5 DEF StartCore
    <2>2. ~localScript' /\ heap' = [NewHeap EXCEPT !.timer = TRUE]
        <3>1. heap' = NewHeap \/ heap' = LaunchStored(NewHeap, db') \/ ~localScript'
            BY DEF StartCore
        <3>2. ~NewHeap.timer /\ ~LaunchStored(NewHeap, db').timer
            BY <1>3, NewHeapType, LaunchStoredType
        <3> QED
            BY <1>5, <3>1, <3>2 DEF StartCore
    <2>3. heap' \in Heap /\ heap'.launches = 0 /\ heap'.core = None
        BY <2>2, NewHeapType DEF Heap
    <2> QED
        BY <1>3, <1>4, <1>5, <2>1, <2>2, <2>3 DEF CoreTypeOK
<1>6. CASE ~heap'.timer
    <2>1. coreTimeout' = "null"
        BY <1>6 DEF StartCore
    <2>2. heap' = NewHeap \/ heap' = LaunchStored(NewHeap, db')
        <3>1. \/ heap' = NewHeap \/ heap' = LaunchStored(NewHeap, db')
              \/ heap' = [NewHeap EXCEPT !.timer = TRUE]
            BY DEF StartCore
        <3>2. [NewHeap EXCEPT !.timer = TRUE].timer
            BY NewHeapType DEF Heap
        <3> QED
            BY <1>6, <3>1, <3>2
    <2>3. heap' \in Heap /\ heap'.launches \in {0, 1}
        BY <1>3, <2>2, NewHeapType, LaunchStoredType
    <2> QED
        BY <1>3, <1>4, <1>6, <2>1, <2>3 DEF CoreTypeOK
<1> QED
    BY <1>5, <1>6

LEMMA CoreInvNext ==
    ASSUME CoreInv, setup \in Setup, [Next]_vars
    PROVE  CoreInv'
<1>1. CASE HandlesInNewHeap
    BY <1>1, CoreInvNewHeap DEF HandlesInNewHeap
<1>2. CASE HandlesCore \/ HandlesDatabase
    BY <1>2, CoreInvHandles DEF HandlesCore, HandlesDatabase
<1>3. CASE Start
    BY <1>3, CoreInvStart DEF Start, Running
<1>4. CASE Exits
    BY <1>4, EndedType, CoreInvEnded DEF Exits, CoreEnded, CoreInv, CoreTypeOK
<1>5. CASE Crash
    <2>1. CASE CoreEnded
        BY <2>1, EndedType, CoreInvEnded DEF CoreEnded, CoreInv, CoreTypeOK
    <2>2. ASSUME NEW c \in Cores, EndsInPut(c) PROVE CoreInv'
        BY <2>2, EndedInPutType, CoreInvEnded DEF EndsInPut, CoreInv, CoreTypeOK
    <2> QED
        BY <1>5, <2>1, <2>2 DEF Crash
<1>6. CASE \/ HandlesUpdate \/ Installs \/ Connect \/ Disconnect \/ ServerReads
           \/ (\E c \in MaybeCore : ChangeCore(c)) \/ UNCHANGED vars
    <2>1. UNCHANGED coreVars
        BY <1>6 DEF HandlesUpdate, Installs, Connect, Disconnect, ServerReads, ChangeCore, vars
    <2>2. ASSUME HandlesUpdate PROVE Running => Running'
        <3>1. phase' \in {phase, "exiting"}
            BY <2>2 DEF HandlesUpdate, AgentHash, UpdateStart, UpdateFailed, UpdateReceived,
                        UnzipDone, UnzipFails, UpdateBlock, UpdatesDisabled, Continue
        <3> QED
            BY <3>1 DEF Running
    <2>3. ASSUME Installs PROVE ~Running
        BY <2>3 DEF Installs, InstallService, RemoveProgram, CopyUpdate, Running
    <2>4. ASSUME \/ Connect \/ Disconnect \/ ServerReads
                 \/ (\E c \in MaybeCore : ChangeCore(c)) \/ UNCHANGED vars
          PROVE  Running => Running'
        BY <2>4 DEF Connect, Disconnect, ServerReads, ChangeCore, vars, Running
    <2>5. Running => Running'
        BY <1>6, <2>2, <2>3, <2>4
    <2> QED
        BY <2>1, <2>5 DEF coreVars, CoreInv, CoreTypeOK
<1> QED
    BY <1>1, <1>2, <1>3, <1>4, <1>5, <1>6 DEF Next, Agent

LEMMA SetupAlways ==
    /\ Init => setup \in Setup
    /\ setup \in Setup /\ [Next]_vars => setup' \in Setup
BY SetupsAssumption DEF Init, Next, vars

\* meshcore/agentcore.c:3263-3336, 4663-4693: for any number of core modules and
\* of changes of mind, the verdict of the server, the timer, uploads, restarts
\* and kills launch at most one core module in a heap.
THEOREM OneCorePerHeapAlways == Spec => []OneCorePerHeap
<1> DEFINE Inv == CoreInv /\ setup \in Setup
<1>1. Init => Inv
    BY CoreInvInit, SetupAlways
<1>2. Inv /\ [Next]_vars => Inv'
    BY CoreInvNext, SetupAlways
<1>3. Inv => OneCorePerHeap
    BY DEF CoreInv, OneCorePerHeap
<1> HIDE DEF Inv
<1> QED
    BY <1>1, <1>2, <1>3, PTL DEF Spec

-----------------------------------------------------------------------------
(* What is under way on the channel *)

Stale == coreTimeout = "stale" /\ ~reverted

\* The server, the channel and the settings keep their types.
ChannelTypeOK ==
    /\ setup \in Setup
    /\ phase \in Phases
    /\ connected \in BOOLEAN
    /\ toAgent \in Seq(Commands)
    /\ toServer \in Seq(Replies)
    /\ wanted \in MaybeCore
    /\ changes \in 0 .. setup.changes
    /\ transfer \in 0 .. Blocks
    /\ ~connected => toAgent = <<>> /\ toServer = <<>>

\* The agent handles a command and answers at most once.  When coreTimeout is
\* stale afterwards, it was the command to clear, or it was stale and the command
\* is not about a core module; the hash of a core module is not answered then.
Handled(cmd, arg) ==
    /\ Receive(cmd, arg)
    /\ \/ toServer' = toServer
       \/ \E m \in Replies : /\ toServer' = Append(toServer, m)
                             /\ Stale' /\ m.cmd = "coreHash" => m.arg = None
    /\ Stale' => \/ cmd = "coreModule" /\ arg = None
                 \/ Stale /\ cmd # "coreModule"

\* All that a handler of the agent does to the channel.
AgentHandles ==
    \/ UNCHANGED channel /\ (Stale' => Stale)
    \/ \E cmd, arg : Handled(cmd, arg)

LEMMA ReplyTypes ==
    /\ \A h \in MaybeCore : /\ Message("coreHash", h) \in Replies
                            /\ Message("coreHash", h).arg = h
    /\ \A h \in {None, "own", "new", "forced"} :
        Message("agentHash", h) \in Replies /\ Message("agentHash", h).cmd = "agentHash"
    /\ Message("block", None) \in Replies /\ Message("block", None).cmd = "block"
BY DEF Message, Replies

LEMMA UpdateHandles ==
    ASSUME ChannelTypeOK, HandlesUpdate
    PROVE  AgentHandles /\ phase' \in Phases /\ UNCHANGED server
<1>1. UNCHANGED server /\ (Stale' <=> Stale)
    BY DEF HandlesUpdate, coreVars, Stale
<1>2. CASE AgentHash
    <2>1. PICK h \in {None, "own", "new", "forced"} : Reply("agentHash", h)
        BY <1>2 DEF AgentHash
    <2>2. Receive("agentHash", None) /\ phase' = phase
        BY <1>2 DEF AgentHash
    <2>3. Handled("agentHash", None)
        BY <1>1, <2>1, <2>2, ReplyTypes DEF Handled, Reply
    <2> QED
        BY <1>1, <2>2, <2>3 DEF AgentHandles, ChannelTypeOK
<1>3. CASE UpdateStart \/ UpdateFailed \/ UpdateReceived
    <2>1. PICK cmd \in {"update", "updateEnd"} : Receive(cmd, None)
        BY <1>3 DEF UpdateStart, UpdateFailed, UpdateReceived
    <2>2. phase' = phase \/ phase' = "exiting"
        BY <1>3 DEF UpdateStart, UpdateFailed, UpdateReceived, Continue
    <2>3. toServer' = toServer
        BY <1>3 DEF UpdateStart, UpdateFailed, UpdateReceived, Silent
    <2>4. Handled(cmd, None)
        BY <1>1, <2>1, <2>3 DEF Handled
    <2> QED
        BY <1>1, <2>2, <2>4 DEF AgentHandles, ChannelTypeOK, Phases
<1>4. CASE UnzipDone \/ UnzipFails
    BY <1>1, <1>4 DEF UnzipDone, UnzipFails, Continue, AgentHandles, ChannelTypeOK, Phases
<1>5. ASSUME NEW b, UpdateBlock(b) PROVE AgentHandles /\ phase' \in Phases
    <2>1. Receive("block", b) /\ phase' = phase /\ (Reply("block", None) \/ toServer' = toServer)
        BY <1>5 DEF UpdateBlock, Silent
    <2>2. Handled("block", b)
        BY <1>1, <2>1, ReplyTypes DEF Handled, Reply
    <2> QED
        BY <2>1, <2>2 DEF AgentHandles, ChannelTypeOK
<1>6. ASSUME NEW cmd, cmd # "coreModule", NEW arg, UpdatesDisabled(cmd, arg)
      PROVE  AgentHandles /\ phase' \in Phases
    <2>1. Receive(cmd, arg) /\ phase' = phase /\ toServer' = toServer
        BY <1>6 DEF UpdatesDisabled, Silent
    <2>2. Handled(cmd, arg)
        BY <1>1, <1>6, <2>1 DEF Handled
    <2> QED
        BY <2>1, <2>2 DEF AgentHandles, ChannelTypeOK
<1> QED
    BY <1>1, <1>2, <1>3, <1>4, <1>5, <1>6 DEF HandlesUpdate

LEMMA CoreHandles ==
    ASSUME CoreInv, ChannelTypeOK, HandlesInNewHeap \/ HandlesCore \/ HandlesDatabase
    PROVE  AgentHandles /\ phase' = phase /\ UNCHANGED server
<1> USE DEF CoreInv
<1>1. UNCHANGED server
    BY DEF HandlesInNewHeap, HandlesCore, HandlesDatabase
<1>2. Stale => ~localScript /\ Hash(db) = None
    BY DEF Stale, Hash
<1>3. Hash(db) \in MaybeCore /\ None \in MaybeCore /\ Cores \subseteq MaybeCore
    BY DEF CoreTypeOK, Database, Hash, MaybeCore
<1>4. CASE ClearCoreModule
    <2>1. Receive("coreModule", None) /\ Reply("coreHash", None) /\ phase' = phase
        BY <1>4 DEF ClearCoreModule
    <2>2. Handled("coreModule", None)
        BY <1>3, <2>1, ReplyTypes DEF Handled, Reply
    <2> QED
        BY <1>1, <2>1, <2>2 DEF AgentHandles
<1>5. CASE ClearCoreModuleIgnored
    <2>1. /\ Receive("coreModule", None) /\ localScript
          /\ phase' = phase /\ toServer' = toServer
        BY <1>5 DEF ClearCoreModuleIgnored, coreVars, Silent
    <2>2. Handled("coreModule", None)
        BY <2>1 DEF Handled
    <2> QED
        BY <1>1, <2>1, <2>2 DEF AgentHandles
<1>6. ASSUME NEW c \in Cores, CoreModuleStored(c) \/ CoreModuleKept(c)
      PROVE  AgentHandles /\ phase' = phase
    <2>1. Receive("coreModule", c) /\ phase' = phase
        BY <1>6 DEF CoreModuleStored, CoreModuleKept
    <2>2. ~Stale'
        BY <1>2, <1>6, CoresAssumption DEF CoreModuleStored, CoreModuleKept, Stale
    <2>3. toServer' = toServer \/ \E h \in MaybeCore : Reply("coreHash", h)
        BY <1>3, <1>6 DEF CoreModuleStored, CoreModuleKept, Silent
    <2>4. Handled("coreModule", c)
        BY <2>1, <2>2, <2>3, ReplyTypes DEF Handled, Reply
    <2> QED
        BY <2>1, <2>4 DEF AgentHandles
<1>7. CASE CoreModuleHash
    <2>1. PICK h \in MaybeCore : /\ h = IF localScript THEN None ELSE Hash(db)
                                 /\ Reply("coreHash", h)
        BY <1>3, <1>7 DEF CoreModuleHash
    <2>2. Receive("coreHash", None) /\ phase' = phase /\ Stale' = Stale
        BY <1>7 DEF CoreModuleHash, coreVars, Stale
    <2>3. Handled("coreHash", None)
        BY <1>2, <2>1, <2>2, ReplyTypes DEF Handled, Reply, Stale
    <2> QED
        BY <1>1, <2>2, <2>3 DEF AgentHandles
<1>8. CASE CoreOk
    <2>1. Receive("coreOk", None) /\ phase' = phase /\ coreTimeout' = "null" /\ toServer' = toServer
        BY <1>8 DEF CoreOk, Silent
    <2>2. Handled("coreOk", None)
        BY <2>1 DEF Handled, Stale
    <2> QED
        BY <1>1, <2>1, <2>2 DEF AgentHandles
<1>9. CASE ServerTimeout \/ RestartCore \/ DumpCoreModule \/ Compact \/ OtherPutFails
    <2>1. UNCHANGED channel /\ phase' = phase
        BY <1>9 DEF ServerTimeout, RestartCore, DumpCoreModule, Compact, OtherPutFails
    <2>2. reverted => reverted'
        BY <1>9 DEF ServerTimeout, RestartCore, DumpCoreModule, Compact, OtherPutFails
    <2>3. Stale' => Stale
        BY <1>9, <2>2 DEF ServerTimeout, RestartCore, DumpCoreModule, Compact, OtherPutFails, Stale, Stopped
    <2> QED
        BY <1>1, <2>1, <2>3 DEF AgentHandles
<1> QED
    BY <1>1, <1>4, <1>5, <1>6, <1>7, <1>8, <1>9 DEF HandlesInNewHeap, HandlesCore, HandlesDatabase

-----------------------------------------------------------------------------
(* CoreOk is never behind an order to clear that nothing overtook *)

Clears(q, j) == q[j].cmd = "coreModule" /\ q[j].arg = None
Stores(q, j) == q[j].cmd = "coreModule" /\ q[j].arg # None

\* A core module is sent between two places of queue q.
Stored(q, lo, hi) == \E k \in lo .. hi : Stores(q, k)

\* Between a CoreOk and what leaves coreTimeout stale, be it an order to clear
\* ahead of it or the past (s), a core module is sent.
OkSafe(q, s) == \A i \in 1 .. Len(q) : q[i].cmd = "coreOk" =>
    /\ s => Stored(q, 1, i - 1)
    /\ \A j \in 1 .. i - 1 : Clears(q, j) => Stored(q, j + 1, i - 1)

\* A server that wants a core module has sent one after each order to clear.
WantSent(q, w) == w # None =>
    \A j \in 1 .. Len(q) : Clears(q, j) => Stored(q, j + 1, Len(q))

\* So it has when it has yet to read a hash that was sent before the clearing.
HashOld(q, r, w, s) == w # None /\ s =>
    \A i \in 1 .. Len(r) : r[i].cmd = "coreHash" /\ r[i].arg # None => Stored(q, 1, Len(q))

QueueInv ==
    /\ OkSafe(toAgent, Stale)
    /\ WantSent(toAgent, wanted)
    /\ HashOld(toAgent, toServer, wanted, Stale)

\* The first command is taken off the queue.
LEMMA TailStored ==
    ASSUME NEW q \in Seq(Commands), q # <<>>, NEW m \in 1 .. Len(q), NEW n \in 1 .. Len(q),
           Stored(q, m + 1, n)
    PROVE  Stored(Tail(q), m, n - 1)
<1>1. PICK k \in m + 1 .. n : Stores(q, k)
    BY DEF Stored
<1>2. /\ Len(q) \in Nat /\ Len(Tail(q)) = Len(q) - 1
      /\ \A i \in 1 .. Len(Tail(q)) : Tail(q)[i] = q[i + 1]
    BY HeadTailProperties, LenProperties
<1>3. k - 1 \in 1 .. Len(Tail(q)) /\ k - 1 \in m .. n - 1 /\ (k - 1) + 1 = k
    BY <1>2
<1>4. Tail(q)[k - 1] = q[k]
    BY <1>2, <1>3
<1> QED
    BY <1>1, <1>3, <1>4 DEF Stored, Stores

LEMMA TailSafe ==
    ASSUME NEW q \in Seq(Commands), q # <<>>, NEW s \in BOOLEAN, NEW t \in BOOLEAN,
           t => Clears(q, 1) \/ (s /\ ~Stores(q, 1)), OkSafe(q, s)
    PROVE  OkSafe(Tail(q), t)
<1>1. /\ Len(q) \in Nat \ {0} /\ Len(Tail(q)) = Len(q) - 1
      /\ \A i \in 1 .. Len(Tail(q)) : Tail(q)[i] = q[i + 1]
    BY HeadTailProperties, EmptySeq
<1> SUFFICES ASSUME NEW i \in 1 .. Len(Tail(q)), Tail(q)[i].cmd = "coreOk"
             PROVE  /\ t => Stored(Tail(q), 1, i - 1)
                    /\ \A j \in 1 .. i - 1 : Clears(Tail(q), j) => Stored(Tail(q), j + 1, i - 1)
    BY DEF OkSafe
<1>2. i + 1 \in 1 .. Len(q) /\ q[i + 1].cmd = "coreOk" /\ i \in 1 .. Len(q) /\ 1 \in 1 .. Len(q)
    BY <1>1
<1>3. /\ s => Stored(q, 1, i)
      /\ \A j \in 1 .. i : Clears(q, j) => Stored(q, j + 1, i)
    BY <1>1, <1>2 DEF OkSafe
<1>4. ASSUME t PROVE Stored(Tail(q), 1, i - 1)
    <2>1. Stored(q, 1 + 1, i)
        <3>1. CASE Clears(q, 1)
            BY <1>1, <1>3, <3>1
        <3>2. CASE s /\ ~Stores(q, 1)
            <4>1. PICK k \in 1 .. i : Stores(q, k)
                BY <1>3, <3>2 DEF Stored
            <4>2. k # 1
                BY <3>2, <4>1
            <4> QED
                BY <1>1, <4>1, <4>2 DEF Stored
        <3> QED
            BY <1>4, <3>1, <3>2
    <2> QED
        BY <1>2, <2>1, TailStored
<1>5. ASSUME NEW j \in 1 .. i - 1, Clears(Tail(q), j) PROVE Stored(Tail(q), j + 1, i - 1)
    <2>1. j + 1 \in 1 .. i /\ j + 1 \in 1 .. Len(q) /\ Tail(q)[j] = q[j + 1]
        BY <1>1
    <2>2. Clears(q, j + 1)
        BY <1>5, <2>1 DEF Clears
    <2>3. Stored(q, (j + 1) + 1, i)
        BY <1>3, <2>1, <2>2
    <2> QED
        BY <1>2, <2>1, <2>3, TailStored
<1> QED
    BY <1>4, <1>5

LEMMA TailWant ==
    ASSUME NEW q \in Seq(Commands), q # <<>>, NEW w, WantSent(q, w)
    PROVE  /\ WantSent(Tail(q), w)
           /\ w # None /\ Clears(q, 1) => Stored(Tail(q), 1, Len(Tail(q)))
<1>1. /\ Len(q) \in Nat \ {0} /\ Len(Tail(q)) = Len(q) - 1
      /\ \A i \in 1 .. Len(Tail(q)) : Tail(q)[i] = q[i + 1]
    BY HeadTailProperties, EmptySeq
<1>2. 1 \in 1 .. Len(q) /\ Len(q) \in 1 .. Len(q)
    BY <1>1
<1>3. w # None /\ Clears(q, 1) => Stored(Tail(q), 1, Len(Tail(q)))
    BY <1>1, <1>2, TailStored DEF WantSent
<1>4. ASSUME w # None, NEW j \in 1 .. Len(Tail(q)), Clears(Tail(q), j)
      PROVE  Stored(Tail(q), j + 1, Len(Tail(q)))
    <2>1. j + 1 \in 1 .. Len(q) /\ Tail(q)[j] = q[j + 1]
        BY <1>1
    <2>2. Stored(q, (j + 1) + 1, Len(q))
        BY <1>4, <2>1 DEF Clears, WantSent
    <2> QED
        BY <1>1, <1>2, <2>1, <2>2, TailStored
<1> QED
    BY <1>3, <1>4 DEF WantSent

LEMMA TailHash ==
    ASSUME NEW q \in Seq(Commands), q # <<>>, ~Stores(q, 1), Stored(q, 1, Len(q))
    PROVE  Stored(Tail(q), 1, Len(Tail(q)))
<1>1. Len(q) \in Nat \ {0} /\ Len(Tail(q)) = Len(q) - 1
    BY HeadTailProperties, EmptySeq
<1>2. PICK k \in 1 .. Len(q) : Stores(q, k)
    BY DEF Stored
<1>3. k # 1
    BY <1>2
<1>4. Stored(q, 1 + 1, Len(q))
    BY <1>1, <1>2, <1>3 DEF Stored
<1> QED
    BY <1>1, <1>4, TailStored

\* Commands u are added to the queue.
LEMMA SentStored ==
    ASSUME NEW q \in Seq(Commands), NEW u \in Seq(Commands), NEW m \in Nat \ {0}, NEW n \in Nat,
           n <= Len(q), Stored(q, m, n)
    PROVE  Stored(q \o u, m, n)
<1>1. PICK k \in m .. n : Stores(q, k)
    BY DEF Stored
<1>2. Len(q) \in Nat /\ Len(u) \in Nat
    BY LenProperties
<1>3. k \in 1 .. Len(q) + Len(u) /\ k <= Len(q)
    BY <1>2
<1>4. (q \o u)[k] = q[k]
    BY <1>3, ConcatProperties
<1> QED
    BY <1>1, <1>4 DEF Stored, Stores

\* The places up to the length of the old queue are as safe as they were.
LEMMA SentSafe ==
    ASSUME NEW q \in Seq(Commands), NEW u \in Seq(Commands), NEW s \in BOOLEAN, OkSafe(q, s),
           NEW i \in 1 .. Len(q), (q \o u)[i].cmd = "coreOk"
    PROVE  /\ s => Stored(q \o u, 1, i - 1)
           /\ \A j \in 1 .. i - 1 : Clears(q \o u, j) => Stored(q \o u, j + 1, i - 1)
<1>1. Len(q) \in Nat /\ Len(u) \in Nat
    BY LenProperties
<1>2. \A k \in 1 .. Len(q) : (q \o u)[k] = q[k]
    BY <1>1, ConcatProperties
<1>3. i \in Nat /\ i - 1 \in Nat /\ i - 1 <= Len(q) /\ q[i].cmd = "coreOk"
    BY <1>1, <1>2
<1>4. s => Stored(q \o u, 1, i - 1)
    BY <1>3, SentStored DEF OkSafe
<1>5. ASSUME NEW j \in 1 .. i - 1, Clears(q \o u, j) PROVE Stored(q \o u, j + 1, i - 1)
    <2>1. j \in 1 .. Len(q) /\ j + 1 \in Nat \ {0}
        BY <1>1, <1>3
    <2>2. Clears(q, j)
        BY <1>2, <1>5, <2>1 DEF Clears
    <2>3. Stored(q, j + 1, i - 1)
        BY <1>3, <2>2 DEF OkSafe
    <2> QED
        BY <1>3, <2>1, <2>3, SentStored
<1> QED
    BY <1>4, <1>5

\* No CoreOk is among them.
LEMMA SentNoOk ==
    ASSUME NEW q \in Seq(Commands), NEW u \in Seq(Commands), NEW s \in BOOLEAN, OkSafe(q, s),
           \A i \in 1 .. Len(u) : u[i].cmd # "coreOk"
    PROVE  OkSafe(q \o u, s)
<1>1. Len(q) \in Nat /\ Len(u) \in Nat /\ Len(q \o u) = Len(q) + Len(u)
    BY LenProperties, ConcatProperties
<1>2. ASSUME NEW i \in 1 .. Len(q \o u), (q \o u)[i].cmd = "coreOk" PROVE i \in 1 .. Len(q)
    <2>1. CASE i > Len(q)
        <3>1. i - Len(q) \in 1 .. Len(u) /\ i \in 1 .. Len(q) + Len(u)
            BY <1>1, <2>1
        <3>2. (q \o u)[i] = u[i - Len(q)]
            BY <1>1, <2>1, <3>1, ConcatProperties
        <3> QED
            BY <1>2, <3>1, <3>2
    <2> QED
        BY <1>1, <2>1
<1> QED
    BY <1>2, SentSafe DEF OkSafe

\* Nothing about a core module is among them.
LEMMA SentQuiet ==
    ASSUME NEW q \in Seq(Commands), NEW u \in Seq(Commands), NEW w, WantSent(q, w),
           \A i \in 1 .. Len(u) : u[i].cmd # "coreModule"
    PROVE  WantSent(q \o u, w)
<1>1. Len(q) \in Nat /\ Len(u) \in Nat /\ Len(q \o u) = Len(q) + Len(u)
    BY LenProperties, ConcatProperties
<1> SUFFICES ASSUME w # None, NEW j \in 1 .. Len(q \o u), Clears(q \o u, j)
             PROVE  Stored(q \o u, j + 1, Len(q \o u))
    BY DEF WantSent
<1>2. j \in 1 .. Len(q) + Len(u)
    BY <1>1
<1>3. CASE j > Len(q)
    <2>1. j - Len(q) \in 1 .. Len(u)
        BY <1>1, <1>2, <1>3
    <2>2. (q \o u)[j] = u[j - Len(q)]
        BY <1>1, <1>2, <1>3, ConcatProperties
    <2> QED
        BY <2>1, <2>2 DEF Clears
<1>4. CASE j <= Len(q)
    <2>1. (q \o u)[j] = q[j] /\ j \in 1 .. Len(q) /\ j + 1 \in Nat \ {0}
        BY <1>1, <1>2, <1>4, ConcatProperties
    <2>2. Stored(q, j + 1, Len(q))
        BY <2>1 DEF Clears, WantSent
    <2>3. Stored(q \o u, j + 1, Len(q))
        BY <1>1, <2>1, <2>2, SentStored
    <2> QED
        BY <1>1, <2>3 DEF Stored
<1> QED
    BY <1>1, <1>3, <1>4

LEMMA SentLonger ==
    ASSUME NEW q \in Seq(Commands), NEW u \in Seq(Commands), Stored(q, 1, Len(q))
    PROVE  Stored(q \o u, 1, Len(q \o u))
<1>1. Len(q) \in Nat /\ Len(u) \in Nat /\ Len(q \o u) = Len(q) + Len(u)
    BY LenProperties, ConcatProperties
<1>2. Stored(q \o u, 1, Len(q))
    BY <1>1, SentStored
<1> QED
    BY <1>1, <1>2 DEF Stored

\* The core module wanted is sent, or the order to clear.
LEMMA SentCore ==
    ASSUME NEW q \in Seq(Commands), NEW w \in MaybeCore, NEW s \in BOOLEAN, OkSafe(q, s),
           NEW p, p = q \o <<Message("coreModule", w)>>
    PROVE  /\ p \in Seq(Commands)
           /\ OkSafe(p, s) /\ WantSent(p, w)
           /\ w # None => Stored(p, 1, Len(p))
<1> DEFINE m == Message("coreModule", w)
           u == <<m>>
<1>1. m \in Commands /\ m.cmd = "coreModule" /\ m.arg = w
    BY DEF Message, Commands
<1> HIDE DEF m
<1>2. u \in Seq(Commands) /\ Len(u) = 1 /\ u[1] = m
    BY <1>1
<1>3. \A i \in 1 .. Len(u) : u[i].cmd # "coreOk"
    BY <1>1, <1>2
<1> HIDE DEF u
<1>4. p \in Seq(Commands) /\ OkSafe(p, s)
    BY <1>2, <1>3, SentNoOk, ConcatProperties DEF u, m
<1>5. Len(q) \in Nat /\ Len(p) = Len(q) + 1 /\ p[Len(q) + 1] = m
    <2>1. p = q \o u /\ Len(q) \in Nat
        BY LenProperties DEF u, m
    <2>2. Len(q) + 1 \in 1 .. Len(q) + Len(u) /\ ~(Len(q) + 1 <= Len(q)) /\ (Len(q) + 1) - Len(q) = 1
        BY <1>2, <2>1
    <2> QED
        BY <1>2, <2>1, <2>2, ConcatProperties
<1>6. w # None => Stores(p, Len(p)) /\ ~Clears(p, Len(p))
    BY <1>1, <1>5 DEF Stores, Clears
<1>7. w # None => Stored(p, 1, Len(p))
    BY <1>5, <1>6 DEF Stored
<1>8. ASSUME w # None, NEW j \in 1 .. Len(p), Clears(p, j) PROVE Stored(p, j + 1, Len(p))
    <2>1. j # Len(p)
        BY <1>6, <1>8
    <2>2. Len(p) \in j + 1 .. Len(p)
        BY <1>5, <2>1
    <2> QED
        BY <1>6, <1>8, <2>2 DEF Stored
<1> QED
    BY <1>4, <1>7, <1>8 DEF WantSent

\* CoreOk is sent for the core module wanted.
LEMMA SentOk ==
    ASSUME NEW q \in Seq(Commands), NEW w \in Cores, NEW s \in BOOLEAN, OkSafe(q, s),
           WantSent(q, w), s => Stored(q, 1, Len(q)),
           NEW p, p = q \o <<Message("coreOk", None)>>
    PROVE  p \in Seq(Commands) /\ OkSafe(p, s) /\ WantSent(p, w)
<1> DEFINE m == Message("coreOk", None)
           u == <<m>>
<1>1. m \in Commands /\ m.cmd = "coreOk"
    BY DEF Message, Commands
<1> HIDE DEF m
<1>2. u \in Seq(Commands) /\ Len(u) = 1 /\ u[1] = m
    BY <1>1
<1>3. \A i \in 1 .. Len(u) : u[i].cmd # "coreModule"
    BY <1>1, <1>2
<1> HIDE DEF u
<1>4. p = q \o u /\ Len(q) \in Nat
    BY LenProperties DEF u, m
<1>5. p \in Seq(Commands) /\ WantSent(p, w) /\ Len(p) = Len(q) + 1
    BY <1>2, <1>3, <1>4, SentQuiet, ConcatProperties
<1>6. \A k \in 1 .. Len(q) : p[k] = q[k]
    BY <1>2, <1>4, ConcatProperties
<1>7. ASSUME NEW i \in 1 .. Len(p), p[i].cmd = "coreOk"
      PROVE  /\ s => Stored(p, 1, i - 1)
             /\ \A j \in 1 .. i - 1 : Clears(p, j) => Stored(p, j + 1, i - 1)
    <2>1. CASE i <= Len(q)
        <3>1. i \in 1 .. Len(q)
            BY <1>4, <2>1
        <3> QED
            BY <1>2, <1>4, <1>7, <3>1, SentSafe
    <2>2. CASE i = Len(q) + 1
        <3>1. i - 1 = Len(q)
            BY <1>4, <2>2
        <3>2. s => Stored(p, 1, Len(q))
            BY <1>2, <1>4, SentStored
        <3>3. ASSUME NEW j \in 1 .. Len(q), Clears(p, j) PROVE Stored(p, j + 1, Len(q))
            <4>1. Clears(q, j) /\ j + 1 \in Nat \ {0}
                BY <1>4, <1>6, <3>3 DEF Clears
            <4>2. Stored(q, j + 1, Len(q))
                BY <4>1, CoresAssumption DEF WantSent
            <4>3. Stored(q \o u, j + 1, Len(q))
                BY <1>2, <1>4, <4>1, <4>2, SentStored
            <4> QED
                BY <1>4, <4>3
        <3> QED
            BY <3>1, <3>2, <3>3
    <2> QED
        BY <1>4, <1>5, <2>1, <2>2
<1> QED
    BY <1>5, <1>7 DEF OkSafe

-----------------------------------------------------------------------------
(* The steps *)

CommandsInv == CoreInv /\ ChannelTypeOK /\ QueueInv

LEMMA CommandsInvInit == Init => ChannelTypeOK /\ QueueInv
<1> SUFFICES ASSUME Init PROVE ChannelTypeOK /\ QueueInv
    OBVIOUS
<1>1. /\ setup \in Setup /\ wanted \in MaybeCore /\ changes = 0 /\ transfer = 0
      /\ phase = "down" /\ ~connected /\ connected \in BOOLEAN
      /\ toAgent = <<>> /\ toServer = <<>>
    BY SetupsAssumption DEF Init, MaybeCore
<1>2. 0 \in 0 .. setup.changes /\ 0 \in 0 .. Blocks
    BY <1>1, UpdateAssumption DEF Setup
<1>3. ChannelTypeOK
    BY <1>1, <1>2, EmptySeq DEF ChannelTypeOK, Phases
<1>4. QueueInv
    BY <1>1, EmptySeq DEF QueueInv, OkSafe, WantSent, HashOld
<1> QED
    BY <1>3, <1>4

\* The steps of the agent.
LEMMA AgentStep ==
    ASSUME ChannelTypeOK, QueueInv, AgentHandles, phase' \in Phases, UNCHANGED <<setup, server>>
    PROVE  ChannelTypeOK' /\ QueueInv'
<1>1. wanted' = wanted /\ changes' = changes /\ transfer' = transfer
    BY DEF server
<1>2. CASE UNCHANGED channel /\ (Stale' => Stale)
    <2>1. toAgent' = toAgent /\ toServer' = toServer /\ connected' = connected
        BY <1>2 DEF channel
    <2>2. ChannelTypeOK'
        BY <1>1, <2>1 DEF ChannelTypeOK
    <2>3. QueueInv'
        BY <1>1, <1>2, <2>1 DEF QueueInv, OkSafe, HashOld
    <2> QED
        BY <2>2, <2>3
<1>3. ASSUME NEW cmd, NEW arg, Handled(cmd, arg) PROVE ChannelTypeOK' /\ QueueInv'
    <2> DEFINE q == toAgent
    <2>1. /\ q # <<>> /\ q \in Seq(Commands) /\ toAgent' = Tail(q)
          /\ connected /\ connected' = connected
          /\ Head(q) = Message(cmd, arg)
        BY <1>3 DEF Handled, Receive, Comes, ChannelTypeOK
    <2>2. q[1].cmd = cmd /\ q[1].arg = arg
        BY <2>1 DEF Message
    <2>3. toAgent' \in Seq(Commands)
        BY <2>1, HeadTailProperties
    <2>4. toServer \in Seq(Replies)
        BY DEF ChannelTypeOK
    <2>5. \/ toServer' = toServer
          \/ \E m \in Replies : /\ toServer' = Append(toServer, m)
                                /\ Stale' /\ m.cmd = "coreHash" => m.arg = None
        BY <1>3 DEF Handled
    <2>6. toServer' \in Seq(Replies)
        BY <2>4, <2>5
    <2>7. ChannelTypeOK'
        BY <1>1, <2>1, <2>3, <2>6 DEF ChannelTypeOK
    <2>8. Stale' => Clears(q, 1) \/ (Stale /\ ~Stores(q, 1))
        BY <1>3, <2>2 DEF Handled, Clears, Stores
    <2>9. OkSafe(q, Stale) /\ WantSent(q, wanted) /\ HashOld(q, toServer, wanted, Stale)
        BY DEF QueueInv
    <2> HIDE DEF q
    <2>10. Stale \in BOOLEAN /\ Stale' \in BOOLEAN
        BY DEF Stale
    <2>11. OkSafe(Tail(q), Stale')
        BY <2>1, <2>8, <2>9, <2>10, TailSafe
    <2>12. /\ WantSent(Tail(q), wanted)
           /\ wanted # None /\ Clears(q, 1) => Stored(Tail(q), 1, Len(Tail(q)))
        BY <2>1, <2>9, TailWant
    <2>13. ASSUME wanted # None, Stale', NEW i \in 1 .. Len(toServer'),
                  toServer'[i].cmd = "coreHash", toServer'[i].arg # None
           PROVE  Stored(Tail(q), 1, Len(Tail(q)))
        <3>1. CASE Clears(q, 1)
            BY <2>12, <2>13, <3>1
        <3>2. CASE Stale /\ ~Stores(q, 1)
            <4>1. i \in 1 .. Len(toServer) /\ toServer[i] = toServer'[i]
                <5>1. CASE toServer' = toServer
                    BY <2>13, <5>1
                <5>2. CASE \E m \in Replies : /\ toServer' = Append(toServer, m)
                                              /\ Stale' /\ m.cmd = "coreHash" => m.arg = None
                    BY <2>4, <2>13, <5>2
                <5> QED
                    BY <2>5, <5>1, <5>2
            <4>2. Stored(q, 1, Len(q))
                BY <2>9, <2>13, <3>2, <4>1 DEF HashOld
            <4> QED
                BY <2>1, <3>2, <4>2, TailHash
        <3> QED
            BY <2>8, <2>13, <3>1, <3>2
    <2>14. HashOld(Tail(q), toServer', wanted, Stale')
        BY <2>13 DEF HashOld
    <2>15. QueueInv'
        BY <1>1, <2>1, <2>11, <2>12, <2>14 DEF QueueInv
    <2> QED
        BY <2>7, <2>15
<1> QED
    BY <1>2, <1>3 DEF AgentHandles

\* Nothing of a core module is on the channel: it is lost, or has just begun.
LEMMA QuietQueue ==
    ASSUME \A i \in 1 .. Len(toAgent') : toAgent'[i].cmd \notin {"coreOk", "coreModule"},
           toServer' = <<>>
    PROVE  QueueInv'
BY EmptySeq DEF QueueInv, OkSafe, WantSent, HashOld, Clears

LEMMA LostStep ==
    ASSUME ChannelTypeOK, Unconnected, phase' \in Phases, UNCHANGED <<setup, wanted, changes>>,
           transfer' \in {transfer, 0}
    PROVE  ChannelTypeOK' /\ QueueInv'
<1>1. toAgent' = <<>> /\ toServer' = <<>> /\ ~connected' /\ connected' \in BOOLEAN
    BY DEF Unconnected
<1>2. ChannelTypeOK'
    BY <1>1, EmptySeq, UpdateAssumption DEF ChannelTypeOK
<1>3. QueueInv'
    BY <1>1, QuietQueue, EmptySeq
<1> QED
    BY <1>2, <1>3

LEMMA ConnectStep ==
    ASSUME ChannelTypeOK, Connect, UNCHANGED setup
    PROVE  ChannelTypeOK' /\ QueueInv'
<1>1. /\ toAgent' = <<Message("agentHash", None), Message("coreHash", None)>>
      /\ toServer' = <<>> /\ connected' = TRUE /\ transfer' = 0
      /\ UNCHANGED <<phase, wanted, changes>>
    BY DEF Connect
<1>2. /\ Message("agentHash", None) \in Commands /\ Message("agentHash", None).cmd = "agentHash"
      /\ Message("coreHash", None) \in Commands /\ Message("coreHash", None).cmd = "coreHash"
    BY DEF Message, Commands
<1>3. toAgent' \in Seq(Commands) /\ Len(toAgent') = 2
      /\ \A i \in 1 .. 2 : toAgent'[i].cmd \notin {"coreOk", "coreModule"}
    BY <1>1, <1>2
<1>4. ChannelTypeOK'
    BY <1>1, <1>3, EmptySeq, UpdateAssumption DEF ChannelTypeOK
<1>5. QueueInv'
    BY <1>1, <1>3, QuietQueue
<1> QED
    BY <1>4, <1>5

LEMMA ChangeCoreStep ==
    ASSUME ChannelTypeOK, QueueInv, NEW c \in MaybeCore, ChangeCore(c), UNCHANGED setup
    PROVE  ChannelTypeOK' /\ QueueInv'
<1>1. /\ wanted' = c /\ changes' \in 0 .. setup.changes
      /\ UNCHANGED <<phase, connected, toServer, transfer, coreTimeout, reverted>>
    BY DEF ChangeCore, ChannelTypeOK, Setup, coreVars
<1>2. CASE connected
    <2>1. toAgent' = toAgent \o <<Message("coreModule", c)>>
        BY <1>2 DEF ChangeCore, Sends
    <2>2. Stale \in BOOLEAN /\ Stale' = Stale
        BY <1>1 DEF Stale
    <2>3. /\ toAgent' \in Seq(Commands)
          /\ OkSafe(toAgent', Stale) /\ WantSent(toAgent', c)
          /\ c # None => Stored(toAgent', 1, Len(toAgent'))
        BY <2>1, <2>2, SentCore DEF ChannelTypeOK, QueueInv
    <2>4. ChannelTypeOK'
        BY <1>1, <1>2, <2>3 DEF ChannelTypeOK
    <2>5. QueueInv'
        BY <1>1, <2>2, <2>3 DEF QueueInv, HashOld
    <2> QED
        BY <2>4, <2>5
<1>3. CASE ~connected
    <2>1. toAgent' = <<>> /\ toServer' = <<>>
        BY <1>1, <1>3 DEF ChangeCore, ChannelTypeOK
    <2>2. ChannelTypeOK'
        BY <1>1, <1>3, <2>1, EmptySeq DEF ChannelTypeOK
    <2>3. QueueInv'
        BY <2>1, QuietQueue, EmptySeq
    <2> QED
        BY <2>2, <2>3
<1> QED
    BY <1>2, <1>3

\* Commands u, none about a core module, are sent, or nothing.
LEMMA QuietSent ==
    ASSUME ChannelTypeOK, QueueInv, NEW u \in Seq(Commands),
           \A i \in 1 .. Len(u) : u[i].cmd \notin {"coreOk", "coreModule"},
           toAgent' = toAgent \o u \/ toAgent' = toAgent,
           NEW r \in Seq(Replies), toServer # <<>>, r = Tail(toServer)
    PROVE  /\ toAgent' \in Seq(Commands)
           /\ OkSafe(toAgent', Stale) /\ WantSent(toAgent', wanted)
           /\ HashOld(toAgent', r, wanted, Stale)
<1>1. /\ toAgent \in Seq(Commands) /\ Stale \in BOOLEAN
      /\ OkSafe(toAgent, Stale) /\ WantSent(toAgent, wanted)
      /\ HashOld(toAgent, toServer, wanted, Stale)
    BY DEF ChannelTypeOK, QueueInv, Stale
<1>2. HashOld(toAgent, r, wanted, Stale)
    <2>1. /\ Len(toServer) \in Nat /\ Len(r) = Len(toServer) - 1
          /\ \A i \in 1 .. Len(r) : r[i] = toServer[i + 1]
        BY HeadTailProperties, LenProperties DEF ChannelTypeOK
    <2>2. \A i \in 1 .. Len(r) : i + 1 \in 1 .. Len(toServer)
        BY <2>1
    <2> QED
        BY <1>1, <2>1, <2>2 DEF HashOld
<1>3. CASE toAgent' = toAgent
    BY <1>1, <1>2, <1>3
<1>4. CASE toAgent' = toAgent \o u
    <2>1. toAgent' \in Seq(Commands)
        BY <1>1, <1>4, ConcatProperties
    <2>2. OkSafe(toAgent', Stale) /\ WantSent(toAgent', wanted)
        BY <1>1, <1>4, SentNoOk, SentQuiet
    <2>3. HashOld(toAgent', r, wanted, Stale)
        BY <1>1, <1>2, <1>4, SentLonger DEF HashOld
    <2> QED
        BY <2>1, <2>2, <2>3
<1> QED
    BY <1>3, <1>4

LEMMA ServerReadsStep ==
    ASSUME ChannelTypeOK, QueueInv, ServerReads, UNCHANGED setup
    PROVE  ChannelTypeOK' /\ QueueInv'
<1>1. /\ connected /\ connected' = connected /\ toServer # <<>> /\ toServer' = Tail(toServer)
      /\ UNCHANGED <<phase, wanted, changes>>
      /\ Stale' = Stale /\ Stale \in BOOLEAN
    BY DEF ServerReads, coreVars, Stale
<1>2. toServer' \in Seq(Replies) /\ toServer \in Seq(Replies)
    BY <1>1, HeadTailProperties DEF ChannelTypeOK
<1>3. ASSUME toAgent' \in Seq(Commands), transfer' \in 0 .. Blocks,
             OkSafe(toAgent', Stale), WantSent(toAgent', wanted),
             HashOld(toAgent', toServer', wanted, Stale)
      PROVE  ChannelTypeOK' /\ QueueInv'
    BY <1>1, <1>2, <1>3 DEF ChannelTypeOK, QueueInv
<1>4. /\ transfer \in 0 .. Blocks /\ Blocks \in Nat \ {0} /\ wanted \in MaybeCore
      /\ toAgent \in Seq(Commands)
    BY UpdateAssumption DEF ChannelTypeOK
<1>5. ASSUME NEW m \in Commands, m.cmd \notin {"coreOk", "coreModule"},
             toAgent' = toAgent \o <<m>>, transfer' \in 0 .. Blocks
      PROVE  ChannelTypeOK' /\ QueueInv'
    <2> DEFINE u == <<m>>
    <2>1. u \in Seq(Commands) /\ \A i \in 1 .. Len(u) : u[i].cmd \notin {"coreOk", "coreModule"}
        BY <1>5
    <2>2. toAgent' = toAgent \o u
        BY <1>5
    <2> HIDE DEF u
    <2> QED
        BY <1>1, <1>2, <1>3, <1>5, <2>1, <2>2, QuietSent
<1>6. CASE Head(toServer).cmd = "coreHash"
    <2> DEFINE h == Head(toServer).arg
    <2>1. toAgent' = toAgent \o CoreVerdict(h) /\ transfer' = transfer
        BY <1>6 DEF ServerReads, Sends
    <2>2. toServer[1].cmd = "coreHash" /\ toServer[1].arg = h /\ 1 \in 1 .. Len(toServer)
        BY <1>1, <1>2, <1>6, EmptySeq
    <2> HIDE DEF h
    <2>3. CASE h = None /\ wanted = None
        <3>1. toAgent' = toAgent
            BY <1>4, <2>1, <2>3, ConcatEmptySeq DEF CoreVerdict
        <3>2. <<>> \in Seq(Commands) /\ Len(<<>>) = 0
            BY EmptySeq
        <3>3. \A i \in 1 .. Len(<<>>) : <<>>[i].cmd \notin {"coreOk", "coreModule"}
            BY <3>2
        <3> QED
            BY <1>1, <1>2, <1>3, <1>4, <2>1, <3>1, <3>2, <3>3, QuietSent
    <2>4. CASE h = wanted /\ wanted # None
        <3>1. toAgent' = toAgent \o <<Message("coreOk", None)>>
            BY <2>1, <2>4 DEF CoreVerdict
        <3>2. wanted \in Cores /\ (Stale => Stored(toAgent, 1, Len(toAgent)))
            BY <1>4, <2>2, <2>4 DEF MaybeCore, QueueInv, HashOld
        <3>3. toAgent' \in Seq(Commands) /\ OkSafe(toAgent', Stale) /\ WantSent(toAgent', wanted)
            BY <1>1, <1>4, <3>1, <3>2, SentOk DEF QueueInv
        <3>4. Stale => Stored(toAgent', 1, Len(toAgent'))
            <4>1. Message("coreOk", None) \in Commands
                BY DEF Message, Commands
            <4>2. <<Message("coreOk", None)>> \in Seq(Commands)
                BY <4>1
            <4> QED
                BY <1>4, <3>1, <3>2, <4>2, SentLonger
        <3>5. HashOld(toAgent', toServer', wanted, Stale)
            BY <3>4 DEF HashOld
        <3> QED
            BY <1>3, <1>4, <2>1, <3>3, <3>5
    <2>5. CASE h # wanted
        <3>1. toAgent' = toAgent \o <<Message("coreModule", wanted)>>
            BY <2>1, <2>5 DEF CoreVerdict
        <3>2. /\ toAgent' \in Seq(Commands)
              /\ OkSafe(toAgent', Stale) /\ WantSent(toAgent', wanted)
              /\ wanted # None => Stored(toAgent', 1, Len(toAgent'))
            BY <1>1, <1>4, <3>1, SentCore DEF QueueInv
        <3> QED
            BY <1>3, <1>4, <2>1, <3>2 DEF HashOld
    <2> QED
        BY <2>3, <2>4, <2>5
<1>7. CASE Head(toServer).cmd = "agentHash"
    <2> DEFINE u == <<Message("update", None), Message("block", 1)>>
    <2>1. (toAgent' = toAgent \o u /\ transfer' = 1) \/ (toAgent' = toAgent /\ transfer' = transfer)
        BY <1>7 DEF ServerReads, Sends
    <2>2. /\ Message("update", None) \in Commands /\ Message("update", None).cmd = "update"
          /\ Message("block", 1) \in Commands /\ Message("block", 1).cmd = "block"
        BY <1>4 DEF Message, Commands
    <2>3. u \in Seq(Commands) /\ \A i \in 1 .. Len(u) : u[i].cmd \notin {"coreOk", "coreModule"}
        BY <2>2
    <2>4. transfer' \in 0 .. Blocks
        BY <1>4, <2>1
    <2> HIDE DEF u
    <2> QED
        BY <1>1, <1>2, <1>3, <2>1, <2>3, <2>4, QuietSent
<1>8. CASE Head(toServer).cmd = "block"
    <2>1. CASE transfer < Blocks
        <3> DEFINE m == Message("block", transfer + 1)
        <3>1. toAgent' = toAgent \o <<m>> /\ transfer' = transfer + 1
            BY <1>8, <2>1 DEF ServerReads, Sends
        <3>2. transfer + 1 \in 1 .. Blocks /\ transfer + 1 \in 0 .. Blocks
            BY <1>4, <2>1
        <3>3. m \in Commands /\ m.cmd = "block"
            BY <3>2 DEF Message, Commands
        <3> HIDE DEF m
        <3> QED
            BY <1>5, <3>1, <3>2, <3>3
    <2>2. CASE ~(transfer < Blocks)
        <3> DEFINE m == Message("updateEnd", None)
        <3>1. toAgent' = toAgent \o <<m>> /\ transfer' = 0
            BY <1>8, <2>2 DEF ServerReads, Sends
        <3>2. 0 \in 0 .. Blocks
            BY <1>4
        <3>3. m \in Commands /\ m.cmd = "updateEnd"
            BY DEF Message, Commands
        <3> HIDE DEF m
        <3> QED
            BY <1>5, <3>1, <3>2, <3>3
    <2> QED
        BY <2>1, <2>2
<1> QED
    BY <1>6, <1>7, <1>8 DEF ServerReads

LEMMA CommandsInvNext ==
    ASSUME CommandsInv, [Next]_vars
    PROVE  CommandsInv'
<1> USE DEF CommandsInv
<1>1. setup' = setup /\ setup \in Setup
    BY DEF Next, vars, ChannelTypeOK
<1>2. CoreInv'
    BY <1>1, CoreInvNext
<1> SUFFICES ChannelTypeOK' /\ QueueInv'
    BY <1>2
<1>3. CASE HandlesInNewHeap \/ HandlesCore \/ HandlesDatabase
    BY <1>1, <1>3, CoreHandles, AgentStep DEF ChannelTypeOK
<1>4. CASE HandlesUpdate
    BY <1>1, <1>4, UpdateHandles, AgentStep
<1>5. CASE Start
    <2>1. UNCHANGED <<channel, server>> /\ phase' = "up" /\ phase = "down"
        BY <1>5 DEF Start
    <2>2. coreTimeout' # "stale"
        BY <1>5 DEF Start, StartCore
    <2> QED
        BY <1>1, <2>1, <2>2, AgentStep DEF AgentHandles, Stale, Phases
<1>6. CASE Exits
    <2>1. Unconnected /\ UNCHANGED server /\ phase' \in Phases
        BY <1>6 DEF Exits, Exit, Phases
    <2> QED
        BY <1>1, <2>1, LostStep DEF server
<1>7. CASE Crash
    <2>1. Unconnected /\ UNCHANGED server /\ phase' \in Phases
        BY <1>7 DEF Crash, Phases
    <2> QED
        BY <1>1, <2>1, LostStep DEF server
<1>8. CASE Installs
    <2>1. UNCHANGED <<channel, server>> /\ phase' \in Phases /\ Stale' = Stale
        BY <1>8 DEF Stale, Installs, InstallService, RemoveProgram, CopyUpdate, Installed, coreVars, Phases
    <2> QED
        BY <1>1, <2>1, AgentStep DEF AgentHandles
<1>9. CASE Connect
    BY <1>1, <1>9, ConnectStep
<1>10. CASE Disconnect
    <2>1. Unconnected /\ transfer' = 0 /\ UNCHANGED <<phase, wanted, changes>>
        BY <1>10 DEF Disconnect
    <2> QED
        BY <1>1, <2>1, LostStep DEF ChannelTypeOK
<1>11. CASE ServerReads
    BY <1>1, <1>11, ServerReadsStep
<1>12. CASE \E c \in MaybeCore : ChangeCore(c)
    BY <1>1, <1>12, ChangeCoreStep
<1>13. CASE UNCHANGED vars
    <2>1. UNCHANGED <<setup, channel, server>> /\ phase' = phase /\ Stale' = Stale
        BY <1>13 DEF vars, coreVars, Stale
    <2> QED
        BY <2>1, AgentStep DEF AgentHandles, ChannelTypeOK
<1> QED
    BY <1>3, <1>4, <1>5, <1>6, <1>7, <1>8, <1>9, <1>10, <1>11, <1>12, <1>13 DEF Next, Agent

LEMMA CommandsInvAlways == Spec => []CommandsInv
<1>1. Init => CommandsInv
    BY CoreInvInit, CommandsInvInit DEF CommandsInv
<1>2. CommandsInv /\ [Next]_vars => CommandsInv'
    BY CommandsInvNext
<1> QED
    BY <1>1, <1>2, PTL DEF Spec

\* meshcore/agentcore.c:5452-5461, 3153: for any number of core modules and of
\* commands under way, CoreOk never comes when coreTimeout names a timer of a
\* heap that is gone, although nothing in the handler that clears resets it.
THEOREM NoStaleTimeoutAlways == Spec => []NoStaleTimeout
<1>1. CommandsInv => NoStaleTimeout
    <2> SUFFICES ASSUME CommandsInv, Comes("coreOk", None), Stale PROVE FALSE
        BY DEF NoStaleTimeout, Stale
    <2>1. toAgent \in Seq(Commands) /\ toAgent # <<>> /\ OkSafe(toAgent, Stale)
        BY DEF CommandsInv, ChannelTypeOK, QueueInv, Comes
    <2>2. 1 \in 1 .. Len(toAgent) /\ toAgent[1].cmd = "coreOk"
        BY <2>1, EmptySeq DEF Comes, Message
    <2>3. Stored(toAgent, 1, 1 - 1)
        BY <2>1, <2>2 DEF OkSafe
    <2> QED
        BY <2>3 DEF Stored
<1> QED
    BY <1>1, CommandsInvAlways, PTL

-----------------------------------------------------------------------------
(* Types *)

LEMMA ContentType ==
    /\ {<<>>, Cut, Unpacked, Own, FakeZip, FakeProgram, Package, New} \subseteq Content
    /\ Blocks \in Nat
<1>1. {0, Blocks + 1, Blocks + 2, Blocks + 3, Blocks + 4} \subseteq 0 .. Blocks + 4
    BY UpdateAssumption
<1>2. {<<>>, Cut, Unpacked, Own, FakeZip, FakeProgram} \subseteq Content
    BY <1>1, EmptySeq DEF Content, Cut, Unpacked, Own, FakeZip, FakeProgram
<1>3. Package \in Content
    <2>1. Package \in [1 .. Blocks -> 0 .. Blocks + 4] /\ Blocks \in Nat
        BY UpdateAssumption DEF Package
    <2> QED
        BY <2>1, SeqDef DEF Content
<1> QED
    BY <1>2, <1>3, UpdateAssumption DEF New

LEMMA BlockAppended ==
    ASSUME NEW p \in Content, NEW b \in 1 .. Blocks
    PROVE  /\ p \o <<b>> \in Content /\ p \o <<0, b>> \in Content
           /\ p \o <<0>> \in Content
<1>1. b \in 0 .. Blocks + 4 /\ 0 \in 0 .. Blocks + 4
    BY UpdateAssumption
<1>2. <<b>> \in Content /\ <<0, b>> \in Content /\ <<0>> \in Content
    BY <1>1 DEF Content
<1> QED
    BY <1>2, ConcatProperties DEF Content

LEMMA UpdateTypeInit == Init => UpdateTypeOK
<1> SUFFICES ASSUME Init PROVE UpdateTypeOK
    OBVIOUS
<1>1. program \in Content /\ update \in Content
    BY ContentType DEF Init, UpdateInit
<1>2. unzips \in 0 .. MaxUnzips /\ installs \in 0 .. 2
    BY UpdateAssumption DEF Init, UpdateInit
<1>3. flags \in Flags
    BY DEF Init, UpdateInit, NoFlags, Flags
<1>4. dbDisable \in Settings /\ {output, perform, touched, faulted, forgotten} \subseteq BOOLEAN
    BY DEF Init, UpdateInit, Settings
<1> QED
    BY <1>1, <1>2, <1>3, <1>4 DEF UpdateTypeOK

LEMMA UpdateTypeNext ==
    ASSUME UpdateTypeOK, ChannelTypeOK, [Next]_vars
    PROVE  UpdateTypeOK'
<1> USE DEF UpdateTypeOK
<1>1. /\ program \in Content /\ update \in Content /\ unzips \in 0 .. MaxUnzips
      /\ MaxUnzips \in Nat \ {0} /\ installs \in 0 .. 2 /\ 0 \in 0 .. MaxUnzips
      /\ setup \in Setup
    BY UpdateAssumption DEF ChannelTypeOK
<1>0. Forgets => forgotten' \in BOOLEAN
    BY Zenon DEF Forgets
<1>2. CASE HandlesInNewHeap \/ HandlesDatabase \/ Exits
    <2>1. dbDisable' \in Settings /\ forgotten' \in BOOLEAN
        BY <1>0, <1>2 DEF HandlesInNewHeap, HandlesDatabase, Exits, Exit, SettingKept, SettingFades, SettingEnds,
                          Faded, Settings
    <2> QED
        BY <1>1, <1>2, <2>1 DEF HandlesInNewHeap, HandlesDatabase, Exits, Exit, UnzipsLost
<1>3. CASE HandlesUpdate
    <2>1. CASE AgentHash \/ (\E b \in 1 .. Blocks : UpdatesDisabled("block", b))
               \/ UpdatesDisabled("update", None) \/ UpdatesDisabled("updateEnd", None)
        BY <2>1 DEF AgentHash, UpdatesDisabled, updateVars
    <2>2. CASE UpdateStart \/ UpdateFailed
        BY <1>1, <2>2, ContentType DEF UpdateStart, UpdateFailed, Verified
    <2>3. ASSUME NEW b \in 1 .. Blocks, UpdateBlock(b) PROVE UpdateTypeOK'
        <3>1. update' \in Content
            <4>1. update' \in Appended(b) \/ update' \in NotAppended
                BY <2>3 DEF UpdateBlock
            <4> QED
                BY <1>1, <4>1, BlockAppended DEF Appended, NotAppended
        <3> QED
            BY <1>1, <2>3, <3>1 DEF UpdateBlock, Verified
    <2>4. CASE UpdateReceived
        <3>1. update' \in Content /\ UNCHANGED <<program, flags, installs, forgotten>>
            BY <1>1, <2>4, ContentType DEF UpdateReceived, Overridden
        <3>5. faulted' \in BOOLEAN
            BY <2>4, Zenon DEF UpdateReceived
        <3>2. unzips' \in 0 .. MaxUnzips
            BY <1>1, <2>4 DEF UpdateReceived
        <3>3. output' \in BOOLEAN /\ perform' \in BOOLEAN /\ touched' \in BOOLEAN
            BY <2>4 DEF UpdateReceived, Continue, Verified
        <3>4. dbDisable' \in Settings
            BY <2>4 DEF UpdateReceived, Disabled, Settings
        <3> QED
            BY <3>1, <3>2, <3>3, <3>4, <3>5
    <2>5. CASE UnzipDone
        <3>1. update' \in Content
            BY <2>5, ContentType DEF UnzipDone, Outputs
        <3>2. unzips' \in 0 .. MaxUnzips
            BY <1>1, <2>5 DEF UnzipDone
        <3> QED
            BY <2>5, <3>1, <3>2 DEF UnzipDone, Continue
    <2>6. CASE UnzipFails
        <3>1. update' \in Content
            BY <1>1, <2>6, ContentType DEF UnzipFails
        <3>2. unzips' \in 0 .. MaxUnzips
            BY <1>1, <2>6 DEF UnzipFails
        <3> QED
            BY <2>6, <3>1, <3>2 DEF UnzipFails
    <2> QED
        BY <1>3, <2>1, <2>2, <2>3, <2>4, <2>5, <2>6 DEF HandlesUpdate
<1>4. CASE Start
    BY <1>1, <1>4, ContentType DEF Start, StartUpdate
<1>5. CASE Installs
    <2>1. program' \in Content /\ update' \in Content
        BY <1>1, <1>5, ContentType DEF Installs, InstallService, RemoveProgram, CopyUpdate
    <2>2. installs' \in 0 .. 2
        BY <1>1, <1>5 DEF Installs, InstallService, RemoveProgram, CopyUpdate, Installed
    <2> QED
        BY <1>1, <1>5, <2>1, <2>2 DEF Installs, InstallService, RemoveProgram, CopyUpdate, Installed
<1>6. CASE Crash
    <2>1. program' \in Content
        BY <1>1, <1>6, ContentType DEF Crash, UpdateEnded
    <2>2. dbDisable' \in Settings /\ forgotten' \in BOOLEAN
        BY <1>0, <1>6 DEF Crash, UpdateEnded, SettingEnds, Settings
    <2> QED
        BY <1>1, <1>6, <2>1, <2>2 DEF Crash, UpdateEnded
<1>7. CASE Connect
    <2>1. flags' \in Flags
        BY <1>1, <1>7 DEF Connect, ReadFlags, Flags, Setup
    <2> QED
        BY <1>7, <2>1 DEF Connect, ReadFlags
<1>8. CASE \/ HandlesCore \/ Disconnect \/ ServerReads
           \/ (\E c \in MaybeCore : ChangeCore(c)) \/ UNCHANGED vars
    <2>1. UNCHANGED updateVars
        BY <1>8 DEF HandlesCore, Disconnect, ServerReads, ChangeCore, vars
    <2> QED
        BY <2>1 DEF updateVars
<1> QED
    BY <1>2, <1>3, <1>4, <1>5, <1>6, <1>7, <1>8 DEF Next, Agent

\* The core module, the update, the channel and the server keep their types.
THEOREM CommandsTypeOK == Spec => []TypeOK
<1> DEFINE Inv == CommandsInv /\ UpdateTypeOK
<1>1. Init => Inv
    BY CoreInvInit, CommandsInvInit, UpdateTypeInit DEF CommandsInv
<1>2. Inv /\ [Next]_vars => Inv'
    BY CommandsInvNext, UpdateTypeNext DEF CommandsInv
<1>3. Inv => TypeOK
    BY DEF CommandsInv, CoreInv, ChannelTypeOK, TypeOK
<1> HIDE DEF Inv
<1> QED
    BY <1>1, <1>2, <1>3, PTL DEF Spec

-----------------------------------------------------------------------------
(* The core module whose hash is confirmed runs *)

\* What is stored and can be read runs, or the timer or a restart will launch it.
RunsInv ==
    Running /\ ~setup.dbFails =>
        /\ db.cache = None
        /\ db.table # None /\ db.whole => heap.core = db.table \/ heap.timer \/ dump

RunsStoredInv == CommandsInv /\ RunsInv

\* Nothing of it changes.
LEMMA RunsKept ==
    ASSUME RunsInv, UNCHANGED setup, UNCHANGED <<db, heap, dump>>, Running' => Running
    PROVE  RunsInv'
BY DEF RunsInv

LEMMA LaunchStoredRuns ==
    ASSUME NEW h \in Heap, NEW d \in Database, NEW l, l = LaunchStored(h, d), d.cache = None,
           d.table # None, d.whole
    PROVE  l.core = d.table
BY DEF LaunchStored, Launched, Hash, Readable

LEMMA RunsHandles ==
    ASSUME RunsStoredInv, HandlesInNewHeap \/ HandlesCore \/ HandlesDatabase, setup' = setup, phase' = phase
    PROVE  RunsInv'
<1>1. db \in Database /\ heap \in Heap /\ NewHeap \in Heap
    BY NewHeapType DEF RunsStoredInv, CommandsInv, CoreInv, CoreTypeOK
<1> SUFFICES ASSUME Running, ~setup.dbFails
             PROVE  /\ db'.cache = None
                    /\ db'.table # None /\ db'.whole =>
                            heap'.core = db'.table \/ heap'.timer \/ dump'
    BY DEF RunsInv, Running
<1>2. /\ db.cache = None
      /\ db.table # None /\ db.whole => heap.core = db.table \/ heap.timer \/ dump
    BY DEF RunsStoredInv, RunsInv
<1>3. CASE ClearCoreModule
    BY <1>1, <1>2, <1>3, DeleteType DEF ClearCoreModule
<1>4. CASE DumpCoreModule
    BY <1>1, <1>2, <1>4, LaunchStoredRuns DEF DumpCoreModule
<1>5. ASSUME NEW c \in Cores, CoreModuleStored(c)
      PROVE  db'.cache = None /\ db'.table = c /\ heap'.core = c
    <2>2. PICK d \in Put(db, c, setup.dbFails) :
            \/ db' \in {d} \cup Compacted(d, setup.dbFails) /\ heap' = Launched(NewHeap, c)
            \/ Hash(d) # c
        BY <1>5 DEF CoreModuleStored
    <2>3. d \in Database /\ d.table = c /\ d.cache = None
        BY <1>1, <1>2, <2>2, PutType
    <2> QED
        BY <2>2, <2>3, CompactedType DEF Hash, Launched
<1>6. CASE ClearCoreModuleIgnored \/ CoreModuleHash \/ \E c \in Cores : CoreModuleKept(c)
    BY <1>2, <1>6 DEF ClearCoreModuleIgnored, CoreModuleHash, CoreModuleKept, coreVars
<1>7. CASE RestartCore
    BY <1>2, <1>7 DEF RestartCore
<1>8. CASE CoreOk \/ ServerTimeout
    <2> DEFINE h == [heap EXCEPT !.timer = FALSE]
    <2>1. /\ heap' = heap \/ heap' = LaunchStored(h, db)
          /\ UNCHANGED <<db, dump>>
        BY <1>8 DEF CoreOk, ServerTimeout
    <2>2. h \in Heap
        BY <1>1, TimerRemoved
    <2> HIDE DEF h
    <2> QED
        BY <1>1, <1>2, <2>1, <2>2, LaunchStoredRuns
<1>9. CASE Compact
    <2>1. db'.table = db.table /\ db'.cache = db.cache /\ db'.whole = db.whole
        BY <1>1, <1>9, CompactedType DEF Compact
    <2> QED
        BY <1>2, <1>9, <2>1 DEF Compact
<1>10. ~OtherPutFails
    BY DEF OtherPutFails
<1> QED
    BY <1>3, <1>4, <1>5, <1>6, <1>7, <1>8, <1>9, <1>10 DEF HandlesInNewHeap, HandlesCore, HandlesDatabase

LEMMA RunsStart ==
    ASSUME RunsStoredInv, Start, setup' = setup
    PROVE  RunsInv'
<1>1. PICK d \in Opened(db) : db' \in Delete(d, setup.dbFails) \/ db' = d
    BY DEF Start, StartCore
<1>2. d \in Database /\ d.cache = None
    BY OpenedType DEF RunsStoredInv, CommandsInv, CoreInv, CoreTypeOK, Start, Running
<1>3. db' \in Database /\ db'.cache = None
    BY <1>1, <1>2, DeleteType
<1>4. ASSUME db'.table # None, db'.whole PROVE heap'.core = db'.table \/ heap'.timer
    <2>1. Readable(db')
        BY <1>4 DEF Readable
    <2>2. heap' = LaunchStored(NewHeap, db') \/ heap' = [NewHeap EXCEPT !.timer = TRUE]
        BY <2>1 DEF Start, StartCore
    <2>3. [NewHeap EXCEPT !.timer = TRUE].timer
        BY NewHeapType DEF Heap
    <2> QED
        BY <1>3, <1>4, <2>2, <2>3, NewHeapType, LaunchStoredRuns
<1> QED
    BY <1>3, <1>4 DEF RunsInv

LEMMA RunsNext ==
    ASSUME RunsStoredInv, [Next]_vars
    PROVE  RunsInv'
<1>1. setup' = setup /\ RunsInv /\ CoreInv /\ ChannelTypeOK
    BY DEF Next, vars, RunsStoredInv, CommandsInv
<1>2. CASE HandlesInNewHeap \/ HandlesCore \/ HandlesDatabase
    BY <1>1, <1>2, RunsHandles, CoreHandles
<1>3. CASE HandlesUpdate
    <2>1. UNCHANGED <<db, heap, dump>>
        BY <1>3 DEF HandlesUpdate, coreVars
    <2>2. Running' => Running
        BY <1>3 DEF HandlesUpdate, AgentHash, UpdateStart, UpdateFailed, UpdateReceived,
                    UnzipDone, UnzipFails, UpdateBlock, UpdatesDisabled, Receive, Comes, Running
    <2> QED
        BY <1>1, <2>1, <2>2, RunsKept
<1>4. CASE Start
    BY <1>1, <1>4, RunsStart
<1>5. CASE Exits \/ Crash \/ Installs
    <2>1. ~Running'
        BY <1>5 DEF Exits, Exit, Crash, Installs, InstallService, RemoveProgram, CopyUpdate,
                    Installed, Running
    <2> QED
        BY <2>1 DEF RunsInv
<1>6. CASE \/ Connect \/ Disconnect \/ ServerReads
           \/ (\E c \in MaybeCore : ChangeCore(c)) \/ UNCHANGED vars
    <2>1. UNCHANGED <<phase, db, heap, dump>>
        BY <1>6 DEF Connect, Disconnect, ServerReads, ChangeCore, vars, coreVars
    <2> QED
        BY <1>1, <2>1, RunsKept DEF Running
<1> QED
    BY <1>2, <1>3, <1>4, <1>5, <1>6 DEF Next, Agent

\* The hash of a core module is sent by three handlers only.
LEMMA ReportsRun ==
    ASSUME RunsStoredInv, [Next]_vars, NEW c \in Cores,
           toServer' = Append(toServer, Message("coreHash", c)), ~setup.dbFails, db'.whole
    PROVE  heap'.core = c \/ heap'.timer \/ dump'
<1>1. /\ setup' = setup /\ RunsInv /\ CoreInv /\ ChannelTypeOK /\ None \notin Cores
      /\ toServer \in Seq(Replies)
    BY CoresAssumption DEF Next, vars, RunsStoredInv, CommandsInv, ChannelTypeOK
<1>2. /\ Len(toServer') = Len(toServer) + 1 /\ Len(toServer) \in Nat
      /\ toServer'[Len(toServer')].cmd = "coreHash" /\ toServer'[Len(toServer')].arg = c
    BY <1>1 DEF Message
<1>3. ASSUME NEW h, toServer' = Append(toServer, Message("coreHash", h)) PROVE h = c
    BY <1>1, <1>2, <1>3 DEF Message
<1>4. ASSUME NEW cmd, NEW h, toServer' = Append(toServer, Message(cmd, h)) PROVE cmd = "coreHash"
    BY <1>1, <1>2, <1>4 DEF Message
<1>5. toServer' # toServer /\ toServer' # <<>>
    BY <1>2, EmptySeq
<1>6. ASSUME Running, UNCHANGED <<phase, db, heap, dump>>, Hash(db) = c
      PROVE  heap'.core = c \/ heap'.timer \/ dump'
    BY <1>1, <1>6 DEF RunsInv, Hash
<1>7. CASE HandlesInNewHeap
    <2>1. ~ClearCoreModule /\ ~DumpCoreModule
        BY <1>1, <1>3, <1>5 DEF ClearCoreModule, DumpCoreModule, Reply, channel
    <2>2. PICK k \in Cores : CoreModuleStored(k)
        BY <1>7, <2>1 DEF HandlesInNewHeap
    <2>3. heap' = Launched(NewHeap, k) /\ k = c
        BY <1>1, <1>3, <2>2 DEF CoreModuleStored, Reply
    <2> QED
        BY <2>3 DEF Launched
<1>8. CASE HandlesCore
    <2>1. ~ClearCoreModuleIgnored /\ ~CoreOk /\ ~ServerTimeout /\ ~RestartCore
        BY <1>5 DEF ClearCoreModuleIgnored, CoreOk, ServerTimeout, RestartCore, Silent, channel
    <2>2. CASE CoreModuleHash
        BY <1>1, <1>3, <1>6, <2>2 DEF CoreModuleHash, Reply, Receive, Comes, coreVars
    <2>3. ASSUME NEW k \in Cores, CoreModuleKept(k) PROVE Running /\ UNCHANGED <<phase, db, heap, dump>>
                                                          /\ Hash(db) = c
        BY <1>3, <1>5, <2>3 DEF CoreModuleKept, Reply, Silent, Receive, Comes
    <2> QED
        BY <1>6, <1>8, <2>1, <2>2, <2>3 DEF HandlesCore
<1>13. ~HandlesDatabase
    BY <1>5 DEF HandlesDatabase, Compact, OtherPutFails, channel
<1>9. CASE HandlesUpdate
    <2>1. ASSUME NEW b, UpdateBlock(b) PROVE FALSE
        BY <1>4, <1>5, <2>1 DEF UpdateBlock, Reply, Silent
    <2>2. ASSUME NEW cmd, NEW arg, UpdatesDisabled(cmd, arg) PROVE FALSE
        BY <1>5, <2>2 DEF UpdatesDisabled, Silent
    <2>3. CASE AgentHash
        BY <1>4, <2>3 DEF AgentHash, Reply
    <2>4. ~UpdateStart /\ ~UpdateFailed /\ ~UpdateReceived /\ ~UnzipDone /\ ~UnzipFails
        BY <1>5 DEF UpdateStart, UpdateFailed, UpdateReceived, UnzipDone, UnzipFails, Silent, channel
    <2> QED
        BY <1>9, <2>1, <2>2, <2>3, <2>4 DEF HandlesUpdate
<1>10. CASE Exits \/ Crash \/ Connect \/ Disconnect
    BY <1>5, <1>10 DEF Exits, Crash, Connect, Disconnect, Unconnected
<1>11. CASE Start \/ Installs \/ (\E k \in MaybeCore : ChangeCore(k)) \/ UNCHANGED vars
    BY <1>5, <1>11 DEF Start, Installs, InstallService, RemoveProgram, CopyUpdate, ChangeCore,
                       vars, channel
<1>12. CASE ServerReads
    <2>1. toServer # <<>> /\ toServer' = Tail(toServer)
        BY <1>12 DEF ServerReads
    <2>2. Len(toServer') = Len(toServer) - 1
        BY <1>1, <2>1, HeadTailProperties
    <2> QED
        BY <1>2, <2>2
<1> QED
    BY <1>7, <1>8, <1>9, <1>10, <1>11, <1>12, <1>13 DEF Next, Agent

\* meshcore/agentcore.c:3218-3226: whatever was uploaded, cleared, restarted or
\* killed before, the agent sends the hash of a core module only when it runs or
\* something under way will launch it, unless the database failed or the process
\* was killed while it was stored.
THEOREM ReportedCoreRunsAlways == Spec => ReportedCoreRuns
<1>1. Init => RunsStoredInv
    BY CoreInvInit, CommandsInvInit DEF RunsStoredInv, CommandsInv, RunsInv, Init, Running
<1>2. RunsStoredInv /\ [Next]_vars => RunsStoredInv'
    BY CommandsInvNext, RunsNext DEF RunsStoredInv
<1>3. RunsStoredInv /\ [Next]_vars =>
        [\A c \in Cores :
            toServer' = Append(toServer, Message("coreHash", c)) /\ ~setup.dbFails /\ db'.whole
            => heap'.core = c \/ heap'.timer \/ dump']_vars
    BY ReportsRun
<1> QED
    BY <1>1, <1>2, <1>3, PTL DEF Spec, ReportedCoreRuns
=============================================================================
