# MeshAgent: a verification project

MeshAgent is the program that runs on every computer a MeshCentral server manages. It is a C program
built around a single-threaded event loop (`microstack/`), an agent core that keeps one secured
WebSocket to its server (`meshcore/agentcore.c`), a JavaScript runtime (`microscript/`, Duktape) in
which the server's "core module" runs, and a key/value file that keeps its identity, its settings and
that core module (`microstack/ILibSimpleDataStore.c`). This directory holds TLA+ models of the parts
of that code whose correctness depends on order, failure and restart, the TLC configurations that check
them on small instances, and proofs checked by TLAPS.

## 1. The system

| Part | Source | State it keeps | Operations | What makes it correct |
|---|---|---|---|---|
| SimpleDataStore | `microstack/ILibSimpleDataStore.c` | append-only file, key table, cache, dirty size | open/rebuild, Put, PutCompressed, Cached, Get, Delete, Compact, Close | the table is what the file says; what was put is read, now and after a crash; nothing durable is lost; Compact ends and changes no value |
| Control channel | `meshcore/agentcore.c` (`MeshServer_*`) | connection state, authentication bits, the request and its timer, the retry delay, proxy and server index, idle/pong timers | connect with retry, connect, the response callback, ping/pong timers, address change, multicast discovery, command dispatch | one control connection at a time; management commands only after both certificates are verified; a lost connection is retried |
| Core module and self-update | `meshcore/agentcore.c` (`MeshServer_ProcessCommand`, `MeshServer_selfupdate_continue`) | running core, stored core, core timer, update file | CoreModule, CoreModuleHash, CoreOk, AgentHash, AgentUpdate, AgentUpdateBlock, core restart | the core that runs is the one stored and the one the server was told of; an update replaces the program only when its hash matches |
| Chain | `microstack/ILibParsers.c` | list of modules, the select loop, loops inside handlers, the pipe that wakes it | loop, continue inside a handler, force-unblock, run on the chain thread, stop | a call posted from another thread is made once and in order, and the chain does not sleep over it |
| LifeTime timers | `microstack/ILibParsers.c` (`ILibLifeTime_*`) | sorted pending list, the list being fired, the deferred removals | AddEx, Remove, Check, Flush | a removed timer does not fire, an added one fires once |
| Hash table, SparseArray, string and IP parsing | `microstack/ILibParsers.c` | in-memory data structures | get/put/remove, enumerate | functional |
| AsyncSocket / AsyncServerSocket | `microstack/ILibAsyncSocket.c`, `ILibAsyncServerSocket.c` | socket, TLS session, pending send list, pause state, the lock of the senders | connect, accept, send, receive, drain, disconnect, pause, resume | a peer gets what was accepted for its connection, whole and in order; its user is told of each connection and of its end once; what is pending is sent or the connection ends |
| WebClient | `microstack/ILibWebClient.c` | per-server request queues, pool of connections, WebSocket reassembly | pipeline request, cancel, digest, WebSocket send and receive | every request is answered once; a cancelled request is not used again |
| WebServer | `microstack/ILibWebServer.c` | sessions, digest table, virtual directories | listen, respond, stream | one response per request |
| ProcessPipe | `microstack/ILibProcessPipe.c` | pipes, read buffers, child processes | spawn, read loop, write, pause/resume, exit | no output is lost at exit; SendOK follows a pending write |
| WebRTC / SCTP / DTLS | `microstack/ILibWebRTC.c`, `ILibWrapperWebRTC.c` | ICE slots, TSN windows, hold queues, retransmission timers, data channels | STUN, SCTP handshake, send, SACK, data channel open/close | ordered reliable delivery, congestion window |
| RemoteLogging, IPAddressMonitor, Multicast, Crypto, IDerefAssembler | `microstack/` | small | logging, address change callbacks, UDP, OpenSSL wrappers | callbacks on the chain thread |
| Script engine and bindings | `microscript/` (Duktape is vendored) | JavaScript heap, native objects, finalizers | timers, streams, net, http, fs, child processes, event emitter, data store bindings | stream back-pressure; each event reaches the listeners present when it was emitted |
| KVM (remote desktop) | `meshcore/KVM/` | slave process, tile state, pause | capture, compress, input | platform I/O |
| JavaScript modules | `modules/` | per module | service manager, installers, promises, message boxes, tunnels | per module |
| Service and console hosts | `meshservice/`, `meshconsole/`, `meshreset/` | OS service state | start, stop, install | OS interaction |
| Vendored | `microscript/duktape.c`, `meshcore/zlib`, `openssl/`, `lib-jpeg-turbo/` | | | third-party |

How the parts interact. Everything except blocking helper threads runs as callbacks of one chain
thread: sockets, timers and posted calls. The agent core asks the WebClient for a connection and gets
all news of it through one callback (`MeshServer_OnResponse`); it uses LifeTime timers, keyed by the
address of the data they carry, for retries, network timeouts and pings. Commands of the server reach
`MeshServer_ProcessCommand`, which reads and writes the data store, restarts the JavaScript core and
writes the update file. The data store is called synchronously by the agent core and by scripts, and
tells the agent of write errors through a handler.

### What is hard to test here

* Crashes: the store is written in place, record by record, and compacted through a second file; the
  process can die between any two writes, and one bad record decides what the next start sees.
* Failing operations: a full disk turns the store into a read-only one with a cache in front of it, if a
  write fails, and goes unnoticed if it is the flush that fails; a Compact can fail at every step.
* Timers keyed by addresses: adding a timer removes the one of the same key; a timer that is not removed
  outlives what it was about.
* Callbacks that arrive after the state they belong to has been replaced: the response callback has to
  tell the connection it belongs to from the one that exists now.
* Threads beside the chain's: they add timers and write to the pipe without knowing where the loop is, and
  send on sockets the chain may be closing.
* A socket module that carries one connection after the other, with what the last one left in it.
* Long legal sequences: plain and compressed puts of a key, deletes, errors and restarts.

PROJECT.json lists each hazard with its line and the properties that watch it.

## 2. Modules

### KVStore, SimpleDataStore, MCSimpleDataStore, SimpleDataStoreFiles, SimpleDataStoreProofs, CoreStoreProofs

`KVStore` is what a caller may rely on: a dictionary whose `Put` and `Delete` are durable at once, which
survives restarts, and from which a crash takes at most the operation that was running.

`SimpleDataStore` is `ILibSimpleDataStore.c` in the POSIX build. A record of the file is one element of
the sequence `main`, so that the offset of a value is the index of its record, and the hash of a value
is the value itself; `part` says how much of a record the file holds, because a crash cuts the last one
short. A key has two slots, the plain one and the compressed one (the key followed by its CRC). The
state and the actions correspond to the code as follows:

| Model | Code |
|---|---|
| `main`, `table`, `cache`, `dirty` | the file, `keyTable`, `cacheTable`, `dirtySize` |
| `mode` | `dataFile` open for writing, reopened by `ReOpenReadOnly`, or NULL (`CreateCachedOnly`) |
| `phase`, `tmp`, `todo` | the progress of `Compact` through `Compact_EnumerateSink` |
| `Open`, `Stop` | `CreateEx2` with `RebuildKeyTable`; `Close`, or the death of the process |
| `Put`, `PutCompressed`, `PutCached`, `Delete` | `PutEx2`, `PutCompressed`, `CachedEx`, `DeleteEx`, each with its write-error path |
| `DiesInPut`, ... | the process dies while `WriteRecord` is writing |
| `CompactStart`, `CompactCopy`, `CompactCopyFails`, `CompactHangs`, `CompactReplace` | `Compact`, one step per entry, because the process can die between two |
| `told` | a history variable: what each key holds, going by what the callers were told |

A write of a record fails in one of two ways. `fwrite` may take less than the record ("write"): the code
cuts the file back, keeps the value in the cache and reopens the store read-only. Or `fwrite` only fills
the buffer of `stdio` and `fflush` fails ("flush"), which `WriteRecord` does not look at
(`ILibSimpleDataStore.c:247`, `249`): the entry is made, and in the file there is nothing, the header, or a part of the
value (`Leftovers`). It is the same with a tombstone, and with what `Compact` copies, the last of which
reaches the file in `fclose` (1108): the short file is then renamed over the store (1117). What a failed
flush did not write is dropped, as glibc, musl and the Microsoft runtime do; a C library that keeps it for
the next flush is not modelled.

Every file operation named in `Faults` may fail at any time, and `Backed` says whether there is a file
at all (`CreateCachedOnly`). `SimpleDataStore` implements `KVStore` (`ImplementsKVStore`) with the value
a restart would find, `Durable(k)`, as the dictionary. `SimpleDataStoreFiles` holds what the proofs use
about files: lemmas about every sequence of records, whatever wrote them. `CoreStoreProofs` relates the
store to the smaller one of `CoreDatabase` (below).

Abstracted: values are non-empty; reopening the data file after a rename or an error succeeds;
`ftruncate` succeeds; files in the two older record layouts appear only as records of the current one.
The Windows build replaces the file with a copy, which is not one step.

### ControlChannel, MCControlChannel, ControlChannelProofs

`ControlChannel` is the part of `agentcore.c` that keeps the connection to the server. Its handlers call
each other: cancelling a request runs `MeshServer_OnResponse` before it returns, which runs
`MeshServer_Connect`, which may run `MeshServer_ConnectEx`. So a handler is an operator from one state
of the agent to the set of the states it may leave, composed as the code composes them, and an action
applies one to the variable `agent`.

| Model | Code |
|---|---|
| `agent`, a record | the fields of `MeshAgentHostContainer` the channel uses; a timer is a Boolean, true while it is armed |
| `conns` | the web client's connections, and what the peer of each is (whether it answers, its certificate, whether it can sign) |
| `trusted` | `ServerTlsCertHash` in the data store |
| `told` | what the core module was last told ("Connected") |
| `pinged`, `proven`, and `authentic`, `confirmed`, `served` of a connection | history variables |
| `Connect`, `ConnectEx`, `ChooseServer`, `ChooseProxy`, `Attempt`, `Request` | `MeshServer_Connect`, and `MeshServer_ConnectEx` in parts |
| `Closed`, `ProtocolError`, `Established`, `OnResponseEnded` | the cases of `MeshServer_OnResponse` |
| `NetworkError`, `RetryTimeout`, `IdleTimeout`, `Pong`, `PongTimeout` | the timers and the pong callback |
| `AuthRequest`, `AuthVerify`, `AuthConfirm`, `Command` | `MeshServer_ProcessCommand` |
| `Discovered`, `AddressChanged`, `HelperAnswers`, `Disconnect`, `Stop` | multicast, address change, `proxy-helper.js`, `MeshAgent.Disconnect`, `ILibStopChain` |

A reply that is no upgrade, such as a proxy's 404 or 502, and that arrives whole, reaches
`MeshServer_OnResponse` twice (`Answered`). The first time it has a header: the network timer is removed
(`agentcore.c:3549-3554`), the state cleared (3717-3719), and `MeshServer_Connect` not called (3735). But
a request that is to become a WebSocket is an orphan from the start (`ILibWebClient.c:2631`), so
`ILibWebClient_FinishedResponse`, called when the reply is complete (1796, 1837, 2012), destroys the
connection (720), and `ILibWebClient_DestroyWebClientDataObject` tells each request that is still in the
queue, as this one is, that it is aborted, without a header (467-484). That call makes the next attempt.
The mutant `AnsweredOnce` is the code without it, and the agent is then idle for good.

Time is left out: an armed timer may fire at once. The exception is written where it matters: an idle
timer longer than the pong timer cannot expire first. Signatures are abstracted to who made them
(`real`) and nonces to the connection they were made for.

### CommandChannel, CoreDatabase, CoreModule, SelfUpdate, AgentCommands, MCAgentCommands, AgentCommandsProofs, CoreModuleProofs

What happens on an authenticated channel. `CommandChannel` holds what the other two share: the process
(`phase`), the settings (`setup`, chosen once in `Init`), and the channel as two FIFO queues that are
lost with the connection. `CoreModule` models the commands about the core module together with the
timer and the restart that may race them. `CoreDatabase` is the data store as the key "CoreModule", which
is always stored compressed, can see it: a value in the table, one in the file, one in the cache, and what
each operation of the store, on this key or another, does to them.
`SelfUpdate` models the transfer, check, unzip and installation of an update. `AgentCommands` extends
both, adds the process's start, exit and death and the server, and is where the two meet: whatever
destroys the JavaScript heap loses the unzips that run in it.

| Model | Code |
|---|---|
| `db` | the entry "CoreModule": in the table and whether its value can be read, in the file, where a crash or a failed flush may have torn it and it hides what is written behind it, in the cache after a write error; and whether what a failed flush left of another record hides what is written behind that (`cut`) |
| `reverted` | history: a write error rebuilt the table from a file that did not have its value |
| `heap` | `meshCoreCtx`: the core module launched in it, how many were, whether the one minute timer is set in it |
| `coreTimeout` | the pointer of that name: null, a timer of this heap, or one of a heap that is gone |
| `localScript`, `dump` | `localScript`; a `dumpCoreModuleEx` posted to the chain |
| `program`, `update`, `output` | the agent's file, `.update` and `.update_unzipped`; a content is the sequence of the blocks in it |
| `unzips`, `perform`, `flags` | unzips under way, `performSelfUpdate`, the flags read when connecting |
| `dbDisable`, `forgotten` | the setting `disableUpdate`: none, one that this process has but the next one does not find, or one in the file; and that it was set and is gone (history) |
| `Overridden`, `FakeZip`, `Disabled` | `fakeUpdate`: the package is replaced by the zip file next to the program, if there is one, or by the program (3391-3406), both unchecked; the `Put` of `disableUpdate` (3410), of which nobody looks at the result |
| `CoreModuleKept`, `CoreModuleStored`, `ClearCoreModule`, `CoreModuleHash`, `CoreOk` | the handlers of these commands, by what they come to |
| `ServerTimeout`, `RestartCore`, `DumpCoreModule` | the one minute timer; `MeshAgent.restartCore` and what it posts |
| `Compact`, `OtherPutFails` | `ILibSimpleDataStore_Compact`, called by a script; a put of another key that cannot be written. Either may take the setting away (`SettingFades`) |
| `AgentHash`, `UpdateStart`, `UpdateBlock`, `UpdateReceived`, `UpdateFailed`, `UpdatesDisabled` | the update commands |
| `UnzipDone`, `UnzipFails`, `UnzipsLost` | `update-helper.js` and `MeshServer_selfupdate_unzip_complete` |
| `Exit`, `InstallService`, `RemoveProgram`, `CopyUpdate`, `StartUpdate` | the end of `MeshAgent_Start`, the beginning of `MeshAgent_AgentMode` |
| `Crash` | the process ends at any point, also in the middle of storing the core module or of copying the program |

The server is not in the repository. It is modelled from the agent's side of the protocol: it asks for
both hashes, answers the hash of a core module with CoreOk, an upload or nothing, and sends an update
block by block when the agent's hash is not the current one. An administrator may change the core
module at any time.

### PostedCalls, Chain, ChainProofs

`PostedCalls` is what `ILibChain_RunOnMicrostackThread` promises: a call that was posted is made once on
the chain's thread, or aborted when the chain has been told to stop. `Chain` is the loop of
`ILibParsers.c` and the timer every component shares, for POSIX, with the other threads in steps as small
as the accesses to what they share with the chain.

| Model | Code |
|---|---|
| `objects`, `deletes`, `nextTrigger`, `lock` | `ObjectList`, `DeleteList`, `NextTriggerTick`, the lock of `ObjectList` |
| `queue`, `active` | the `EventQueue` of each `ILibLifeTime_Check` on the stack, and `ActiveList`, which names one of them or none |
| `depth`, `pc`, `running`, `continuation` | `ILibStartChain` and the `ILibChain_Continue` inside its handlers; the timer each is calling; `continuationState` |
| `pipe`, `terminate` | a byte in `TerminatePipe`; `TerminateFlag` |
| `Top`, `Test`, `Collect`, `Fire`, `CheckEnds`, `Wake`, `Destroy` | the loop: `ILibLifeTime_Check` (without the lock first, then with it), its callbacks, select(), the end |
| `AddHere`, `RemoveHere`, `Continue`, `EndContinue`, `StopHere`, `Return` | what a handler may call |
| `Begin`, `Scan`, `Defer`, `WakeChain`, `Insert`, `ForceUnBlock`, `SetTrigger` | another thread in `ILibLifeTime_AddEx4`, `ILibLifeTime_Remove`, `RunOnMicrostackThreadEx3` or `ILibStopChain` |
| `gone`, `ran`, `missed` | history variables |

Time is what a comparison can tell: an expiration is "now", "later" or "past", and `TimePasses` makes
later ones past. `Chain` implements `PostedCalls` with the posted calls in any of its lists as those owed.

### AsyncSocket, MCAsyncSocket, AsyncSocketProofs

One `ILibAsyncSocketModule`, without TLS and proxy, through the connections it carries one after the
other, as a client (`ILibAsyncSocket_ConnectTo`) or in the pool of a server
(`ILibAsyncServerSocket_PostSelect`). The chain is reduced to the points where its handlers may act on
the module; of the timers only those that wait to call `ILibAsyncSocket_Disconnect` are kept, as `Chain`
treats them: added on the chain at once, and off it with the removal of an older one left to the chain.

| Model | Code |
|---|---|
| `sock`, `fin`, `pause`, `pending`, `buffer`, `lock` | `internalSocket`, `FinConnect`, `PAUSE`, the list from `PendingSend_Head`, the read buffer, `SendLock` |
| `net` | how the connection does: being made, up, ended by its peer, broken |
| `timers`, `due`, `removal`, `pipe` | timers for `ILibAsyncSocket_Disconnect`, those collected by the check that runs, a deferred removal; `TerminatePipe` |
| `pc`, `nest`, `want`, `ready`, `canWrite` | where the chain is; `ILibAsyncSocket_Disconnect` inside handlers; what `select` is asked and finds; `fd_write` |
| `call` | the `ILibAsyncSocket_SendTo_MultiWrite` each thread is in, buffer by buffer |
| `Open`, `ConnectTo`, `Accept` | a connection is opened |
| `Send`, `Queue`, `Pass`, `SendError`, `Report`, `Insert`, `Relock`, `ForceUnBlock` | sending; `ILibAsyncSocket_SendError` lets go of the lock in the middle |
| `Watch`, `Wake`, `FindsError`, `Connects`, `Reads`, `Resumes`, `NothingToRead` | `ILibAsyncSocket_PreSelect`, `select`, the first half of `ILibAsyncSocket_PostSelect` with `ILibProcessAsyncSocket` |
| `Drain`, `Clear`, `DrainFails`, `NoDrain` | its second half |
| `Disconnect`, `Shutdown`, `CloseRead` and `CloseEnds` | the ways to end: called by the user or a timer, on an error, after a read. Only the first takes the lock |
| `conn`, `open`, `told`, `accepted`, `sent`, `holed`, `failed`, `left`, `mixed`, `doubled`, `late` | history variables |

A byte is the number of its connection and its place in what was accepted for it, so that a byte that is
lost, doubled, out of order or on the wrong connection is told apart. `stale` in `ConnectTo` is a set
`select` was given for, or found, a descriptor of the same number that another module has closed in the
same pass.
## 3. Runs

A run marked *violation* checks one statement the repository makes and finds it refuted by what the code
does.

| Run | What it asks |
|---|---|
| `store_crash` | Plain values, a setting kept in the cache with a value that needs unquoting, kills at any point (also inside a record and between two entries of a Compact): is the store a durable dictionary that answers what its callers were told, and does Compact end? |
| `store_faults` | Plain and compressed values of the same key, any write, rename or `.tmp` operation failing at any time, flushes that fail unnoticed, kills that may leave part of a compressed value, with and without a file, a setting of the command line that covers a stored key, a value that loses its quotes: is the index the one a restart would build, and does Get answer what callers were told, until something fails; never anything older, whatever failed; is what was put read, or, after a failed flush, nowhere, and durable if no write, flush or rename failed; and does an operation leave the other keys alone, but for a Compact with a failed flush? |
| `store_torn_compact` (violation) | Does Compact return once it meets a torn compressed value? It does not. |
| `store_lost_write` (violation) | Is a value that cannot be written answered from the cache? Not when the flush is what fails: it is in neither, and `Put` succeeds. |
| `channel_safety` | Two servers, one of them found by discovery, a proxy, the proxy helper, servers that change their certificate or have the wrong key, connections that fail, stall or fall silent, a stop at any time: one connection, authentication earned on it, commands only then, the core module told the truth, something always left to try again, no attempt after the stop. |
| `channel_live` | Two servers and a proxy, with the timers fair: does the channel, or the attempt, of a silent server end, is the next one made, is every server tried both ways? |
| `channel_stale_pong` (violation) | Does the pong timer only close the channel that was pinged? It does not: the timer outlives its channel. |
| `channel_always_proxied` (violation) | Is an attempt through the proxy followed by a direct one? Not when the first server index drawn is below 1. |
| `commands` | Eight agents (services: a plain one; two with a failing database, of which one has forced updates; one with forced updates, a zip file and a failing disk; one with a zip file; one with fake updates that takes no core modules from the server; one with fake updates, a zip file and a failing disk; and one that is no service) with uploads, clears, CoreOk, restarts, updates, lost connections and kills in any order: the core module reported runs, the one wanted comes to run, it is launched once per heap, no stale timer is used, the program stays whole, a forced update is made once, unless the database forgot the setting that ends it. |
| `chain` | Another thread posts, adds, removes and stops while handlers do the same and run loops inside themselves: is each timer in one place and gone once removed, is each posted call made once and in order, does the chain sleep over none of them, outside of the two cases `WokenInTime` names? |
| `chain_oversleeps` (violation) | Does `ILibForceUnBlockChain` make the chain check for what is pending? Not while a check reads `NextTriggerTick` during an insertion. |
| `socket` | A client's or a server's socket, two connections, another thread and handlers that send, connect, disconnect, pause and resume at any time: is what a peer gets what was accepted for it, are users told the truth, is what is pending watched, and is it sent in the end, or its connection ended? |

### Bounds

* Store: two or three keys, two values, files of three to five records (`MaxLog`). Two keys, so that the
  record of one can hurt the other's; three records, so that a value can be overwritten, deleted and
  compacted. `MinDirty` is 0 or 1 value. The runs differ in how the keys are stored: `store_crash` has two
  plain keys and one that is only a setting, `store_faults` a plain key that a setting may cover and one
  stored both ways. No run uses symmetry: `Unquote` tells the values apart. `store_faults` ends at files of
  three records (STORESTATES states); its properties were also run with four and five, with one kind of key
  or one kind of failure at a time, and so was `StoreInv` (section 4). A flush fails once before the file is
  opened again (`MayFail`), with writes that fail or without (`FailingTogether`); without that bound, and
  with flushes alone, all of these properties were checked once (4.5 million states). Each exception a property names
  comes from a counterexample of TLC.
* Channel: two servers, because the rotation of the index over one server shows nothing; two connection
  identifiers, which a new attempt needs next to the one that ends; retry times of a few units, which
  reach the cap after one doubling; `MaxAsked` = 2 counts unanswered questions to the proxy helper.
  `TwoCerts`: a server that is known and one that is not. Where a property is about timers only, one
  certificate is enough.
* Commands (CMDSTATES states): two core modules and one that does not inflate, two changes of mind of the administrator
  (`changes`), packages of two blocks, which is the least that can be cut in the middle, two unzips at a
  time (`MaxUnzips`), the least that overlap. Installations are counted to 2, the first that is wrong.
  The queues are bounded by the protocol: each reply of the agent is answered by at most two commands.
  `CHECK_DEADLOCK FALSE`: an agent whose program was lost does not start again, and the model stops.

* Chain: another thread, one object, two additions, one loop inside a handler: a timer that is replaced or
  removed while the other is collected, called or posted, and both checks on the stack. 480,000 states;
  the safety properties were also run with three additions (2.9 million states). `CHECK_DEADLOCK FALSE`:
  the chain ends.
* Socket: two connections, because the second meets what the first left; two buffers, in one call
  (`<<1, 1>>`: the second goes on after the first has failed) or in two, and an empty one; a handler of
  `ILibAsyncSocket_Disconnect` in which the user calls it again is cut off (`MaxNest` = 1). The safety
  properties were also run with buffers of two bytes, with two other threads and deeper nesting (4.9
  million states), and with three buffers. Each exception the properties name is needed: TLC refutes
  each property when one of them is taken out.

### Fairness

Everything is a callback of one thread that runs the chain, so what is assumed is that the chain goes
on. The select loop serves each socket that has data and each timer that has expired in every
iteration, which gives weak fairness to each timer (`FairSpec` of `ControlChannel`) and to "the next
command of the channel is handled", "the one minute timer fires", "the restart posted to the chain
runs", "an unzip under way goes on" (`Fairness` of `AgentCommands`) separately, so that none can starve
another. A Compact that was started goes on: it is one call. The server is assumed to read what it is
sent. `Chain`: each loop that can go on does, other threads
finish what they are in, and a handler in which another loop ends again and again returns in the end
(`SF_vars(Return)`: the inner loop must not starve it); `PostedRuns` holds if loops inside handlers end
again and again, since nothing in the code bounds them. `AsyncSocket`: the chain's thread and the others go
on, a connection that is being made is made or fails, `select` reports a socket that stays ready (strong,
because it may return for others first), and a peer that is there takes bytes again and again. Otherwise
nothing is assumed of the network, of peers, of the proxy helper's promise or of an
administrator, and no kill or failure ever has to happen.

## 4. Proofs

TLAPS checks these for every value of the constants, under the assumptions named in the modules
(`KeysAssumption`, `ServersAssumption`, ...: numbers are natural, subsets are subsets, "nothing" is not
a value). `IdsAssumption` says that the web client can make a connection while one is ending.

`SimpleDataStoreFiles`, `SimpleDataStoreProofs`
: `TypeCorrect`; the invariants `IndexMatchesFileAlways`, `ReadsAsToldAlways` and `NeverStaleAlways`; the action
  properties `PutIsReadAlways`, `PutIsDurableAlways` and `NothingLostAlways`; the refinement,
  `KVStoreImplemented` and `PlainStoreImplemented`. They hold for any keys, values, ways to store them,
  settings, thresholds and failing operations, and for files of any length.
: *Files.* `Rebuilt(log)` counts the records a reader accepts, and one that is torn hides what follows. The
  facts come without induction over the file: `Parsed(log)` is downwards closed and finite, so it is
  `1 .. n` (`ParsedIsPrefix`); a slot has at most one live record (`LiveIsOne`); so the table of a file
  with one more record is the table of the file with that record entered, or the same when the reader
  does not get to it (`RebuiltEntered`, `RebuiltOther`), and cutting off what is not accepted changes nothing that
  is read (`ValidPrefixSame`). `Extended` and `Sealed` say what a put, a deletion or a death inside one
  leaves of the file: the old one, with records of one key behind it, all of them whole or not.
: *The invariant.* `StoreInv` is inductive (`StoreInvAlways`). None of the properties is: that the table is the
  file's (`IndexMatchesFile`) is broken half-way through a Compact, which moves entry after entry to
  offsets of another file. So `PointsOK` says of each entry that it points at its record in the file
  it belongs to (`File`), `CopyOK` that the new file holds what was copied and nothing else, and
  `FollowsOK`, `ValuesOK` and `AgreesOK` how much of the agreement between table and file is left: all of it when
  nothing has failed, the values when a copy failed, and after a write error what callers were told. A flush that failed leaves less than a noticed error: an
  entry may point at what is not there, so all that is left is that what is read has the right hash.
  `AcceptedOK` says that an open file is read to its end (the repair at the start cuts it), without which a
  record could be appended where no reader gets to. `ModeOK` ties failures to the mode, and to what a
  restart mends. `CacheOK`, `SettingOK`, `PlainOK` and `ToldOK` relate cache and table to what callers were told,
  `SlotsOK` records to the keys that may have them.
: *The steps.* An operation on one key touches the file, and so, in principle, every entry. That it does not is
  proved once: `KeyStep` takes from an operation that it only adds records of its key (`Touches`) and what
  is true of that key's two entries afterwards (`OwnPoints`, `OwnFollows`, `OwnTold`), and gives `StoreInv'`.
  A put has four ways to end (the same value, a record, a write error, a store without a file), and
  each needs only these four facts. The steps of Compact, the restart and the deaths have a lemma each.
: *The refinement.* A step maps to a step of `KVStore` or a stutter, provided no file operation has failed and
  no torn compressed value is in the file (`StoreRefines`); with either, the store is no dictionary
  (section 5), and `KVStoreImplemented` says so with `[](failed = {} /\ ~ Swallows)` as its premise.
  `PlainStoreImplemented` gets rid of the premise where the file operations succeed and no values are
  compressed, which is what `store_crash` checks.

`CoreStoreProofs`
: `CoreStored`: under a key that no caller stores otherwise than compressed, the store does what `CoreDatabase`
  says and nothing else, whatever happens under other keys, in compactions, in crashes and after write
  errors. `CoreModule`, whose handlers are built from the operators of `CoreDatabase`, thus rests on the
  store and not on a second reading of it. `CoreDb(k)` is the refinement mapping: of a closed store, what
  the next process finds; of an open one, the entry, in whichever of the two files it points into, and
  what the file says. `EndReads` connects the mapping with what is read, `OwnAppend` says what a record of
  the key does to the file (behind a torn value, nothing), `PlainAppend` that a whole record of another key does
  nothing, and one that is cut short hides what follows it (`Cut`). The scope of `CoreDatabase` is in two
  premises: a store with a file in which only writes and flushes fail, the latter unnoticed, also in a
  Compact (`Alone`), and whose only compressed key is this one (`Own`), as in an agent on whose database nobody uses `modules/dbTool.js`
  (`agentcore.c:3182`). `FaultsOK` (a failed write or flush is one that may fail) and `CopiesOK` (the
  records of the new file are the copies that the table points at) are the only invariants needed beside
  `StoreInv`. `DatabaseStep` is the union of the operators, and TLC agreed on small instances with faults
  and crashes before the proof (437,000 states).

`ControlChannelProofs`
: `OneChannelAlways`, `AuthenticatedHereAlways`, `CommandsFromServerAlways`, `ToldTruthAlways` and
  `TypeOKAlways` are parts of `ChannelInv`, which is inductive. It adds two things to them: the server
  index is never above the number of servers (or the address table could not be indexed), and a
  connection that is not open carries no authentication. None of the four is inductive alone: that the
  bits are right after `Established` needs the certificate remembered to be one that was proven, and
  that the core module is told once needs the bits to be empty whenever there is no channel, which
  comes from `OneChannel` and `AuthenticatedHere` together. The argument follows the shape of the code.
  What a call of `Connect` or `ConnectEx` may change is stated once (`Tried`: nothing the invariant is
  about, or a request is made from state 0); what is left when a connection has ended is stated once
  (`Free`); so every handler that ends a connection and maybe begins another leaves a state of
  `JustBegun`, and `JustBegun => ChannelInv` is proved once.
: `NeverIdleAlways`. Its inductive form is `Stirring` of the agent together with `ChannelInv`, which says
  what `Established` leaves. Each way out of `ConnectEx` is shown to be stirring whatever it was called
  with (`ConnectExStirs`), and so every handler that ends in it.
: `StopsForGoodAlways`, from `ChannelInv`: with the chain being destroyed `ConnectEx` changes nothing and
  the end of a connection leaves no request, and only a request begins a connection.

`AgentCommandsProofs`
: `ProgramIntactAlways`. The program is only ever replaced by `update`, so what has to be shown is what
  `update` contains when `perform` is set: `ProgramInv` says it is whole unless it was written to after
  it was verified (`touched`) or a write failed (`faulted`); `UnzipInv` says that an unzip under way when
  another update was verified, or while the agent is to exit, is such a case; `PhaseInv` ties `perform`
  to the end of the process, so that a start finds it reset.
: `ForcedOnceAlways`. `disableUpdate` is set before the installation it allows is under way
  (`OnceInv`), and the flags of a connected agent are those its settings had when it connected, or
  stricter (`FlagsInv`). The setting may be gone with the process, when a write or a flush failed;
  `forgotten` says so from then on, and the theorem speaks of the other cases.

`CoreModuleProofs`
: `OneCorePerHeapAlways`. `CoreInv`: as long as the one minute timer is pending, or `coreTimeout` set,
  nothing was launched in the heap and no restart waits; so the launch of either `CoreOk` or the timer is
  the first. `CoreOk` with a stale `coreTimeout` would launch once as well: what is wrong with it is the
  freed object, which the next theorem is about.
: `NoStaleTimeoutAlways`. Nothing in the agent keeps `CoreOk` away from a stale `coreTimeout`: it is the
  order of the messages that does. `QueueInv` follows the queues in both directions: a server that wants a
  core module has sent one after each order to clear (`WantSent`); it has also done so while a hash that
  was sent before the clearing is still to be read (`HashOld`); so a core module is on its way between
  whatever leaves `coreTimeout` stale and each `CoreOk` (`OkSafe`), and receiving it resets the field,
  since the database has no core module then. It holds because the queues are in order and lost together,
  for queues of any length. The exception, `reverted`, is a core module that returns although it was
  cleared, because neither its deletion nor a later put could be written.
: `ReportedCoreRunsAlways`. `RunsInv`: in a running agent whose database does not fail, a stored core
  module that can be read runs, or the timer or a restart will launch it.
: `CommandsTypeOK`: the types of all four parts.

`ChainProofs`
: `ChainTypeOK`, `OnePlaceAlways`, `RemovedIsGoneAlways`, `WokenInTimeAlways`, `InOrderAlways` and
  `PostedCallsImplemented`, for any number of threads, objects, additions and nested loops
  (`ChainAssumption`: `Post` is not an object, `None` not a thread, the threads are finitely many).
  `ChainInv` adds to the properties: what each thread holds at each of its steps (`CallOK`, `LockOK`);
  that only levels inside a handler have others above them (`LevelOK`); that `ActiveList` names the
  level that is calling, or nothing (`ActiveOK`), from which a removal finds every timer that is not
  hidden; that identifiers of timers are fresh, the ones of threads between two steps counted
  (`Bounded`, `Fresh`), without which a timer could be in two lists; and for the wake-up, that whatever
  the sleeping chain should see has a byte in the pipe or a thread about to write one (`Seen`, `Awake`,
  `Told`). `Awake` is the heart: it relates what the check has read to what was inserted since.

`AsyncSocketProofs`
: `SocketTypeOK`, `WakesToSendAlways`, `StreamWholeAlways` and `TellsTruthAlways`, for any number of threads,
  connections, buffers and nested handlers (`SocketAssumption`). `Inv` has a part for each. `Waking` carries
  `WakesToSend` back to `ILibAsyncSocket_PreSelect`, where it begins to hold: a block that is put into the
  list after it leaves a thread that is still to write to the pipe. `StreamOK` says what was sent and what is
  pending is `Whole` as one sequence, so draining does not change it; that a send makes it grow by whole
  bytes (`Grows`) is shown by counting, without induction. `LeftOK` adds the threads that will queue to a
  closed socket without looking. `TellsTruth` needs most: that what was told agrees with `FinConnect` while
  an end is to come (`ToldOK`), and that a connection opened while a handler of another's end runs
  (`EndsOK`), while `select` has found its descriptor ready for another (`ReadyOK`), or while a timer for
  another waits or a thread is about to set one (`TimersOK`) is one of the `mixed`.

Every invariant, action property and refinement that a passing run checks is proved. Only model-checked: the
liveness properties (`CompactEnds`, `EveryServerTried`, `DeadPeerNoticed`, `TriesAgain`, `StoredCoreRuns`,
`WantedCoreRuns`, `PostedRuns`, `Settles`), since liveness under fairness is out of the prover's reach.

## 5. What the models show that no run asks

Behaviour the models have, which the properties except by name or which nothing in the repository
speaks about:

* Store. A torn compressed record is not repaired by putting the same value again (its hash is right)
  and swallows the records after it at the next start, which may fill it with their bytes; a Compact that gets past it copies what it
  has read of it as a whole record, which no reader inflates. After a failed Compact the entries that were
  moved keep the offsets of the file that was not put in place: they are not read, and putting the
  same value again writes nothing. After a failed rename the table points into a
  file that is not there. A value in the cache hides every later put of its key. A value whose tombstone
  could not be written returns at the next rebuild. A value whose flush fails is in the table only, and gone
  with the process; `Put` reports success. A Compact that does not notice that a copy was not written
  puts a short file in place, and the keys that are missing are lost. A key that was put compressed and
  then plain has two entries, of which `Delete` takes the plain one (925): `Get` then answers the older,
  compressed value. When the conversion of a file without any readable
  value fails, what a crash left stays in front of what is appended.
* Channel. With `controlChannelIdleTimeout` below five seconds each ping arms the pong timer again, and a
  silent server is never noticed. Without a proxy the server index never advances. A reply that is no
  upgrade and stops half-way removes the network timer, and the attempt lasts until TCP gives up. A
  server with a wrong signature keeps its useless channel.
* Core module. A core module whose storing was interrupted by a kill has the right hash and cannot be
  read: the server accepts it and nothing runs, and what is stored behind it is lost at the next start
  until a Compact has replaced it. A core module that was cleared while the database could not be written
  is back after the next write error, and the server then accepts it, with a stale `coreTimeout`, without
  an upload. After a write error a cleared core module stays in the
  cache, is reported, and uploading it again does not launch it. `coreTimeout` is stale after a clear,
  and only the server's own protocol keeps CoreOk from using it. `restartCore` resets `localScript`, so
  that an agent with `noUpdateCoreModule` takes uploads from then on; it also takes them while none is
  stored.
* Chain. A loop inside a timer's callback (waitExit(), promise.wait()) runs a check that replaces
  `ActiveList`: timers the outer check has still to call can then not be removed, and are called though
  their object may be freed (`Hidden`); until the inner loop ends they wait. An addition off the chain's
  thread for an object that has a timer defers the removal of the old one by its key, and the chain then
  removes the new one too; a key freed and allocated again in between loses the wrong timer. Removing a
  timer off the chain reports none when the timer is in an `EventQueue`. The end of an inner loop uses
  up wake-ups that were meant for the outer one. Delays below a second are rounded up to it, except 0.
  That no thread uses a chain that is being freed is left to its callers.
* Socket. After an error found by `select` what is pending stays, and is sent on the next connection of
  the module. A call that sends several buffers goes on after one of them failed and the connection was
  ended, and leaves the rest in a free module, or sends it on the next connection. A timer set to end a
  connection ends the next one if the user connects again before it fires, or tells OnConnect of a failure
  when there is no connection at all. Two threads whose sends fail lose that timer between them, and a
  paused connection then never ends. An empty block in the list makes the drain drop all of it, without
  a word. A failed connect is found writable, and `FinConnect` = 0 does not look at `SO_ERROR`: the
  user is told of a connection first, and of its end later. A `connect()` that succeeds at once is taken for
  a failure. A user that connects in a handler that tells it of an end has `FinConnect` reset, or the
  buffer freed, or the connection closed, under it. A socket opened in the pass in which another one with
  its number was closed may be found ready. Any error of `recv`, also EAGAIN, is taken for the peer's end.
* Update. An unzip is lost, silently, with the heap it runs in. Two updates that overlap unzip into one
  file, and a write that fails while unzipping is not noticed: a partial program may be installed, since
  what was unzipped is not checked. A forced update is recorded as done before it is unzipped, and is made again after each restart for which the
  database has lost that record. What `fakeUpdate` puts in the package's place may be cut short by a full
  disk. An agent
  that is not a service removes its program before it copies the new one.

## 6. Not modelled

`PROJECT.json` lists each part with the reason. Within the modelled parts: a Compact of the store that hangs or fails, for the core module; the Windows build (the store is
replaced by a copy, the update by a `cmd.exe` script), the waits between attempts to append a block, the
update of a temporary agent and of a service without rights, data pings (`MeshAgent.DataPing`), links that are added to
or removed from a running chain (`ILibChain_SafeAdd`), wait handles, idle timeouts, TLS and proxies of sockets, the self-test (which counts the server as
authenticated), `deflate` running out of memory, and the
JavaScript binding of the store, whose `Delete` does not prefix the key with its context as the other
calls do.

## 7. Plan

Done: the store, the control channel, the core module and the self-update, the chain and its timers, the
socket, with a proof module each.

1. The composition of `AsyncSocket` with `Chain`: the socket uses what `WokenInTime` and the deferred
   removal of `Chain` promise, restated by hand.
2. `ILibProcessPipe` and the readable stream of the script engine: back-pressure, output at exit.
3. The queues of `ILibWebClient`, which only scripts use, and the SCTP windows of `ILibWebRTC.c`.
