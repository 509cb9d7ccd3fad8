----------------------------- MODULE AsyncSocket -----------------------------
(***************************************************************************)
(* One socket module (ILibAsyncSocket) through the connections it carries  *)
(* one after the other: ILibAsyncSocket_ConnectTo opens them for a client, *)
(* ILibAsyncServerSocket_PostSelect for a member of a server's pool.  The  *)
(* chain's thread reads, drains what is pending, and calls the handlers of *)
(* the module's user, which may call any operation; the other threads      *)
(* send.  SendLock protects the sending only: both ways in which the chain *)
(* ends a connection it reads from work without it.                        *)
(*                                                                         *)
(* The branch modelled is the plain one (no TLS, no proxy) for POSIX,      *)
(* where select() reports a failed connection as readable and writable.    *)
(* The calls to the list of blocks are taken as atomic.                    *)
(***************************************************************************)
EXTENDS Integers, Sequences, FiniteSets

CONSTANTS
    Threads,    \* the threads other than the chain's
    Chain,      \* the chain's thread
    None,
    Writes,     \* what a call may send: the sizes of its buffers
    MaxConns,   \* connections in a behaviour
    MaxBuffers, \* buffers sent in a behaviour
    MaxNest     \* handlers of ILibAsyncSocket_Disconnect within each other

ASSUME SocketAssumption ==
    /\ Chain \notin Threads /\ None \notin Threads \cup {Chain}
    /\ Writes \subseteq Seq(Nat) /\ <<>> \notin Writes
    /\ MaxConns \in Nat /\ MaxBuffers \in Nat /\ MaxNest \in Nat

Callers == Threads \cup {Chain}
Kinds == {"read", "write"}

VARIABLES
    role,      \* "client" or "server"
    sock,      \* internalSocket: the number of its connection; 0 is ~0
    net,       \* how that connection does
    fin,       \* FinConnect
    pause,     \* PAUSE, of a socket that is open
    pending,   \* the bytes in the list of blocks, each [conn, pos]; pos 0 is an empty block
    buffer,    \* "empty", "data" not consumed yet, or "none" once freed
    lock,      \* who holds SendLock
    pipe,      \* a byte in TerminatePipe
    timers,    \* timers that wait to call ILibAsyncSocket_Disconnect
    due,       \* those collected by the check that is running
    removal,   \* their removal is left to the chain
    pc,        \* what the chain does with this module
    nest,      \* handlers of Disconnect it is in
    want,      \* the sets select() is to watch the socket in
    ready,     \* the sets it was found in
    canWrite,  \* fd_write of the ILibAsyncSocket_PostSelect that is running
    call,      \* the send each thread is in
    buffers,   \* buffers sent so far
    conn,      \* history: the connection that was opened last
    open,      \* history: its end was not told yet
    told,      \* history: what its user was told of it
    accepted,  \* history: bytes accepted for it
    sent,      \* history: bytes its peer gets
    failed,    \* history: a send on it failed
    holed,     \* history: bytes accepted for it were dropped, or others' were pending at its start
    left,      \* history: it ended without clearing what is pending for good
    mixed,     \* history: an earlier connection was not done with when this one was opened
    doubled,   \* history: a timer was added off the chain's thread while one waited
    late       \* history: a handler sent between PreSelect and select()

connection == <<sock, net, fin, pause, pending, buffer>>
clock == <<timers, due, removal>>
chain == <<pc, nest, want, ready, canWrite>>
stream == <<accepted, sent, holed>>
flags == <<failed, left, mixed, doubled, late>>
story == <<conn, open, told>>
vars == <<role, connection, lock, pipe, clock, chain, call, buffers, stream, flags, story>>

NoCall == [at |-> "idle", rest |-> <<>>, status |-> "sent"]
Bytes == [conn : 1 .. MaxConns, pos : Nat]

\* The chain is in handlers, of other modules ("top", "armed", "woken") or of this one; and what it does
\* when they return.
After == [top |-> "collect", armed |-> "select", woken |-> "post", connected |-> "drain", data |-> "drain",
          lastdata |-> "closing", sendok |-> "top", shut |-> "drain", ended |-> "drain"]
Handlers == DOMAIN After

TypeOK ==
    /\ role \in {"client", "server"}
    /\ conn \in 0 .. MaxConns /\ sock \in {0, conn}
    /\ net \in {"none", "connecting", "up", "eof", "broken"} /\ (sock = 0 <=> net = "none")
    /\ fin \in {-1, 0, 1} /\ pause \in {-1, 0, 1}
    /\ pending \in Seq(Bytes) /\ sent \in Seq(Bytes)
    /\ buffer \in {"empty", "data", "none"}
    /\ pipe \in BOOLEAN
    /\ timers \in Nat /\ due \in Nat /\ removal \in BOOLEAN
    /\ pc \in Handlers \cup {"collect", "check", "arm", "select", "post", "shutting", "closing", "close",
                             "drain", "clear"}
    /\ nest \in 0 .. MaxNest
    /\ want \subseteq Kinds /\ ready \subseteq Kinds /\ canWrite \in BOOLEAN
    /\ lock \in Callers \cup {None}
    /\ \A c \in Callers : /\ call[c].at \in {"idle", "write", "report", "insert", "relock", "force"}
                          /\ lock = c <=> call[c].at = "write"
    /\ buffers \in 0 .. MaxBuffers

Init ==
    /\ role \in {"client", "server"}
    /\ sock = 0 /\ net = "none" /\ fin = 0 /\ pause = 0
    /\ pending = <<>> /\ buffer = "empty"
    /\ lock = None /\ pipe = FALSE
    /\ timers = 0 /\ due = 0 /\ removal = FALSE
    /\ pc = "top" /\ nest = 0 /\ want = {} /\ ready = {} /\ canWrite = FALSE
    /\ call = [c \in Callers |-> NoCall] /\ buffers = 0
    /\ accepted = 0 /\ sent = <<>> /\ holed = FALSE
    /\ failed = FALSE /\ left = FALSE /\ mixed = FALSE /\ doubled = FALSE /\ late = FALSE
    /\ conn = 0 /\ open = FALSE /\ told = <<>>

Busy == \E c \in Callers : call[c].at # "idle"

\* A send under way that does not look at the socket again before it queues its next buffer.
Unaware == \E c \in Callers : call[c].rest # <<>>

InHandler == (pc \in Handlers \/ nest > 0) /\ call[Chain].at = "idle"
At(p) == pc = p /\ nest = 0 /\ call[Chain].at = "idle"

-----------------------------------------------------------------------------
(* Ends.                                                                   *)

\* The socket is closed; its history is over.
Closes == sock' = 0 /\ net' = "none" /\ accepted' = 0 /\ sent' = <<>> /\ holed' = FALSE /\ failed' = FALSE

\* OnConnect(0) or OnDisconnect.  With no connection left to end it is an echo, and not in told.
TellEnd ==
    /\ told' = IF open THEN Append(told, IF fin > 0 THEN "down" ELSE "failed") ELSE told
    /\ open' = FALSE

\* Mutant: what is pending stays.
DisconnectKeeps ==
    /\ lock = None /\ nest < MaxNest
    /\ Closes /\ pause' = 1
    /\ left' = Unaware
    /\ TellEnd
    /\ nest' = nest + 1
    /\ UNCHANGED <<role, fin, pending, buffer, lock, pipe, timers, removal, pc, want, ready, canWrite, call,
                   buffers, mixed, doubled, late, conn>>

\* ILibAsyncSocket_Disconnect up to the handler it calls; Return has what follows.
Disconnect ==
    /\ lock = None /\ nest < MaxNest
    /\ Closes /\ pause' = 1 /\ pending' = <<>>
    /\ left' = Unaware
    /\ TellEnd
    /\ nest' = nest + 1
    /\ UNCHANGED <<role, fin, buffer, lock, pipe, timers, removal, pc, want, ready, canWrite, call, buffers,
                   mixed, doubled, late, conn>>

\* Mutant: no timer.
AddsNone == UNCHANGED clock

\* ILibLifeTime_Add(module->LifeTime, socketModule, 0, &ILibAsyncSocket_Disconnect, NULL) on the chain.
AddTimer == timers' = 1 /\ due' = 0 /\ UNCHANGED removal

-----------------------------------------------------------------------------
(* What the handlers call.                                                 *)

UserDisconnects == InHandler /\ Disconnect /\ UNCHANGED due

\* What both ways to open a connection do.  Old timers, sends under way, what follows the handler of
\* an end, and sets that hold its descriptor for another's may hit the new one.
Open(stale) ==
    /\ sock = 0 /\ conn < MaxConns
    /\ conn' = conn + 1 /\ open' = TRUE
    /\ pause' = 0 /\ buffer' = "empty"
    /\ holed' = (pending # <<>>)
    /\ left' = (left /\ (pending # <<>> \/ Unaware))
    /\ doubled' = removal
    /\ mixed' = (Busy \/ timers + due > 0 \/ stale # {} \/ nest > 0
                  \/ pc \in {"shut", "lastdata", "ended"})
    /\ UNCHANGED <<role, pending, lock, pc, nest, canWrite, call, buffers, accepted, sent, failed, late>>

\* ILibAsyncSocket_ConnectTo.  When connect() does not return -1 this is a failure.
ConnectTo(outcome, stale) ==
    /\ InHandler /\ role = "client"
    /\ stale # {} => pc \in {"armed", "woken"}
    /\ Open(stale)
    /\ told' = <<>>
    /\ sock' = IF outcome = "nosocket" THEN 0 ELSE conn + 1
    /\ net' \in CASE outcome = "nosocket" -> {"none"}
                  [] outcome = "atonce" -> {"up", "broken"}
                  [] outcome = "underway" -> {"connecting"}
    /\ IF outcome = "underway" THEN fin' = 0 /\ pipe' = TRUE /\ UNCHANGED clock
       ELSE fin' = -1 /\ AddTimer /\ UNCHANGED pipe
    /\ want' = IF pc = "armed" THEN stale ELSE want
    /\ ready' = IF pc = "woken" THEN stale ELSE ready

\* ILibAsyncServerSocket_PostSelect, whose link comes after those of its pool.
Accept ==
    /\ At("top") /\ role = "server"
    /\ Open({})
    /\ told' = <<"up">>
    /\ sock' = conn + 1 /\ net' = "up" /\ fin' = 1
    /\ UNCHANGED <<pipe, clock, want, ready>>

Pause ==
    /\ InHandler /\ sock # 0
    /\ pause' = 1
    /\ UNCHANGED <<role, sock, net, fin, pending, buffer, lock, pipe, clock, chain, call, buffers, stream,
                   flags, story>>

Resume ==
    /\ InHandler /\ sock # 0 /\ pause > 0
    /\ pause' = -1
    /\ pipe' = TRUE
    /\ UNCHANGED <<role, sock, net, fin, pending, buffer, lock, clock, chain, call, buffers, stream, flags,
                   story>>

-----------------------------------------------------------------------------
(* Sending: ILibAsyncSocket_SendTo_MultiWrite, on the chain's thread or not. *)

\* A send on a closed socket returns at once.
Send(c, sizes) ==
    /\ call[c].at = "idle"
    /\ c = Chain => InHandler
    /\ buffers + Len(sizes) <= MaxBuffers
    /\ lock = None /\ sock # 0
    /\ lock' = c
    /\ buffers' = buffers + Len(sizes)
    /\ call' = [call EXCEPT ![c] = [at |-> "write", rest |-> sizes, status |-> "sent"]]
    /\ UNCHANGED <<role, connection, pipe, clock, chain, stream, flags, story>>

\* Mutant: the lock is not let go of.
ProceedLocked(c, rest, status) ==
    /\ lock' = c
    /\ call' = [call EXCEPT ![c] = IF rest = <<>> THEN NoCall
                                   ELSE [at |-> "write", rest |-> rest, status |-> status]]

\* Mutant: other threads do not wake the chain.
ProceedSilently(c, rest, status) ==
    IF rest # <<>> THEN /\ lock' = c
                        /\ call' = [call EXCEPT ![c] = [at |-> "write", rest |-> rest, status |-> status]]
    ELSE /\ lock' = None
         /\ call' = [call EXCEPT ![c] = NoCall]

\* The next buffer, or the end of the call.
Proceed(c, rest, status) ==
    IF rest # <<>> THEN /\ lock' = c
                        /\ call' = [call EXCEPT ![c] = [at |-> "write", rest |-> rest, status |-> status]]
    ELSE /\ lock' = None
         /\ call' = [call EXCEPT ![c] =
                       IF status = "sent" \/ c = Chain THEN NoCall
                       ELSE [at |-> "force", rest |-> <<>>, status |-> status]]

\* The bytes of a buffer after the first k.
Block(size, k) ==
    IF size = 0 THEN <<[conn |-> conn, pos |-> 0]>>
    ELSE [i \in 1 .. size - k |-> [conn |-> conn, pos |-> accepted + k + i]]

Size(c) == Head(call[c].rest)
MustQueue == pending # <<>> \/ fin = 0
SendFails == sock = 0 \/ net = "broken"

Queue(c) ==
    /\ call[c].at = "write" /\ MustQueue
    /\ pending' = pending \o Block(Size(c), 0)
    /\ accepted' = IF sock = 0 THEN 0 ELSE accepted + Size(c)
    /\ Proceed(c, Tail(call[c].rest), call[c].status)
    /\ UNCHANGED <<role, sock, net, fin, pause, buffer, pipe, clock, chain, buffers, sent, holed, flags,
                   story>>

\* send() takes k bytes; the rest is queued.
Pass(c, k) ==
    /\ call[c].at = "write" /\ ~ MustQueue /\ ~ SendFails
    /\ k <= Size(c) /\ (net = "connecting" => k = 0)
    /\ sent' = sent \o (IF k = 0 THEN <<>> ELSE SubSeq(Block(Size(c), 0), 1, k))
    /\ pending' = IF k < Size(c) THEN Block(Size(c), k) ELSE <<>>
    /\ accepted' = accepted + Size(c)
    /\ Proceed(c, Tail(call[c].rest), IF k < Size(c) THEN "pending" ELSE "sent")
    /\ late' = (late \/ (c = Chain /\ pc = "armed" /\ k < Size(c)))
    /\ UNCHANGED <<role, sock, net, fin, pause, buffer, pipe, clock, chain, buffers, holed, failed, left,
                   mixed, doubled, story>>

\* ILibAsyncSocket_SendError lets go of the lock to add the timer.
SendError(c) ==
    /\ call[c].at = "write" /\ ~ MustQueue /\ SendFails
    /\ pause' = 1 /\ pending' = <<>>
    /\ failed' = (sock # 0) /\ holed' = (sock # 0)
    /\ lock' = None
    /\ call' = [call EXCEPT ![c] = [at |-> "report", rest |-> Tail(@.rest), status |-> "error"]]
    /\ UNCHANGED <<role, sock, net, fin, buffer, pipe, clock, chain, buffers, accepted, sent, left, mixed,
                   doubled, late, story>>

Report(c) ==
    /\ call[c].at = "report"
    /\ IF c = Chain THEN AddTimer /\ UNCHANGED <<pipe, doubled>>
       ELSE /\ removal' = (removal \/ timers > 0)
            /\ pipe' = (pipe \/ timers > 0)
            /\ doubled' = (doubled \/ timers > 0)
            /\ UNCHANGED <<timers, due>>
    /\ call' = [call EXCEPT ![c].at = IF c = Chain THEN "relock" ELSE "insert"]
    /\ UNCHANGED <<role, connection, lock, chain, buffers, stream, failed, left, mixed, late, story>>

Insert(c) ==
    /\ call[c].at = "insert"
    /\ timers' = timers + 1 /\ pipe' = TRUE
    /\ call' = [call EXCEPT ![c].at = "relock"]
    /\ UNCHANGED <<role, connection, lock, due, removal, chain, buffers, stream, flags, story>>

Relock(c) ==
    /\ call[c].at = "relock" /\ lock = None
    /\ Proceed(c, call[c].rest, call[c].status)
    /\ UNCHANGED <<role, connection, pipe, clock, chain, buffers, stream, flags, story>>

ForceUnBlock(c) ==
    /\ call[c].at = "force"
    /\ pipe' = TRUE
    /\ call' = [call EXCEPT ![c] = NoCall]
    /\ UNCHANGED <<role, connection, lock, clock, chain, buffers, stream, flags, story>>

-----------------------------------------------------------------------------
(* The chain.                                                              *)

Return ==
    /\ InHandler
    /\ IF nest > 0
       THEN nest' = nest - 1 /\ fin' = 0 /\ UNCHANGED <<pc, buffer>>
       ELSE /\ pc' = After[pc]
            /\ fin' = IF pc \in {"shut", "ended"} THEN 0 ELSE fin
            /\ buffer' \in IF pc = "ended" THEN {"none"}
                           ELSE IF pc \in {"data", "lastdata"} /\ buffer = "data" THEN {"data", "empty"}
                           ELSE {buffer}
            /\ UNCHANGED nest
    /\ UNCHANGED <<role, sock, net, pause, pending, lock, pipe, clock, want, ready, canWrite, call, buffers,
                   stream, flags, story>>

\* ILibLifeTime_Check: removals, then what is due ...
Collect ==
    /\ At("collect")
    /\ due' = IF removal THEN 0 ELSE timers
    /\ timers' = 0 /\ removal' = FALSE
    /\ pc' = "check"
    /\ UNCHANGED <<role, connection, lock, pipe, nest, want, ready, canWrite, call, buffers, stream, flags,
                   story>>

\* ... which calls ILibAsyncSocket_Disconnect.
Fire == At("check") /\ due > 0 /\ Disconnect /\ due' = due - 1

CheckEnds ==
    /\ At("check") /\ due = 0
    /\ pc' = "arm"
    /\ UNCHANGED <<role, connection, lock, pipe, clock, nest, want, ready, canWrite, call, buffers, stream,
                   flags, story>>

\* ILibAsyncSocket_PreSelect
Watch ==
    /\ At("arm")
    /\ sock # 0 => lock = None
    /\ want' = IF sock = 0 THEN {}
               ELSE (IF fin = 0 THEN {"write"} ELSE IF pause = 0 THEN {"read"} ELSE {})
                        \cup (IF pending # <<>> THEN {"write"} ELSE {})
    /\ pc' = "armed"
    /\ UNCHANGED <<role, connection, lock, pipe, clock, nest, ready, canWrite, call, buffers, stream, flags,
                   story>>

\* select() returns: for the pipe, another descriptor, its timeout, or this socket.
Wake(found) ==
    /\ At("select")
    /\ found \subseteq (IF net \in {"none", "connecting"} THEN {} ELSE want)
    /\ ready' = found /\ want' = {}
    /\ pipe' = FALSE /\ late' = FALSE
    /\ pc' = "woken"
    /\ UNCHANGED <<role, connection, lock, clock, nest, canWrite, call, buffers, stream, failed, left, mixed,
                   doubled, story>>

Skip ==
    /\ At("post")
    /\ sock = 0 \/ fin = -1
    /\ pc' = "top" /\ ready' = {}
    /\ UNCHANGED <<role, connection, lock, pipe, clock, nest, want, canWrite, call, buffers, stream, flags,
                   story>>

\* ILibAsyncSocket_PostSelect, under the lock; p is what it goes on with.
PostSelect(p) ==
    /\ At("post") /\ sock # 0 /\ fin # -1 /\ lock = None
    /\ canWrite' = ("write" \in ready) /\ ready' = {}
    /\ pc' = p
    /\ UNCHANGED <<role, sock, net, pending, lock, pipe, clock, nest, want, call, buffers, stream, flags,
                   conn, open>>

\* SO_ERROR of a socket found readable.
FindsError ==
    /\ "read" \in ready /\ net = "broken"
    /\ PostSelect("shutting")
    /\ UNCHANGED <<fin, pause, buffer, told>>

\* Mutant: FinConnect stays 0.
ConnectsAgain ==
    /\ fin = 0 /\ "write" \in ready
    /\ PostSelect("connected")
    /\ pause' = 0
    /\ told' = Append(told, "up")
    /\ UNCHANGED <<fin, buffer>>

Connects ==
    /\ fin = 0 /\ "write" \in ready
    /\ PostSelect("connected")
    /\ fin' = 1 /\ pause' = 0
    /\ told' = Append(told, "up")
    /\ UNCHANGED buffer

\* ILibProcessAsyncSocket reads.  A socket that was not itself found readable has nothing to read.
Reads ==
    /\ fin = 1 /\ "read" \in ready /\ pause <= 0
    /\ \/ /\ net \in {"up", "eof"} /\ buffer # "none"
          /\ buffer' = "data"
          /\ PostSelect("data")
       \/ /\ net \in {"eof", "broken"} \/ mixed \/ buffer = "none"
          /\ PostSelect(IF buffer = "data" THEN "lastdata" ELSE "closing")
          /\ UNCHANGED buffer
    /\ UNCHANGED <<fin, pause, told>>

\* A resumed socket: what is in the buffer is offered again.
Resumes ==
    /\ fin = 1 /\ "read" \notin ready /\ pause < 0
    /\ pause' = pause + 1
    /\ PostSelect(IF buffer = "data" THEN "data" ELSE "drain")
    /\ UNCHANGED <<fin, buffer, told>>

NothingToRead ==
    /\ \/ fin = 0 /\ "write" \notin ready
       \/ fin = 1 /\ "read" \in ready /\ pause > 0
       \/ fin = 1 /\ "read" \notin ready /\ pause >= 0
    /\ PostSelect("drain")
    /\ UNCHANGED <<fin, pause, buffer, told>>

\* ILibAsyncSocket_PrivateShutdown, without the lock.
Shutdown ==
    /\ At("shutting")
    /\ Closes
    /\ left' = (pending # <<>> \/ Unaware)
    /\ TellEnd
    /\ pc' = "shut"
    /\ UNCHANGED <<role, fin, pause, pending, buffer, lock, pipe, clock, nest, want, ready, canWrite, call,
                   buffers, mixed, doubled, late, conn>>

\* The end of ILibProcessAsyncSocket, without the lock: it clears what is pending, closes the socket ...
CloseRead ==
    /\ At("closing")
    /\ pending' = <<>>
    /\ Closes
    /\ pc' = "close"
    /\ UNCHANGED <<role, fin, pause, buffer, lock, pipe, clock, nest, want, ready, canWrite, call, buffers,
                   left, mixed, doubled, late, story>>

\* ... and clears again.
CloseEnds ==
    /\ At("close")
    /\ pending' = <<>>
    /\ left' = Unaware
    /\ TellEnd
    /\ pc' = "ended"
    /\ UNCHANGED <<role, sock, net, fin, pause, buffer, lock, pipe, clock, nest, want, ready, canWrite, call,
                   buffers, stream, failed, mixed, doubled, late, conn>>

\* The second half of ILibAsyncSocket_PostSelect, under the lock.
MayDrain == fin = 1 /\ sock # 0 /\ canWrite /\ pending # <<>>

NoDrain ==
    /\ At("drain") /\ lock = None /\ ~ MayDrain
    /\ pc' = "top" /\ canWrite' = FALSE
    /\ UNCHANGED <<role, connection, lock, pipe, clock, nest, want, ready, call, buffers, stream, flags,
                   story>>

\* send() takes n bytes.  It sends 0 bytes of an empty block, which ends the loop.
Drain(n) ==
    /\ At("drain") /\ lock = None /\ MayDrain /\ net # "broken"
    /\ net = "connecting" => n = 0
    /\ \A i \in 1 .. n : pending[i].pos # 0
    /\ sent' = sent \o SubSeq(pending, 1, n)
    /\ pending' = SubSeq(pending, n + 1, Len(pending))
    /\ pc' = IF n = Len(pending) THEN "sendok" ELSE IF pending[n + 1].pos = 0 THEN "clear" ELSE "top"
    /\ canWrite' = FALSE
    /\ UNCHANGED <<role, sock, net, fin, pause, buffer, lock, pipe, clock, nest, want, ready, call, buffers,
                   accepted, holed, flags, story>>

\* Zero bytes were sent: all that is pending is cleared, without the lock.
Clear ==
    /\ At("clear")
    /\ pending' = <<>> /\ holed' = TRUE
    /\ pc' = "top"
    /\ UNCHANGED <<role, sock, net, fin, pause, buffer, lock, pipe, clock, nest, want, ready, canWrite, call,
                   buffers, accepted, sent, flags, story>>

DrainFails ==
    /\ At("drain") /\ lock = None /\ MayDrain /\ net = "broken"
    /\ pending' = <<>> /\ holed' = TRUE /\ failed' = TRUE
    /\ AddTimer
    /\ pc' = "top" /\ canWrite' = FALSE
    /\ UNCHANGED <<role, sock, net, fin, pause, buffer, lock, pipe, nest, want, ready, call, buffers, accepted,
                   sent, left, mixed, doubled, late, story>>

-----------------------------------------------------------------------------
(* The peer and the network.                                               *)

NetChanges(to) ==
    /\ \/ net = "connecting" /\ to \in {"up", "broken"}
       \/ net = "up" /\ to \in {"eof", "broken"}
       \/ net = "eof" /\ to = "broken"
    /\ net' = to
    /\ UNCHANGED <<role, sock, fin, pause, pending, buffer, lock, pipe, clock, chain, call, buffers, stream,
                   flags, story>>

ChainStep ==
    \/ Collect \/ Fire \/ CheckEnds \/ Watch \/ (\E found \in SUBSET Kinds : Wake(found))
    \/ Skip \/ FindsError \/ Connects \/ Reads \/ Resumes \/ NothingToRead
    \/ Shutdown \/ CloseRead \/ CloseEnds
    \/ NoDrain \/ (\E n \in 0 .. Len(pending) : Drain(n)) \/ Clear \/ DrainFails

UserStep ==
    \/ UserDisconnects \/ Accept \/ Pause \/ Resume
    \/ \E outcome \in {"underway", "atonce", "nosocket"} : \E stale \in SUBSET Kinds : ConnectTo(outcome, stale)

CallStep(c) ==
    \/ Queue(c) \/ SendError(c) \/ Report(c) \/ Insert(c) \/ Relock(c) \/ ForceUnBlock(c)
    \/ \E k \in 0 .. (IF call[c].at = "write" THEN Size(c) ELSE 0) : Pass(c, k)

Next ==
    \/ ChainStep \/ Return \/ UserStep
    \/ \E c \in Callers : CallStep(c) \/ \E sizes \in Writes : Send(c, sizes)
    \/ \E to \in {"up", "eof", "broken"} : NetChanges(to)

Spec == Init /\ [][Next]_vars

\* The chain's thread runs, handlers return, the others finish their calls, a connection is made or
\* fails, and a socket whose peer is there takes all that is pending often enough.
Fairness ==
    /\ WF_vars(ChainStep \/ Return \/ CallStep(Chain))
    /\ \A c \in Threads : WF_vars(CallStep(c))
    /\ WF_vars(net = "connecting" /\ (NetChanges("up") \/ NetChanges("broken")))
    /\ SF_vars(Wake(want))
    /\ SF_vars(\E n \in 1 .. Len(pending) : Drain(n))

FairSpec == Spec /\ Fairness

-----------------------------------------------------------------------------
(* Properties                                                              *)

\* The bytes in s are the first n of connection c, each in its place; blocks of none may be among them.
Whole(c, s, n) ==
    LET bytes == {i \in DOMAIN s : s[i].pos # 0}
    IN /\ n = Cardinality(bytes)
       /\ \A i \in bytes : s[i] = [conn |-> c, pos |-> Cardinality({j \in bytes : j <= i})]

\* What a connection's peer gets, and what is pending, is what was accepted for it, whole and in order,
\* whoever sends; and a connection leaves nothing for the next, unless it failed or a send was under
\* way at its end: ILibAsyncSocket_PrivateShutdown does not clear, and SendLock does not cover the ends.
StreamWhole ==
    /\ sock # 0 /\ ~ holed => Whole(conn, sent \o pending, accepted) /\ \A i \in DOMAIN sent : sent[i].pos # 0
    /\ sock = 0 /\ pending # <<>> /\ pc # "close" => left

\* A user is told that a connection is made before it is told its end, once each, and not while it is
\* being made; and a connection that does well is ended by its user only.  Except when an earlier one was
\* not done with at its start, and that one made at once is taken for a failure.
TellsTruth ==
    /\ told \in {<<>>, <<"up">>, <<"failed">>, <<"up", "down">>}
    /\ told = <<"up">> /\ net = "connecting" => mixed
    /\ pc = "closing" \/ (pc = "check" /\ nest = 0 /\ due > 0) =>
           net \notin {"connecting", "up"} \/ fin = -1 \/ mixed

\* The chain does not sleep over what was left pending: ILibForceUnBlockChain is called after the block
\* is in the list.  A handler that sends between PreSelect and select() is the exception.
WakesToSend ==
    pc = "select" /\ nest = 0 /\ ~ pipe /\ fin = 1 /\ sock # 0 /\ pending # <<>> =>
        \/ "write" \in want \/ late
        \/ \E c \in Threads : call[c].status = "pending"

\* What was accepted is sent or its connection ends, and one on which a send failed ends, unless other
\* threads added two timers to end it: the removal of the first takes both.
Settles ==
    \A c \in 1 .. MaxConns :
        sock = c /\ (pending # <<>> \/ failed \/ fin = -1)
            ~> sock # c \/ (pending = <<>> /\ ~ failed /\ fin # -1) \/ doubled
=============================================================================
