--------------------------- MODULE ControlChannel ---------------------------
(***************************************************************************)
(* meshcore/agentcore.c: the control channel, the one WebSocket over which *)
(* the server manages the agent.                                           *)
(*                                                                         *)
(* Everything runs on the chain's thread.  MeshServer_Connect and          *)
(* MeshServer_ConnectEx start an attempt; MeshServer_OnResponse is told of *)
(* everything that happens to it; four timers (retry, network, idle, pong) *)
(* and the discovery, address-change and auto-proxy callbacks drive the    *)
(* rest.  Handlers call each other synchronously: closing the channel      *)
(* calls OnResponse before it returns, which calls Connect, which may call *)
(* ConnectEx.  So a handler is an operator from the agent's state to the   *)
(* set of the states it may leave, and an action applies one.              *)
(*                                                                         *)
(* Time is left out: a timer may fire as soon as it is armed.              *)
(***************************************************************************)
EXTENDS Integers, FiniteSets

CONSTANTS
    Servers,     \* number of servers in the MeshServer setting
    ServerIds,   \* number of hashes in the ServerID setting
    Locals,      \* the servers given as "local": found by multicast discovery
    HasProxy,    \* a proxy is configured
    AutoProxy,   \* the autoproxy setting: ask the proxy helper first
    MaxAsked,    \* bound: questions to the proxy helper counted
    DnsFails,    \* a host name may fail to resolve
    Stalls,      \* a reply that is not an upgrade may stop half-way
    IdleShort,   \* controlChannelIdleTimeout is below the 5 s of the pong timer
    FirstDelays, \* the first retry times (500 .. 1999 ms)
    Cap,         \* the retry time from which it no longer grows (240 s)
    Jitter,      \* what is added at random to Cap (120 s)
    Restart,     \* the retry time after a change of address (3 s)
    Ids,         \* the connections the web client can have at a time
    Certs,       \* the TLS certificates servers present
    None         \* no connection, no certificate

ASSUME ServersAssumption ==
    /\ Servers \in Nat \ {0}
    /\ ServerIds \in Nat
    /\ Locals \subseteq 1 .. Servers
ASSUME SettingsAssumption ==
    /\ {HasProxy, AutoProxy, DnsFails, Stalls, IdleShort} \subseteq BOOLEAN
    /\ MaxAsked \in Nat \ {0}
ASSUME DelaysAssumption ==
    /\ FirstDelays \subseteq Nat \ {0}
    /\ FirstDelays # {}
    /\ {Cap, Jitter, Restart} \subseteq Nat \ {0}
ASSUME NoneAssumption == None \notin Ids /\ None \notin Certs
ASSUME IdsAssumption == Ids # {} /\ \A c \in Ids : \E d \in Ids : d # c

VARIABLES
    agent,   \* the agent's state: see Agent
    conns,   \* the web client's connections to a server
    trusted, \* ServerTlsCertHash in the database
    told,    \* whether the core module was last told "Connected"
    pinged,  \* history: the connection the last ping was sent on, while it lives
    proven   \* history: certificates whose server signed with the right key

vars == <<agent, conns, trusted, told, pinged, proven>>

\* A connection.  "partial": a part of a reply that is no upgrade has come.
\* up: the peer still answers.  real: it can sign with the key of the ServerID.
\* authentic, confirmed, served (history): on this connection the server was
\* found authentic, it confirmed the agent, one of its commands was carried out.
Conn == [phase : {"none", "connecting", "partial", "open"}, up : BOOLEAN,
         cert : Certs \cup {None}, real : BOOLEAN,
         authentic : BOOLEAN, confirmed : BOOLEAN, served : BOOLEAN]
NoConn == [phase |-> "none", up |-> FALSE, cert |-> None, real |-> FALSE,
           authentic |-> FALSE, confirmed |-> FALSE, served |-> FALSE]

\* The fields of MeshAgentHostContainer the control channel uses, its timers
\* and the settings it writes.
Agent == [
    state      : 0 .. 2,                 \* serverConnectionState
    auth       : SUBSET {"server", "agent"}, \* serverAuthState, bits 1 and 2
    channel    : Ids \cup {None},        \* controlChannel
    request    : Ids \cup {None},        \* controlChannelRequest and its 20 s timer
    agentNonce : Ids \cup {None},        \* the connection agentNonce was made for
    serverNonce: Ids \cup {None},        \* the connection serverNonce came from
    retryTime  : Nat,
    retryTimer : BOOLEAN,                \* the timer of the agent is armed
    pongTimer  : BOOLEAN,                \* the 5 s timer of PingData is armed
    server     : Int,                    \* serverIndex; 0 = not chosen yet
    noProxy    : Int,                    \* triedNoProxy_Index
    proxy      : BOOLEAN,                \* proxyServer # NULL
    proxyFailed: BOOLEAN,
    webProxy   : BOOLEAN,                \* a proxy is configured or was found
    useproxy   : BOOLEAN,                \* the last attempt goes through the proxy
    auto       : BOOLEAN,                \* autoproxy_status
    asked      : 0 .. MaxAsked,          \* unanswered questions to the proxy helper
    url        : BOOLEAN,                \* multicastServerUrl # NULL
    addresses  : SUBSET (1 .. Servers),  \* servers whose address is in the database
    stopping   : BOOLEAN]                \* the chain is being destroyed

NewAgent == [
    state |-> 0, auth |-> {}, channel |-> None, request |-> None,
    agentNonce |-> None, serverNonce |-> None, retryTime |-> 0,
    retryTimer |-> FALSE, pongTimer |-> FALSE, server |-> 0, noProxy |-> 0,
    proxy |-> FALSE, proxyFailed |-> FALSE, webProxy |-> HasProxy,
    useproxy |-> FALSE, auto |-> FALSE, asked |-> 0, url |-> FALSE,
    addresses |-> {}, stopping |-> FALSE]

BothSides == {"server", "agent"}
Live(cs, c) == cs[c].phase # "none"
Fresh(cs) == CHOOSE c \in Ids : ~Live(cs, c)

-----------------------------------------------------------------------------
(* Starting an attempt *)

\* The time to the next attempt: it doubles until Cap.
Delays(r) == IF r >= Cap THEN Cap .. Cap + Jitter - 1 ELSE r .. 2 * r - 1

\* MeshServer_Connect when an attempt was made before.
ArmRetry(a) ==
    {[a EXCEPT !.retryTime = d, !.retryTimer = TRUE] : d \in Delays(a.retryTime)}

\* Mutant: triedNoProxy_Index is one too high for the new server.
ChooseServerOffByOne(a) ==
    IF a.server = 0
    THEN {[a EXCEPT !.server = rval + 1] : rval \in 1 - Servers .. Servers - 1}
    ELSE IF a.noProxy = a.server
         THEN {[a EXCEPT !.server = (a.server % Servers) + 1,
                         !.noProxy = (a.server % Servers) + 1]}
         ELSE {a}

\* The first server is chosen at random: rval is a signed int, so the remainder
\* may be negative.  The next server is taken once this one was tried directly.
ChooseServer(a) ==
    IF a.server = 0
    THEN {[a EXCEPT !.server = rval + 1] : rval \in 1 - Servers .. Servers - 1}
    ELSE IF a.noProxy = a.server
         THEN {[a EXCEPT !.server = (a.server % Servers) + 1,
                         !.noProxy = a.server % Servers]}
         ELSE {a}

\* ILibParseString_GetResultIndex: an index below 1 finds the first field.
Entry(index) == IF index < 1 THEN 1 ELSE index

\* Mutant: the proxy is always used.
ChooseProxyAlways(a) == [a EXCEPT !.useproxy = a.webProxy]

\* Whether this attempt goes through the proxy: not when the last one did, or
\* when the proxy could not be reached.
ChooseProxy(a) ==
    IF a.webProxy /\ a.noProxy < a.server /\ (a.proxy \/ a.proxyFailed)
    THEN [a EXCEPT !.proxyFailed = FALSE, !.noProxy = @ + 1,
                   !.proxy = FALSE, !.useproxy = FALSE]
    ELSE [a EXCEPT !.useproxy = a.webProxy]

\* The request is given to the web client as connection c.
Request(a, c) ==
    IF a.useproxy
    THEN {[a EXCEPT !.state = 1, !.request = c,
                    !.proxy = found, !.proxyFailed = ~found] : found \in BOOLEAN}
    ELSE {[a EXCEPT !.state = 1, !.request = c]}

\* The attempt once the server is chosen.  A server without a hash in ServerID
\* ends it with no timer armed; an unknown address puts it off.
Attempt(a, c) ==
    LET s == Entry(a.server)
        Start(b) == IF s > ServerIds THEN {b} ELSE Request(b, c)
        PutOff(b) == IF s > ServerIds THEN {b} ELSE ArmRetry(b)
        p == ChooseProxy(a)
        resolved == [p EXCEPT !.addresses = @ \cup {s}]
    IN  IF s \in Locals
        THEN IF a.url THEN Start(p) ELSE ArmRetry(a)
        ELSE IF p.useproxy THEN Start(p)
        ELSE Start(resolved) \cup
             (IF ~DnsFails THEN {} ELSE IF s \in p.addresses THEN Start(p) ELSE PutOff(p))

\* Mutants: it does not return when an attempt is under way, or when the chain
\* is being destroyed.
ConnectExWhenever(a, c) ==
    IF a.stopping THEN {a} ELSE UNION {Attempt(b, c) : b \in ChooseServer(a)}
ConnectExStopping(a, c) ==
    IF a.state # 0 THEN {a} ELSE UNION {Attempt(b, c) : b \in ChooseServer(a)}

\* MeshServer_ConnectEx; c is the connection the web client would use.  The
\* proxy helper is asked first, unless it has answered or it throws.
ConnectEx(a, c) ==
    IF a.state # 0 \/ a.stopping THEN {a}
    ELSE (IF AutoProxy /\ ~a.auto
          THEN {[a EXCEPT !.asked = IF @ = MaxAsked THEN @ ELSE @ + 1]}
          ELSE {})
         \cup UNION {Attempt(b, c) : b \in ChooseServer(a)}

\* MeshServer_Connect: at once the first time, later after a delay.
Connect(a, c) ==
    IF a.state # 0 THEN {a}
    ELSE IF a.retryTime = 0
         THEN UNION {ConnectEx([a EXCEPT !.retryTime = r], c) : r \in FirstDelays}
         ELSE ArmRetry(a)

\* Mutant: serverAuthState is not reset.
OnResponseCompleteKeepsAuth(a) ==
    [a EXCEPT !.request = None, !.channel = None, !.state = 0,
              !.agentNonce = None, !.serverNonce = None]

\* MeshServer_OnResponse when connection c has ended: status Complete.  Without a
\* header it was no reply, and the agent tries again.
OnResponseComplete(a) ==
    [a EXCEPT !.request = None, !.auth = {}, !.channel = None, !.state = 0,
              !.agentNonce = None, !.serverNonce = None]
OnResponseEnded(a, c) ==
    LET b == OnResponseComplete(a)
    IN  IF b.stopping THEN {b}
        ELSE Connect([b EXCEPT !.auto = FALSE, !.url = FALSE], c)

\* A connection just begun.  Which certificate the peer presents and whether it
\* holds the right key is its business.
Begun(cert, real) == [NoConn EXCEPT !.phase = "connecting", !.up = TRUE,
                                    !.cert = cert, !.real = real]

\* The connections once the agent is in state a: c was begun if a waits for it.
Opened(cs, a, c) ==
    IF a.request = c
    THEN {[cs EXCEPT ![c] = Begun(k, r)] : k \in Certs, r \in BOOLEAN}
    ELSE {cs}

Init ==
    \E c \in Ids :
        /\ agent \in Connect(NewAgent, c)
        /\ conns \in Opened([i \in Ids |-> NoConn], agent, c)
        /\ trusted = None
        /\ told = FALSE
        /\ pinged = None
        /\ proven = {}

-----------------------------------------------------------------------------
(* The attempt and its end *)

\* A handler that leaves the agent in one of the states next, maybe with a new
\* attempt.
Starting(next) ==
    /\ agent' \in next
    /\ conns' \in Opened(conns, agent', Fresh(conns))
    /\ UNCHANGED <<trusted, told, pinged, proven>>

\* The same when connection c ends first.  The core is told if it was in use.
Left(c) == [conns EXCEPT ![c] = NoConn]
Ending(c, next) ==
    /\ agent' \in next
    /\ conns' \in Opened(Left(c), agent', Fresh(Left(c)))
    /\ told' = (told /\ agent.auth # BothSides)
    /\ pinged' = IF pinged = c THEN None ELSE pinged
    /\ UNCHANGED <<trusted, proven>>

\* The connection is refused or lost.
Closed(c) ==
    /\ Live(conns, c)
    /\ Ending(c, OnResponseEnded(agent, Fresh(Left(c))))

\* Mutant: the connection is not destroyed, and OnResponse is told once.
AnsweredOnce(c) ==
    /\ conns[c].phase \in {"connecting", "partial"}
    /\ conns[c].up
    /\ Ending(c, {OnResponseComplete(agent)})

\* The whole of a reply that is no upgrade has come.  OnResponse is told with its
\* header, when it clears the state and does not try again, and then without one:
\* a connection that was to become a WebSocket is an orphan, which
\* FinishedResponse destroys with the request that is still in its queue.
Answered(c) ==
    /\ conns[c].phase \in {"connecting", "partial"}
    /\ conns[c].up
    /\ Ending(c, OnResponseEnded(OnResponseComplete(agent), Fresh(Left(c))))

\* Part of a reply that is no upgrade arrives: the network timer is removed.
ProtocolError(c) ==
    /\ conns[c].phase = "connecting"
    /\ conns[c].up
    /\ agent' = [agent EXCEPT !.request = None]
    /\ conns' = [conns EXCEPT ![c].phase = "partial"]
    /\ UNCHANGED <<trusted, told, pinged, proven>>

\* MeshServer_ConnectEx_NetworkError: no answer in 20 s.  Cancelling the request
\* calls OnResponse, which arms the retry timer; the next attempt does not wait
\* for it.
NetworkErrorAfter(a, c) ==
    UNION {ConnectEx(b, c) : b \in OnResponseEnded([a EXCEPT !.state = 0], c)}

\* Mutant: the request is not cancelled.
NetworkErrorNoCancel ==
    /\ agent.request # None
    /\ Starting(ConnectEx([agent EXCEPT !.state = 0, !.request = None], Fresh(conns)))

\* Mutant: no timer is set for an attempt through the proxy.
NetworkErrorDirect ==
    LET c == agent.request
    IN  /\ c # None /\ ~agent.useproxy
        /\ Ending(c, NetworkErrorAfter(agent, Fresh(Left(c))))

NetworkError ==
    LET c == agent.request
    IN  /\ c # None
        /\ Ending(c, NetworkErrorAfter(agent, Fresh(Left(c))))

RetryTimeout ==
    /\ agent.retryTimer
    /\ Starting(ConnectEx([agent EXCEPT !.retryTimer = FALSE], Fresh(conns)))

\* The peer, or the way to it, falls silent; nobody is told.
Silence(c) ==
    /\ Live(conns, c)
    /\ conns[c].up
    /\ conns[c].phase = "partial" => Stalls
    /\ conns' = [conns EXCEPT ![c].up = FALSE]
    /\ UNCHANGED <<agent, trusted, told, pinged, proven>>

-----------------------------------------------------------------------------
(* Authentication *)

\* MeshServer_SendAgentInfo.
SendAgentInfo(a) == [a EXCEPT !.retryTime = 0]

\* The upgrade is accepted: OnResponse with Connection_Established.  A server
\* that presents the certificate remembered from an earlier signature need not
\* sign again.  If the first message cannot be sent, no nonce is made.
Established(c) ==
    /\ conns[c].phase = "connecting"
    /\ conns[c].up
    /\ \E sent \in BOOLEAN :
        LET open == [agent EXCEPT !.request = None, !.channel = c,
                                  !.auth = {}, !.state = 2]
            asks == [open EXCEPT !.agentNonce = c]
            known == sent /\ conns[c].cert = trusted
        IN  /\ agent' = IF known THEN SendAgentInfo([asks EXCEPT !.auth = {"server"}])
                        ELSE IF sent THEN asks ELSE open
            /\ conns' = [conns EXCEPT ![c] = [@ EXCEPT !.phase = "open", !.up = sent,
                                                        !.authentic = known]]
    /\ UNCHANGED <<trusted, told, pinged, proven>>

\* A message from the server on connection c, before it is authenticated.
Answers(c) ==
    /\ conns[c].phase = "open"
    /\ conns[c].up
    /\ agent.auth # BothSides

\* AuthRequest: the server sends its nonce; the reply changes nothing here.
AuthRequest(c) ==
    /\ Answers(c)
    /\ agent' = [agent EXCEPT !.serverNonce = c]
    /\ UNCHANGED <<conns, trusted, told, pinged, proven>>

\* Mutant: the core module is not told.
AuthVerifyUntold(c) ==
    /\ Answers(c)
    /\ conns[c].real
    /\ agent.agentNonce = c
    /\ agent.serverNonce = c
    /\ agent' = SendAgentInfo([agent EXCEPT !.auth = @ \cup {"server"}])
    /\ trusted' = conns[c].cert
    /\ proven' = proven \cup {conns[c].cert}
    /\ conns' = [conns EXCEPT ![c].authentic = TRUE]
    /\ UNCHANGED <<told, pinged>>

\* AuthVerify: the server's signature over its certificate and both nonces.  Any
\* other signature changes nothing.
AuthVerify(c) ==
    /\ Answers(c)
    /\ conns[c].real
    /\ agent.agentNonce = c
    /\ agent.serverNonce = c
    /\ agent' = SendAgentInfo([agent EXCEPT !.auth = @ \cup {"server"}])
    /\ trusted' = conns[c].cert
    /\ proven' = proven \cup {conns[c].cert}
    /\ conns' = [conns EXCEPT ![c].authentic = TRUE]
    /\ told' = (told \/ "agent" \in agent.auth)
    /\ UNCHANGED pinged

\* AuthConfirm: the server has authenticated the agent.
AuthConfirm(c) ==
    /\ Answers(c)
    /\ agent' = [agent EXCEPT !.auth = @ \cup {"agent"}]
    /\ conns' = [conns EXCEPT ![c].confirmed = TRUE]
    /\ told' = (told \/ "server" \in agent.auth)
    /\ UNCHANGED <<trusted, pinged, proven>>

\* Mutant: any command is carried out.
CommandUnchecked(c) ==
    /\ conns[c].phase = "open"
    /\ conns[c].up
    /\ conns' = [conns EXCEPT ![c].served = TRUE]
    /\ UNCHANGED <<agent, trusted, told, pinged, proven>>

\* Any other command, carried out here or by the core module.
Command(c) ==
    /\ conns[c].phase = "open"
    /\ conns[c].up
    /\ agent.auth = BothSides
    /\ conns' = [conns EXCEPT ![c].served = TRUE]
    /\ UNCHANGED <<agent, trusted, told, pinged, proven>>

-----------------------------------------------------------------------------
(* Keeping the channel alive *)

\* MeshServer_ControlChannel_IdleTimeout: nothing was received for the idle
\* timeout.  It is set again at each ping, so it cannot expire before the pong
\* timer unless it is the shorter one.
IdleTimeout(c) ==
    /\ conns[c].phase = "open"
    /\ IdleShort \/ ~agent.pongTimer
    /\ agent' = [agent EXCEPT !.pongTimer = TRUE]
    /\ pinged' = c
    /\ UNCHANGED <<conns, trusted, told, proven>>

\* MeshServer_ControlChannel_PongSink.
Pong(c) ==
    /\ conns[c].phase = "open"
    /\ conns[c].up
    /\ pinged = c
    /\ agent' = [agent EXCEPT !.pongTimer = FALSE]
    /\ pinged' = None
    /\ UNCHANGED <<conns, trusted, told, proven>>

\* MeshServer_ControlChannel_IdleTimeout_PongTimeout closes whatever channel
\* there is.
PongTimeout ==
    LET c == agent.channel
        a == [agent EXCEPT !.pongTimer = FALSE]
    IN  /\ agent.pongTimer
        /\ ~(IdleShort /\ c # None /\ pinged = c)
        /\ IF c # None THEN Ending(c, OnResponseEnded(a, Fresh(Left(c))))
           ELSE /\ agent' = a
                /\ UNCHANGED <<conns, trusted, told, pinged, proven>>

\* MeshAgent.Disconnect, called by the core module.
Disconnect ==
    LET c == agent.channel
    IN  /\ c # None
        /\ Ending(c, OnResponseEnded(agent, Fresh(Left(c))))

-----------------------------------------------------------------------------
(* Events from outside *)

\* UDPSocket_OnData: a server announces itself.  The agent only listens when
\* the MeshServer setting begins with "local".
Discovered ==
    /\ 1 \in Locals
    /\ Starting(ConnectEx([agent EXCEPT !.url = TRUE], Fresh(conns)))

\* Mutant: the timer is removed and not set again.
AddressChangedNoTimer ==
    /\ agent.state = 0
    /\ agent' = [agent EXCEPT !.retryTime = Restart, !.retryTimer = FALSE]
    /\ UNCHANGED <<conns, trusted, told, pinged, proven>>

\* MeshAgent_AgentMode_IPAddressChanged_Handler
AddressChanged ==
    /\ agent.state = 0
    /\ agent' = [agent EXCEPT !.retryTime = Restart, !.retryTimer = TRUE]
    /\ UNCHANGED <<conns, trusted, told, pinged, proven>>

\* Mutant: an answer nobody waits for is taken.
HelperAnswersUnasked ==
    Starting(ConnectEx([agent EXCEPT !.asked = @ - 1, !.auto = TRUE], Fresh(conns)))

\* MeshServer_ConnectEx_AutoProxy: the proxy helper's promise is resolved, with
\* a proxy or without.
HelperAnswers ==
    /\ agent.asked > 0
    /\ \E found \in BOOLEAN :
        Starting(ConnectEx([agent EXCEPT !.asked = @ - 1, !.auto = TRUE,
                                         !.webProxy = @ \/ found], Fresh(conns)))

\* ILibStopChain: the agent is about to exit.
Stop ==
    /\ ~agent.stopping
    /\ agent' = [agent EXCEPT !.stopping = TRUE]
    /\ UNCHANGED <<conns, trusted, told, pinged, proven>>

Next ==
    \/ \E c \in Ids :
        \/ Closed(c) \/ Answered(c) \/ ProtocolError(c) \/ Silence(c)
        \/ Established(c) \/ AuthRequest(c) \/ AuthVerify(c) \/ AuthConfirm(c)
        \/ Command(c) \/ IdleTimeout(c) \/ Pong(c)
    \/ NetworkError \/ RetryTimeout \/ PongTimeout \/ Disconnect
    \/ Discovered \/ AddressChanged \/ HelperAnswers \/ Stop

Spec == Init /\ [][Next]_vars

\* The chain's timers fire.  Nothing is assumed of the network, of the servers or
\* of the proxy helper.
FairSpec ==
    /\ Spec
    /\ WF_vars(NetworkError) /\ WF_vars(RetryTimeout) /\ WF_vars(PongTimeout)
    /\ \A c \in Ids : WF_vars(IdleTimeout(c))

-----------------------------------------------------------------------------
(* Properties *)

TypeOK ==
    /\ agent \in Agent
    /\ conns \in [Ids -> Conn]
    /\ trusted \in Certs \cup {None}
    /\ told \in BOOLEAN
    /\ pinged \in Ids \cup {None}
    /\ proven \subseteq Certs

\* The agent never has two connections to servers at a time, and what it
\* believes of the one it has is so: serverConnectionState, controlChannel and
\* the network timer all speak of that connection.  The handlers that close one
\* and open another in one call are what could break it.
OneChannel ==
    /\ \A c, d \in Ids : Live(conns, c) /\ Live(conns, d) => c = d
    /\ \A c \in Ids :
        /\ agent.channel = c <=> conns[c].phase = "open"
        /\ agent.request = c <=> conns[c].phase = "connecting"
        /\ Live(conns, c) => agent.state = IF conns[c].phase = "open" THEN 2 ELSE 1
    /\ agent.state # 0 => \E c \in Ids : Live(conns, c)

\* The two authentication bits were earned on the connection they are used for:
\* the server signed on it, or it presents the certificate remembered from such
\* a signature; the server confirmed the agent on it.
AuthenticatedHere ==
    /\ "server" \in agent.auth =>
        \E c \in Ids : agent.channel = c /\ conns[c].authentic /\ conns[c].cert = trusted
    /\ "agent" \in agent.auth => \E c \in Ids : agent.channel = c /\ conns[c].confirmed
    /\ trusted # None => trusted \in proven
    /\ \A c \in Ids : conns[c].authentic => conns[c].cert \in proven

\* Commands are carried out for a server only after it was found authentic and
\* has confirmed the agent on the same connection (agentcore.h: "Commands 10 and
\* above must only be processed if the server is authenticated").
CommandsFromServer ==
    \A c \in Ids : conns[c].served =>
        conns[c].authentic /\ conns[c].confirmed /\ conns[c].cert \in proven

\* What the core module was last told by "Connected" is how it is: it is told
\* once for each channel that becomes usable, and once when that one ends.
ToldTruth == told <=> agent.auth = BothSides

\* ConnectEx gave up: no hash of this server is known.
Misconfigured == Entry(agent.server) > ServerIds

\* An agent without a connection has something that will make it try again: the
\* retry timer or a question to the proxy helper.
NeverIdle ==
    agent.state = 0 =>
        agent.retryTimer \/ agent.asked > 0 \/ agent.stopping \/ Misconfigured

\* Once the chain is being destroyed no new attempt is started.
StopsForGood ==
    [][agent.stopping => \A c \in Ids : Live(conns, c)' => Live(conns, c)]_vars

\* A connection closed by the pong timer is one that was pinged and did not
\* answer (agentcore.c:3500).
PongIsForThisChannel ==
    [][PongTimeout => agent.channel \in {None, pinged}]_vars

\* After an attempt through the proxy, the next one goes directly.
ProxyThenDirect ==
    [][\A c \in Ids : ~Live(conns, c) /\ Live(conns, c)' =>
            ~(agent.useproxy /\ agent'.useproxy)]_vars

\* An attempt that is not answered ends, and a channel whose server has gone silent is closed.
DeadPeerNoticed ==
    \A c \in Ids : \A p \in {"connecting", "open"} :
        conns[c].phase = p /\ ~conns[c].up ~> conns[c].phase # p \/ conns[c].up

\* An agent without a connection makes another attempt.
TriesAgain == agent.state = 0 ~> agent.state # 0 \/ agent.stopping

\* An attempt to reach server s, directly or through the proxy.
Trying(s, through) ==
    agent.state = 1 /\ agent.server = s /\ agent.useproxy = through

\* With a proxy, an agent that never gets through tries every server, through
\* the proxy and directly, over and over.
EveryServerTried ==
    \/ <>agent.stopping
    \/ []<>(agent.state = 2)
    \/ <>[](\E c \in Ids : conns[c].phase = "partial")
    \/ []<>(agent.server < 1)
    \/ \A s \in 1 .. Servers, through \in BOOLEAN : []<>Trying(s, through)

=============================================================================
