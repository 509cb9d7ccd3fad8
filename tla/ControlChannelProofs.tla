------------------------ MODULE ControlChannelProofs ------------------------
(***************************************************************************)
(* Theorems about ControlChannel: with any number of servers, whatever the *)
(* servers, the network and the timers do, there is one channel at a time, *)
(* and only an authenticated server is served.                             *)
(***************************************************************************)
EXTENDS ControlChannel, TLAPS

\* A state of the agent in which the server chosen exists.
Proper(a) == a \in Agent /\ a.server <= Servers

\* What b keeps of the agent's state a when no attempt is started.
Kept(a, b) ==
    /\ Proper(b)
    /\ b.auth = a.auth
    /\ b.channel = a.channel
    /\ b.state = a.state
    /\ b.request = a.request

\* The same, unless a request for connection c was made.
Tried(a, b, c) ==
    /\ Proper(b)
    /\ b.auth = a.auth
    /\ b.channel = a.channel
    /\ \/ b.state = a.state /\ b.request = a.request
       \/ a.state = 0 /\ b.state = 1 /\ b.request = c

-----------------------------------------------------------------------------
(* The assignments of the handlers.  The values assigned are parameters: the *)
(* provers handle a record better when its fields get no literals.           *)

LEMMA SetRetry ==
    ASSUME NEW a, Proper(a), NEW d \in Nat, NEW t \in BOOLEAN
    PROVE  Kept(a, [a EXCEPT !.retryTime = d, !.retryTimer = t])
BY DEF Kept, Proper, Agent

LEMMA SetServer ==
    ASSUME NEW a, Proper(a), NEW m \in Int, m <= Servers, NEW n \in Int
    PROVE  /\ Kept(a, [a EXCEPT !.server = m])
           /\ Kept(a, [a EXCEPT !.server = m, !.noProxy = n])
<1>1. Kept(a, [a EXCEPT !.server = m])
    BY DEF Kept, Proper, Agent
<1>2. Kept(a, [a EXCEPT !.server = m, !.noProxy = n])
    <2>1. [a EXCEPT !.server = m] \in Agent
        BY DEF Proper, Agent
    <2>2. [a EXCEPT !.server = m, !.noProxy = n] \in Agent
        BY <2>1 DEF Agent
    <2> QED
        BY <2>2 DEF Kept, Proper, Agent
<1> QED
    BY <1>1, <1>2

LEMMA SetFour ==
    ASSUME NEW a, Proper(a), NEW n \in Int, NEW f \in BOOLEAN, NEW g \in BOOLEAN, NEW u \in BOOLEAN
    PROVE  Kept(a, [a EXCEPT !.proxyFailed = f, !.noProxy = n, !.proxy = g, !.useproxy = u])
<1>1. [a EXCEPT !.proxyFailed = f, !.noProxy = n] \in Agent
    BY DEF Proper, Agent
<1>2. [a EXCEPT !.proxyFailed = f, !.noProxy = n, !.proxy = g] \in Agent
    BY <1>1 DEF Agent
<1>3. [a EXCEPT !.proxyFailed = f, !.noProxy = n, !.proxy = g, !.useproxy = u] \in Agent
    BY <1>2 DEF Agent
<1> QED
    BY <1>3 DEF Kept, Proper, Agent

LEMMA SetProxy ==
    ASSUME NEW a, Proper(a), NEW n \in Int, NEW u \in BOOLEAN
    PROVE  /\ Kept(a, [a EXCEPT !.useproxy = u])
           /\ Kept(a, [a EXCEPT !.proxyFailed = FALSE, !.noProxy = n,
                                !.proxy = FALSE, !.useproxy = FALSE])
<1>1. Kept(a, [a EXCEPT !.useproxy = u])
    BY DEF Kept, Proper, Agent
<1> QED
    BY <1>1, SetFour

LEMMA SetAddresses ==
    ASSUME NEW a, Proper(a), NEW s \in SUBSET (1 .. Servers)
    PROVE  Kept(a, [a EXCEPT !.addresses = s])
BY DEF Kept, Proper, Agent

LEMMA SetAsked ==
    ASSUME NEW a, Proper(a), NEW n \in 0 .. MaxAsked, NEW w \in BOOLEAN
    PROVE  /\ Kept(a, [a EXCEPT !.asked = n])
           /\ Kept(a, [a EXCEPT !.asked = n, !.auto = TRUE, !.webProxy = w])
<1>1. Kept(a, [a EXCEPT !.asked = n])
    BY DEF Kept, Proper, Agent
<1>2. Kept(a, [a EXCEPT !.asked = n, !.auto = TRUE, !.webProxy = w])
    BY DEF Kept, Proper, Agent
<1> QED
    BY <1>1, <1>2

LEMMA SetFlag ==
    ASSUME NEW a, Proper(a), NEW t \in BOOLEAN
    PROVE  /\ Kept(a, [a EXCEPT !.pongTimer = t])
           /\ Kept(a, [a EXCEPT !.retryTimer = t])
           /\ Kept(a, [a EXCEPT !.stopping = t])
           /\ Kept(a, [a EXCEPT !.url = t])
           /\ Kept(a, [a EXCEPT !.auto = t, !.url = t])
<1>1. Kept(a, [a EXCEPT !.pongTimer = t]) /\ Kept(a, [a EXCEPT !.retryTimer = t])
  BY DEF Kept, Proper, Agent
<1>2. Kept(a, [a EXCEPT !.stopping = t]) /\ Kept(a, [a EXCEPT !.url = t])
  BY DEF Kept, Proper, Agent
<1>3. Kept(a, [a EXCEPT !.auto = t, !.url = t])
  BY DEF Kept, Proper, Agent
<1>. QED  BY <1>1, <1>2, <1>3

\* b is a with a request for connection c.
Requested(a, b, s, c) ==
    /\ Proper(b)
    /\ b.auth = a.auth
    /\ b.channel = a.channel
    /\ b.state = s
    /\ b.request = c

LEMMA SetRequest ==
    ASSUME NEW a, Proper(a), NEW s \in 0 .. 2, NEW c \in Ids,
           NEW f \in BOOLEAN, NEW g \in BOOLEAN
    PROVE  /\ Requested(a, [a EXCEPT !.state = s, !.request = c], s, c)
           /\ Requested(a, [a EXCEPT !.state = s, !.request = c,
                                     !.proxy = f, !.proxyFailed = g], s, c)
<1>1. Requested(a, [a EXCEPT !.state = s, !.request = c], s, c)
    BY DEF Requested, Proper, Agent
<1>2. Requested(a, [a EXCEPT !.state = s, !.request = c, !.proxy = f, !.proxyFailed = g], s, c)
    <2>. DEFINE b == [a EXCEPT !.state = s, !.request = c]
    <2>1. b \in Agent
        BY DEF Proper, Agent
    <2>2. [b EXCEPT !.proxy = f] \in Agent
        BY <2>1 DEF Agent
    <2>3. [b EXCEPT !.proxy = f, !.proxyFailed = g] \in Agent
        BY <2>2 DEF Agent
    <2> QED
        BY <2>3 DEF Requested, Proper, Agent
<1> QED
    BY <1>1, <1>2

-----------------------------------------------------------------------------
(* An attempt *)

LEMMA ArmRetryKept ==
    ASSUME NEW a, Proper(a), NEW b \in ArmRetry(a)
    PROVE  Kept(a, b)
<1>1. a.retryTime \in Nat
    BY DEF Proper, Agent
<1>2. Delays(a.retryTime) \subseteq Nat
    BY <1>1, DelaysAssumption DEF Delays
<1>3. PICK d \in Nat : b = [a EXCEPT !.retryTime = d, !.retryTimer = TRUE]
    BY <1>2 DEF ArmRetry
<1> QED
    BY <1>3, SetRetry

LEMMA ChooseServerKept ==
    ASSUME NEW a, Proper(a), NEW b \in ChooseServer(a)
    PROVE  Kept(a, b)
<1>1. Servers \in Nat \ {0} /\ a.server \in Int
    BY ServersAssumption DEF Proper, Agent
<1>2. CASE a.server = 0
    <2>1. PICK r \in 1 - Servers .. Servers - 1 : b = [a EXCEPT !.server = r + 1]
        BY <1>2 DEF ChooseServer
    <2>2. PICK m \in Int : m = r + 1 /\ m <= Servers
        BY <1>1
    <2> QED
        BY <2>1, <2>2, SetServer
<1>3. CASE a.server # 0 /\ a.noProxy = a.server
    <2>1. b = [a EXCEPT !.server = (a.server % Servers) + 1, !.noProxy = a.server % Servers]
        BY <1>3 DEF ChooseServer
    <2>2. PICK n \in Int : n = a.server % Servers /\ n < Servers
        BY <1>1
    <2>3. PICK m \in Int : m = n + 1 /\ m <= Servers
        BY <1>1, <2>2
    <2> QED
        BY <2>1, <2>2, <2>3, SetServer
<1>4. CASE a.server # 0 /\ a.noProxy # a.server
    BY <1>4 DEF ChooseServer, Kept
<1> QED
    BY <1>2, <1>3, <1>4

LEMMA ChooseProxyKept ==
    ASSUME NEW a, Proper(a)
    PROVE  Kept(a, ChooseProxy(a))
<1>1. PICK n \in Int : n = a.noProxy + 1
    BY DEF Proper, Agent
<1>2. a.webProxy \in BOOLEAN
    BY DEF Proper, Agent
<1> QED
    BY <1>1, <1>2, SetProxy DEF ChooseProxy

LEMMA RequestTried ==
    ASSUME NEW a, Proper(a), a.state = 0, NEW c \in Ids, NEW b \in Request(a, c)
    PROVE  Tried(a, b, c)
<1>1. PICK s \in 0 .. 2 : s = 1
    OBVIOUS
<1>2. CASE a.useproxy
    <2>1. PICK f \in BOOLEAN, g \in BOOLEAN :
            b = [a EXCEPT !.state = 1, !.request = c, !.proxy = f, !.proxyFailed = g]
        BY <1>2 DEF Request
    <2>2. Requested(a, b, s, c)
        BY <1>1, <2>1, SetRequest, Zenon
    <2> QED
        BY <1>1, <2>2 DEF Requested, Tried
<1>3. CASE ~a.useproxy
    <2>1. b = [a EXCEPT !.state = 1, !.request = c]
        BY <1>3 DEF Request
    <2>2. Requested(a, b, s, c)
        BY <1>1, <2>1, SetRequest, Zenon
    <2> QED
        BY <1>1, <2>2 DEF Requested, Tried
<1> QED
    BY <1>2, <1>3

LEMMA AttemptTried ==
    ASSUME NEW a, Proper(a), a.state = 0, NEW c \in Ids, NEW b \in Attempt(a, c)
    PROVE  Tried(a, b, c)
<1> DEFINE s == Entry(a.server)
           p == ChooseProxy(a)
           resolved == [p EXCEPT !.addresses = @ \cup {s}]
<1>1. Kept(a, p)
    BY ChooseProxyKept
<1>2. Kept(p, resolved)
    <2>1. Servers \in Nat \ {0} /\ a.server \in Int
        BY ServersAssumption DEF Proper, Agent
    <2>2. s \in 1 .. Servers
        BY <2>1 DEF Entry, Proper
    <2>3. p.addresses \cup {s} \in SUBSET (1 .. Servers)
        BY <1>1, <2>2 DEF Kept, Proper, Agent
    <2> HIDE DEF p, s
    <2> QED
        BY <1>1, <2>3, SetAddresses DEF Kept
<1>3. \/ b \in {p, resolved}
      \/ b \in Request(p, c) \/ b \in Request(resolved, c)
      \/ b \in ArmRetry(a) \/ b \in ArmRetry(p)
    BY DEF Attempt
<1> HIDE DEF p, resolved, s
<1>4. \A q : Kept(a, q) => Proper(q) /\ q.state = 0
    BY DEF Kept
<1>5. Kept(a, resolved)
    BY <1>1, <1>2 DEF Kept
<1>6. \A q, r : Kept(a, q) /\ Tried(q, r, c) => Tried(a, r, c)
    BY DEF Kept, Tried
<1>7. \A q, r : Kept(a, q) /\ Kept(q, r) => Tried(a, r, c)
    BY DEF Kept, Tried
<1>8. Kept(a, a)
    BY DEF Kept
<1> QED
    BY <1>1, <1>3, <1>4, <1>5, <1>6, <1>7, <1>8, RequestTried, ArmRetryKept

LEMMA ConnectExTried ==
    ASSUME NEW a, Proper(a), NEW c \in Ids, NEW b \in ConnectEx(a, c)
    PROVE  Tried(a, b, c)
<1>1. CASE b = a
    BY <1>1 DEF Tried
<1>2. CASE b = [a EXCEPT !.asked = IF @ = MaxAsked THEN @ ELSE @ + 1]
    <2>1. PICK n \in 0 .. MaxAsked : n = IF a.asked = MaxAsked THEN a.asked ELSE a.asked + 1
        BY SettingsAssumption DEF Proper, Agent
    <2>2. b = [a EXCEPT !.asked = n]
        BY <1>2, <2>1
    <2>3. Kept(a, b)
        BY <2>2, SetAsked
    <2> QED
        BY <2>3 DEF Kept, Tried
<1>3. CASE a.state = 0 /\ \E d \in ChooseServer(a) : b \in Attempt(d, c)
    <2>1. PICK d \in ChooseServer(a) : b \in Attempt(d, c)
        BY <1>3
    <2>2. Kept(a, d)
        BY ChooseServerKept
    <2>3. Tried(d, b, c)
        BY <1>3, <2>1, <2>2, AttemptTried DEF Kept
    <2> QED
        BY <2>2, <2>3 DEF Kept, Tried
<1> QED
    BY <1>1, <1>2, <1>3 DEF ConnectEx

LEMMA ConnectTried ==
    ASSUME NEW a, Proper(a), NEW c \in Ids, NEW b \in Connect(a, c)
    PROVE  Tried(a, b, c)
<1>1. CASE a.state # 0
    BY <1>1 DEF Connect, Tried
<1>2. CASE a.state = 0 /\ a.retryTime = 0
    <2>1. PICK r \in FirstDelays : b \in ConnectEx([a EXCEPT !.retryTime = r], c)
        BY <1>2 DEF Connect
    <2>2. r \in Nat
        BY DelaysAssumption
    <2> DEFINE d == [a EXCEPT !.retryTime = r]
    <2>3. Kept(a, d)
        BY <2>2 DEF Kept, Proper, Agent
    <2> HIDE DEF d
    <2>4. Tried(d, b, c)
        BY <2>1, <2>3, ConnectExTried DEF Kept, d
    <2> QED
        BY <2>3, <2>4 DEF Kept, Tried
<1>3. CASE a.state = 0 /\ a.retryTime # 0
    BY <1>3, ArmRetryKept DEF Connect, Kept, Tried
<1> QED
    BY <1>1, <1>2, <1>3

\* The agent when a connection has ended, and maybe connection c was begun.
Free(b, c) ==
    /\ Proper(b)
    /\ b.auth = {}
    /\ b.channel = None
    /\ \/ b.state = 0 /\ b.request = None
       \/ b.state = 1 /\ b.request = c

Reset(b, s, u, n) ==
    Proper(b) /\ b.auth = u /\ b.channel = n /\ b.state = s /\ b.request = n

LEMMA SetEnded ==
    ASSUME NEW a, Proper(a), NEW s \in 0 .. 2, NEW u \in SUBSET {"server", "agent"},
           NEW n \in Ids \cup {None}
    PROVE  Reset([a EXCEPT !.request = n, !.auth = u, !.channel = n, !.state = s,
                           !.agentNonce = n, !.serverNonce = n], s, u, n)
BY DEF Reset, Proper, Agent

LEMMA OnResponseEndedFree ==
    ASSUME NEW a, Proper(a), NEW c \in Ids, NEW b \in OnResponseEnded(a, c)
    PROVE  Free(b, c)
<1> DEFINE e == OnResponseComplete(a)
<1>1. PICK s \in 0 .. 2 : s = 0
    OBVIOUS
<1>2. PICK u \in SUBSET {"server", "agent"} : u = {}
    OBVIOUS
<1>3. PICK n \in Ids \cup {None} : n = None
    OBVIOUS
<1>4. e = [a EXCEPT !.request = n, !.auth = u, !.channel = n, !.state = s,
                    !.agentNonce = n, !.serverNonce = n]
    BY <1>1, <1>2, <1>3, Zenon DEF OnResponseComplete
<1> HIDE DEF e
<1>5. Reset(e, s, u, n)
    BY <1>4, SetEnded, Zenon
<1>6. Proper(e) /\ e.auth = {} /\ e.channel = None /\ e.state = 0 /\ e.request = None
    BY <1>1, <1>2, <1>3, <1>5, Zenon DEF Reset
<1>7. CASE b = e
    BY <1>6, <1>7 DEF Free
<1>8. CASE b \in Connect([e EXCEPT !.auto = FALSE, !.url = FALSE], c)
    <2> DEFINE d == [e EXCEPT !.auto = FALSE, !.url = FALSE]
    <2>1. Kept(e, d)
        BY <1>6, SetFlag
    <2> HIDE DEF d
    <2>2. Tried(d, b, c)
        BY <1>8, <2>1, ConnectTried DEF Kept, d
    <2> QED
        BY <1>6, <2>1, <2>2 DEF Kept, Tried, Free
<1> QED
    BY <1>7, <1>8 DEF OnResponseEnded, e

LEMMA NetworkErrorFree ==
    ASSUME NEW a, Proper(a), NEW c \in Ids, NEW b \in NetworkErrorAfter(a, c)
    PROVE  Free(b, c)
<1> DEFINE z == [a EXCEPT !.state = 0]
<1>1. PICK d \in OnResponseEnded(z, c) : b \in ConnectEx(d, c)
    BY DEF NetworkErrorAfter
<1>2. Proper(z)
    <2>1. PICK s \in 0 .. 2 : s = 0
        OBVIOUS
    <2>2. Proper([a EXCEPT !.state = s])
        BY DEF Proper, Agent
    <2> QED
        BY <2>1, <2>2, Zenon
<1> HIDE DEF z
<1>3. Free(d, c)
    BY <1>1, <1>2, OnResponseEndedFree
<1>4. Tried(d, b, c)
    BY <1>1, <1>3, ConnectExTried DEF Free
<1> QED
    BY <1>3, <1>4 DEF Free, Tried

-----------------------------------------------------------------------------
(* The invariant *)

\* Nothing was authenticated or served on a connection that is not open.
Unused(k) == ~k.authentic /\ ~k.confirmed /\ ~k.served
NewConns == \A c \in Ids :
    /\ conns[c].phase # "open" => Unused(conns[c])
    /\ conns[c].phase # "none" => conns[c].cert \in Certs

\* Inductive: the handlers that close one connection and begin another leave a
\* state of JustBegun, the others touch the one connection there is.
ChannelInv ==
    /\ TypeOK
    /\ agent.server <= Servers
    /\ OneChannel
    /\ NewConns
    /\ AuthenticatedHere
    /\ CommandsFromServer
    /\ ToldTruth

\* The connection the web client would use next is a new one.
LEMMA FreshIsNew ==
    ASSUME NEW cs, \E d \in Ids : ~Live(cs, d)
    PROVE  Fresh(cs) \in Ids /\ ~Live(cs, Fresh(cs))
BY DEF Fresh

\* Connection f is begun when a agent without connections asks for it.
LEMMA OpenedType ==
    ASSUME NEW cs \in [Ids -> Conn], NEW a, NEW f \in Ids, NEW ds \in Opened(cs, a, f)
    PROVE  /\ ds \in [Ids -> Conn]
           /\ \A d \in Ids : d # f => ds[d] = cs[d]
           /\ a.request = f => /\ ds[f].phase = "connecting" /\ Unused(ds[f])
                               /\ ds[f].cert \in Certs
           /\ a.request # f => ds = cs
<1>1. CASE a.request = f
    <2>1. PICK k \in Certs, r \in BOOLEAN : ds = [cs EXCEPT ![f] = Begun(k, r)]
        BY <1>1 DEF Opened
    <2>2. /\ Begun(k, r) \in Conn /\ Begun(k, r).phase = "connecting"
          /\ Unused(Begun(k, r)) /\ Begun(k, r).cert \in Certs
        BY DEF Begun, NoConn, Conn, Unused
    <2> QED
        BY <1>1, <2>1, <2>2
<1>2. CASE a.request # f
    BY <1>2 DEF Opened
<1> QED
    BY <1>1, <1>2

\* The states in which an attempt may just have begun and no other is.
JustBegun ==
    \E f \in Ids, cs \in [Ids -> Conn] :
        /\ \A d \in Ids : cs[d].phase = "none" /\ Unused(cs[d])
        /\ Free(agent, f)
        /\ conns \in Opened(cs, agent, f)
        /\ told = FALSE
        /\ trusted \in Certs \cup {None} /\ pinged \in Ids \cup {None}
        /\ proven \subseteq Certs
        /\ trusted # None => trusted \in proven

LEMMA JustBegunInv == JustBegun => ChannelInv
<1> SUFFICES ASSUME JustBegun PROVE ChannelInv
    OBVIOUS
<1>1. PICK f \in Ids, cs \in [Ids -> Conn] :
        /\ \A d \in Ids : cs[d].phase = "none" /\ Unused(cs[d])
        /\ Free(agent, f)
        /\ conns \in Opened(cs, agent, f)
    BY DEF JustBegun
<1>2. /\ conns \in [Ids -> Conn]
      /\ \A d \in Ids : d # f => conns[d] = cs[d]
      /\ agent.request = f => /\ conns[f].phase = "connecting" /\ Unused(conns[f])
                              /\ conns[f].cert \in Certs
      /\ agent.request # f => conns = cs
    BY <1>1, OpenedType
<1>3. \A d \in Ids : Unused(conns[d]) /\ conns[d].phase # "open"
    BY <1>1, <1>2
<1>4. TypeOK /\ agent.server <= Servers
    BY <1>1, <1>2 DEF TypeOK, Free, Proper, JustBegun
<1>5. OneChannel
    BY <1>1, <1>2, <1>3, NoneAssumption DEF OneChannel, Free, Live
<1>6. NewConns /\ CommandsFromServer
    BY <1>1, <1>2, <1>3 DEF NewConns, CommandsFromServer, Unused
<1>7. AuthenticatedHere
    BY <1>1, <1>3 DEF AuthenticatedHere, Unused, Free, JustBegun
<1>8. ToldTruth
    BY <1>1 DEF ToldTruth, Free, BothSides, JustBegun
<1> QED
    BY <1>4, <1>5, <1>6, <1>7, <1>8 DEF ChannelInv

LEMMA ChannelInvInit == Init => ChannelInv
<1> SUFFICES ASSUME Init PROVE JustBegun
    BY JustBegunInv
<1>1. NoConn \in Conn /\ NoConn.phase = "none" /\ Unused(NoConn)
    BY DEF NoConn, Conn, Unused
<1>2. PICK c \in Ids : /\ agent \in Connect(NewAgent, c)
                       /\ conns \in Opened([i \in Ids |-> NoConn], agent, c)
    BY DEF Init
<1>3. Proper(NewAgent) /\ NewAgent.auth = {} /\ NewAgent.channel = None
      /\ NewAgent.state = 0 /\ NewAgent.request = None
    BY ServersAssumption, SettingsAssumption DEF Proper, Agent, NewAgent
<1>4. Free(agent, c)
    BY <1>2, <1>3, ConnectTried DEF Tried, Free
<1>5. [i \in Ids |-> NoConn] \in [Ids -> Conn]
      /\ \A d \in Ids : [i \in Ids |-> NoConn][d].phase = "none" /\ Unused([i \in Ids |-> NoConn][d])
    BY <1>1
<1> QED
    BY <1>2, <1>4, <1>5 DEF JustBegun, Init

-----------------------------------------------------------------------------
(* The steps *)

LEMMA JustBegunNext == JustBegun' => ChannelInv'
BY JustBegunInv, PTL

LEMMA EndingInv ==
    ASSUME ChannelInv, NEW c \in Ids, Live(conns, c), NEW next,
           \A b \in next : Free(b, Fresh(Left(c))), Ending(c, next)
    PROVE  ChannelInv'
<1> USE DEF ChannelInv
<1> DEFINE f == Fresh(Left(c))
           cs == Left(c)
<1>1. NoConn \in Conn /\ NoConn.phase = "none" /\ Unused(NoConn)
    BY DEF NoConn, Conn, Unused
<1>2. cs \in [Ids -> Conn] /\ cs[c] = NoConn /\ \A d \in Ids : d # c => cs[d] = conns[d]
    BY <1>1 DEF TypeOK, Left
<1>3. \A d \in Ids : cs[d].phase = "none" /\ Unused(cs[d])
    <2> TAKE d \in Ids
    <2>1. CASE d = c
        BY <2>1, <1>1, <1>2
    <2>2. CASE d # c
        BY <2>2, <1>2 DEF OneChannel, NewConns, Live
    <2> QED
        BY <2>1, <2>2
<1>4. f \in Ids
    BY <1>3, FreshIsNew DEF Live
<1>5. /\ Free(agent', f)
      /\ conns' \in Opened(cs, agent', f)
      /\ told' = (told /\ agent.auth # BothSides)
      /\ pinged' \in Ids \cup {None}
      /\ trusted' = trusted /\ proven' = proven
    BY DEF Ending, TypeOK
<1>6. told' = FALSE
    BY <1>5 DEF ToldTruth, TypeOK
<1>7. /\ trusted' \in Certs \cup {None} /\ proven' \subseteq Certs
      /\ trusted' # None => trusted' \in proven'
    BY <1>5 DEF TypeOK, AuthenticatedHere
<1> HIDE DEF f, cs
<1> QED
    BY <1>2, <1>3, <1>4, <1>5, <1>6, <1>7, JustBegunNext DEF JustBegun

\* The connections stay as they are.
LEMMA KeptInv ==
    ASSUME ChannelInv, Kept(agent, agent'), conns' = conns,
           pinged' \in Ids \cup {None}, UNCHANGED <<trusted, told, proven>>
    PROVE  ChannelInv'
<1> USE DEF ChannelInv, Kept, Proper
<1>1. TypeOK' /\ (agent.server <= Servers)'
    BY DEF TypeOK
<1>2. OneChannel'
    BY DEF OneChannel, Live
<1>3. NewConns' /\ CommandsFromServer' /\ AuthenticatedHere' /\ ToldTruth'
    BY DEF NewConns, CommandsFromServer, AuthenticatedHere, ToldTruth
<1> QED
    BY <1>1, <1>2, <1>3

LEMMA StartingInv ==
    ASSUME ChannelInv, NEW a, Kept(agent, a),
           Starting(ConnectEx(a, Fresh(conns)))
    PROVE  ChannelInv'
<1> USE DEF ChannelInv
<1> DEFINE f == Fresh(conns)
<1>1. f \in Ids /\ ~Live(conns, f)
    BY IdsAssumption, FreshIsNew DEF OneChannel
<1>2. /\ agent' \in ConnectEx(a, f) /\ conns' \in Opened(conns, agent', f)
      /\ UNCHANGED <<trusted, told, pinged, proven>>
    BY DEF Starting
<1> HIDE DEF f
<1>3. Tried(a, agent', f)
    BY <1>1, <1>2, ConnectExTried DEF Kept
<1>4. CASE agent'.request # f
    <2>1. conns' = conns
        BY <1>2, <1>4 DEF Opened
    <2>2. Kept(agent, agent')
        BY <1>3, <1>4 DEF Kept, Tried
    <2> QED
        BY <1>2, <2>1, <2>2, KeptInv DEF TypeOK
<1>5. CASE agent'.request = f
    <2>1. agent.request # f
        BY <1>1, NoneAssumption DEF OneChannel, Live
    <2>2. agent.state = 0 /\ agent'.state = 1 /\ agent'.auth = agent.auth
          /\ agent'.channel = agent.channel /\ Proper(agent')
        BY <1>3, <1>5, <2>1 DEF Kept, Tried
    <2>3. \A d \in Ids : conns[d].phase = "none" /\ Unused(conns[d])
        BY <2>2 DEF OneChannel, NewConns, Live, TypeOK, Conn
    <2>4. agent.channel = None /\ agent.auth = {}
        BY <2>2, <2>3 DEF OneChannel, AuthenticatedHere, TypeOK, Agent, Unused
    <2>5. Free(agent', f)
        BY <1>5, <2>2, <2>4 DEF Free
    <2>6. told' = FALSE
        BY <1>2, <2>4 DEF ToldTruth, BothSides, TypeOK
    <2>7. /\ trusted' \in Certs \cup {None} /\ pinged' \in Ids \cup {None} /\ proven' \subseteq Certs
          /\ trusted' # None => trusted' \in proven'
        BY <1>2 DEF TypeOK, AuthenticatedHere
    <2> QED
        BY <1>1, <1>2, <2>3, <2>5, <2>6, <2>7, JustBegunNext DEF JustBegun, TypeOK
<1> QED
    BY <1>4, <1>5

\* Connection c, which exists, is the one the step is about.
LEMMA OnlyOne ==
    ASSUME ChannelInv, NEW c \in Ids, Live(conns, c)
    PROVE  /\ \A d \in Ids : d # c => conns[d].phase = "none" /\ Unused(conns[d])
           /\ agent \in Agent /\ agent.server <= Servers
           /\ conns[c] \in Conn /\ conns[c].cert \in Certs
BY DEF ChannelInv, OneChannel, NewConns, Live, TypeOK

LEMMA ProtocolErrorInv ==
    ASSUME ChannelInv, NEW c \in Ids, ProtocolError(c)
    PROVE  ChannelInv'
<1> USE DEF ChannelInv
<1>1. Live(conns, c) /\ conns[c].phase = "connecting" /\ Unused(conns[c]) /\ agent.state = 1
    BY DEF ProtocolError, Live, NewConns, OneChannel
<1>2. /\ \A d \in Ids : d # c => conns[d].phase = "none" /\ Unused(conns[d])
      /\ agent \in Agent /\ agent.server <= Servers
      /\ conns[c] \in Conn /\ conns[c].cert \in Certs
    BY <1>1, OnlyOne
<1>3. agent' = [agent EXCEPT !.request = None] /\ UNCHANGED <<trusted, told, pinged, proven>>
    BY DEF ProtocolError
<1>4. /\ conns' \in [Ids -> Conn]
      /\ \A d \in Ids : d # c => conns'[d] = conns[d]
      /\ conns'[c].phase = "partial" /\ Unused(conns'[c]) /\ conns'[c].cert = conns[c].cert
    BY <1>1 DEF ProtocolError, TypeOK, Conn, Unused
<1>5. /\ agent' \in Agent /\ agent'.server = agent.server
      /\ agent'.state = 1 /\ agent'.request = None /\ agent'.channel = agent.channel
      /\ agent'.auth = agent.auth
    BY <1>1, <1>2, <1>3 DEF Agent
<1>6. TypeOK' /\ (agent.server <= Servers)'
    BY <1>2, <1>3, <1>4, <1>5 DEF TypeOK
<1>7. OneChannel'
    BY <1>1, <1>2, <1>4, <1>5, NoneAssumption DEF OneChannel, Live
<1>8. NewConns' /\ CommandsFromServer'
    BY <1>2, <1>4 DEF NewConns, CommandsFromServer, Unused
<1>9. agent.auth = {} /\ agent'.auth = {}
    BY <1>1, <1>2, <1>5 DEF AuthenticatedHere, Agent, Unused
<1>10. AuthenticatedHere' /\ ToldTruth'
    BY <1>2, <1>3, <1>4, <1>9 DEF AuthenticatedHere, ToldTruth, BothSides, Unused
<1> QED
    BY <1>6, <1>7, <1>8, <1>10

LEMMA SilenceInv ==
    ASSUME ChannelInv, NEW c \in Ids, Silence(c)
    PROVE  ChannelInv'
<1> USE DEF ChannelInv
<1>1. /\ conns' \in [Ids -> Conn]
      /\ \A d \in Ids : /\ conns'[d].phase = conns[d].phase
                        /\ conns'[d].cert = conns[d].cert
                        /\ conns'[d].authentic = conns[d].authentic
                        /\ conns'[d].confirmed = conns[d].confirmed
                        /\ conns'[d].served = conns[d].served
    BY DEF Silence, TypeOK, Conn
<1>2. UNCHANGED <<agent, trusted, told, pinged, proven>>
    BY DEF Silence
<1>3. TypeOK' /\ (agent.server <= Servers)' /\ ToldTruth'
    BY <1>1, <1>2 DEF TypeOK, ToldTruth
<1>4. OneChannel'
    BY <1>1, <1>2 DEF OneChannel, Live
<1>5. NewConns' /\ CommandsFromServer' /\ AuthenticatedHere'
    BY <1>1, <1>2 DEF NewConns, Unused, CommandsFromServer, AuthenticatedHere
<1> QED
    BY <1>3, <1>4, <1>5

LEMMA CommandInv ==
    ASSUME ChannelInv, NEW c \in Ids, Command(c)
    PROVE  ChannelInv'
<1> USE DEF ChannelInv
<1>1. /\ conns' \in [Ids -> Conn]
      /\ \A d \in Ids : /\ conns'[d].phase = conns[d].phase
                        /\ conns'[d].cert = conns[d].cert
                        /\ conns'[d].authentic = conns[d].authentic
                        /\ conns'[d].confirmed = conns[d].confirmed
                        /\ d # c => conns'[d].served = conns[d].served
    <2>1. conns \in [Ids -> Conn] /\ conns' = [conns EXCEPT ![c].served = TRUE]
        BY DEF Command, TypeOK
    <2>2. [conns[c] EXCEPT !.served = TRUE] \in Conn
        BY <2>1 DEF Conn
    <2>3. conns' \in [Ids -> Conn]
        BY <2>1, <2>2
    <2>4. ASSUME NEW d \in Ids
          PROVE  /\ conns'[d].phase = conns[d].phase
                 /\ conns'[d].cert = conns[d].cert
                 /\ conns'[d].authentic = conns[d].authentic
                 /\ conns'[d].confirmed = conns[d].confirmed
                 /\ d # c => conns'[d].served = conns[d].served
        <3>1. CASE d = c
            <4>1. conns'[d] = [conns[c] EXCEPT !.served = TRUE]
                BY <2>1, <3>1
            <4> QED
                BY <2>1, <3>1, <4>1 DEF Conn
        <3>2. CASE d # c
            BY <2>1, <3>2
        <3> QED
            BY <3>1, <3>2
    <2> QED
        BY <2>3, <2>4
<1>2. UNCHANGED <<agent, trusted, told, pinged, proven>> /\ conns[c].phase = "open"
    BY DEF Command
<1>3. conns[c].authentic /\ conns[c].confirmed /\ conns[c].cert \in proven
    <2>1. agent.channel = c /\ agent.auth = BothSides
        BY <1>2 DEF Command, OneChannel
    <2> QED
        BY <2>1 DEF AuthenticatedHere, BothSides
<1>4. TypeOK' /\ (agent.server <= Servers)' /\ ToldTruth'
    BY <1>1, <1>2 DEF TypeOK, ToldTruth
<1>5. OneChannel'
    BY <1>1, <1>2 DEF OneChannel, Live
<1>6. NewConns' /\ AuthenticatedHere'
    BY <1>1, <1>2 DEF NewConns, Unused, AuthenticatedHere
<1>7. CommandsFromServer'
    BY <1>1, <1>2, <1>3 DEF CommandsFromServer
<1> QED
    BY <1>4, <1>5, <1>6, <1>7

\* Established, with None, no authentication and 2 for n, u and s.
SetOpen(a, c, n, u, s) == [a EXCEPT !.request = n, !.channel = c, !.auth = u, !.state = s]

LEMMA SetOpenType ==
    ASSUME NEW a \in Agent, NEW c \in Ids, NEW n \in Ids \cup {None}, NEW s \in 0 .. 2,
           NEW u \in SUBSET {"server", "agent"}, NEW b, b = SetOpen(a, c, n, u, s)
    PROVE  /\ b \in Agent /\ b.server = a.server /\ b.state = s
           /\ b.request = n /\ b.channel = c /\ b.auth = u
BY DEF SetOpen, Agent

SetAsks(b, c) == [b EXCEPT !.agentNonce = c]
SetKnows(b, u, r) == [[b EXCEPT !.auth = u] EXCEPT !.retryTime = r]

LEMMA SetKnowsType ==
    ASSUME NEW b \in Agent, NEW c \in Ids, NEW r \in Nat, NEW u \in SUBSET {"server", "agent"}
    PROVE  /\ SetAsks(b, c) \in Agent /\ SetAsks(b, c).server = b.server
           /\ SetAsks(b, c).state = b.state /\ SetAsks(b, c).request = b.request
           /\ SetAsks(b, c).channel = b.channel /\ SetAsks(b, c).auth = b.auth
           /\ SetKnows(b, u, r) \in Agent /\ SetKnows(b, u, r).server = b.server
           /\ SetKnows(b, u, r).state = b.state /\ SetKnows(b, u, r).request = b.request
           /\ SetKnows(b, u, r).channel = b.channel /\ SetKnows(b, u, r).auth = u
BY DEF Agent, SetAsks, SetKnows

LEMMA EstablishedInv ==
    ASSUME ChannelInv, NEW c \in Ids, Established(c)
    PROVE  ChannelInv'
<1> USE DEF ChannelInv
<1>1. Live(conns, c) /\ conns[c].phase = "connecting" /\ Unused(conns[c])
    BY DEF Established, Live, NewConns
<1>2. /\ \A d \in Ids : d # c => conns[d].phase = "none" /\ Unused(conns[d])
      /\ agent \in Agent /\ agent.server <= Servers
      /\ conns[c] \in Conn /\ conns[c].cert \in Certs
    BY <1>1, OnlyOne
<1> DEFINE open == [agent EXCEPT !.request = None, !.channel = c, !.auth = {}, !.state = 2]
           asks == SetAsks(open, c)
           knows == SetKnows(asks, {"server"}, 0)
<1>3. PICK sent \in BOOLEAN, known \in BOOLEAN :
        /\ known <=> sent /\ conns[c].cert = trusted
        /\ conns' = [conns EXCEPT ![c] = [@ EXCEPT !.phase = "open", !.up = sent,
                                                  !.authentic = known]]
        /\ agent' = IF known THEN knows ELSE IF sent THEN asks ELSE open
    BY Zenon DEF Established, SendAgentInfo, SetAsks, SetKnows
<1>4. UNCHANGED <<trusted, told, pinged, proven>>
    BY DEF Established
<1>5. /\ open \in Agent /\ open.server = agent.server /\ open.state = 2
       /\ open.request = None /\ open.channel = c /\ open.auth = {}
    <2>1. PICK s \in 0 .. 2 : s = 2
        OBVIOUS
    <2>2. PICK u \in SUBSET {"server", "agent"} : u = {}
        OBVIOUS
    <2>3. PICK n \in Ids \cup {None} : n = None
        OBVIOUS
    <2>4. open = SetOpen(agent, c, n, u, s)
        BY <2>1, <2>2, <2>3, Zenon DEF SetOpen
    <2> HIDE DEF open
    <2>5. /\ open \in Agent /\ open.server = agent.server /\ open.state = s
          /\ open.request = n /\ open.channel = c /\ open.auth = u
        BY <1>2, <2>4, SetOpenType
    <2> QED
        BY <2>1, <2>2, <2>3, <2>5, Zenon
<1> HIDE DEF open
<1>6. /\ asks \in Agent /\ asks.server = agent.server /\ asks.state = 2
       /\ asks.request = None /\ asks.channel = c /\ asks.auth = {}
    BY <1>5, SetKnowsType
<1> HIDE DEF asks
<1>7. /\ knows \in Agent /\ knows.server = agent.server /\ knows.state = 2
       /\ knows.request = None /\ knows.channel = c /\ knows.auth = {"server"}
    BY <1>6, SetKnowsType
<1> HIDE DEF knows
<1>8. /\ agent' \in Agent /\ agent'.server = agent.server
      /\ agent'.state = 2 /\ agent'.request = None /\ agent'.channel = c
      /\ agent'.auth = IF known THEN {"server"} ELSE {}
    BY <1>3, <1>5, <1>6, <1>7
<1>9. /\ conns' \in [Ids -> Conn]
      /\ \A d \in Ids : d # c => conns'[d] = conns[d]
      /\ conns'[c].phase = "open" /\ conns'[c].cert = conns[c].cert
      /\ conns'[c].authentic = known /\ ~conns'[c].served
    <2> DEFINE n == [conns[c] EXCEPT !.phase = "open", !.up = sent, !.authentic = known]
    <2>1. n \in Conn /\ n.phase = "open" /\ n.cert = conns[c].cert
          /\ n.authentic = known /\ n.served = conns[c].served
        BY <1>2 DEF Conn
    <2>2. conns' = [conns EXCEPT ![c] = n]
        BY <1>3
    <2> HIDE DEF n
    <2> QED
        BY <1>1, <2>1, <2>2 DEF TypeOK, Unused
<1>10. TypeOK' /\ (agent.server <= Servers)'
    BY <1>2, <1>4, <1>8, <1>9 DEF TypeOK
<1>11. OneChannel'
    BY <1>2, <1>8, <1>9, NoneAssumption DEF OneChannel, Live
<1>12. NewConns' /\ CommandsFromServer'
    BY <1>2, <1>9 DEF NewConns, CommandsFromServer, Unused
<1>13. known => conns[c].cert = trusted /\ trusted \in proven
    BY <1>2, <1>3, NoneAssumption DEF AuthenticatedHere, TypeOK, Conn
<1>14. AuthenticatedHere'
    BY <1>2, <1>4, <1>8, <1>9, <1>13 DEF AuthenticatedHere, Unused
<1>15. ToldTruth'
    BY <1>1, <1>2, <1>4, <1>8 DEF ToldTruth, BothSides, AuthenticatedHere, OneChannel, Unused
<1> QED
    BY <1>10, <1>11, <1>12, <1>14, <1>15

LEMMA AuthInv ==
    ASSUME ChannelInv, NEW c \in Ids, AuthRequest(c) \/ AuthVerify(c) \/ AuthConfirm(c)
    PROVE  ChannelInv'
<1> USE DEF ChannelInv
<1>1. conns[c].phase = "open" /\ Live(conns, c) /\ agent.auth # BothSides
    BY DEF AuthRequest, AuthVerify, AuthConfirm, Answers, Live
<1>2. /\ \A d \in Ids : d # c => conns[d].phase = "none" /\ Unused(conns[d])
      /\ agent \in Agent /\ agent.server <= Servers
      /\ conns[c] \in Conn /\ conns[c].cert \in Certs
      /\ agent.channel = c
    BY <1>1, OnlyOne DEF OneChannel
<1>3. CASE AuthRequest(c)
    <2>1. agent' = [agent EXCEPT !.serverNonce = c]
        BY <1>3 DEF AuthRequest
    <2>2. Kept(agent, agent')
        BY <1>2, <2>1 DEF Kept, Proper, Agent
    <2> QED
        BY <1>3, <2>2, KeptInv DEF AuthRequest, TypeOK
<1>4. CASE AuthVerify(c)
    <2>1. /\ agent' = [[agent EXCEPT !.auth = @ \cup {"server"}] EXCEPT !.retryTime = 0]
          /\ trusted' = conns[c].cert
          /\ proven' = proven \cup {conns[c].cert}
          /\ conns' = [conns EXCEPT ![c].authentic = TRUE]
          /\ told' = (told \/ "agent" \in agent.auth)
          /\ pinged' = pinged
        BY <1>4 DEF AuthVerify, SendAgentInfo
    <2>2. /\ agent' \in Agent /\ agent'.server = agent.server
          /\ agent'.state = agent.state /\ agent'.request = agent.request
          /\ agent'.channel = c
          /\ agent'.auth = agent.auth \cup {"server"}
        BY <1>2, <2>1 DEF Agent
    <2>3. /\ conns' \in [Ids -> Conn]
          /\ \A d \in Ids : d # c => conns'[d] = conns[d]
          /\ conns'[c].phase = "open" /\ conns'[c].cert = conns[c].cert
          /\ conns'[c].authentic
          /\ conns'[c].confirmed = conns[c].confirmed
          /\ conns'[c].served = conns[c].served
        BY <1>1, <2>1 DEF TypeOK, Conn
    <2>5. TypeOK' /\ (agent.server <= Servers)'
        BY <1>2, <2>1, <2>2, <2>3 DEF TypeOK, Conn
    <2>6. OneChannel'
        BY <1>1, <1>2, <2>2, <2>3 DEF OneChannel, Live
    <2>7. NewConns' /\ CommandsFromServer' /\ AuthenticatedHere'
        BY <1>2, <2>1, <2>2, <2>3 DEF NewConns, CommandsFromServer, AuthenticatedHere, Unused
    <2>8. ToldTruth'
        <3>1. ~told
            BY <1>1 DEF ToldTruth
        <3>2. told' <=> "agent" \in agent.auth
            BY <2>1, <3>1, Zenon
        <3>3. agent'.auth = BothSides <=> "agent" \in agent.auth
            BY <1>2, <2>2 DEF BothSides, Agent
        <3> QED
            BY <3>2, <3>3 DEF ToldTruth
    <2> QED
        BY <2>5, <2>6, <2>7, <2>8
<1>5. CASE AuthConfirm(c)
    <2>1. /\ agent' = [agent EXCEPT !.auth = @ \cup {"agent"}]
          /\ conns' = [conns EXCEPT ![c].confirmed = TRUE]
          /\ told' = (told \/ "server" \in agent.auth)
          /\ UNCHANGED <<trusted, pinged, proven>>
        BY <1>5 DEF AuthConfirm
    <2>2. /\ agent' \in Agent /\ agent'.server = agent.server
          /\ agent'.state = agent.state /\ agent'.request = agent.request
          /\ agent'.channel = c
          /\ agent'.auth = agent.auth \cup {"agent"}
        BY <1>2, <2>1 DEF Agent
    <2>3. /\ conns' \in [Ids -> Conn]
          /\ \A d \in Ids : d # c => conns'[d] = conns[d]
          /\ conns'[c].phase = "open" /\ conns'[c].cert = conns[c].cert
          /\ conns'[c].confirmed
          /\ conns'[c].authentic = conns[c].authentic
          /\ conns'[c].served = conns[c].served
        BY <1>1, <2>1 DEF TypeOK, Conn
    <2>4. TypeOK' /\ (agent.server <= Servers)'
        BY <1>2, <2>1, <2>2, <2>3 DEF TypeOK
    <2>5. OneChannel'
        BY <1>1, <1>2, <2>2, <2>3 DEF OneChannel, Live
    <2>6. NewConns' /\ CommandsFromServer' /\ AuthenticatedHere'
        BY <1>2, <2>1, <2>2, <2>3 DEF NewConns, CommandsFromServer, AuthenticatedHere, Unused
    <2>7. ToldTruth'
        <3>1. ~told
            BY <1>1 DEF ToldTruth
        <3>2. told' <=> "server" \in agent.auth
            BY <2>1, <3>1, Zenon
        <3>3. agent'.auth = BothSides <=> "server" \in agent.auth
            BY <1>2, <2>2 DEF BothSides, Agent
        <3> QED
            BY <3>2, <3>3 DEF ToldTruth
    <2> QED
        BY <2>4, <2>5, <2>6, <2>7
<1> QED
    BY <1>3, <1>4, <1>5

\* What follows the end of connection c.
LEMMA FreshAfterLeft ==
    ASSUME ChannelInv, NEW c \in Ids
    PROVE  Fresh(Left(c)) \in Ids
<1>1. Left(c)[c].phase = "none"
    BY DEF ChannelInv, TypeOK, Left, NoConn
<1> QED
    BY <1>1, FreshIsNew DEF Live

\* agentcore.c:3679: telling OnResponse of an end twice is telling it once.
LEMMA AnsweredIsClosed ==
    ASSUME NEW c \in Ids, Answered(c)
    PROVE  Closed(c)
<1>1. OnResponseComplete(OnResponseComplete(agent)) = OnResponseComplete(agent)
    BY DEF OnResponseComplete
<1>2. OnResponseEnded(OnResponseComplete(agent), Fresh(Left(c))) = OnResponseEnded(agent, Fresh(Left(c)))
    BY <1>1 DEF OnResponseEnded
<1> QED
    BY <1>2 DEF Answered, Closed, Live

LEMMA ChannelInvNext == ChannelInv /\ [Next]_vars => ChannelInv'
<1> SUFFICES ASSUME ChannelInv, [Next]_vars PROVE ChannelInv'
    OBVIOUS
<1>1. Proper(agent) /\ Kept(agent, agent)
    BY DEF ChannelInv, TypeOK, Proper, Kept
<1>2. ASSUME NEW c \in Ids, Closed(c) PROVE ChannelInv'
    BY <1>1, <1>2, FreshAfterLeft, OnResponseEndedFree, EndingInv DEF Closed
<1>3. CASE \E c \in Ids : Pong(c) \/ IdleTimeout(c)
    <2>1. PICK c \in Ids : Pong(c) \/ IdleTimeout(c)
        BY <1>3
    <2>2. Kept(agent, agent')
        BY <1>1, <2>1, SetFlag DEF Pong, IdleTimeout
    <2>3. conns' = conns /\ pinged' \in Ids \cup {None} /\ UNCHANGED <<trusted, told, proven>>
        BY <2>1 DEF Pong, IdleTimeout
    <2> QED
        BY <2>2, <2>3, KeptInv
<1>4. CASE NetworkError
    <2> DEFINE c == agent.request
    <2>1. c \in Ids /\ Ending(c, NetworkErrorAfter(agent, Fresh(Left(c))))
        BY <1>1, <1>4 DEF NetworkError, Proper, Agent
    <2>2. Live(conns, c)
        BY <2>1 DEF ChannelInv, OneChannel, Live
    <2> HIDE DEF c
    <2>3. \A b \in NetworkErrorAfter(agent, Fresh(Left(c))) : Free(b, Fresh(Left(c)))
        BY <1>1, <2>1, FreshAfterLeft, NetworkErrorFree
    <2> QED
        BY <2>1, <2>2, <2>3, EndingInv
<1>5. CASE RetryTimeout
    <2> DEFINE a == [agent EXCEPT !.retryTimer = FALSE]
    <2>1. Kept(agent, a) /\ Starting(ConnectEx(a, Fresh(conns)))
        BY <1>1, <1>5, SetFlag DEF RetryTimeout
    <2> HIDE DEF a
    <2> QED
        BY <2>1, StartingInv
<1>6. CASE Disconnect \/ (PongTimeout /\ agent.channel # None)
    <2> DEFINE c == agent.channel
    <2>1. PICK a : /\ Proper(a)
                   /\ Ending(c, OnResponseEnded(a, Fresh(Left(c))))
        <3>1. CASE Disconnect
            BY <1>1, <3>1 DEF Disconnect
        <3>2. CASE PongTimeout /\ agent.channel # None
            BY <1>1, <3>2, SetFlag DEF PongTimeout, Kept
        <3> QED
            BY <1>6, <3>1, <3>2
    <2>2. c \in Ids
        BY <1>1, <1>6 DEF Disconnect, Proper, Agent
    <2>3. Live(conns, c)
        BY <2>2 DEF ChannelInv, OneChannel, Live
    <2> HIDE DEF c
    <2>4. \A b \in OnResponseEnded(a, Fresh(Left(c))) : Free(b, Fresh(Left(c)))
        BY <2>1, <2>2, FreshAfterLeft, OnResponseEndedFree
    <2> QED
        BY <2>1, <2>2, <2>3, <2>4, EndingInv
<1>7. CASE PongTimeout /\ agent.channel = None
    <2>1. agent' = [agent EXCEPT !.pongTimer = FALSE] /\ UNCHANGED <<conns, trusted, told, pinged, proven>>
        BY <1>7 DEF PongTimeout
    <2> QED
        BY <1>1, <2>1, SetFlag, KeptInv DEF ChannelInv, TypeOK
<1>8. CASE Discovered
    <2> DEFINE a == [agent EXCEPT !.url = TRUE]
    <2>1. Kept(agent, a) /\ Starting(ConnectEx(a, Fresh(conns)))
        BY <1>1, <1>8, SetFlag DEF Discovered
    <2> HIDE DEF a
    <2> QED
        BY <2>1, StartingInv
<1>9. CASE AddressChanged
    <2>1. /\ agent' = [agent EXCEPT !.retryTime = Restart, !.retryTimer = TRUE]
          /\ UNCHANGED <<conns, trusted, told, pinged, proven>>
        BY <1>9 DEF AddressChanged
    <2> QED
        BY <1>1, <2>1, DelaysAssumption, SetRetry, KeptInv DEF ChannelInv, TypeOK
<1>10. CASE HelperAnswers
    <2>1. PICK found \in BOOLEAN :
            Starting(ConnectEx([agent EXCEPT !.asked = @ - 1, !.auto = TRUE,
                                             !.webProxy = @ \/ found], Fresh(conns)))
        BY <1>10 DEF HelperAnswers
    <2>2. PICK n \in 0 .. MaxAsked : n = agent.asked - 1
        BY <1>1, <1>10, SettingsAssumption DEF HelperAnswers, Proper, Agent
    <2>3. PICK w \in BOOLEAN : w = (agent.webProxy \/ found)
        BY <1>1
    <2> DEFINE a == [agent EXCEPT !.asked = n, !.auto = TRUE, !.webProxy = w]
    <2>4. Starting(ConnectEx(a, Fresh(conns)))
        BY <2>1, <2>2, <2>3, Zenon
    <2>5. Kept(agent, a)
        BY <1>1, SetAsked
    <2> HIDE DEF a
    <2> QED
        BY <2>4, <2>5, StartingInv
<1>11. CASE Stop
    <2>1. agent' = [agent EXCEPT !.stopping = TRUE] /\ UNCHANGED <<conns, trusted, told, pinged, proven>>
        BY <1>11 DEF Stop
    <2> QED
        BY <1>1, <2>1, SetFlag, KeptInv DEF ChannelInv, TypeOK
<1>12. CASE UNCHANGED vars
    BY <1>1, <1>12, KeptInv DEF vars, ChannelInv, TypeOK
<1> QED
    BY <1>2, <1>3, <1>4, <1>5, <1>6, <1>7, <1>8, <1>9, <1>10, <1>11, <1>12,
       AnsweredIsClosed, ProtocolErrorInv, SilenceInv, EstablishedInv, AuthInv,
       CommandInv DEF Next

\* The invariant the following theorems are parts of; see ChannelInv.
THEOREM ChannelInvAlways == Spec => []ChannelInv
BY ChannelInvInit, ChannelInvNext, PTL DEF Spec

\* The state of the agent and of its connections keeps its types.
THEOREM TypeOKAlways == Spec => []TypeOK
<1>1. ChannelInv => TypeOK
    BY DEF ChannelInv
<1> QED
    BY <1>1, ChannelInvAlways, PTL

\* meshcore/agentcore.c:3784, 4343: with any number of servers, proxies and
\* timers, and whatever closes a connection or fails to, there are never two, and
\* serverConnectionState, controlChannel and controlChannelRequest are right
\* about the one there is.
THEOREM OneChannelAlways == Spec => []OneChannel
<1>1. ChannelInv => OneChannel
    BY DEF ChannelInv
<1> QED
    BY <1>1, ChannelInvAlways, PTL

\* meshcore/agentcore.c:3624: neither authentication bit is ever one that was
\* earned on another connection, for any number of connections and certificates.
THEOREM AuthenticatedHereAlways == Spec => []AuthenticatedHere
<1>1. ChannelInv => AuthenticatedHere
    BY DEF ChannelInv
<1> QED
    BY <1>1, ChannelInvAlways, PTL

\* meshcore/agentcore.c:2873-3042: no command is carried out for a server that
\* was not found authentic, or did not confirm the agent, on that connection.
THEOREM CommandsFromServerAlways == Spec => []CommandsFromServer
<1>1. ChannelInv => CommandsFromServer
    BY DEF ChannelInv
<1> QED
    BY <1>1, ChannelInvAlways, PTL

\* meshcore/agentcore.c:3624: the core module is told of each channel that
\* becomes usable and of its end, whatever ends it.
THEOREM ToldTruthAlways == Spec => []ToldTruth
<1>1. ChannelInv => ToldTruth
    BY DEF ChannelInv
<1> QED
    BY <1>1, ChannelInvAlways, PTL
-----------------------------------------------------------------------------
(* An agent without a connection tries again *)

\* NeverIdle, of any state of the agent.
Stirring(b) ==
    b.state = 0 =>
        b.retryTimer \/ b.asked > 0 \/ b.stopping \/ Entry(b.server) > ServerIds

LEMMA ArmRetryStirs ==
    ASSUME NEW a, Proper(a), NEW b \in ArmRetry(a)
    PROVE  Stirring(b)
<1>1. PICK d : b = [a EXCEPT !.retryTime = d, !.retryTimer = TRUE]
    BY DEF ArmRetry
<1>2. b.retryTimer
    BY <1>1 DEF Proper, Agent
<1> QED
    BY <1>2 DEF Stirring

LEMMA RequestStirs ==
    ASSUME NEW a, Proper(a), NEW c \in Ids, NEW b \in Request(a, c)
    PROVE  Stirring(b)
<1>1. PICK s \in 0 .. 2 : s = 1
    OBVIOUS
<1>2. b.state = s
    <2>1. CASE a.useproxy
        <3>1. PICK f \in BOOLEAN, g \in BOOLEAN :
                b = [a EXCEPT !.state = 1, !.request = c, !.proxy = f, !.proxyFailed = g]
            BY <2>1 DEF Request
        <3>2. Requested(a, b, s, c)
            BY <1>1, <3>1, SetRequest, Zenon
        <3> QED
            BY <3>2 DEF Requested
    <2>2. CASE ~a.useproxy
        <3>1. b = [a EXCEPT !.state = 1, !.request = c]
            BY <2>2 DEF Request
        <3>2. Requested(a, b, s, c)
            BY <1>1, <3>1, SetRequest, Zenon
        <3> QED
            BY <3>2 DEF Requested
    <2> QED
        BY <2>1, <2>2
<1> QED
    BY <1>1, <1>2 DEF Stirring

\* The server of an attempt stays the one that was chosen.
LEMMA ChooseProxyServer ==
    ASSUME NEW a, Proper(a), NEW s
    PROVE  /\ ChooseProxy(a).server = a.server
           /\ [ChooseProxy(a) EXCEPT !.addresses = s].server = a.server
<1> DEFINE p == ChooseProxy(a)
<1>1. p.server = a.server
    BY DEF ChooseProxy, Proper, Agent
<1>2. Proper(p)
    BY ChooseProxyKept DEF Kept
<1> HIDE DEF p
<1>3. [p EXCEPT !.addresses = s].server = p.server
    BY <1>2 DEF Proper, Agent
<1> QED
    BY <1>1, <1>3 DEF p

LEMMA AttemptStirs ==
    ASSUME NEW a, Proper(a), NEW c \in Ids, NEW b \in Attempt(a, c)
    PROVE  Stirring(b)
<1> DEFINE s == Entry(a.server)
           p == ChooseProxy(a)
           known == p.addresses \cup {s}
           resolved == [p EXCEPT !.addresses = known]
<1>1. \/ s > ServerIds /\ b \in {p, resolved}
      \/ b \in Request(p, c) \/ b \in Request(resolved, c)
      \/ b \in ArmRetry(a) \/ b \in ArmRetry(p)
    BY DEF Attempt
<1>2. Proper(p) /\ Proper(resolved)
    <2>1. Proper(p)
        BY ChooseProxyKept DEF Kept
    <2>2. Servers \in Nat \ {0} /\ a.server \in Int
        BY ServersAssumption DEF Proper, Agent
    <2>3. s \in 1 .. Servers
        BY <2>2 DEF Entry, Proper
    <2>4. known \in SUBSET (1 .. Servers)
        BY <2>1, <2>3 DEF Proper, Agent
    <2> HIDE DEF p, s, known
    <2> QED
        BY <2>1, <2>4, SetAddresses DEF Kept
<1>3. p.server = a.server /\ resolved.server = a.server
    BY ChooseProxyServer
<1> HIDE DEF p, resolved
<1>4. s > ServerIds /\ b \in {p, resolved} => Stirring(b)
    BY <1>3 DEF Stirring
<1> HIDE DEF s
<1> QED
    BY <1>1, <1>2, <1>4, RequestStirs, ArmRetryStirs

\* Whatever way MeshServer_ConnectEx takes.
LEMMA ConnectExStirs ==
    ASSUME NEW a, Proper(a), NEW c \in Ids, NEW b \in ConnectEx(a, c)
    PROVE  Stirring(b)
<1>1. CASE a.state # 0 \/ a.stopping
    BY <1>1 DEF ConnectEx, Stirring
<1>2. CASE b = [a EXCEPT !.asked = IF @ = MaxAsked THEN @ ELSE @ + 1]
    <2>1. PICK n \in 0 .. MaxAsked : /\ n = IF a.asked = MaxAsked THEN a.asked ELSE a.asked + 1
                                     /\ n > 0
        BY SettingsAssumption DEF Proper, Agent
    <2>2. b.asked = n
        BY <1>2, <2>1 DEF Proper, Agent
    <2> QED
        BY <2>1, <2>2 DEF Stirring
<1>3. CASE \E d \in ChooseServer(a) : b \in Attempt(d, c)
    BY <1>3, ChooseServerKept, AttemptStirs DEF Kept
<1> QED
    BY <1>1, <1>2, <1>3 DEF ConnectEx

LEMMA ConnectStirs ==
    ASSUME NEW a, Proper(a), NEW c \in Ids, NEW b \in Connect(a, c)
    PROVE  Stirring(b)
<1>1. CASE a.state # 0
    BY <1>1 DEF Connect, Stirring
<1>2. CASE a.state = 0 /\ a.retryTime = 0
    <2>1. PICK r \in FirstDelays : b \in ConnectEx([a EXCEPT !.retryTime = r], c)
        BY <1>2 DEF Connect
    <2> DEFINE d == [a EXCEPT !.retryTime = r]
    <2>2. Proper(d)
        BY DelaysAssumption DEF Proper, Agent
    <2> HIDE DEF d
    <2> QED
        BY <2>1, <2>2, ConnectExStirs DEF d
<1>3. CASE a.state = 0 /\ a.retryTime # 0
    BY <1>3, ArmRetryStirs DEF Connect
<1> QED
    BY <1>1, <1>2, <1>3

\* MeshServer_OnResponse starts over when a connection has ended, or the chain stops.
LEMMA OnResponseCompleteFree ==
    ASSUME NEW a, Proper(a)
    PROVE  /\ Proper(OnResponseComplete(a))
           /\ OnResponseComplete(a).request = None
           /\ OnResponseComplete(a).stopping = a.stopping
<1> DEFINE e == OnResponseComplete(a)
<1>1. PICK s \in 0 .. 2 : s = 0
    OBVIOUS
<1>2. PICK u \in SUBSET {"server", "agent"} : u = {}
    OBVIOUS
<1>3. PICK n \in Ids \cup {None} : n = None
    OBVIOUS
<1>4. e = [a EXCEPT !.request = n, !.auth = u, !.channel = n, !.state = s,
                    !.agentNonce = n, !.serverNonce = n]
    BY <1>1, <1>2, <1>3, Zenon DEF OnResponseComplete
<1> HIDE DEF e
<1>5. Reset(e, s, u, n)
    BY <1>4, SetEnded, Zenon
<1>6. e.stopping = a.stopping
    BY <1>4 DEF Proper, Agent
<1>7. Proper(e) /\ e.request = None
    BY <1>3, <1>5 DEF Reset
<1> QED
    BY <1>6, <1>7 DEF e

LEMMA OnResponseEndedStirs ==
    ASSUME NEW a, Proper(a), NEW c \in Ids, NEW b \in OnResponseEnded(a, c)
    PROVE  Stirring(b)
<1> DEFINE e == OnResponseComplete(a)
           d == [e EXCEPT !.auto = FALSE, !.url = FALSE]
<1>1. Proper(e)
    BY OnResponseCompleteFree
<1>2. (e.stopping /\ b = e) \/ b \in Connect(d, c)
    BY DEF OnResponseEnded
<1> HIDE DEF e
<1>3. Proper(d)
    BY <1>1, SetFlag DEF Kept
<1> HIDE DEF d
<1>4. e.stopping /\ b = e => Stirring(b)
    BY DEF Stirring
<1> QED
    BY <1>2, <1>3, <1>4, ConnectStirs

LEMMA NetworkErrorStirs ==
    ASSUME NEW a, Proper(a), NEW c \in Ids, NEW b \in NetworkErrorAfter(a, c)
    PROVE  Stirring(b)
<1> DEFINE z == [a EXCEPT !.state = 0]
<1>1. PICK d \in OnResponseEnded(z, c) : b \in ConnectEx(d, c)
    BY DEF NetworkErrorAfter
<1>2. Proper(z)
    <2>1. PICK s \in 0 .. 2 : s = 0
        OBVIOUS
    <2>2. Proper([a EXCEPT !.state = s])
        BY DEF Proper, Agent
    <2> QED
        BY <2>1, <2>2, Zenon
<1> HIDE DEF z
<1> QED
    BY <1>1, <1>2, OnResponseEndedFree, ConnectExStirs DEF Free

\* The inductive form of NeverIdle.
StirringInv == ChannelInv /\ Stirring(agent)

\* A step that leaves the server, and what would start an attempt, alone.
LEMMA StirringKept ==
    ASSUME Stirring(agent), agent'.state = agent.state, agent'.server = agent.server,
           agent'.retryTimer = agent.retryTimer, agent'.asked = agent.asked,
           agent'.stopping = agent.stopping
    PROVE  Stirring(agent')
BY DEF Stirring

LEMMA StirringInit == Init => Stirring(agent)
<1> SUFFICES ASSUME Init PROVE Stirring(agent)
    OBVIOUS
<1>1. PICK c \in Ids : agent \in Connect(NewAgent, c)
    BY DEF Init
<1>2. Proper(NewAgent)
    BY ServersAssumption, SettingsAssumption DEF Proper, Agent, NewAgent
<1> QED
    BY <1>1, <1>2, ConnectStirs

LEMMA StirringNext == StirringInv /\ [Next]_vars => Stirring(agent')
<1> SUFFICES ASSUME StirringInv, [Next]_vars PROVE Stirring(agent')
    OBVIOUS
<1>1. ChannelInv /\ Stirring(agent) /\ Proper(agent) /\ agent \in Agent
    BY DEF StirringInv, ChannelInv, TypeOK, Proper
<1>2. Fresh(conns) \in Ids
    BY <1>1, IdsAssumption, FreshIsNew DEF ChannelInv, OneChannel
<1>3. ASSUME NEW a, Proper(a), Starting(ConnectEx(a, Fresh(conns))) PROVE Stirring(agent')
    BY <1>2, <1>3, ConnectExStirs DEF Starting
<1>4. ASSUME NEW a, Proper(a), NEW c \in Ids, Ending(c, OnResponseEnded(a, Fresh(Left(c))))
      PROVE  Stirring(agent')
    BY <1>1, <1>4, FreshAfterLeft, OnResponseEndedStirs DEF Ending
<1>5. ASSUME NEW c \in Ids, Closed(c) PROVE Stirring(agent')
    BY <1>1, <1>4, <1>5 DEF Closed
<1>6. ASSUME NEW c \in Ids, ProtocolError(c) \/ Silence(c) \/ Command(c) PROVE Stirring(agent')
    <2>1. agent' = agent \/ agent' = [agent EXCEPT !.request = None]
        BY <1>6 DEF ProtocolError, Silence, Command
    <2> QED
        BY <1>1, <2>1, StirringKept DEF Agent
<1>7. ASSUME NEW c \in Ids, Established(c) PROVE Stirring(agent')
    <2>1. conns'[c].phase = "open"
        BY <1>1, <1>7 DEF Established, ChannelInv, TypeOK, Conn
    <2>2. OneChannel'
        BY <1>1, <1>7, EstablishedInv DEF ChannelInv
    <2>3. agent'.state = 2
        BY <2>1, <2>2 DEF OneChannel, Live
    <2> QED
        BY <2>3 DEF Stirring
<1>8. ASSUME NEW c \in Ids, AuthRequest(c) \/ AuthVerify(c) \/ AuthConfirm(c) PROVE Stirring(agent')
    <2>1. \/ agent' = [agent EXCEPT !.serverNonce = c]
          \/ agent' = [[agent EXCEPT !.auth = @ \cup {"server"}] EXCEPT !.retryTime = 0]
          \/ agent' = [agent EXCEPT !.auth = @ \cup {"agent"}]
        BY <1>8 DEF AuthRequest, AuthVerify, AuthConfirm, SendAgentInfo
    <2> QED
        BY <1>1, <2>1, StirringKept DEF Agent
<1>9. ASSUME NEW c \in Ids, IdleTimeout(c) \/ Pong(c) PROVE Stirring(agent')
    <2>1. PICK t \in BOOLEAN : agent' = [agent EXCEPT !.pongTimer = t]
        BY <1>9 DEF IdleTimeout, Pong
    <2> QED
        BY <1>1, <2>1, StirringKept DEF Agent
<1>10. CASE NetworkError
    <2>1. PICK c \in Ids : Ending(c, NetworkErrorAfter(agent, Fresh(Left(c))))
        BY <1>1, <1>10 DEF NetworkError, Agent
    <2> QED
        BY <1>1, <2>1, FreshAfterLeft, NetworkErrorStirs DEF Ending
<1>11. CASE RetryTimeout
    <2> DEFINE a == [agent EXCEPT !.retryTimer = FALSE]
    <2>1. Proper(a)
        BY <1>1, SetFlag DEF Kept
    <2>2. Starting(ConnectEx(a, Fresh(conns)))
        BY <1>11 DEF RetryTimeout
    <2> HIDE DEF a
    <2> QED
        BY <1>3, <2>1, <2>2
<1>12. CASE Disconnect
    <2>1. PICK c \in Ids : Ending(c, OnResponseEnded(agent, Fresh(Left(c))))
        BY <1>1, <1>12 DEF Disconnect, Agent
    <2> QED
        BY <1>1, <1>4, <2>1
<1>13. CASE PongTimeout
    <2> DEFINE a == [agent EXCEPT !.pongTimer = FALSE]
    <2>1. Proper(a)
        BY <1>1, SetFlag DEF Kept
    <2>2. CASE agent.channel # None
        <3>1. PICK c \in Ids : Ending(c, OnResponseEnded(a, Fresh(Left(c))))
            BY <1>1, <1>13, <2>2 DEF PongTimeout, Agent
        <3> HIDE DEF a
        <3> QED
            BY <1>4, <2>1, <3>1
    <2>3. CASE agent.channel = None
        <3>1. agent' = a
            BY <1>13, <2>3 DEF PongTimeout
        <3> QED
            BY <1>1, <3>1, StirringKept DEF Agent
    <2> QED
        BY <2>2, <2>3
<1>14. CASE Discovered
    <2> DEFINE a == [agent EXCEPT !.url = TRUE]
    <2>1. Proper(a)
        BY <1>1, SetFlag DEF Kept
    <2>2. Starting(ConnectEx(a, Fresh(conns)))
        BY <1>14 DEF Discovered
    <2> HIDE DEF a
    <2> QED
        BY <1>3, <2>1, <2>2
<1>15. CASE AddressChanged
    <2>1. agent'.retryTimer
        BY <1>1, <1>15 DEF AddressChanged, Agent
    <2> QED
        BY <2>1 DEF Stirring
<1>16. CASE HelperAnswers
    <2>1. PICK found \in BOOLEAN :
            Starting(ConnectEx([agent EXCEPT !.asked = @ - 1, !.auto = TRUE,
                                             !.webProxy = @ \/ found], Fresh(conns)))
        BY <1>16 DEF HelperAnswers
    <2>2. PICK n \in 0 .. MaxAsked : n = agent.asked - 1
        BY <1>1, <1>16, SettingsAssumption DEF HelperAnswers, Agent
    <2>3. PICK w \in BOOLEAN : w = (agent.webProxy \/ found)
        BY <1>1
    <2> DEFINE a == [agent EXCEPT !.asked = n, !.auto = TRUE, !.webProxy = w]
    <2>4. Starting(ConnectEx(a, Fresh(conns)))
        BY <2>1, <2>2, <2>3, Zenon
    <2>5. Proper(a)
        BY <1>1, SetAsked DEF Kept
    <2> HIDE DEF a
    <2> QED
        BY <1>3, <2>4, <2>5
<1>17. CASE Stop
    <2>1. agent'.stopping
        BY <1>1, <1>17 DEF Stop, Agent
    <2> QED
        BY <2>1 DEF Stirring
<1>18. CASE UNCHANGED vars
    BY <1>1, <1>18, StirringKept DEF vars
<1> QED
    BY <1>5, <1>6, <1>7, <1>8, <1>9, <1>10, <1>11, <1>12, <1>13, <1>14, <1>15,
       <1>16, <1>17, <1>18, AnsweredIsClosed DEF Next

\* meshcore/agentcore.c:3830-4346: each of the returns of MeshServer_ConnectEx
\* and each way a connection ends leaves something that starts the next attempt,
\* for any number of servers, any settings and any order of the events.
THEOREM NeverIdleAlways == Spec => []NeverIdle
<1>1. Init => StirringInv
    BY ChannelInvInit, StirringInit DEF StirringInv
<1>2. StirringInv /\ [Next]_vars => StirringInv'
    BY ChannelInvNext, StirringNext DEF StirringInv, Stirring
<1>3. StirringInv => NeverIdle
    BY DEF StirringInv, Stirring, NeverIdle, Misconfigured
<1> QED
    BY <1>1, <1>2, <1>3, PTL DEF Spec

-----------------------------------------------------------------------------
(* No attempt once the chain is being destroyed *)

\* The connections that are live after the step were before it.
NoneBegun == \A c \in Ids : Live(conns', c) => Live(conns, c)

\* Both ways to MeshServer_ConnectEx return at once.
LEMMA StoppingConnectEx ==
    ASSUME NEW a, Proper(a), a.stopping, NEW c, NEW b \in ConnectEx(a, c)
    PROVE  b = a
BY DEF ConnectEx

LEMMA StoppingEnded ==
    ASSUME NEW a, Proper(a), a.stopping, NEW c, NEW b \in OnResponseEnded(a, c)
    PROVE  Proper(b) /\ b.request = None /\ b.stopping
<1> DEFINE e == OnResponseComplete(a)
<1>1. Proper(e) /\ e.request = None /\ e.stopping
    BY OnResponseCompleteFree
<1>2. b = IF e.stopping THEN e ELSE b
    BY DEF OnResponseEnded
<1> HIDE DEF e
<1> QED
    BY <1>1, <1>2

LEMMA StoppingNetworkError ==
    ASSUME NEW a, Proper(a), a.stopping, NEW c, NEW b \in NetworkErrorAfter(a, c)
    PROVE  b.request = None
<1> DEFINE z == [a EXCEPT !.state = 0]
<1>1. PICK d \in OnResponseEnded(z, c) : b \in ConnectEx(d, c)
    BY DEF NetworkErrorAfter
<1>2. Proper(z) /\ z.stopping
    <2>1. PICK s \in 0 .. 2 : s = 0
        OBVIOUS
    <2>2. Proper([a EXCEPT !.state = s]) /\ [a EXCEPT !.state = s].stopping
        BY DEF Proper, Agent
    <2> QED
        BY <2>1, <2>2, Zenon
<1> HIDE DEF z
<1>3. Proper(d) /\ d.request = None /\ d.stopping
    BY <1>1, <1>2, StoppingEnded
<1> QED
    BY <1>1, <1>3, StoppingConnectEx

LEMMA StoppingNext ==
    ASSUME ChannelInv, Next, agent.stopping
    PROVE  NoneBegun
<1>1. Proper(agent) /\ agent \in Agent /\ conns \in [Ids -> Conn]
    BY DEF ChannelInv, TypeOK, Proper
<1>2. ASSUME conns' = conns PROVE NoneBegun
    BY <1>2 DEF NoneBegun
<1>3. ASSUME NEW a, Proper(a), a.stopping, a.request = agent.request,
             Starting(ConnectEx(a, Fresh(conns)))
      PROVE  NoneBegun
    <2> DEFINE f == Fresh(conns)
    <2>1. f \in Ids /\ ~Live(conns, f)
        BY IdsAssumption, FreshIsNew DEF ChannelInv, OneChannel
    <2>2. agent.request # f
        BY <2>1 DEF ChannelInv, OneChannel, Live
    <2>3. agent' \in ConnectEx(a, f) /\ conns' \in Opened(conns, agent', f)
        BY <1>3 DEF Starting
    <2> HIDE DEF f
    <2>4. agent' = a
        BY <1>3, <2>3, StoppingConnectEx
    <2> QED
        BY <1>2, <1>3, <2>2, <2>3, <2>4 DEF Opened
<1>4. ASSUME NEW c \in Ids, NEW next, \A b \in next : b.request = None, Ending(c, next)
      PROVE  NoneBegun
    <2> DEFINE f == Fresh(Left(c))
    <2>1. f \in Ids
        BY FreshAfterLeft
    <2>2. agent'.request = None /\ conns' \in Opened(Left(c), agent', f)
        BY <1>4 DEF Ending
    <2> HIDE DEF f
    <2>3. conns' = Left(c)
        BY <2>1, <2>2, NoneAssumption DEF Opened
    <2>4. ~Live(Left(c), c) /\ \A d \in Ids : d # c => Left(c)[d] = conns[d]
        BY <1>1 DEF Left, Live, NoConn
    <2> QED
        BY <2>3, <2>4 DEF NoneBegun, Live
<1>5. ASSUME NEW a, Proper(a), a.stopping, NEW c \in Ids,
             Ending(c, OnResponseEnded(a, Fresh(Left(c))))
      PROVE  NoneBegun
    <2>1. \A b \in OnResponseEnded(a, Fresh(Left(c))) : b.request = None
        BY <1>5, StoppingEnded
    <2> QED
        BY <1>4, <1>5, <2>1
<1>6. ASSUME NEW c \in Ids, Closed(c) PROVE NoneBegun
    BY <1>1, <1>5, <1>6 DEF Closed
<1>7. ASSUME NEW c \in Ids,
             \/ ProtocolError(c) \/ Silence(c) \/ Established(c)
             \/ AuthVerify(c) \/ AuthConfirm(c) \/ Command(c)
      PROVE  NoneBegun
    <2>1. Live(conns, c)
        BY <1>7 DEF ProtocolError, Silence, Established, AuthVerify, AuthConfirm,
                    Answers, Command, Live
    <2>2. \A d \in Ids : d # c => conns'[d] = conns[d]
        BY <1>1, <1>7 DEF ProtocolError, Silence, Established, AuthVerify, AuthConfirm, Command
    <2> QED
        BY <2>1, <2>2 DEF NoneBegun, Live
<1>8. ASSUME NEW c \in Ids, AuthRequest(c) \/ IdleTimeout(c) \/ Pong(c) PROVE NoneBegun
    BY <1>2, <1>8 DEF AuthRequest, IdleTimeout, Pong
<1>9. CASE NetworkError
    <2>1. PICK c \in Ids : Ending(c, NetworkErrorAfter(agent, Fresh(Left(c))))
        BY <1>1, <1>9 DEF NetworkError, Agent
    <2>2. \A b \in NetworkErrorAfter(agent, Fresh(Left(c))) : b.request = None
        BY <1>1, StoppingNetworkError
    <2> QED
        BY <1>4, <2>1, <2>2
<1>10. CASE RetryTimeout
    <2> DEFINE a == [agent EXCEPT !.retryTimer = FALSE]
    <2>1. Proper(a) /\ a.request = agent.request /\ a.stopping
        BY <1>1, SetFlag DEF Kept, Agent
    <2>2. Starting(ConnectEx(a, Fresh(conns)))
        BY <1>10 DEF RetryTimeout
    <2> HIDE DEF a
    <2> QED
        BY <1>3, <2>1, <2>2
<1>11. CASE Disconnect
    <2>1. PICK c \in Ids : Ending(c, OnResponseEnded(agent, Fresh(Left(c))))
        BY <1>1, <1>11 DEF Disconnect, Agent
    <2> QED
        BY <1>1, <1>5, <2>1
<1>12. CASE PongTimeout
    <2> DEFINE a == [agent EXCEPT !.pongTimer = FALSE]
    <2>1. Proper(a) /\ a.stopping
        BY <1>1, SetFlag DEF Kept, Agent
    <2>2. CASE agent.channel # None
        <3>1. PICK c \in Ids : Ending(c, OnResponseEnded(a, Fresh(Left(c))))
            BY <1>1, <1>12, <2>2 DEF PongTimeout, Agent
        <3> HIDE DEF a
        <3> QED
            BY <1>5, <2>1, <3>1
    <2>3. CASE agent.channel = None
        BY <1>2, <1>12, <2>3 DEF PongTimeout
    <2> QED
        BY <2>2, <2>3
<1>13. CASE Discovered
    <2> DEFINE a == [agent EXCEPT !.url = TRUE]
    <2>1. Proper(a) /\ a.request = agent.request /\ a.stopping
        BY <1>1, SetFlag DEF Kept, Agent
    <2>2. Starting(ConnectEx(a, Fresh(conns)))
        BY <1>13 DEF Discovered
    <2> HIDE DEF a
    <2> QED
        BY <1>3, <2>1, <2>2
<1>14. CASE AddressChanged \/ Stop
    BY <1>2, <1>14 DEF AddressChanged, Stop
<1>15. CASE HelperAnswers
    <2>1. PICK found \in BOOLEAN :
            Starting(ConnectEx([agent EXCEPT !.asked = @ - 1, !.auto = TRUE,
                                             !.webProxy = @ \/ found], Fresh(conns)))
        BY <1>15 DEF HelperAnswers
    <2>2. PICK n \in 0 .. MaxAsked : n = agent.asked - 1
        BY <1>1, <1>15, SettingsAssumption DEF HelperAnswers, Agent
    <2>3. PICK w \in BOOLEAN : w = (agent.webProxy \/ found)
        BY <1>1
    <2> DEFINE a == [agent EXCEPT !.asked = n, !.auto = TRUE, !.webProxy = w]
    <2>4. Starting(ConnectEx(a, Fresh(conns)))
        BY <2>1, <2>2, <2>3, Zenon
    <2>5. Proper(a) /\ a.request = agent.request /\ a.stopping
        BY <1>1, SetAsked DEF Kept, Agent
    <2> HIDE DEF a
    <2> QED
        BY <1>3, <2>4, <2>5
<1> QED
    BY <1>6, <1>7, <1>8, <1>9, <1>10, <1>11, <1>12, <1>13, <1>14, <1>15,
       AnsweredIsClosed DEF Next

\* meshcore/agentcore.c:3733-3883: the callbacks, timers and connections that
\* outlive ILibStopChain start no new attempt, in whatever order they come.
THEOREM StopsForGoodAlways == Spec => StopsForGood
<1>1. ChannelInv /\ [Next]_vars =>
        [agent.stopping => \A c \in Ids : Live(conns, c)' => Live(conns, c)]_vars
    BY StoppingNext DEF NoneBegun, Live
<1> QED
    BY <1>1, ChannelInvAlways, PTL DEF Spec, StopsForGood
=============================================================================
