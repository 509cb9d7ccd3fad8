-------------------------- MODULE AsyncSocketProofs --------------------------
(***************************************************************************)
(* Proofs about AsyncSocket: that its chain does not sleep over what is    *)
(* pending, that what is sent arrives whole and in order, and that its     *)
(* user is told of a connection's start and end in that order, for any     *)
(* number of threads, connections and buffers.                             *)
(***************************************************************************)
EXTENDS AsyncSocket, FiniteSetTheorems, SequenceTheorems, TLAPS

\* A thread that sends has an open or ended connection and, in the loop, a buffer left.
CallsOK ==
    /\ call \in [Callers -> [at : {"idle", "write", "report", "insert", "relock", "force"},
                             rest : Seq(Nat), status : {"sent", "pending", "error"}]]
    /\ \A c \in Callers : /\ call[c].at = "idle" => call[c] = NoCall
                          /\ call[c].at = "write" => call[c].rest # <<>>
                          /\ call[c].at # "idle" => conn > 0
    /\ accepted \in Nat

\* The chain sends and disconnects from handlers, the check of the timers included.
InHandlers ==
    /\ call[Chain].at # "idle" => pc \in Handlers \/ nest > 0
    /\ nest > 0 => pc \in Handlers \cup {"check"}

\* From PreSelect on, what is pending is watched for, or the chain is or will be woken.
Waking ==
    pc \in {"armed", "select"} /\ fin = 1 /\ sock # 0 /\ pending # <<>> =>
        "write" \in want \/ late \/ pipe \/ \E c \in Threads : call[c].status = "pending"

\* What was told agrees with FinConnect as long as the end is to come.
ToldOK ==
    /\ told \in {<<>>, <<"up">>, <<"failed">>, <<"up", "down">>}
    /\ sock # 0 => open
    /\ pc = "close" => sock = 0
    /\ open => told = IF fin > 0 THEN <<"up">> ELSE <<>>
    /\ told = <<"up">> /\ net = "connecting" => mixed

\* A connection opened in the handler of another's end is mixed with it, and is not made yet.
EndsOK ==
    /\ nest > 0 \/ pc \in {"shut", "ended"} => (sock # 0 => mixed) /\ (open => fin <= 0)
    /\ buffer = "none" => sock = 0 \/ mixed
    /\ pc \in {"lastdata", "closing"} => net \in {"none", "eof", "broken"} \/ mixed

\* What select() found is of this connection, or of one mixed with it.
ReadyOK ==
    /\ ready # {} => pc \in {"woken", "post"}
    /\ ready # {} /\ net = "connecting" => mixed

\* A timer that ends a connection that does well was set by another, or by ConnectTo.
TimersOK ==
    timers > 0 \/ due > 0 \/ (\E c \in Callers : call[c].at \in {"report", "insert"}) =>
        net \notin {"connecting", "up"} \/ fin = -1 \/ mixed

\* The parts of TypeOK.
SocketType ==
    /\ role \in {"client", "server"}
    /\ conn \in 0 .. MaxConns /\ sock \in {0, conn}
    /\ net \in {"none", "connecting", "up", "eof", "broken"} /\ (sock = 0 <=> net = "none")
    /\ fin \in {-1, 0, 1} /\ pause \in {-1, 0, 1}
    /\ buffer \in {"empty", "data", "none"}

BytesType == pending \in Seq(Bytes) /\ sent \in Seq(Bytes)

ChainType ==
    /\ pipe \in BOOLEAN
    /\ timers \in Nat /\ due \in Nat /\ removal \in BOOLEAN
    /\ pc \in Handlers \cup {"collect", "check", "arm", "select", "post", "shutting", "closing", "close",
                             "drain", "clear"}
    /\ nest \in 0 .. MaxNest
    /\ want \subseteq Kinds /\ ready \subseteq Kinds /\ canWrite \in BOOLEAN

LockType ==
    /\ lock \in Callers \cup {None}
    /\ \A c \in Callers : /\ call[c].at \in {"idle", "write", "report", "insert", "relock", "force"}
                          /\ lock = c <=> call[c].at = "write"
    /\ buffers \in 0 .. MaxBuffers

\* What the peer got and what is pending is what was accepted.
StreamOK ==
    /\ sock = 0 => accepted = 0 /\ sent = <<>>
    /\ sock # 0 /\ ~ holed => Whole(conn, sent \o pending, accepted) /\ \A i \in DOMAIN sent : sent[i].pos # 0

\* What is pending for a closed socket, or will be, is known.
LeftOK == sock = 0 /\ pc # "close" /\ (pending # <<>> \/ Unaware) => left

Inv ==
    /\ SocketType /\ BytesType /\ ChainType /\ LockType /\ CallsOK
    /\ InHandlers /\ Waking /\ ToldOK /\ EndsOK /\ ReadyOK /\ TimersOK /\ StreamOK /\ LeftOK

-----------------------------------------------------------------------------

\* The handlers, and what follows each.
LEMMA HandlersAre ==
    /\ Handlers = {"top", "armed", "woken", "connected", "data", "lastdata", "sendok", "shut", "ended"}
    /\ After["top"] = "collect" /\ After["armed"] = "select" /\ After["woken"] = "post"
    /\ After["connected"] = "drain" /\ After["data"] = "drain" /\ After["lastdata"] = "closing"
    /\ After["sendok"] = "top" /\ After["shut"] = "drain" /\ After["ended"] = "drain"
BY DEF Handlers, After

\* TypeOK is the conjunction of its parts.
LEMMA TypeParts == TypeOK <=> SocketType /\ BytesType /\ ChainType /\ LockType
BY DEF TypeOK, SocketType, BytesType, ChainType, LockType

\* A sequence of two, made by Append.
LEMMA AppendTwo ==
    ASSUME NEW S, NEW a \in S, NEW b \in S
    PROVE Append(<<a>>, b) = <<a, b>>
<1>. DEFINE s == <<a>>
            t == <<a, b>>
<1>1. s \in Seq(S) /\ Len(s) = 1 /\ s[1] = a
  OBVIOUS
<1>2. t \in Seq(S) /\ Len(t) = 2 /\ t[1] = a /\ t[2] = b
  OBVIOUS
<1>. HIDE DEF s, t
<1>3. Len(s) + 1 = 2
  BY <1>1
<1>4. Append(s, b) \in Seq(S) /\ Len(Append(s, b)) = Len(s) + 1
  BY <1>1, AppendProperties
<1>5. Append(s, b)[1] = a
  BY <1>1, AppendProperties
<1>6. Append(s, b)[Len(s) + 1] = b
  BY <1>1, AppendProperties
<1>7. Append(s, b) = t
  BY <1>2, <1>3, <1>4, <1>5, <1>6, SeqEqual
<1>. QED  BY <1>7 DEF s, t

\* An end is told once, of a connection that was made or not.
LEMMA EndTold ==
    ASSUME ToldOK, TellEnd
    PROVE told' \in {<<>>, <<"up">>, <<"failed">>, <<"up", "down">>} /\ ~ open'
<1>1. Append(<<>>, "failed") = <<"failed">>
  OBVIOUS
<1>2. Append(<<"up">>, "down") = <<"up", "down">>
  <2>1. "up" \in {"up", "down"} /\ "down" \in {"up", "down"}
    OBVIOUS
  <2>. QED  BY <2>1, AppendTwo, Zenon
<1>3. CASE open /\ fin > 0
  BY <1>2, <1>3 DEF ToldOK, TellEnd
<1>4. CASE open /\ ~ fin > 0
  BY <1>1, <1>4 DEF ToldOK, TellEnd
<1>5. CASE ~ open
  BY <1>5 DEF ToldOK, TellEnd
<1>. QED  BY <1>3, <1>4, <1>5

\* Going on with a call keeps the shape of the calls and of the lock, and the status of one that goes on.
LEMMA ProceedOK ==
    ASSUME CallsOK, LockType, NEW c \in Callers, lock \in {None, c}, conn > 0, conn' = conn,
           call[c].at \in {"write", "relock"},
           NEW rest \in Seq(Nat), NEW status \in {"sent", "pending", "error"},
           Proceed(c, rest, status), accepted' \in Nat, buffers' = buffers
    PROVE /\ CallsOK' /\ LockType'
          /\ \A d \in Callers \ {c} : call'[d] = call[d]
          /\ call'[c].at \in {"idle", "write", "force"}
          /\ c \in Threads /\ status = "pending" => call'[c].status = "pending"
<1>1. CASE rest # <<>>
  <2>1. /\ lock' = c
        /\ call' = [call EXCEPT ![c] = [at |-> "write", rest |-> rest, status |-> status]]
    BY <1>1 DEF Proceed
  <2>. QED  BY SocketAssumption, <1>1, <2>1 DEF CallsOK, LockType, Callers, NoCall
<1>2. CASE rest = <<>> /\ (status = "sent" \/ c = Chain)
  <2>1. lock' = None /\ call' = [call EXCEPT ![c] = NoCall]
    BY <1>2 DEF Proceed
  <2>. QED  BY SocketAssumption, <1>2, <2>1 DEF CallsOK, LockType, Callers, NoCall
<1>3. CASE rest = <<>> /\ ~ (status = "sent" \/ c = Chain)
  <2>1. lock' = None /\ call' = [call EXCEPT ![c] = [at |-> "force", rest |-> <<>>, status |-> status]]
    BY <1>3 DEF Proceed
  <2>. QED  BY SocketAssumption, <1>3, <2>1 DEF CallsOK, LockType, Callers, NoCall
<1>. QED  BY <1>1, <1>2, <1>3

\* What is queued of a buffer is bytes of the connection that was opened last.
LEMMA BlockOK ==
    ASSUME SocketType, CallsOK, conn > 0, NEW size \in Nat, NEW k \in 0 .. size
    PROVE Block(size, k) \in Seq(Bytes) /\ (size # 0 => Len(Block(size, k)) = size - k)
<1>1. conn \in 1 .. MaxConns /\ accepted \in Nat
  BY SocketAssumption DEF SocketType, CallsOK
<1>2. CASE size = 0
  BY <1>1, <1>2 DEF Block, Bytes
<1>3. CASE size # 0
  <2>1. Block(size, k) = [i \in 1 .. size - k |-> [conn |-> conn, pos |-> accepted + k + i]]
    BY <1>3 DEF Block
  <2>2. \A i \in 1 .. size - k : [conn |-> conn, pos |-> accepted + k + i] \in Bytes
    BY <1>1 DEF Bytes
  <2>3. size - k \in Nat
    OBVIOUS
  <2>. QED  BY <2>1, <2>2, <2>3
<1>. QED  BY <1>2, <1>3

\* m bytes more, numbered from n + 1, after n whole ones.
LEMMA Grows ==
    ASSUME NEW c, NEW n \in Nat, NEW m \in Nat, NEW l \in Nat, NEW s \in Seq(Bytes), NEW t \in Seq(Bytes),
           Whole(c, s, n), Len(s) = l, Len(t) = l + m, \A i \in 1 .. l : t[i] = s[i],
           \A i \in 1 .. m : t[l + i] = [conn |-> c, pos |-> n + i]
    PROVE Whole(c, t, n + m)
<1>. DEFINE old == {i \in DOMAIN s : s[i].pos # 0}
            all == {i \in DOMAIN t : t[i].pos # 0}
<1>1. DOMAIN s = 1 .. l /\ DOMAIN t = 1 .. l + m
  OBVIOUS
<1>2. /\ old \subseteq 1 .. l
      /\ n = Cardinality(old)
      /\ \A i \in old : s[i] = [conn |-> c, pos |-> Cardinality({j \in old : j <= i})]
  <2>1. old \subseteq 1 .. l
    BY <1>1
  <2>2. n = Cardinality(old)
    BY DEF Whole
  <2>3. \A i \in old : s[i] = [conn |-> c, pos |-> Cardinality({j \in old : j <= i})]
    BY DEF Whole
  <2>. QED  BY <2>1, <2>2, <2>3
<1>3. \A k \in l .. l + m : l + (k - l) = k /\ k - l \in 0 .. m
  BY <1>1
<1>4. \A k \in l + 1 .. l + m : t[k] = [conn |-> c, pos |-> n + (k - l)]
  <2>. SUFFICES ASSUME NEW k \in l + 1 .. l + m PROVE t[k] = [conn |-> c, pos |-> n + (k - l)]
    OBVIOUS
  <2>1. k - l \in 1 .. m /\ l + (k - l) = k
    BY <1>1
  <2>. QED  BY <2>1
<1>5. all = old \cup (l + 1 .. l + m)
  <2>1. \A k \in 1 .. l : k \in all <=> k \in old
    BY <1>1
  <2>2. \A k \in l + 1 .. l + m : k \in all
    <3>. SUFFICES ASSUME NEW k \in l + 1 .. l + m PROVE k \in all
      OBVIOUS
    <3>1. n + (k - l) # 0 /\ k \in 1 .. l + m
      BY <1>1
    <3>2. t[k] = [conn |-> c, pos |-> n + (k - l)]
      BY <1>4, Zenon
    <3>. QED  BY <1>1, <3>1, <3>2
  <2>3. all \subseteq 1 .. l + m /\ \A k \in 1 .. l + m : k \in 1 .. l \/ k \in l + 1 .. l + m
    BY <1>1
  <2>. QED  BY <1>2, <2>1, <2>2, <2>3
<1>6. \A k \in l .. l + m : Cardinality(old \cup (l + 1 .. k)) = n + (k - l)
  <2>. SUFFICES ASSUME NEW k \in l .. l + m PROVE Cardinality(old \cup (l + 1 .. k)) = n + (k - l)
    OBVIOUS
  <2>1. IsFiniteSet(1 .. l)
    <3>1. 1 \in Int /\ l \in Int
      OBVIOUS
    <3>. QED  BY <3>1, FS_Interval, Zenon
  <2>2. IsFiniteSet(old)
    BY <1>2, <2>1, FS_Subset
  <2>3. k \in Int /\ l + 1 \in Int
    BY <1>1
  <2>4. IsFiniteSet(l + 1 .. k) /\ Cardinality(l + 1 .. k) = IF l + 1 > k THEN 0 ELSE k - (l + 1) + 1
    BY <2>3, FS_Interval
  <2>5. Cardinality(l + 1 .. k) = k - l
    BY <1>1, <2>4
  <2>6. old \cap (l + 1 .. k) = {}
    BY <1>1, <1>2
  <2>7. Cardinality(old \cup (l + 1 .. k)) = Cardinality(old) + Cardinality(l + 1 .. k) - Cardinality({})
    <3>. DEFINE new == l + 1 .. k
    <3>1. IsFiniteSet(new) /\ old \cap new = {}
      BY <2>4, <2>6
    <3>. HIDE DEF old, new
    <3>2. Cardinality(old \cup new) = Cardinality(old) + Cardinality(new) - Cardinality(old \cap new)
      BY <2>2, <3>1, FS_Union
    <3>3. Cardinality(old \cup new) = Cardinality(old) + Cardinality(new) - Cardinality({})
      BY <3>1, <3>2
    <3>. QED  BY <3>3 DEF new
  <2>. QED  BY <1>1, <1>2, <2>5, <2>7, FS_EmptySet
<1>7. n + m = Cardinality(all)
  <2>1. l + m \in l .. l + m /\ (l + m) - l = m
    BY <1>1
  <2>. QED  BY <1>5, <1>6, <2>1
<1>8. ASSUME NEW i \in all PROVE t[i] = [conn |-> c, pos |-> Cardinality({j \in all : j <= i})]
  <2>1. CASE i \in old
    <3>1. {j \in all : j <= i} = {j \in old : j <= i}
      BY <1>1, <1>2, <1>5, <2>1
    <3>2. t[i] = s[i]
      BY <1>2, <2>1
    <3>. QED  BY <1>2, <2>1, <3>1, <3>2
  <2>2. CASE i \in l + 1 .. l + m
    <3>1. {j \in all : j <= i} = old \cup (l + 1 .. i)
      BY <1>1, <1>2, <1>5, <2>2
    <3>2. i \in l .. l + m
      BY <1>1, <2>2
    <3>3. Cardinality({j \in all : j <= i}) = n + (i - l)
      <4>. HIDE DEF old, all
      <4>1. Cardinality(old \cup (l + 1 .. i)) = n + (i - l)
        BY <1>6, <3>2
      <4>. QED  BY <3>1, <4>1
    <3>4. t[i] = [conn |-> c, pos |-> n + (i - l)]
      BY <1>4, <2>2
    <3>. QED  BY <3>3, <3>4
  <2>. QED  BY <1>5, <2>1, <2>2
<1>. QED  BY <1>7, <1>8 DEF Whole

\* A block of none after n whole bytes.
LEMMA GrowsByNone ==
    ASSUME NEW c, NEW n \in Nat, NEW s \in Seq(Bytes), NEW t \in Seq(Bytes), Whole(c, s, n),
           Len(t) = Len(s) + 1, \A i \in 1 .. Len(s) : t[i] = s[i], t[Len(s) + 1].pos = 0
    PROVE Whole(c, t, n)
<1>1. DOMAIN s = 1 .. Len(s) /\ DOMAIN t = 1 .. Len(s) + 1 /\ Len(s) \in Nat
  OBVIOUS
<1>2. {i \in DOMAIN s : s[i].pos # 0} = {i \in DOMAIN t : t[i].pos # 0}
  BY <1>1
<1>. QED  BY <1>1, <1>2 DEF Whole

\* Nothing is whole.
LEMMA WholeNone ==
    ASSUME NEW c, NEW s, NEW p, s = <<>>, p = <<>>
    PROVE Whole(c, s \o p, 0) /\ \A i \in DOMAIN s : s[i].pos # 0
<1>1. s \o p = <<>> /\ DOMAIN s = {} /\ DOMAIN (s \o p) = {}
  OBVIOUS
<1>. QED  BY <1>1, FS_EmptySet DEF Whole

\* What is queued of a buffer keeps a sequence whole.
LEMMA GrowsByBlock ==
    ASSUME SocketType, CallsOK, conn > 0, NEW size \in Nat, NEW s \in Seq(Bytes), Whole(conn, s, accepted)
    PROVE Whole(conn, s \o Block(size, 0), accepted + size)
<1>. DEFINE b == Block(size, 0)
            t == s \o b
            l == Len(s)
<1>1. accepted \in Nat /\ 0 \in 0 .. size /\ l \in Nat
  BY DEF CallsOK
<1>2. b \in Seq(Bytes)
  BY <1>1, BlockOK
<1>3. /\ t \in Seq(Bytes) /\ Len(t) = l + Len(b)
      /\ \A i \in 1 .. l + Len(b) : t[i] = IF i <= l THEN s[i] ELSE b[i - l]
  BY <1>2, ConcatProperties
<1>4. CASE size = 0
  <2>1. b = <<[conn |-> conn, pos |-> 0]>>
    BY <1>4 DEF Block
  <2>2. Len(b) = 1 /\ b[1].pos = 0
    BY <2>1
  <2>. HIDE DEF b
  <2>3. Len(t) = l + 1 /\ (\A i \in 1 .. l : t[i] = s[i]) /\ t[l + 1].pos = 0
    BY <1>1, <1>3, <2>2
  <2>. HIDE DEF t
  <2>4. Whole(conn, t, accepted)
    BY <1>1, <1>3, <2>3, GrowsByNone
  <2>. QED  BY <1>1, <1>4, <2>4 DEF t, b
<1>5. CASE size # 0
  <2>1. b = [i \in 1 .. size |-> [conn |-> conn, pos |-> accepted + i]]
    BY <1>1, <1>5 DEF Block
  <2>2. Len(b) = size /\ \A i \in 1 .. size : b[i] = [conn |-> conn, pos |-> accepted + i]
    BY <2>1
  <2>. HIDE DEF b
  <2>3. /\ Len(t) = l + size /\ \A i \in 1 .. l : t[i] = s[i]
        /\ \A i \in 1 .. size : t[l + i] = [conn |-> conn, pos |-> accepted + i]
    BY <1>1, <1>3, <2>2
  <2>. HIDE DEF t, l
  <2>4. Whole(conn, t, accepted + size)
    BY <1>1, <1>3, <2>3, Grows DEF l
  <2>. QED  BY <2>4 DEF t, b
<1>. QED  BY <1>4, <1>5

\* Sequences of bytes are joined in any grouping.
LEMMA BytesAssociative ==
    ASSUME NEW s \in Seq(Bytes), NEW t \in Seq(Bytes), NEW u \in Seq(Bytes)
    PROVE (s \o t) \o u = s \o (t \o u)
BY ConcatAssociative

\* The first n blocks of p, none empty, go from what is pending to what was sent.
LEMMA MovesOn ==
    ASSUME NEW s \in Seq(Bytes), NEW p \in Seq(Bytes), NEW n \in Nat, n <= Len(p),
           \A i \in 1 .. n : p[i].pos # 0
    PROVE /\ (s \o SubSeq(p, 1, n)) \o SubSeq(p, n + 1, Len(p)) = s \o p
          /\ (\A i \in DOMAIN s : s[i].pos # 0) =>
                 \A i \in DOMAIN (s \o SubSeq(p, 1, n)) : (s \o SubSeq(p, 1, n))[i].pos # 0
<1>. DEFINE a == SubSeq(p, 1, n)
            b == SubSeq(p, n + 1, Len(p))
<1>1. a \in Seq(Bytes) /\ Len(a) = n /\ \A i \in 1 .. n : a[i] = p[i]
  OBVIOUS
<1>2. b \in Seq(Bytes) /\ Len(b) = Len(p) - n /\ \A i \in 1 .. Len(p) - n : b[i] = p[n + i]
  OBVIOUS
<1>. HIDE DEF a, b
<1>3. a \o b = p
  <2>1. a \o b \in Seq(Bytes) /\ Len(a \o b) = Len(p)
    BY <1>1, <1>2, ConcatProperties
  <2>2. ASSUME NEW i \in 1 .. Len(p) PROVE (a \o b)[i] = p[i]
    <3>1. Len(p) \in Nat /\ Len(a) + Len(b) = Len(p) /\ i \in 1 .. Len(a) + Len(b)
      BY <1>1, <1>2
    <3>a. (a \o b)[i] = IF i <= Len(a) THEN a[i] ELSE b[i - Len(a)]
      <4>1. a \in Seq(Bytes) /\ b \in Seq(Bytes)
        BY <1>1, <1>2
      <4>. QED  BY <3>1, <4>1, ConcatProperties
    <3>2. (a \o b)[i] = IF i <= n THEN a[i] ELSE b[i - n]
      BY <1>1, <3>a
    <3>3. CASE i <= n
      BY <1>1, <3>1, <3>2, <3>3
    <3>4. CASE ~ i <= n
      <4>1. i - n \in 1 .. Len(p) - n /\ n + (i - n) = i
        BY <3>1, <3>4
      <4>. QED  BY <1>2, <3>2, <3>4, <4>1
    <3>. QED  BY <3>3, <3>4
  <2>. QED  BY <2>1, <2>2, SeqEqual
<1>4. (s \o a) \o b = s \o p
  <2>1. (s \o a) \o b = s \o (a \o b)
    <3>1. s \in Seq(Bytes) /\ a \in Seq(Bytes) /\ b \in Seq(Bytes)
      BY <1>1, <1>2
    <3>. QED  BY <3>1, BytesAssociative
  <2>. QED  BY <1>3, <2>1
<1>5. (\A i \in DOMAIN s : s[i].pos # 0) => \A i \in DOMAIN (s \o a) : (s \o a)[i].pos # 0
  BY <1>1
<1>. QED  BY <1>4, <1>5 DEF a, b

\* The bytes of a buffer that send() took, and those it left.
LEMMA BlockParts ==
    ASSUME SocketType, CallsOK, conn > 0, NEW size \in Nat, size # 0, NEW k \in 0 .. size
    PROVE LET b == Block(size, 0)
          IN /\ b \in Seq(Bytes) /\ Len(b) = size /\ \A i \in 1 .. k : b[i].pos # 0
             /\ SubSeq(b, 1, k) = IF k = 0 THEN <<>> ELSE SubSeq(b, 1, k)
             /\ SubSeq(b, k + 1, Len(b)) = IF k < size THEN Block(size, k) ELSE <<>>
<1>. DEFINE b == Block(size, 0)
            rest == Block(size, k)
<1>1. accepted \in Nat /\ 0 \in 0 .. size
  BY DEF CallsOK
<1>2. b = [i \in 1 .. size |-> [conn |-> conn, pos |-> accepted + i]]
  BY <1>1 DEF Block
<1>3. rest = [i \in 1 .. size - k |-> [conn |-> conn, pos |-> accepted + k + i]]
  BY DEF Block
<1>4. b \in Seq(Bytes) /\ Len(b) = size /\ \A i \in 1 .. size : b[i] = [conn |-> conn, pos |-> accepted + i]
  <2>1. b \in Seq(Bytes)
    BY <1>1, BlockOK
  <2>2. Len(b) = size /\ \A i \in 1 .. size : b[i] = [conn |-> conn, pos |-> accepted + i]
    BY <1>2
  <2>. QED  BY <2>1, <2>2
<1>5. /\ rest \in Seq(Bytes) /\ Len(rest) = size - k
      /\ \A i \in 1 .. size - k : rest[i] = [conn |-> conn, pos |-> accepted + k + i]
  BY <1>1, <1>3, BlockOK
<1>. HIDE DEF b, rest
<1>6. \A i \in 1 .. k : b[i].pos # 0
  BY <1>1, <1>4
<1>7. k = 0 => SubSeq(b, 1, k) = <<>>
  BY SubSeqEmpty
<1>8. ~ k < size => SubSeq(b, k + 1, Len(b)) = <<>>
  BY <1>4, SubSeqEmpty
<1>9. SubSeq(b, k + 1, Len(b)) = rest
  <2>1. /\ SubSeq(b, k + 1, size) \in Seq(Bytes) /\ Len(SubSeq(b, k + 1, size)) = size - k
        /\ \A i \in 1 .. size - k : SubSeq(b, k + 1, size)[i] = b[k + i]
    BY <1>4
  <2>2. \A i \in 1 .. size - k : b[k + i] = rest[i]
    BY <1>1, <1>4, <1>5
  <2>. QED  BY <1>4, <1>5, <2>1, <2>2, SeqEqual
<1>. QED  BY <1>4, <1>6, <1>7, <1>8, <1>9 DEF b, rest

-----------------------------------------------------------------------------
(* Each action preserves the invariant.                                    *)

LEMMA CollectStep ==
    ASSUME Inv, Collect
    PROVE Inv'
<1>1. SocketType' /\ BytesType'
  BY DEF Inv, SocketType, BytesType, Collect, connection, stream, story
<1>2. ChainType' /\ LockType' /\ CallsOK'
  BY SocketAssumption, HandlersAre DEF Inv, SocketType, ChainType, Kinds, LockType, CallsOK, Callers,
     NoCall, Collect, At, vars, connection, clock, chain, stream, flags, story
<1>3. InHandlers' /\ Waking' /\ ToldOK' /\ EndsOK' /\ ReadyOK' /\ TimersOK'
  BY DEF Inv, InHandlers, Waking, ToldOK, EndsOK, ReadyOK, TimersOK, Collect, At, connection, flags, story
<1>4. StreamOK' /\ LeftOK'
  BY DEF Inv, SocketType, StreamOK, LeftOK, Unaware, Collect, At, connection, stream, flags, story
<1>. QED  BY <1>1, <1>2, <1>3, <1>4 DEF Inv

LEMMA FireStep ==
    ASSUME Inv, Fire
    PROVE Inv'
<1>1. /\ SocketType' /\ BytesType' /\ ChainType' /\ LockType' /\ CallsOK'
      /\ InHandlers' /\ Waking' /\ EndsOK' /\ ReadyOK' /\ TimersOK'
  BY SocketAssumption DEF Inv, SocketType, ChainType, CallsOK, BytesType, LockType, InHandlers, Waking,
     EndsOK, ReadyOK, TimersOK, Fire, At, Disconnect, Closes, TellEnd
<1>2. ToldOK'
  <2>1. sock' = 0 /\ net' = "none"
    BY DEF Inv, ToldOK, Fire, Disconnect, Closes, SocketType
  <2>2. told' \in {<<>>, <<"up">>, <<"failed">>, <<"up", "down">>} /\ ~ open'
    BY EndTold DEF Inv, Fire, Disconnect
  <2>. QED  BY <2>1, <2>2 DEF ToldOK
<1>3. StreamOK' /\ LeftOK'
  BY DEF Inv, SocketType, StreamOK, LeftOK, Unaware, Fire, At, Disconnect, Closes, TellEnd
<1>. QED  BY <1>1, <1>2, <1>3 DEF Inv

LEMMA CheckEndsStep ==
    ASSUME Inv, CheckEnds
    PROVE Inv'
<1>1. /\ SocketType' /\ BytesType' /\ ChainType' /\ LockType' /\ CallsOK' /\ InHandlers'
      /\ Waking' /\ ToldOK' /\ EndsOK' /\ ReadyOK' /\ TimersOK'
  BY DEF Inv, SocketType, ChainType, CallsOK, BytesType, LockType, InHandlers, Waking, ToldOK, EndsOK,
     ReadyOK, TimersOK, CheckEnds, At, connection, clock, stream, flags, story
<1>2. StreamOK' /\ LeftOK'
  BY DEF Inv, SocketType, StreamOK, LeftOK, Unaware, CheckEnds, At, connection, clock, stream, flags, story
<1>. QED  BY <1>1, <1>2 DEF Inv

LEMMA WatchStep ==
    ASSUME Inv, Watch
    PROVE Inv'
<1>1. /\ SocketType' /\ BytesType' /\ ChainType' /\ LockType' /\ CallsOK' /\ InHandlers'
      /\ Waking' /\ ToldOK' /\ EndsOK' /\ ReadyOK' /\ TimersOK'
  BY HandlersAre DEF Inv, SocketType, ChainType, CallsOK, Kinds, BytesType, LockType, InHandlers, Waking,
     ToldOK, EndsOK, ReadyOK, TimersOK, Watch, At, connection, clock, stream, flags, story
<1>2. StreamOK' /\ LeftOK'
  BY DEF Inv, SocketType, StreamOK, LeftOK, Unaware, Watch, At, connection, clock, stream, flags, story
<1>. QED  BY <1>1, <1>2 DEF Inv

LEMMA WakeStep ==
    ASSUME Inv, NEW found \in SUBSET Kinds, Wake(found)
    PROVE Inv'
<1>1. SocketType' /\ BytesType'
  BY DEF Inv, SocketType, BytesType, Wake, connection, stream, story
<1>2. ChainType' /\ LockType' /\ CallsOK'
  BY SocketAssumption, HandlersAre DEF Inv, SocketType, ChainType, Kinds, LockType, CallsOK, Callers,
     NoCall, Wake, At, vars, connection, clock, chain, stream, flags, story
<1>3. InHandlers' /\ Waking' /\ ToldOK' /\ EndsOK' /\ ReadyOK' /\ TimersOK'
  BY SocketAssumption, HandlersAre DEF Inv, SocketType, ChainType, LockType, CallsOK, InHandlers, Waking,
     ToldOK, EndsOK, ReadyOK, TimersOK, Callers, NoCall, Kinds, Wake, At, vars, connection, clock, chain,
     stream, flags, story
<1>4. StreamOK' /\ LeftOK'
  BY DEF Inv, SocketType, StreamOK, LeftOK, Unaware, Wake, At, Kinds, connection, clock, stream, story
<1>. QED  BY <1>1, <1>2, <1>3, <1>4 DEF Inv

LEMMA SkipStep ==
    ASSUME Inv, Skip
    PROVE Inv'
<1>1. /\ SocketType' /\ BytesType' /\ ChainType' /\ LockType' /\ CallsOK' /\ InHandlers'
      /\ Waking' /\ ToldOK' /\ EndsOK' /\ ReadyOK' /\ TimersOK'
  BY HandlersAre DEF Inv, SocketType, ChainType, CallsOK, BytesType, LockType, InHandlers, Waking, ToldOK,
     EndsOK, ReadyOK, TimersOK, Skip, connection, clock, stream, flags, story
<1>2. StreamOK' /\ LeftOK'
  BY DEF Inv, SocketType, StreamOK, LeftOK, Unaware, Skip, At, connection, clock, stream, flags, story
<1>. QED  BY <1>1, <1>2 DEF Inv

LEMMA FindsErrorStep ==
    ASSUME Inv, FindsError
    PROVE Inv'
<1>1. /\ SocketType' /\ BytesType' /\ ChainType' /\ LockType' /\ CallsOK' /\ InHandlers'
      /\ Waking' /\ ToldOK' /\ EndsOK' /\ ReadyOK' /\ TimersOK'
  BY DEF Inv, SocketType, ChainType, CallsOK, BytesType, LockType, InHandlers, Waking, ToldOK, EndsOK,
     ReadyOK, TimersOK, FindsError, PostSelect, At, clock, stream, flags
<1>2. StreamOK' /\ LeftOK'
  BY DEF Inv, SocketType, StreamOK, LeftOK, Unaware, FindsError, PostSelect, At, clock, stream, flags
<1>. QED  BY <1>1, <1>2 DEF Inv

LEMMA ConnectsStep ==
    ASSUME Inv, Connects
    PROVE Inv'
<1>1. /\ SocketType' /\ BytesType' /\ ChainType' /\ LockType' /\ CallsOK' /\ InHandlers'
      /\ Waking' /\ ToldOK' /\ EndsOK' /\ ReadyOK' /\ TimersOK'
  BY HandlersAre DEF Inv, SocketType, ChainType, CallsOK, BytesType, LockType, InHandlers, Waking, ToldOK,
     EndsOK, ReadyOK, TimersOK, Connects, PostSelect, At, clock, stream, flags
<1>2. StreamOK' /\ LeftOK'
  BY DEF Inv, SocketType, StreamOK, LeftOK, Unaware, Connects, PostSelect, At, clock, stream, flags
<1>. QED  BY <1>1, <1>2 DEF Inv

LEMMA ReadsStep ==
    ASSUME Inv, Reads
    PROVE Inv'
<1>1. SocketType' /\ BytesType' /\ LockType' /\ CallsOK'
  BY DEF Inv, SocketType, ChainType, CallsOK, BytesType, LockType, Reads, PostSelect, stream
<1>2. InHandlers' /\ Waking' /\ ToldOK' /\ EndsOK' /\ ReadyOK' /\ TimersOK'
  BY DEF Inv, InHandlers, Waking, ToldOK, EndsOK, ReadyOK, TimersOK, Reads, PostSelect, At, clock, flags
<1>3. ChainType'
  <2>0. PostSelect("data") \/ PostSelect("lastdata") \/ PostSelect("closing")
    BY DEF Reads
  <2>1. pc' \in {"data", "lastdata", "closing"} /\ UNCHANGED <<pipe, clock, nest, want>>
    BY <2>0 DEF PostSelect
  <2>2. canWrite' = ("write" \in ready) /\ ready' = {}
    BY <2>0 DEF PostSelect
  <2>. QED  BY HandlersAre, <2>1, <2>2 DEF Inv, ChainType, clock, Kinds
<1>4. StreamOK' /\ LeftOK'
  BY DEF Inv, SocketType, StreamOK, LeftOK, Unaware, Reads, PostSelect, At, clock, stream, flags
<1>. QED  BY <1>1, <1>2, <1>3, <1>4 DEF Inv

LEMMA ResumesStep ==
    ASSUME Inv, Resumes
    PROVE Inv'
<1>1. /\ SocketType' /\ BytesType' /\ ChainType' /\ LockType' /\ CallsOK' /\ InHandlers'
      /\ Waking' /\ ToldOK' /\ EndsOK' /\ ReadyOK' /\ TimersOK'
  BY HandlersAre DEF Inv, SocketType, ChainType, CallsOK, BytesType, LockType, InHandlers, Waking, ToldOK,
     EndsOK, ReadyOK, TimersOK, Resumes, PostSelect, At, clock, stream, flags
<1>2. StreamOK' /\ LeftOK'
  BY DEF Inv, SocketType, StreamOK, LeftOK, Unaware, Resumes, PostSelect, At, clock, stream, flags
<1>. QED  BY <1>1, <1>2 DEF Inv

LEMMA NothingToReadStep ==
    ASSUME Inv, NothingToRead
    PROVE Inv'
<1>1. /\ SocketType' /\ BytesType' /\ ChainType' /\ LockType' /\ CallsOK' /\ InHandlers'
      /\ Waking' /\ ToldOK' /\ EndsOK' /\ ReadyOK' /\ TimersOK'
  BY DEF Inv, SocketType, ChainType, CallsOK, BytesType, LockType, InHandlers, Waking, ToldOK, EndsOK,
     ReadyOK, TimersOK, NothingToRead, PostSelect, At, clock, stream, flags
<1>2. StreamOK' /\ LeftOK'
  BY DEF Inv, SocketType, StreamOK, LeftOK, Unaware, NothingToRead, PostSelect, At, clock, stream, flags
<1>. QED  BY <1>1, <1>2 DEF Inv

LEMMA ShutdownStep ==
    ASSUME Inv, Shutdown
    PROVE Inv'
<1>1. /\ SocketType' /\ BytesType' /\ ChainType' /\ LockType' /\ CallsOK'
      /\ InHandlers' /\ Waking' /\ EndsOK' /\ ReadyOK' /\ TimersOK'
  BY HandlersAre DEF Inv, SocketType, ChainType, CallsOK, BytesType, LockType, InHandlers, Waking, EndsOK,
     ReadyOK, TimersOK, Shutdown, At, Closes, TellEnd, clock
<1>2. ToldOK'
  <2>1. sock' = 0 /\ net' = "none"
    BY DEF Inv, ToldOK, Shutdown, Closes, SocketType
  <2>2. told' \in {<<>>, <<"up">>, <<"failed">>, <<"up", "down">>} /\ ~ open'
    BY EndTold DEF Inv, Shutdown
  <2>. QED  BY <2>1, <2>2 DEF ToldOK
<1>3. StreamOK' /\ LeftOK'
  BY DEF Inv, SocketType, StreamOK, LeftOK, Unaware, Shutdown, At, Closes, TellEnd, clock
<1>. QED  BY <1>1, <1>2, <1>3 DEF Inv

LEMMA CloseReadStep ==
    ASSUME Inv, CloseRead
    PROVE Inv'
<1>1. /\ SocketType' /\ BytesType' /\ ChainType' /\ LockType' /\ CallsOK' /\ InHandlers'
      /\ Waking' /\ ToldOK' /\ EndsOK' /\ ReadyOK' /\ TimersOK'
  BY DEF Inv, SocketType, ChainType, CallsOK, BytesType, LockType, InHandlers, Waking, ToldOK, EndsOK,
     ReadyOK, TimersOK, CloseRead, At, Closes, clock, story
<1>2. StreamOK' /\ LeftOK'
  BY DEF Inv, SocketType, StreamOK, LeftOK, Unaware, CloseRead, At, Closes, clock, story
<1>. QED  BY <1>1, <1>2 DEF Inv

LEMMA CloseEndsStep ==
    ASSUME Inv, CloseEnds
    PROVE Inv'
<1>1. /\ SocketType' /\ BytesType' /\ ChainType' /\ LockType' /\ CallsOK'
      /\ InHandlers' /\ Waking' /\ EndsOK' /\ ReadyOK' /\ TimersOK'
  BY HandlersAre DEF Inv, SocketType, ChainType, CallsOK, BytesType, Bytes, LockType, InHandlers, Waking,
     ToldOK, EndsOK, ReadyOK, TimersOK, CloseEnds, At, TellEnd, clock, stream
<1>2. ToldOK'
  <2>1. sock' = 0 /\ net' = "none"
    BY DEF Inv, ToldOK, CloseEnds, At, SocketType, connection
  <2>2. told' \in {<<>>, <<"up">>, <<"failed">>, <<"up", "down">>} /\ ~ open'
    BY EndTold DEF Inv, CloseEnds
  <2>. QED  BY <2>1, <2>2 DEF ToldOK
<1>3. StreamOK' /\ LeftOK'
  <2>1. sock = 0 /\ pending' = <<>> /\ left' = Unaware
    BY DEF Inv, ToldOK, CloseEnds, At
  <2>2. call' = call /\ sock' = sock /\ accepted' = accepted /\ sent' = sent
    BY DEF CloseEnds, stream
  <2>3. Unaware' <=> Unaware
    BY <2>2 DEF Unaware
  <2>. QED  BY <2>1, <2>2, <2>3 DEF Inv, StreamOK, LeftOK
<1>. QED  BY <1>1, <1>2, <1>3 DEF Inv

LEMMA NoDrainStep ==
    ASSUME Inv, NoDrain
    PROVE Inv'
<1>1. SocketType' /\ BytesType' /\ LockType' /\ CallsOK'
  BY DEF Inv, SocketType, CallsOK, BytesType, Bytes, LockType, NoDrain, connection, stream, flags, story
<1>a. ChainType'
  BY HandlersAre DEF Inv, ChainType, NoDrain, clock
<1>2. InHandlers' /\ Waking' /\ ToldOK' /\ EndsOK' /\ ReadyOK' /\ TimersOK'
  BY DEF Inv, InHandlers, Waking, ToldOK, EndsOK, ReadyOK, TimersOK, NoDrain, At, connection, clock, flags,
     story
<1>3. StreamOK' /\ LeftOK'
  BY DEF Inv, SocketType, StreamOK, LeftOK, Unaware, NoDrain, At, MayDrain, connection, clock, stream,
     flags, story
<1>. QED  BY <1>1, <1>a, <1>2, <1>3 DEF Inv

LEMMA DrainStep ==
    ASSUME Inv, NEW n \in 0 .. Len(pending), Drain(n)
    PROVE Inv'
<1>1. SocketType' /\ LockType' /\ CallsOK'
  BY DEF Inv, SocketType, CallsOK, LockType, Drain, flags, story
<1>a. ChainType'
  BY HandlersAre DEF Inv, ChainType, Drain, clock
<1>2. InHandlers' /\ Waking' /\ ToldOK' /\ EndsOK' /\ ReadyOK' /\ TimersOK'
  BY DEF Inv, InHandlers, Waking, ToldOK, EndsOK, ReadyOK, TimersOK, Drain, At, clock, flags, story
<1>3. BytesType'
  <2>1. n \in Nat /\ n <= Len(pending) /\ pending \in Seq(Bytes) /\ sent \in Seq(Bytes)
    BY DEF Inv, BytesType
  <2>2. SubSeq(pending, 1, n) \in Seq(Bytes) /\ SubSeq(pending, n + 1, Len(pending)) \in Seq(Bytes)
    BY <2>1
  <2>3. sent' = sent \o SubSeq(pending, 1, n) /\ pending' = SubSeq(pending, n + 1, Len(pending))
    BY DEF Drain
  <2>4. BytesType' <=> pending' \in Seq(Bytes) /\ sent' \in Seq(Bytes)
    BY DEF BytesType, Bytes
  <2>. QED  BY <2>1, <2>2, <2>3, <2>4
<1>4. StreamOK' /\ LeftOK'
  <2>1. /\ n \in Nat /\ n <= Len(pending) /\ pending \in Seq(Bytes) /\ sent \in Seq(Bytes)
        /\ \A i \in 1 .. n : pending[i].pos # 0
    BY DEF Inv, BytesType, Drain
  <2>2. sent' = sent \o SubSeq(pending, 1, n) /\ pending' = SubSeq(pending, n + 1, Len(pending))
    BY DEF Drain
  <2>3. sent' \o pending' = sent \o pending
    BY <2>1, <2>2, MovesOn
  <2>4. (\A i \in DOMAIN sent : sent[i].pos # 0) => \A i \in DOMAIN sent' : sent'[i].pos # 0
    BY <2>1, <2>2, MovesOn
  <2>5. /\ sock # 0 /\ sock' = sock /\ holed' = holed /\ accepted' = accepted /\ conn' = conn
    BY DEF Drain, MayDrain, story
  <2>. QED  BY <2>3, <2>4, <2>5 DEF Inv, StreamOK, LeftOK
<1>. QED  BY <1>1, <1>a, <1>2, <1>3, <1>4 DEF Inv

LEMMA ClearStep ==
    ASSUME Inv, Clear
    PROVE Inv'
<1>1. /\ SocketType' /\ BytesType' /\ ChainType' /\ LockType' /\ CallsOK' /\ InHandlers'
      /\ Waking' /\ ToldOK' /\ EndsOK' /\ ReadyOK' /\ TimersOK'
  BY HandlersAre DEF Inv, SocketType, ChainType, CallsOK, BytesType, LockType, InHandlers, Waking, ToldOK,
     EndsOK, ReadyOK, TimersOK, Clear, At, clock, flags, story
<1>2. StreamOK' /\ LeftOK'
  BY DEF Inv, SocketType, StreamOK, LeftOK, Unaware, Clear, At, clock, flags, story
<1>. QED  BY <1>1, <1>2 DEF Inv

LEMMA DrainFailsStep ==
    ASSUME Inv, DrainFails
    PROVE Inv'
<1>1. SocketType' /\ BytesType'
  BY DEF Inv, SocketType, BytesType, DrainFails, story
<1>2. ChainType' /\ LockType' /\ CallsOK'
  BY SocketAssumption, HandlersAre DEF Inv, SocketType, ChainType, Kinds, LockType, CallsOK, Callers,
     NoCall, DrainFails, At, MayDrain, AddTimer, vars, connection, clock, chain, stream, flags, story
<1>3. InHandlers' /\ Waking' /\ ToldOK' /\ EndsOK' /\ ReadyOK' /\ TimersOK'
  BY DEF Inv, InHandlers, Waking, ToldOK, EndsOK, ReadyOK, TimersOK, DrainFails, At, story
<1>4. StreamOK' /\ LeftOK'
  BY DEF Inv, SocketType, StreamOK, LeftOK, Unaware, DrainFails, At, MayDrain, AddTimer, story
<1>. QED  BY <1>1, <1>2, <1>3, <1>4 DEF Inv

LEMMA ReturnStep ==
    ASSUME Inv, Return
    PROVE Inv'
<1>1. SocketType' /\ BytesType'
  BY DEF Inv, SocketType, BytesType, Return, stream, story
<1>2. ChainType' /\ LockType' /\ CallsOK'
  BY SocketAssumption, HandlersAre DEF Inv, ChainType, Kinds, LockType, CallsOK, Callers, Return, InHandler,
     clock, stream, story
<1>3. InHandlers' /\ Waking' /\ ToldOK' /\ EndsOK' /\ ReadyOK' /\ TimersOK'
  BY HandlersAre DEF Inv, SocketType, InHandlers, Waking, ToldOK, EndsOK, ReadyOK, TimersOK, Return,
     InHandler, clock, flags, story
<1>4. StreamOK' /\ LeftOK'
  <2>1. pc # "close"
    BY HandlersAre DEF Inv, InHandlers, Return, InHandler
  <2>2. /\ sock' = sock /\ holed' = holed /\ accepted' = accepted /\ sent' = sent /\ pending' = pending
        /\ conn' = conn /\ call' = call /\ left' = left
    BY DEF Return, stream, flags, story
  <2>3. Unaware' <=> Unaware
    BY <2>2 DEF Unaware
  <2>. QED  BY <2>1, <2>2, <2>3 DEF Inv, StreamOK, LeftOK
<1>. QED  BY <1>1, <1>2, <1>3, <1>4 DEF Inv

LEMMA UserDisconnectsStep ==
    ASSUME Inv, UserDisconnects
    PROVE Inv'
<1>1. /\ SocketType' /\ BytesType' /\ ChainType' /\ LockType' /\ CallsOK'
      /\ InHandlers' /\ Waking' /\ EndsOK' /\ ReadyOK' /\ TimersOK'
  BY SocketAssumption, HandlersAre DEF Inv, SocketType, ChainType, CallsOK, BytesType, LockType, InHandlers,
     Waking, ToldOK, EndsOK, ReadyOK, TimersOK, UserDisconnects, InHandler, Disconnect, Closes, TellEnd
<1>2. ToldOK'
  <2>1. sock' = 0 /\ net' = "none"
    BY DEF Inv, ToldOK, UserDisconnects, Disconnect, Closes, SocketType
  <2>2. told' \in {<<>>, <<"up">>, <<"failed">>, <<"up", "down">>} /\ ~ open'
    BY EndTold DEF Inv, UserDisconnects, Disconnect
  <2>. QED  BY <2>1, <2>2 DEF ToldOK
<1>3. StreamOK' /\ LeftOK'
  BY DEF Inv, SocketType, StreamOK, LeftOK, Unaware, UserDisconnects, InHandler, Disconnect, Closes, TellEnd
<1>. QED  BY <1>1, <1>2, <1>3 DEF Inv

LEMMA AcceptStep ==
    ASSUME Inv, Accept
    PROVE Inv'
<1>a. call' = call /\ timers' = timers /\ due' = due
  BY DEF Accept, Open, clock
<1>b. mixed' = (Busy \/ timers + due > 0 \/ {} # {} \/ nest > 0 \/ pc \in {"shut", "lastdata", "ended"})
  BY DEF Accept, Open
<1>1. /\ SocketType' /\ BytesType' /\ ChainType' /\ LockType' /\ CallsOK'
      /\ InHandlers' /\ Waking' /\ ToldOK' /\ EndsOK' /\ ReadyOK'
  BY SocketAssumption DEF Inv, SocketType, ChainType, CallsOK, BytesType, LockType, InHandlers, Waking,
     ToldOK, EndsOK, ReadyOK, Accept, At, Open, clock
<1>2. TimersOK'
  <2>1. (\E c \in Callers : call[c].at \in {"report", "insert"}) => mixed'
    BY <1>b DEF Busy
  <2>2. timers > 0 \/ due > 0 => timers + due > 0
    BY DEF Inv, ChainType
  <2>3. timers > 0 \/ due > 0 => mixed'
    BY <1>b, <2>2
  <2>. QED  BY <1>a, <2>1, <2>3 DEF TimersOK
<1>3. StreamOK' /\ LeftOK'
  <2>1. /\ sock = 0 /\ sock' = conn + 1 /\ holed' = (pending # <<>>) /\ pending' = pending
        /\ accepted' = accepted /\ sent' = sent
    BY DEF Accept, Open
  <2>2. sock' # 0
    BY <2>1 DEF Inv, SocketType
  <2>3. sent = <<>> /\ accepted = 0
    BY <2>1 DEF Inv, StreamOK
  <2>4. ~ holed' => Whole(conn', sent' \o pending', 0) /\ \A i \in DOMAIN sent' : sent'[i].pos # 0
    BY <2>1, <2>3, WholeNone
  <2>5. accepted' = 0
    BY <2>1, <2>3
  <2>. QED  BY <2>2, <2>4, <2>5 DEF StreamOK, LeftOK
<1>. QED  BY <1>1, <1>2, <1>3 DEF Inv

LEMMA PauseStep ==
    ASSUME Inv, Pause
    PROVE Inv'
<1>1. SocketType' /\ BytesType' /\ ChainType' /\ LockType' /\ CallsOK'
  BY DEF Inv, SocketType, ChainType, CallsOK, BytesType, LockType, Pause, clock, chain, stream, story
<1>2. InHandlers' /\ Waking' /\ ToldOK' /\ EndsOK' /\ ReadyOK' /\ TimersOK'
  BY DEF Inv, InHandlers, Waking, ToldOK, EndsOK, ReadyOK, TimersOK, Pause, clock, chain, flags, story
<1>3. StreamOK' /\ LeftOK'
  BY DEF Inv, SocketType, StreamOK, LeftOK, Unaware, Pause, InHandler, clock, chain, stream, flags, story
<1>. QED  BY <1>1, <1>2, <1>3 DEF Inv

LEMMA ResumeStep ==
    ASSUME Inv, Resume
    PROVE Inv'
<1>1. SocketType' /\ BytesType' /\ ChainType' /\ LockType' /\ CallsOK'
  BY DEF Inv, SocketType, ChainType, CallsOK, BytesType, LockType, Resume, clock, chain, stream, story
<1>2. InHandlers' /\ Waking' /\ ToldOK' /\ EndsOK' /\ ReadyOK' /\ TimersOK'
  BY DEF Inv, InHandlers, Waking, ToldOK, EndsOK, ReadyOK, TimersOK, Resume, clock, chain, flags, story
<1>3. StreamOK' /\ LeftOK'
  BY DEF Inv, SocketType, StreamOK, LeftOK, Unaware, Resume, InHandler, clock, chain, stream, flags, story
<1>. QED  BY <1>1, <1>2, <1>3 DEF Inv

LEMMA ConnectToStep ==
    ASSUME Inv, NEW outcome \in {"underway", "atonce", "nosocket"}, NEW stale \in SUBSET Kinds,
           ConnectTo(outcome, stale)
    PROVE Inv'
<1>a. sock = 0 /\ conn < MaxConns /\ conn' = conn + 1 /\ open' = TRUE /\ told' = <<>>
  BY DEF ConnectTo, Open
<1>b. mixed' = (Busy \/ timers + due > 0 \/ stale # {} \/ nest > 0
                  \/ pc \in {"shut", "lastdata", "ended"})
  BY DEF ConnectTo, Open
<1>c. /\ role' = role /\ pending' = pending /\ sent' = sent /\ lock' = lock /\ pc' = pc /\ nest' = nest
      /\ canWrite' = canWrite /\ call' = call /\ buffers' = buffers /\ accepted' = accepted
      /\ pause' = 0 /\ buffer' = "empty"
  BY DEF ConnectTo, Open
<1>d. pc # "close" /\ pc # "closing"
  BY HandlersAre DEF ConnectTo, InHandler, Inv, InHandlers
<1>e. sock' = (IF outcome = "nosocket" THEN 0 ELSE conn + 1)
  BY DEF ConnectTo
<1>f. /\ outcome = "nosocket" => net' = "none"
      /\ outcome = "atonce" => net' \in {"up", "broken"}
      /\ outcome = "underway" => net' = "connecting"
  BY DEF ConnectTo
<1>g. IF outcome = "underway"
      THEN fin' = 0 /\ pipe' = TRUE /\ timers' = timers /\ due' = due /\ removal' = removal
      ELSE fin' = -1 /\ timers' = 1 /\ due' = 0 /\ removal' = removal /\ pipe' = pipe
  BY DEF ConnectTo, AddTimer, clock
<1>h. /\ want' = (IF pc = "armed" THEN stale ELSE want)
      /\ ready' = (IF pc = "woken" THEN stale ELSE ready)
      /\ stale \in SUBSET Kinds
  BY DEF ConnectTo
<1>i. conn \in Nat /\ conn' \in 1 .. MaxConns
  BY <1>a, SocketAssumption DEF Inv, SocketType
<1>1. SocketType'
  BY <1>a, <1>c, <1>e, <1>f, <1>g, <1>i DEF Inv, SocketType
<1>2. BytesType'
  BY <1>c DEF Inv, BytesType
<1>3. ChainType'
  <2>1. \/ pipe' = TRUE /\ timers' = timers /\ due' = due
        \/ timers' = 1 /\ due' = 0 /\ pipe' = pipe
    BY <1>g
  <2>2. removal' = removal
    BY <1>g
  <2>3. want' \subseteq Kinds /\ ready' \subseteq Kinds
    BY <1>h DEF Inv, ChainType
  <2>4. timers' \in Nat /\ due' \in Nat
    BY <2>1 DEF Inv, ChainType
  <2>5. pipe' \in BOOLEAN
    BY <2>1 DEF Inv, ChainType
  <2>. QED  BY <1>c, <2>2, <2>3, <2>4, <2>5 DEF Inv, ChainType
<1>4. LockType'
  BY <1>c DEF Inv, LockType
<1>5. CallsOK'
  BY <1>c, <1>i DEF Inv, CallsOK
<1>6. InHandlers'
  BY <1>c DEF Inv, InHandlers
<1>7. Waking'
  BY <1>g DEF Waking
<1>8. ToldOK'
  BY <1>a, <1>c, <1>d, <1>g DEF ToldOK
<1>9. EndsOK'
  <2>1. nest > 0 \/ pc \in {"shut", "lastdata", "ended"} => mixed'
    BY <1>b
  <2>. QED  BY <1>c, <1>d, <1>g, <2>1 DEF EndsOK
<1>10. ReadyOK'
  <2>1. stale # {} => mixed'
    BY <1>b
  <2>2. pc = "woken" \/ ready = {} \/ pc = "post"
    BY DEF Inv, ReadyOK
  <2>3. pc # "post"
    BY HandlersAre DEF ConnectTo, InHandler, Inv, InHandlers
  <2>. QED  BY <1>c, <1>h, <2>1, <2>2, <2>3 DEF ReadyOK
<1>11. TimersOK'
  <2>1. (\E c \in Callers : call[c].at \in {"report", "insert"}) => mixed'
    BY <1>b DEF Busy
  <2>2. timers > 0 \/ due > 0 => timers + due > 0
    BY DEF Inv, ChainType
  <2>3. timers > 0 \/ due > 0 => mixed'
    BY <1>b, <2>2
  <2>. QED  BY <1>c, <1>g, <2>1, <2>3 DEF TimersOK
<1>12. StreamOK' /\ LeftOK'
  <2>1. sent = <<>> /\ accepted = 0
    BY <1>a DEF Inv, StreamOK
  <2>2. holed' = (pending # <<>>) /\ left' = (left /\ (pending # <<>> \/ Unaware))
    BY DEF ConnectTo, Open
  <2>3. pending # <<>> \/ Unaware => left'
    BY <1>a, <1>d, <2>2 DEF Inv, LeftOK
  <2>4. Unaware' <=> Unaware
    BY <1>c DEF Unaware
  <2>5. StreamOK'
    <3>1. ~ holed' => Whole(conn', sent' \o pending', 0) /\ \A i \in DOMAIN sent' : sent'[i].pos # 0
      BY <1>c, <2>1, <2>2, WholeNone
    <3>2. accepted' = 0 /\ sent' = <<>>
      BY <1>c, <2>1
    <3>. QED  BY <3>1, <3>2 DEF StreamOK
  <2>6. LeftOK'
    BY <1>c, <2>3, <2>4 DEF LeftOK
  <2>. QED  BY <2>5, <2>6
<1>. QED  BY <1>1, <1>2, <1>3, <1>4, <1>5, <1>6, <1>7, <1>8, <1>9, <1>10, <1>11, <1>12 DEF Inv

LEMMA SendStep ==
    ASSUME Inv, NEW c \in Callers, NEW sizes \in Writes, Send(c, sizes)
    PROVE Inv'
<1>1. /\ sock # 0 /\ lock = None /\ lock' = c /\ call[c].at = "idle" /\ (c = Chain => InHandler)
      /\ buffers' = buffers + Len(sizes) /\ buffers + Len(sizes) <= MaxBuffers
      /\ call' = [call EXCEPT ![c] = [at |-> "write", rest |-> sizes, status |-> "sent"]]
  BY DEF Send
<1>2. SocketType' /\ BytesType' /\ ChainType'
  BY DEF Inv, SocketType, BytesType, ChainType, Kinds, Send, connection, clock, chain, stream, story
<1>3. LockType' /\ CallsOK'
  <2>1. sizes \in Seq(Nat) /\ sizes # <<>> /\ buffers' \in 0 .. MaxBuffers
    BY SocketAssumption, <1>1 DEF Inv, LockType
  <2>2. conn > 0 /\ conn' = conn /\ accepted' = accepted
    BY <1>1 DEF Inv, SocketType, Send, stream, story
  <2>. QED  BY SocketAssumption, <1>1, <2>1, <2>2 DEF Inv, LockType, CallsOK, Callers, NoCall
<1>4. InHandlers' /\ TimersOK'
  BY <1>1 DEF Inv, CallsOK, InHandlers, InHandler, TimersOK, Send, connection, clock, chain, flags
<1>5. Waking'
  <2>1. \A d \in Threads : call[d].status = "pending" => call'[d].status = "pending"
    BY <1>1 DEF Inv, CallsOK, Callers, NoCall
  <2>. QED  BY <2>1 DEF Inv, Waking, Send, connection, chain, flags
<1>6. ToldOK' /\ EndsOK' /\ ReadyOK'
  BY DEF Inv, ToldOK, EndsOK, ReadyOK, Send, connection, chain, flags, story
<1>7. StreamOK' /\ LeftOK'
  BY DEF Inv, SocketType, StreamOK, LeftOK, Unaware, Send, InHandler, connection, clock, chain, stream,
     flags, story
<1>. QED  BY <1>2, <1>3, <1>4, <1>5, <1>6, <1>7 DEF Inv

LEMMA QueueStep ==
    ASSUME Inv, NEW c \in Callers, Queue(c)
    PROVE Inv'
<1>a. /\ call[c].at = "write" /\ call[c].rest \in Seq(Nat)
      /\ call[c].status \in {"sent", "pending", "error"} /\ conn > 0
  BY DEF Inv, CallsOK, Queue
<1>b. call[c].rest # <<>> /\ Size(c) \in Nat /\ Tail(call[c].rest) \in Seq(Nat)
  BY <1>a DEF Inv, CallsOK, Size
<1>c. /\ Proceed(c, Tail(call[c].rest), call[c].status)
      /\ lock \in {None, c} /\ conn' = conn /\ buffers' = buffers /\ accepted' \in Nat
  BY <1>a, <1>b DEF Inv, CallsOK, LockType, Queue, story
<1>d. /\ CallsOK' /\ LockType'
      /\ \A d \in Callers \ {c} : call'[d] = call[d]
      /\ call'[c].at \in {"idle", "write", "force"}
      /\ c \in Threads /\ call[c].status = "pending" => call'[c].status = "pending"
  <2>. DEFINE rest == Tail(call[c].rest)
              status == call[c].status
  <2>1. rest \in Seq(Nat) /\ status \in {"sent", "pending", "error"} /\ Proceed(c, rest, status)
    BY <1>a, <1>b, <1>c
  <2>. HIDE DEF rest, status
  <2>2. CallsOK /\ LockType
    BY DEF Inv
  <2>3. /\ CallsOK' /\ LockType'
        /\ \A d \in Callers \ {c} : call'[d] = call[d]
        /\ call'[c].at \in {"idle", "write", "force"}
        /\ c \in Threads /\ status = "pending" => call'[c].status = "pending"
    BY <1>a, <1>c, <2>1, <2>2, ProceedOK
  <2>. QED  BY <2>3 DEF status
<1>1. SocketType' /\ ChainType' /\ ToldOK' /\ EndsOK' /\ ReadyOK'
  BY DEF Inv, SocketType, ChainType, ToldOK, EndsOK, ReadyOK, Queue, clock, chain, flags, story
<1>e. InHandlers'
  <2>1. call'[Chain].at # "idle" => call[Chain].at # "idle"
    BY <1>a, <1>d DEF Callers
  <2>. QED  BY <2>1 DEF Inv, InHandlers, Queue, clock, chain, flags, story
<1>2. BytesType'
  <2>1. Block(Size(c), 0) \in Seq(Bytes)
    BY <1>a, <1>b, BlockOK DEF Inv
  <2>. QED  BY <2>1 DEF Inv, BytesType, Queue
<1>3. LockType'
  BY <1>d
<1>4. CallsOK'
  BY <1>d
<1>5. Waking'
  <2>1. pending # <<>> \/ fin = 0
    BY DEF Queue, MustQueue
  <2>2. UNCHANGED <<pc, fin, sock, want, late, pipe>>
    BY DEF Queue, vars, connection, clock, chain, stream, flags, story
  <2>3. \A d \in Threads : call[d].status = "pending" => call'[d].status = "pending"
    BY <1>d DEF Callers
  <2>. QED  BY <2>1, <2>2, <2>3 DEF Inv, Waking
<1>6. TimersOK'
  <2>1. UNCHANGED <<timers, due, net, fin, mixed>>
    BY DEF Queue, vars, connection, clock, chain, stream, flags, story
  <2>. QED  BY <1>d, <2>1 DEF Inv, TimersOK
<1>7. StreamOK' /\ LeftOK'
  <2>1. Unaware
    BY <1>b DEF Unaware
  <2>2. /\ sock' = sock /\ holed' = holed /\ sent' = sent /\ conn' = conn /\ pc' = pc /\ left' = left
        /\ pending' = pending \o Block(Size(c), 0)
        /\ accepted' = IF sock = 0 THEN 0 ELSE accepted + Size(c)
    BY DEF Queue, chain, flags, story
  <2>3. sent \in Seq(Bytes) /\ pending \in Seq(Bytes) /\ accepted \in Nat
    BY DEF Inv, BytesType, CallsOK
  <2>. DEFINE b == Block(Size(c), 0)
              s == sent \o pending
  <2>4. Whole(conn, s, accepted) => Whole(conn, s \o b, accepted + Size(c))
    <3>1. s \in Seq(Bytes) /\ SocketType /\ CallsOK
      BY <2>3, ConcatProperties DEF Inv
    <3>. HIDE DEF s
    <3>. QED  BY <1>a, <1>b, <3>1, GrowsByBlock
  <2>5. s \o b = sent \o pending'
    <3>1. b \in Seq(Bytes)
      <4>1. SocketType /\ CallsOK /\ 0 \in 0 .. Size(c)
        BY <1>b DEF Inv
      <4>. QED  BY <1>a, <1>b, <4>1, BlockOK
    <3>. HIDE DEF b
    <3>2. (sent \o pending) \o b = sent \o (pending \o b)
      BY <2>3, <3>1, BytesAssociative
    <3>. QED  BY <2>2, <3>2 DEF b
  <2>6. StreamOK'
    BY <2>2, <2>4, <2>5 DEF Inv, StreamOK
  <2>7. LeftOK'
    BY <2>1, <2>2 DEF Inv, LeftOK
  <2>. QED  BY <2>6, <2>7
<1>. QED  BY <1>1, <1>e, <1>2, <1>3, <1>4, <1>5, <1>6, <1>7 DEF Inv

LEMMA SendErrorStep ==
    ASSUME Inv, NEW c \in Callers, SendError(c)
    PROVE Inv'
<1>1. SocketType' /\ BytesType' /\ ChainType' /\ InHandlers'
  BY DEF Inv, SocketType, BytesType, ChainType, CallsOK, InHandlers, Callers, Kinds, SendError, clock,
     chain, story
<1>2. /\ call[c].at = "write" /\ call[c].rest \in Seq(Nat) /\ call[c].rest # <<>> /\ conn > 0
      /\ call' = [call EXCEPT ![c] = [at |-> "report", rest |-> Tail(@.rest), status |-> "error"]]
  BY DEF Inv, CallsOK, SendError
<1>3. LockType' /\ CallsOK'
  <2>1. Tail(call[c].rest) \in Seq(Nat)
    BY <1>2
  <2>2. lock = c /\ lock' = None /\ conn' = conn /\ accepted' = accepted /\ buffers' = buffers
    BY DEF Inv, LockType, SendError, story
  <2>. QED  BY SocketAssumption, <1>2, <2>1, <2>2 DEF Inv, LockType, CallsOK, Callers, NoCall
<1>4. Waking' /\ ToldOK' /\ EndsOK' /\ ReadyOK'
  BY DEF Inv, Waking, ToldOK, EndsOK, ReadyOK, SendError, chain, story
<1>5. TimersOK'
  <2>1. net \notin {"connecting", "up"} \/ fin = -1 \/ mixed
    BY DEF Inv, SocketType, SendError, MustQueue, SendFails
  <2>. QED  BY <2>1 DEF TimersOK, SendError
<1>6. StreamOK' /\ LeftOK'
  <2>1. Unaware
    BY <1>2 DEF Unaware
  <2>2. /\ sock' = sock /\ holed' = (sock # 0) /\ accepted' = accepted /\ sent' = sent
        /\ pc' = pc /\ left' = left
    BY DEF SendError, chain
  <2>. QED  BY <2>1, <2>2 DEF Inv, StreamOK, LeftOK
<1>. QED  BY <1>1, <1>2, <1>3, <1>4, <1>5, <1>6 DEF Inv

LEMMA ReportStep ==
    ASSUME Inv, NEW c \in Callers, Report(c)
    PROVE Inv'
<1>1. SocketType' /\ BytesType'
  BY DEF Inv, SocketType, BytesType, Report, connection, stream, story
<1>2. LockType'
  BY DEF Inv, LockType, Report
<1>3. CallsOK'
  BY SocketAssumption, HandlersAre DEF Inv, SocketType, LockType, CallsOK, Callers, NoCall, Report,
     AddTimer, connection, chain, stream, story
<1>4. InHandlers' /\ Waking' /\ ToldOK' /\ EndsOK' /\ ReadyOK' /\ TimersOK'
  BY DEF Inv, ChainType, InHandlers, Waking, ToldOK, EndsOK, ReadyOK, TimersOK, Report, connection, chain,
     story
<1>5. ChainType'
  <2>1. CASE c = Chain
    BY <2>1 DEF Inv, ChainType, Report, AddTimer, chain
  <2>2. CASE c # Chain
    <3>1. UNCHANGED <<pc, nest, want, ready, canWrite, timers, due>>
      BY <2>2 DEF Report, vars, connection, clock, chain, stream, flags, story
    <3>2. removal' = (removal \/ timers > 0) /\ pipe' = (pipe \/ timers > 0)
      BY <2>2 DEF Report
    <3>3. removal' \in BOOLEAN /\ pipe' \in BOOLEAN
      BY <3>2 DEF Inv, ChainType
    <3>. QED  BY <3>1, <3>3 DEF Inv, ChainType
  <2>. QED  BY <2>1, <2>2
<1>6. StreamOK' /\ LeftOK'
  BY DEF Inv, SocketType, StreamOK, LeftOK, Unaware, Report, AddTimer, connection, chain, stream, story
<1>. QED  BY <1>1, <1>2, <1>3, <1>4, <1>5, <1>6 DEF Inv

LEMMA InsertStep ==
    ASSUME Inv, NEW c \in Callers, Insert(c)
    PROVE Inv'
<1>1. SocketType' /\ BytesType'
  BY DEF Inv, SocketType, BytesType, Insert, connection, stream, story
<1>2. ChainType'
  BY DEF Inv, ChainType, Kinds, Insert, chain
<1>3. LockType' /\ CallsOK'
  <2>1. /\ call[c].at = "insert" /\ call' = [call EXCEPT ![c].at = "relock"]
        /\ lock' = lock /\ buffers' = buffers /\ accepted' = accepted /\ conn' = conn
    BY DEF Insert, stream, story
  <2>2. call' \in [Callers -> [at : {"idle", "write", "report", "insert", "relock", "force"},
                               rest : Seq(Nat), status : {"sent", "pending", "error"}]]
    BY <2>1 DEF Inv, CallsOK
  <2>3. \A d \in Callers : IF d = c THEN call'[d].at = "relock" ELSE call'[d] = call[d]
    BY <2>1 DEF Inv, CallsOK
  <2>. QED  BY <2>1, <2>2, <2>3 DEF Inv, LockType, CallsOK
<1>4. InHandlers' /\ Waking' /\ ToldOK' /\ EndsOK' /\ ReadyOK' /\ TimersOK'
  BY DEF Inv, InHandlers, Waking, ToldOK, EndsOK, ReadyOK, TimersOK, Insert, connection, chain, flags, story
<1>5. StreamOK' /\ LeftOK'
  BY DEF Inv, SocketType, StreamOK, LeftOK, Unaware, Insert, connection, chain, stream, flags, story
<1>. QED  BY <1>1, <1>2, <1>3, <1>4, <1>5 DEF Inv

LEMMA RelockStep ==
    ASSUME Inv, NEW c \in Callers, Relock(c)
    PROVE Inv'
<1>a. /\ call[c].at = "relock" /\ call[c].rest \in Seq(Nat)
      /\ call[c].status \in {"sent", "pending", "error"} /\ conn > 0
  BY DEF Inv, CallsOK, Relock
<1>c. /\ Proceed(c, call[c].rest, call[c].status)
      /\ lock \in {None, c} /\ conn' = conn /\ buffers' = buffers /\ accepted' \in Nat
  BY <1>a DEF Inv, CallsOK, Relock, stream, story
<1>d. /\ CallsOK' /\ LockType'
      /\ \A d \in Callers \ {c} : call'[d] = call[d]
      /\ call'[c].at \in {"idle", "write", "force"}
      /\ c \in Threads /\ call[c].status = "pending" => call'[c].status = "pending"
  <2>. DEFINE rest == call[c].rest
              status == call[c].status
  <2>1. rest \in Seq(Nat) /\ status \in {"sent", "pending", "error"} /\ Proceed(c, rest, status)
    BY <1>a, <1>c
  <2>. HIDE DEF rest, status
  <2>2. CallsOK /\ LockType
    BY DEF Inv
  <2>3. /\ CallsOK' /\ LockType'
        /\ \A d \in Callers \ {c} : call'[d] = call[d]
        /\ call'[c].at \in {"idle", "write", "force"}
        /\ c \in Threads /\ status = "pending" => call'[c].status = "pending"
    BY <1>a, <1>c, <2>1, <2>2, ProceedOK
  <2>. QED  BY <2>3 DEF status
<1>1. SocketType' /\ BytesType' /\ ChainType'
  BY DEF Inv, SocketType, ChainType, BytesType, Relock, connection, clock, chain, stream, story
<1>2. InHandlers' /\ ToldOK' /\ EndsOK' /\ ReadyOK'
  BY DEF Inv, CallsOK, InHandlers, ToldOK, EndsOK, ReadyOK, Callers, Relock, Proceed, connection, chain,
     flags, story
<1>3. LockType'
  BY <1>d
<1>4. CallsOK'
  BY <1>d
<1>5. Waking'
  <2>1. UNCHANGED <<pc, fin, sock, want, late, pipe, pending>>
    BY DEF Relock, vars, connection, clock, chain, stream, flags, story
  <2>2. \A d \in Threads : call[d].status = "pending" => call'[d].status = "pending"
    BY <1>d DEF Callers
  <2>. QED  BY <2>1, <2>2 DEF Inv, Waking
<1>6. TimersOK'
  <2>1. UNCHANGED <<timers, due, net, fin, mixed>>
    BY DEF Relock, vars, connection, clock, chain, stream, flags, story
  <2>. QED  BY <1>d, <2>1 DEF Inv, TimersOK
<1>7. StreamOK' /\ LeftOK'
  <2>1. call'[c].rest # <<>> => call[c].rest # <<>>
    BY <1>a DEF Inv, CallsOK, Relock, Proceed, NoCall
  <2>2. Unaware' => Unaware
    BY <1>d, <2>1 DEF Unaware
  <2>3. /\ sock' = sock /\ holed' = holed /\ accepted' = accepted /\ sent' = sent /\ pending' = pending
        /\ conn' = conn /\ pc' = pc /\ left' = left
    BY DEF Relock, connection, chain, stream, flags, story
  <2>. QED  BY <2>2, <2>3 DEF Inv, StreamOK, LeftOK
<1>. QED  BY <1>1, <1>2, <1>3, <1>4, <1>5, <1>6, <1>7 DEF Inv

LEMMA ForceUnBlockStep ==
    ASSUME Inv, NEW c \in Callers, ForceUnBlock(c)
    PROVE Inv'
<1>1. /\ SocketType' /\ BytesType' /\ ChainType' /\ LockType' /\ CallsOK' /\ InHandlers'
      /\ Waking' /\ ToldOK' /\ EndsOK' /\ ReadyOK' /\ TimersOK'
  BY HandlersAre DEF Inv, SocketType, ChainType, CallsOK, BytesType, LockType, NoCall, InHandlers, Waking,
     ToldOK, EndsOK, ReadyOK, TimersOK, ForceUnBlock, connection, clock, chain, stream, flags, story
<1>2. StreamOK' /\ LeftOK'
  <2>1. \A d \in Callers : call'[d].rest # <<>> => call[d].rest # <<>>
    BY DEF Inv, CallsOK, ForceUnBlock, NoCall
  <2>2. Unaware' => Unaware
    BY <2>1 DEF Unaware
  <2>3. /\ sock' = sock /\ holed' = holed /\ accepted' = accepted /\ sent' = sent /\ pending' = pending
        /\ conn' = conn /\ pc' = pc /\ left' = left
    BY DEF ForceUnBlock, connection, chain, stream, flags, story
  <2>. QED  BY <2>2, <2>3 DEF Inv, StreamOK, LeftOK
<1>. QED  BY <1>1, <1>2 DEF Inv

LEMMA PassStep ==
    ASSUME Inv, NEW c \in Callers, NEW k \in 0 .. Size(c), call[c].at = "write", Pass(c, k)
    PROVE Inv'
<1>a. /\ call[c].at = "write" /\ call[c].rest \in Seq(Nat)
      /\ call[c].status \in {"sent", "pending", "error"} /\ conn > 0
  BY DEF Inv, CallsOK
<1>b. call[c].rest # <<>> /\ Size(c) \in Nat /\ Tail(call[c].rest) \in Seq(Nat)
  BY <1>a DEF Inv, CallsOK, Size
<1>c. /\ Proceed(c, Tail(call[c].rest), (IF k < Size(c) THEN "pending" ELSE "sent"))
      /\ lock \in {None, c} /\ conn' = conn /\ buffers' = buffers /\ accepted' \in Nat
  BY <1>a, <1>b DEF Inv, CallsOK, LockType, Pass, story
<1>d. /\ CallsOK' /\ LockType'
      /\ \A d \in Callers \ {c} : call'[d] = call[d]
      /\ call'[c].at \in {"idle", "write", "force"}
      /\ c \in Threads /\ (IF k < Size(c) THEN "pending" ELSE "sent") = "pending" =>
             call'[c].status = "pending"
  <2>. DEFINE rest == Tail(call[c].rest)
              status == (IF k < Size(c) THEN "pending" ELSE "sent")
  <2>1. rest \in Seq(Nat) /\ status \in {"sent", "pending", "error"} /\ Proceed(c, rest, status)
    BY <1>a, <1>b, <1>c
  <2>. HIDE DEF rest, status
  <2>2. CallsOK /\ LockType
    BY DEF Inv
  <2>3. /\ CallsOK' /\ LockType'
        /\ \A d \in Callers \ {c} : call'[d] = call[d]
        /\ call'[c].at \in {"idle", "write", "force"}
        /\ c \in Threads /\ status = "pending" => call'[c].status = "pending"
    BY <1>a, <1>c, <2>1, <2>2, ProceedOK
  <2>. QED  BY <2>3 DEF status
<1>1. SocketType' /\ ChainType'
  BY DEF Inv, SocketType, ChainType, Pass, clock, chain, story
<1>2. InHandlers' /\ ToldOK' /\ EndsOK' /\ ReadyOK'
  BY SocketAssumption, HandlersAre DEF Inv, SocketType, CallsOK, InHandlers, ToldOK, EndsOK, ReadyOK,
     Callers, NoCall, Pass, SendFails, Proceed, chain, story
<1>3. BytesType'
  <2>1. k \in Nat /\ k <= Size(c)
    BY <1>b
  <2>2. Block(Size(c), 0) \in Seq(Bytes) /\ Block(Size(c), k) \in Seq(Bytes)
    BY <1>a, <1>b, <2>1, BlockOK DEF Inv
  <2>3. k # 0 => SubSeq(Block(Size(c), 0), 1, k) \in Seq(Bytes)
    <3>1. \A s \in Nat : s # 0 => Len(Block(s, 0)) = s - 0
      <4>1. SocketType /\ CallsOK /\ \A s \in Nat : 0 \in 0 .. s
        BY DEF Inv
      <4>. QED  BY <1>a, <4>1, BlockOK
    <3>2. k # 0 => Size(c) \in Nat \ {0} /\ k \in 1 .. Size(c)
      BY <1>b, <2>1
    <3>3. k # 0 => Len(Block(Size(c), 0)) = Size(c)
      BY <1>b, <3>1, <3>2
    <3>. DEFINE b == Block(Size(c), 0)
    <3>4. b \in Seq(Bytes) /\ (k # 0 => k \in 1 .. Len(b))
      BY <2>2, <3>2, <3>3
    <3>. HIDE DEF b
    <3>5. k # 0 => SubSeq(b, 1, k) \in Seq(Bytes)
      BY <3>4
    <3>. QED  BY <3>5 DEF b
  <2>4. (IF k = 0 THEN <<>> ELSE SubSeq(Block(Size(c), 0), 1, k)) \in Seq(Bytes)
    BY <2>3
  <2>5. sent' \in Seq(Bytes)
    BY <2>4 DEF Inv, BytesType, Pass
  <2>6. pending' \in Seq(Bytes)
    BY <2>2 DEF Pass
  <2>. QED  BY <2>5, <2>6 DEF BytesType, Bytes
<1>4. LockType'
  BY <1>d
<1>5. CallsOK'
  BY <1>d
<1>6. Waking'
  <2>1. CASE k < Size(c) /\ c \in Threads
    BY <1>d, <2>1 DEF Waking
  <2>2. CASE k < Size(c) /\ c = Chain
    <3>1. pc \in Handlers \/ nest > 0
      BY <1>a, <2>2 DEF Inv, InHandlers
    <3>2. pc # "select"
      BY <3>1, HandlersAre DEF Inv, InHandlers
    <3>3. pc' = pc /\ (pc = "armed" => late')
      BY <2>2 DEF Pass, chain
    <3>. QED  BY <3>2, <3>3 DEF Waking
  <2>3. CASE ~ k < Size(c)
    BY <2>3 DEF Pass, Waking
  <2>. QED  BY <2>1, <2>2, <2>3 DEF Callers
<1>7. TimersOK'
  <2>1. UNCHANGED <<timers, due, net, fin, mixed>>
    BY DEF Pass, vars, connection, clock, chain, stream, flags, story
  <2>. QED  BY <1>d, <2>1 DEF Inv, TimersOK
<1>8. StreamOK' /\ LeftOK'
  <2>1. /\ sock # 0 /\ sock' = sock /\ holed' = holed /\ conn' = conn /\ pending = <<>>
        /\ accepted' = accepted + Size(c)
        /\ sent' = sent \o (IF k = 0 THEN <<>> ELSE SubSeq(Block(Size(c), 0), 1, k))
        /\ pending' = IF k < Size(c) THEN Block(Size(c), k) ELSE <<>>
    BY DEF Pass, MustQueue, SendFails, story
  <2>2. sent \in Seq(Bytes) /\ accepted \in Nat /\ k \in 0 .. Size(c)
    BY <1>b DEF Inv, BytesType, CallsOK
  <2>3. SocketType /\ CallsOK /\ Size(c) \in Nat
    BY <1>b DEF Inv
  <2>4. CASE Size(c) = 0
    <3>1. k = 0 /\ accepted' = accepted /\ sent' = sent \o <<>> /\ pending' = <<>>
      BY <2>1, <2>2, <2>4
    <3>2. sent \o <<>> = sent
      BY <2>2
    <3>. QED  BY <2>1, <3>1, <3>2 DEF Inv, StreamOK, LeftOK
  <2>5. CASE Size(c) # 0
    <3>. DEFINE size == Size(c)
                b == Block(size, 0)
    <3>1. /\ b \in Seq(Bytes) /\ Len(b) = size /\ \A i \in 1 .. k : b[i].pos # 0
          /\ sent' = sent \o SubSeq(b, 1, k) /\ pending' = SubSeq(b, k + 1, Len(b))
      BY <1>a, <2>1, <2>2, <2>3, <2>5, BlockParts
    <3>2. Whole(conn, sent, accepted) => Whole(conn, sent \o b, accepted + size)
      BY <1>a, <2>2, <2>3, GrowsByBlock
    <3>3. k \in Nat /\ k <= Len(b)
      BY <2>2, <2>3, <3>1
    <3>. HIDE DEF b, size
    <3>4. /\ sent' \o pending' = sent \o b
          /\ (\A i \in DOMAIN sent : sent[i].pos # 0) => \A i \in DOMAIN sent' : sent'[i].pos # 0
      BY <2>2, <3>1, <3>3, MovesOn
    <3>5. sent \o pending = sent /\ accepted' = accepted + size
      BY <2>1, <2>2 DEF size
    <3>. QED  BY <2>1, <3>2, <3>4, <3>5 DEF Inv, StreamOK, LeftOK
  <2>. QED  BY <2>4, <2>5
<1>. QED  BY <1>1, <1>2, <1>3, <1>4, <1>5, <1>6, <1>7, <1>8 DEF Inv

LEMMA NetChangesStep ==
    ASSUME Inv, NEW to \in {"up", "eof", "broken"}, NetChanges(to)
    PROVE Inv'
<1>1. SocketType' /\ BytesType' /\ ChainType' /\ LockType' /\ CallsOK'
  BY DEF Inv, SocketType, ChainType, CallsOK, BytesType, LockType, NetChanges, clock, chain, stream, story
<1>2. InHandlers' /\ Waking' /\ ToldOK' /\ EndsOK' /\ ReadyOK' /\ TimersOK'
  BY DEF Inv, InHandlers, Waking, ToldOK, EndsOK, ReadyOK, TimersOK, NetChanges, clock, chain, flags, story
<1>3. StreamOK' /\ LeftOK'
  BY DEF Inv, SocketType, StreamOK, LeftOK, Unaware, NetChanges, clock, chain, stream, flags, story
<1>. QED  BY <1>1, <1>2, <1>3 DEF Inv

-----------------------------------------------------------------------------

LEMMA InitOK == Init => Inv
<1>. SUFFICES ASSUME Init PROVE Inv
  OBVIOUS
<1>1. SocketType
  BY SocketAssumption DEF Init, SocketType
<1>2. ChainType
  <2>1. pipe \in BOOLEAN /\ removal \in BOOLEAN /\ canWrite \in BOOLEAN
    BY DEF Init
  <2>. QED  BY <2>1, SocketAssumption, HandlersAre DEF Init, ChainType
<1>3. BytesType
  BY DEF Init, BytesType
<1>4. LockType /\ CallsOK
  BY SocketAssumption DEF Init, LockType, CallsOK, Callers, NoCall
<1>5. StreamOK /\ LeftOK
  BY DEF Init, StreamOK, LeftOK, Unaware, NoCall
<1>6. InHandlers /\ Waking /\ ToldOK /\ EndsOK /\ ReadyOK /\ TimersOK
  BY DEF Init, InHandlers, Waking, ToldOK, EndsOK, ReadyOK, TimersOK, Callers, NoCall
<1>. QED  BY <1>1, <1>2, <1>3, <1>4, <1>5, <1>6 DEF Inv

LEMMA StepOK == Inv /\ [Next]_vars => Inv'
<1>. SUFFICES ASSUME Inv, [Next]_vars PROVE Inv'
  OBVIOUS
<1>1. CASE ChainStep
  BY <1>1, CollectStep, FireStep, CheckEndsStep, WatchStep, WakeStep, SkipStep, FindsErrorStep,
     ConnectsStep,
     ReadsStep, ResumesStep, NothingToReadStep, ShutdownStep, CloseReadStep, CloseEndsStep, NoDrainStep,
     DrainStep, ClearStep, DrainFailsStep, Zenon DEF ChainStep
<1>2. CASE Return
  BY <1>2, ReturnStep
<1>3. CASE UserStep
  BY <1>3, UserDisconnectsStep, AcceptStep, PauseStep, ResumeStep, ConnectToStep, Zenon DEF UserStep
<1>4. CASE \E c \in Callers : CallStep(c)
  <2>1. PICK c \in Callers : CallStep(c)
    BY <1>4
  <2>2. CASE \E k \in 0 .. (IF call[c].at = "write" THEN Size(c) ELSE 0) : Pass(c, k)
    <3>1. PICK k \in 0 .. (IF call[c].at = "write" THEN Size(c) ELSE 0) : Pass(c, k)
      BY <2>2
    <3>2. call[c].at = "write"
      BY <3>1 DEF Pass
    <3>3. k \in 0 .. Size(c)
      BY <3>1, <3>2
    <3>. QED  BY <3>1, <3>2, <3>3, PassStep
  <2>. QED  BY <2>1, <2>2, QueueStep, SendErrorStep, ReportStep, InsertStep, RelockStep, ForceUnBlockStep,
               Zenon DEF CallStep
<1>5. CASE \E c \in Callers : \E sizes \in Writes : Send(c, sizes)
  BY <1>5, SendStep
<1>6. CASE \E to \in {"up", "eof", "broken"} : NetChanges(to)
  BY <1>6, NetChangesStep
<1>7. CASE UNCHANGED vars
  <2>1. SocketType' /\ BytesType' /\ ChainType' /\ LockType' /\ CallsOK'
    BY <1>7 DEF Inv, SocketType, BytesType, ChainType, LockType, CallsOK, vars, connection, clock, chain,
       stream, flags, story
  <2>2. InHandlers' /\ Waking' /\ ToldOK' /\ EndsOK' /\ ReadyOK' /\ TimersOK'
    BY <1>7 DEF Inv, InHandlers, Waking, ToldOK, EndsOK, ReadyOK, TimersOK, vars, connection, clock, chain,
       flags, story
  <2>3. StreamOK' /\ LeftOK'
    BY <1>7 DEF Inv, StreamOK, LeftOK, Unaware, vars, connection, chain, stream, flags, story
  <2>. QED  BY <2>1, <2>2, <2>3 DEF Inv
<1>. QED  BY <1>1, <1>2, <1>3, <1>4, <1>5, <1>6, <1>7 DEF Next

LEMMA InvAlways == Spec => []Inv
  BY InitOK, StepOK, PTL DEF Spec

\* Type correctness: SendLock is held by the thread that is in its loop, and by one only.
THEOREM SocketTypeOK == Spec => []TypeOK
<1>1. Inv => TypeOK
  BY TypeParts DEF Inv
<1>. QED  BY <1>1, InvAlways, PTL

\* The chain does not sleep over what a thread left pending: ILibAsyncSocket_SendTo_MultiWrite calls
\* ILibForceUnBlockChain after the block is in the list, whatever the other threads do in between.
THEOREM WakesToSendAlways == Spec => []WakesToSend
<1>1. Inv => WakesToSend
  BY DEF Inv, Waking, WakesToSend
<1>. QED  BY <1>1, InvAlways, PTL

\* What ILibAsyncSocket_SendTo_MultiWrite accepted for a connection, from any thread, is what its peer gets
\* followed by what is pending, in order; what is pending at its end goes with it, known cases aside.
THEOREM StreamWholeAlways == Spec => []StreamWhole
<1>1. Inv => StreamWhole
  BY DEF Inv, StreamOK, LeftOK, StreamWhole
<1>. QED  BY <1>1, InvAlways, PTL

\* A user of ILibAsyncSocket is told of a connection's start before its end and once each, and a
\* connection that does well is not ended for it, but for one mixed with another or made at once.
THEOREM TellsTruthAlways == Spec => []TellsTruth
<1>1. Inv => TellsTruth
  BY DEF Inv, ToldOK, EndsOK, TimersOK, TellsTruth
<1>. QED  BY <1>1, InvAlways, PTL
=============================================================================
