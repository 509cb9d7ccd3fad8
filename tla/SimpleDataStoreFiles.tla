----------------------- MODULE SimpleDataStoreFiles -----------------------
(***************************************************************************)
(* What the operators of SimpleDataStore make of a file: facts about every *)
(* sequence of records, whatever wrote them.  The records a reader sees    *)
(* are a prefix; so the table it builds can be followed record by record.  *)
(***************************************************************************)
EXTENDS SimpleDataStore, FiniteSetTheorems, SequenceTheorems, TLAPS

-----------------------------------------------------------------------------
(* Types *)

\* A slot is a key with the kind of its entry.
LEMMA SlotType == Slot \subseteq Keys \X {"plain", "comp"}
BY DEF Slot

\* The empty tables have the types of tables.
LEMMA EntryTypes ==
    /\ NoEntry \in Entry
    /\ EmptyTable \in [Slot -> Entry]
    /\ EmptyCache \in [Slot -> Values \cup {None}]
BY DEF NoEntry, Entry, EmptyTable, EmptyCache

\* What WriteRecord is given is a record.
LEMMA RecordTypes ==
    \A s \in Slot : /\ Tombstone(s) \in Record
                    /\ \A v \in Values : Value(s, v) \in Record
BY DEF Tombstone, Value, Record

\* The records a reader accepts are finitely many records of the file.
LEMMA ParsedFinite ==
    ASSUME NEW log \in Seq(Record)
    PROVE  /\ Parsed(log) \subseteq 1 .. Len(log)
           /\ IsFiniteSet(Parsed(log))
           /\ Cardinality(Parsed(log)) \in 0 .. Len(log)
<1>1. Len(log) \in Nat /\ DOMAIN log = 1 .. Len(log)
    OBVIOUS
<1>2. Parsed(log) \subseteq 1 .. Len(log)
    BY <1>1 DEF Parsed
<1>3. IsFiniteSet(1 .. Len(log)) /\ Cardinality(1 .. Len(log)) = Len(log)
    BY <1>1, FS_Interval
<1>4. IsFiniteSet(Parsed(log)) /\ Cardinality(Parsed(log)) <= Len(log)
    BY <1>2, <1>3, FS_Subset
<1>5. Cardinality(Parsed(log)) \in Nat
    BY <1>4, FS_CardinalityType
<1> QED
    BY <1>1, <1>2, <1>4, <1>5

\* Rebuilding makes a table, a dirty count and a file of the right types.
LEMMA RebuildTypes ==
    ASSUME NEW log \in Seq(Record)
    PROVE  /\ Rebuilt(log) \in [Slot -> Entry]
           /\ Cardinality(Superseded(log)) \in Nat
           /\ ValidPrefix(log) \in Seq(Record)
<1>1. Len(log) \in Nat /\ DOMAIN log = 1 .. Len(log) /\ \A i \in 1 .. Len(log) : log[i] \in Record
    OBVIOUS
<1>2. Rebuilt(log) \in [Slot -> Entry]
    <2>1. SUFFICES ASSUME NEW s \in Slot PROVE Rebuilt(log)[s] \in Entry
        BY DEF Rebuilt
    <2>2. CASE \E i \in DOMAIN log : IsLive(log, s, i)
        <3> DEFINE i == CHOOSE i \in DOMAIN log : IsLive(log, s, i)
        <3>1. i \in 1 .. Len(log)
            BY <2>2, <1>1
        <3>2. log[i].val \in Values \cup {None}
            BY <3>1, <1>1 DEF Record
        <3>3. Rebuilt(log)[s] = [val |-> log[i].val, off |-> i]
            BY <2>2 DEF Rebuilt
        <3> QED
            BY <3>1, <3>2, <3>3 DEF Entry
    <2>3. CASE ~\E i \in DOMAIN log : IsLive(log, s, i)
        BY <2>3, EntryTypes DEF Rebuilt
    <2> QED
        BY <2>2, <2>3
<1>3. Cardinality(Superseded(log)) \in Nat
    <2>1. Superseded(log) \subseteq Parsed(log)
        BY DEF Superseded
    <2> QED
        BY <2>1, ParsedFinite, FS_Subset, FS_CardinalityType
<1>4. ValidPrefix(log) \in Seq(Record)
    <2> DEFINE n == Cardinality(Parsed(log))
    <2>1. n \in Nat /\ n <= Len(log)
        BY <1>1, ParsedFinite
    <2>2. \A i \in 1 .. n : log[i] \in Record
        BY <1>1, <2>1
    <2> QED
        BY <2>1, <2>2 DEF ValidPrefix
<1> QED
    BY <1>2, <1>3, <1>4

\* The dirty size is counted up to the threshold.
LEMMA AtMostType ==
    \A n \in Nat : AtMost(n, MinDirty) \in 0 .. MinDirty
BY ParametersAssumption DEF AtMost

\* A file answers with a value or with none.
LEMMA FileGetType ==
    ASSUME NEW log, NEW tbl \in [Slot -> Entry], NEW k \in Keys
    PROVE  FileGet(log, tbl, k) \in Values \cup {None}
BY DEF FileGet, ReadBack, Entry, Plain, Comp, Slot

-----------------------------------------------------------------------------
(* Reading *)

AllAccepted(log) == \A i \in DOMAIN log : Accepted(log[i])
NoneSwallows(log) == \A i \in DOMAIN log : ~ (log[i].part = "value" /\ log[i].slot[2] = "comp")

\* An accepted record of log is the one that e is about.
Points(log, s, e) ==
    /\ e.off \in DOMAIN log
    /\ log[e.off].slot = s /\ log[e.off].val = e.val
    /\ Accepted(log[e.off])

\* A reader sees the first records of the file, up to some point.
LEMMA ParsedIsPrefix ==
    ASSUME NEW log \in Seq(Record)
    PROVE  /\ Cardinality(Parsed(log)) \in 0 .. Len(log)
           /\ Parsed(log) = 1 .. Cardinality(Parsed(log))
<1>. DEFINE P == Parsed(log)
            c == Cardinality(P)
<1>1. P \subseteq 1 .. Len(log) /\ IsFiniteSet(P) /\ c \in 0 .. Len(log) /\ Len(log) \in Nat
    BY ParsedFinite
<1>2. ASSUME NEW i \in P PROVE 1 .. i \subseteq P
    BY <1>1 DEF Parsed
<1>. HIDE DEF P
<1>3. ASSUME NEW i \in P PROVE i <= c
    <2>1. i \in Nat /\ 1 <= i
        BY <1>1
    <2>2. Cardinality(1 .. i) = i
        BY <2>1, FS_Interval
    <2>3. Cardinality(1 .. i) <= c
        BY <1>1, <1>2, FS_Subset
    <2> QED
        BY <2>2, <2>3
<1>4. P \subseteq 1 .. c
    BY <1>1, <1>3
<1>5. c \in Nat /\ IsFiniteSet(1 .. c) /\ Cardinality(1 .. c) = c
    <2>1. c \in Nat /\ 1 \in Int /\ c \in Int
        BY <1>1
    <2>2. IsFiniteSet(1 .. c) /\ Cardinality(1 .. c) = IF 1 > c THEN 0 ELSE c - 1 + 1
        BY <2>1, FS_Interval
    <2> QED
        BY <2>1, <2>2
<1>6. P = 1 .. c
    BY <1>4, <1>5, FS_Subset
<1> QED
    BY <1>1, <1>6 DEF P

\* A file all of whose records are accepted, none but the last cut short, is seen whole.
LEMMA ParsedWhole ==
    ASSUME NEW log \in Seq(Record), AllAccepted(log), NoneSwallows(log)
    PROVE  Parsed(log) = DOMAIN log
<1>1. DOMAIN log = 1 .. Len(log) /\ Len(log) \in Nat
    OBVIOUS
<1>2. \A i \in DOMAIN log : Accepted(log[i]) /\ log[i].part # "value"
    BY DEF AllAccepted, NoneSwallows, Accepted
<1> QED
    BY <1>1, <1>2 DEF Parsed

\* At most one record is the live one of a slot.
LEMMA LiveIsOne ==
    ASSUME NEW log \in Seq(Record), NEW s, NEW i, NEW j, IsLive(log, s, i), IsLive(log, s, j)
    PROVE  i = j
<1>1. i \in Nat /\ j \in Nat
    BY ParsedFinite DEF IsLive, IsLatest
<1> QED
    BY <1>1 DEF IsLive, IsLatest

\* The entry of a slot is the one record that is live for it.
LEMMA RebuiltLive ==
    ASSUME NEW log \in Seq(Record), NEW s \in Slot, NEW i, IsLive(log, s, i)
    PROVE  Rebuilt(log)[s] = [val |-> log[i].val, off |-> i]
<1>1. i \in DOMAIN log
    BY DEF IsLive, IsLatest, Parsed
<1>2. (CHOOSE j \in DOMAIN log : IsLive(log, s, j)) = i
    <2>1. \A j \in DOMAIN log : IsLive(log, s, j) => j = i
        BY LiveIsOne
    <2> QED
        BY <1>1, <2>1
<1> QED
    BY <1>1, <1>2 DEF Rebuilt

\* A slot without a live record has no entry.
LEMMA RebuiltDead ==
    ASSUME NEW log, NEW s \in Slot, \A i \in DOMAIN log : ~ IsLive(log, s, i)
    PROVE  Rebuilt(log)[s] = NoEntry
BY DEF Rebuilt

\* An entry made by reading a file points at an accepted record of it.
LEMMA RebuiltPoints ==
    ASSUME NEW log \in Seq(Record), NEW s \in Slot, Rebuilt(log)[s] # NoEntry
    PROVE  /\ IsLive(log, s, Rebuilt(log)[s].off)
           /\ Points(log, s, Rebuilt(log)[s])
           /\ Rebuilt(log)[s].val # None
<1>1. PICK i \in DOMAIN log : IsLive(log, s, i)
    BY RebuiltDead
<1>2. Rebuilt(log)[s] = [val |-> log[i].val, off |-> i]
    BY <1>1, RebuiltLive
<1>3. Accepted(log[i]) /\ log[i].slot = s /\ log[i].val # None
    BY <1>1 DEF IsLive, IsLatest, Parsed
<1> QED
    BY <1>1, <1>2, <1>3 DEF Points

\* Two files in which a reader sees records of the same values have the same table.
LEMMA RebuiltSame ==
    ASSUME NEW a \in Seq(Record), NEW b \in Seq(Record), Parsed(a) = Parsed(b),
           \A i \in Parsed(a) : a[i].slot = b[i].slot /\ a[i].val = b[i].val
    PROVE  Rebuilt(a) = Rebuilt(b)
<1>1. ASSUME NEW s \in Slot PROVE Rebuilt(a)[s] = Rebuilt(b)[s]
    <2>1. \A i : IsLive(a, s, i) <=> IsLive(b, s, i)
        BY DEF IsLive, IsLatest
    <2>2. CASE \E i : IsLive(a, s, i)
        <3>1. PICK i : IsLive(a, s, i)
            BY <2>2
        <3>2. IsLive(b, s, i) /\ a[i].val = b[i].val
            BY <2>1, <3>1 DEF IsLive, IsLatest
        <3>3. Rebuilt(a)[s] = [val |-> a[i].val, off |-> i]
            BY <3>1, RebuiltLive
        <3>4. Rebuilt(b)[s] = [val |-> b[i].val, off |-> i]
            BY <3>2, RebuiltLive
        <3> QED
            BY <3>2, <3>3, <3>4
    <2>3. CASE ~ \E i : IsLive(a, s, i)
        BY <2>1, <2>3, RebuiltDead
    <2> QED
        BY <2>2, <2>3
<1> QED
    BY <1>1 DEF Rebuilt

\* Cutting off what no reader sees changes no table, and leaves accepted records only.
LEMMA ValidPrefixSame ==
    ASSUME NEW log \in Seq(Record)
    PROVE  /\ Rebuilt(ValidPrefix(log)) = Rebuilt(log)
           /\ AllAccepted(ValidPrefix(log))
           /\ \A s \in Slot : ReadBack(ValidPrefix(log), s, Rebuilt(log)[s]) = ReadBack(log, s, Rebuilt(log)[s])
<1>. DEFINE c == Cardinality(Parsed(log))
            p == ValidPrefix(log)
<1>1. c \in Nat /\ c <= Len(log) /\ Parsed(log) = 1 .. c /\ Len(log) \in Nat /\ DOMAIN log = 1 .. Len(log)
    BY ParsedIsPrefix
<1>2. p \in Seq(Record)
    BY RebuildTypes
<1>3. DOMAIN p = 1 .. c /\ \A i \in 1 .. c : p[i] = log[i]
    BY DEF ValidPrefix
<1>. HIDE DEF c, p
<1>4. \A i \in 1 .. c : Accepted(log[i]) /\ \A j \in 1 .. i - 1 : Accepted(log[j]) /\ log[j].part # "value"
    BY <1>1 DEF Parsed
<1>5. Parsed(p) = 1 .. c
    <2>1. \A i \in 1 .. c : \A j \in 1 .. i - 1 : j \in 1 .. c
        BY <1>1
    <2> QED
        BY <1>3, <1>4, <2>1 DEF Parsed
<1>6. Rebuilt(p) = Rebuilt(log)
    BY <1>1, <1>2, <1>3, <1>5, RebuiltSame
<1>7. AllAccepted(p)
    BY <1>3, <1>4 DEF AllAccepted
<1>8. ASSUME NEW s \in Slot PROVE ReadBack(p, s, Rebuilt(log)[s]) = ReadBack(log, s, Rebuilt(log)[s])
    <2>1. CASE Rebuilt(log)[s] = NoEntry
        <3>1. NoEntry.off \notin DOMAIN p /\ NoEntry.off \notin DOMAIN log
            BY <1>1, <1>3 DEF NoEntry
        <3> QED
            BY <2>1, <3>1 DEF ReadBack
    <2>2. CASE Rebuilt(log)[s] # NoEntry
        <3>1. Rebuilt(log)[s].off \in 1 .. c
            BY <1>1, <2>2, RebuiltPoints DEF IsLive, IsLatest
        <3>2. Rebuilt(log)[s].off \in DOMAIN p /\ Rebuilt(log)[s].off \in DOMAIN log
            BY <1>1, <1>3, <3>1
        <3> QED
            BY <1>3, <3>1, <3>2 DEF ReadBack
    <2> QED
        BY <2>1, <2>2
<1> QED
    BY <1>6, <1>7, <1>8 DEF p

\* Nor does filling a torn value with other bytes, which is never read either way.
LEMMA FilledSame ==
    ASSUME NEW p \in Seq(Record), AllAccepted(p)
    PROVE  /\ Filled(p) \in Seq(Record) /\ DOMAIN Filled(p) = DOMAIN p
           /\ \A i \in DOMAIN p : /\ Filled(p)[i].slot = p[i].slot /\ Filled(p)[i].val = p[i].val
                                  /\ Filled(p)[i].part = IF p[i].part = "value" THEN "garbled" ELSE p[i].part
           /\ AllAccepted(Filled(p))
           /\ Parsed(p) = DOMAIN p => Rebuilt(Filled(p)) = Rebuilt(p)
           /\ \A s, e : ReadBack(Filled(p), s, e) = ReadBack(p, s, e)
<1>. DEFINE q == Filled(p)
            n == Len(p)
<1>1. n \in Nat /\ DOMAIN p = 1 .. n /\ \A i \in 1 .. n : p[i] \in Record
    OBVIOUS
<1>2. \A i \in 1 .. n :
        /\ q[i] = IF p[i].part = "value" THEN [p[i] EXCEPT !.part = "garbled"] ELSE p[i]
        /\ q[i] \in Record /\ q[i].slot = p[i].slot /\ q[i].val = p[i].val
        /\ q[i].part = IF p[i].part = "value" THEN "garbled" ELSE p[i].part
    BY <1>1 DEF Filled, Record
<1>3. DOMAIN q = 1 .. n /\ q \in Seq(Record)
    BY <1>1, <1>2 DEF Filled
<1>. HIDE DEF q
<1>4. AllAccepted(q) /\ \A i \in 1 .. n : q[i].part # "value"
    BY <1>1, <1>2, <1>3 DEF AllAccepted, Accepted
<1>5. Parsed(q) = 1 .. n
    <2>1. \A i \in 1 .. n : \A j \in 1 .. i - 1 : j \in 1 .. n
        BY <1>1
    <2> QED
        BY <1>3, <1>4, <2>1 DEF Parsed, AllAccepted
<1>6. Parsed(p) = DOMAIN p => Rebuilt(q) = Rebuilt(p)
    BY <1>1, <1>2, <1>3, <1>5, RebuiltSame
<1>7. ASSUME NEW s, NEW e PROVE ReadBack(q, s, e) = ReadBack(p, s, e)
    BY <1>1, <1>2, <1>3 DEF ReadBack
<1> QED
    BY <1>1, <1>2, <1>3, <1>4, <1>6, <1>7 DEF q

\* So the repair of a file changes nothing that is read, and leaves a file that is
\* read to its end.
LEMMA RepairsSame ==
    ASSUME NEW log \in Seq(Record), NEW p \in Repairs(log)
    PROVE  /\ p \in Seq(Record) /\ DOMAIN p \subseteq DOMAIN log
           /\ \A i \in DOMAIN p : /\ p[i].slot = log[i].slot /\ p[i].val = log[i].val
                                  /\ p[i].part = log[i].part \/ (log[i].part = "value" /\ p[i].part = "garbled")
           /\ Rebuilt(p) = Rebuilt(log)
           /\ AllAccepted(p)
           /\ \A s \in Slot : ReadBack(p, s, Rebuilt(log)[s]) = ReadBack(log, s, Rebuilt(log)[s])
<1>. DEFINE v == ValidPrefix(log)
<1>1. v \in Seq(Record)
    BY RebuildTypes
<1>2. DOMAIN v = Parsed(log) /\ DOMAIN v \subseteq DOMAIN log /\ \A i \in DOMAIN v : v[i] = log[i]
    BY ParsedIsPrefix DEF ValidPrefix
<1>3. Parsed(v) = DOMAIN v
    <2>1. \A i \in DOMAIN v : \A j \in 1 .. i - 1 : j \in DOMAIN v
        BY <1>1
    <2> QED
        BY <1>2, <2>1 DEF Parsed
<1>4. p = v \/ p = Filled(v)
    BY DEF Repairs
<1>5. CASE p = v
    BY <1>1, <1>2, <1>5, ValidPrefixSame
<1>6. CASE p = Filled(v)
    <2>1. AllAccepted(v)
        BY ValidPrefixSame
    <2>2. /\ p \in Seq(Record) /\ DOMAIN p = DOMAIN v
          /\ \A i \in DOMAIN v : /\ p[i].slot = v[i].slot /\ p[i].val = v[i].val
                                 /\ p[i].part = IF v[i].part = "value" THEN "garbled" ELSE v[i].part
          /\ AllAccepted(p) /\ Rebuilt(p) = Rebuilt(v) /\ \A s, e : ReadBack(p, s, e) = ReadBack(v, s, e)
        BY <1>1, <1>3, <1>6, <2>1, FilledSame
    <2> QED
        BY <1>2, <2>2, ValidPrefixSame
<1> QED
    BY <1>4, <1>5, <1>6

\* Nothing is in an empty file.
LEMMA RebuiltNone ==
    /\ Rebuilt(<<>>) = EmptyTable
    /\ AllAccepted(<<>>) /\ NoneSwallows(<<>>)
<1>1. DOMAIN <<>> = {}
    OBVIOUS
<1> QED
    BY <1>1 DEF Rebuilt, EmptyTable, AllAccepted, NoneSwallows

-----------------------------------------------------------------------------
(* Appending *)

\* What Append gives, record by record.
LEMMA Appended ==
    ASSUME NEW log \in Seq(Record), NEW r \in Record
    PROVE  /\ Append(log, r) \in Seq(Record)
           /\ Len(log) \in Nat /\ Len(Append(log, r)) = Len(log) + 1
           /\ DOMAIN log = 1 .. Len(log) /\ DOMAIN Append(log, r) = 1 .. Len(log) + 1
           /\ \A i \in 1 .. Len(log) : Append(log, r)[i] = log[i]
           /\ Append(log, r)[Len(log) + 1] = r
OBVIOUS

\* A reader sees the new record if it saw all the others.
LEMMA ParsedAppend ==
    ASSUME NEW log \in Seq(Record), NEW r \in Record
    PROVE  Parsed(Append(log, r)) = Parsed(log) \cup
               IF AllAccepted(log) /\ NoneSwallows(log) /\ Accepted(r) THEN {Len(log) + 1} ELSE {}
<1>. DEFINE a == Append(log, r)
<1>. DEFINE n == Len(log)
<1>1. /\ n \in Nat /\ DOMAIN log = 1 .. n /\ DOMAIN a = 1 .. n + 1
      /\ \A i \in 1 .. n : a[i] = log[i]
      /\ a[n + 1] = r
    BY Appended
<1>. HIDE DEF a, n
<1>2. \A i \in 1 .. n : i \in Parsed(a) <=> i \in Parsed(log)
    <2>. SUFFICES ASSUME NEW i \in 1 .. n PROVE i \in Parsed(a) <=> i \in Parsed(log)
        OBVIOUS
    <2>1. \A j \in 1 .. i - 1 : j \in 1 .. n
        BY <1>1
    <2>2. i \in 1 .. n + 1
        BY <1>1
    <2> QED
        BY <1>1, <2>1, <2>2 DEF Parsed
<1>3. n + 1 \in Parsed(a) <=> AllAccepted(log) /\ NoneSwallows(log) /\ Accepted(r)
    <2>1. n + 1 \in 1 .. n + 1 /\ 1 .. (n + 1) - 1 = 1 .. n
        BY <1>1
    <2>2. n + 1 \in Parsed(a) <=>
              /\ Accepted(r)
              /\ \A j \in 1 .. n : Accepted(log[j]) /\ log[j].part # "value"
        BY <1>1, <2>1 DEF Parsed
    <2>3. \A j \in 1 .. n : Accepted(log[j]) =>
              (log[j].part # "value" <=> ~ (log[j].part = "value" /\ log[j].slot[2] = "comp"))
        BY DEF Accepted
    <2> QED
        BY <1>1, <2>2, <2>3 DEF AllAccepted, NoneSwallows
<1>4. Parsed(a) \subseteq 1 .. n + 1 /\ Parsed(log) \subseteq 1 .. n
    BY <1>1 DEF Parsed
<1>5. \A i \in 1 .. n + 1 : i \in 1 .. n \/ i = n + 1
    BY <1>1
<1>6. n + 1 \notin 1 .. n
    BY <1>1
<1>7. CASE AllAccepted(log) /\ NoneSwallows(log) /\ Accepted(r)
    <2>1. Parsed(a) = Parsed(log) \cup {n + 1}
        BY <1>2, <1>3, <1>4, <1>5, <1>7
    <2> QED
        BY <1>7, <2>1 DEF a, n
<1>8. CASE ~ (AllAccepted(log) /\ NoneSwallows(log) /\ Accepted(r))
    <2>1. Parsed(a) = Parsed(log)
        BY <1>2, <1>3, <1>4, <1>5, <1>6, <1>8
    <2> QED
        BY <1>8, <2>1 DEF a
<1> QED
    BY <1>7, <1>8

\* A record of one slot leaves the entries of the others.
LEMMA RebuiltOther ==
    ASSUME NEW log \in Seq(Record), NEW r \in Record, NEW s \in Slot, s # r.slot
    PROVE  Rebuilt(Append(log, r))[s] = Rebuilt(log)[s]
<1>. DEFINE a == Append(log, r)
<1>. DEFINE n == Len(log)
<1>1. /\ n \in Nat /\ a \in Seq(Record) /\ \A i \in 1 .. n : a[i] = log[i]
      /\ a[n + 1] = r
    BY Appended
<1>2. Parsed(log) \subseteq 1 .. n
    BY ParsedFinite
<1>3. Parsed(a) = Parsed(log) \/ Parsed(a) = Parsed(log) \cup {n + 1}
    BY ParsedAppend
<1>. HIDE DEF a, n
<1>4. \A i : IsLatest(a, s, i) <=> IsLatest(log, s, i)
    BY <1>1, <1>2, <1>3 DEF IsLatest
<1>5. \A i : IsLatest(log, s, i) => a[i] = log[i]
    BY <1>1, <1>2 DEF IsLatest
<1>6. \A i : IsLive(a, s, i) <=> IsLive(log, s, i)
    BY <1>4, <1>5 DEF IsLive
<1>7. CASE \E i : IsLive(log, s, i)
    <2>1. PICK i : IsLive(log, s, i)
        BY <1>7
    <2>2. a[i] = log[i]
        BY <1>5, <2>1 DEF IsLive
    <2>3. Rebuilt(a)[s] = [val |-> a[i].val, off |-> i]
        BY <1>1, <1>6, <2>1, RebuiltLive
    <2>4. Rebuilt(log)[s] = [val |-> log[i].val, off |-> i]
        BY <2>1, RebuiltLive
    <2> QED
        BY <2>2, <2>3, <2>4 DEF a
<1>8. CASE ~ \E i : IsLive(log, s, i)
    <2>1. Rebuilt(a)[s] = NoEntry
        BY <1>6, <1>8, RebuiltDead
    <2>2. Rebuilt(log)[s] = NoEntry
        BY <1>8, RebuiltDead
    <2> QED
        BY <2>1, <2>2 DEF a
<1> QED
    BY <1>7, <1>8

\* The entry that a record makes when a reader gets to it.
Entered(log, r) == IF r.val = None THEN NoEntry ELSE [val |-> r.val, off |-> Len(log) + 1]

\* A whole record behind a file that is read to its end enters the table, as
\* WriteRecord enters it (a tombstone removes its entry).
LEMMA RebuiltEntered ==
    ASSUME NEW log \in Seq(Record), NEW r \in Record,
           AllAccepted(log), NoneSwallows(log), Accepted(r)
    PROVE  Rebuilt(Append(log, r)) = [Rebuilt(log) EXCEPT ![r.slot] = Entered(log, r)]
<1>. DEFINE a == Append(log, r)
            n == Len(log)
            s == r.slot
<1>1. n \in Nat /\ a \in Seq(Record) /\ a[n + 1] = r /\ DOMAIN a = 1 .. n + 1 /\ s \in Slot
    BY Appended DEF Record
<1>2. Parsed(log) \subseteq 1 .. n
    BY ParsedFinite
<1>3. Parsed(a) = Parsed(log) \cup {n + 1}
    BY ParsedAppend
<1>. HIDE DEF a, n
<1>4. \A i : IsLatest(a, s, i) <=> i = n + 1
    <2>1. IsLatest(a, s, n + 1)
        <3>1. \A j \in Parsed(a) : ~ j > n + 1
            BY <1>1, <1>2, <1>3
        <3> QED
            BY <1>1, <1>3, <3>1 DEF IsLatest
    <2>2. ASSUME NEW i, IsLatest(a, s, i) PROVE i = n + 1
        <3>1. i \in 1 .. n \/ i = n + 1
            BY <1>2, <1>3, <2>2 DEF IsLatest
        <3>2. i \in 1 .. n => n + 1 > i
            BY <1>1
        <3> QED
            BY <1>1, <1>3, <2>2, <3>1, <3>2 DEF IsLatest
    <2> QED
        BY <2>1, <2>2
<1>5. Rebuilt(a)[s] = Entered(log, r)
    <2>1. CASE r.val = None
        <3>1. \A i \in DOMAIN a : ~ IsLive(a, s, i)
            BY <1>1, <1>4, <2>1 DEF IsLive
        <3>2. Rebuilt(a)[s] = NoEntry
            BY <1>1, <3>1, RebuiltDead
        <3> QED
            BY <2>1, <3>2 DEF Entered
    <2>2. CASE r.val # None
        <3>1. IsLive(a, s, n + 1)
            BY <1>1, <1>4, <2>2 DEF IsLive
        <3>2. Rebuilt(a)[s] = [val |-> a[n + 1].val, off |-> n + 1]
            BY <1>1, <3>1, RebuiltLive
        <3> QED
            BY <1>1, <2>2, <3>2 DEF Entered, n
    <2> QED
        BY <2>1, <2>2
<1>6. \A x \in Slot : x # s => Rebuilt(a)[x] = Rebuilt(log)[x]
    BY RebuiltOther DEF a
<1>7. Rebuilt(a) \in [Slot -> Entry] /\ Rebuilt(log) \in [Slot -> Entry]
    BY <1>1, RebuildTypes
<1> QED
    BY <1>1, <1>5, <1>6, <1>7 DEF a

\* An accepted record is read back if it is whole.
LEMMA ReadBackPoints ==
    ASSUME NEW log, NEW s, NEW e, Points(log, s, e)
    PROVE  /\ log[e.off].part = "whole" => ReadBack(log, s, e) = e.val
           /\ log[e.off].part # "whole" => ReadBack(log, s, e) = None /\ s[2] = "comp"
BY DEF Points, ReadBack, Accepted

\* A record that is appended leaves what is read at the other entries.
LEMMA ReadBackAppend ==
    ASSUME NEW log \in Seq(Record), NEW r \in Record, NEW s, NEW e,
           e = NoEntry \/ e.off \in DOMAIN log
    PROVE  ReadBack(Append(log, r), s, e) = ReadBack(log, s, e)
<1>. DEFINE a == Append(log, r)
            n == Len(log)
<1>1. n \in Nat /\ DOMAIN log = 1 .. n /\ DOMAIN a = 1 .. n + 1 /\ \A i \in 1 .. n : a[i] = log[i]
    BY Appended
<1>. HIDE DEF a, n
<1>2. CASE e = NoEntry
    <2>1. e.off \notin DOMAIN a /\ e.off \notin DOMAIN log
        BY <1>1, <1>2 DEF NoEntry
    <2>2. ReadBack(a, s, e) = None /\ ReadBack(log, s, e) = None
        BY <2>1 DEF ReadBack
    <2> QED
        BY <2>2 DEF a
<1>3. CASE e.off \in DOMAIN log
    <2>1. e.off \in DOMAIN a /\ a[e.off] = log[e.off]
        BY <1>1, <1>3
    <2>2. ReadBack(a, s, e) = ReadBack(log, s, e)
        BY <1>3, <2>1 DEF ReadBack
    <2> QED
        BY <2>2 DEF a
<1> QED
    BY <1>2, <1>3

\* An entry that points at its record goes on to when another is appended.
LEMMA PointsAppend ==
    ASSUME NEW log \in Seq(Record), NEW r \in Record, NEW s, NEW e, Points(log, s, e)
    PROVE  Points(Append(log, r), s, e)
<1>1. e.off \in DOMAIN Append(log, r) /\ Append(log, r)[e.off] = log[e.off]
    BY Appended DEF Points
<1> QED
    BY <1>1 DEF Points

\* The entry of the last record.
LEMMA PointsLast ==
    ASSUME NEW log \in Seq(Record), NEW r \in Record, Accepted(r)
    PROVE  Points(Append(log, r), r.slot, [val |-> r.val, off |-> Len(log) + 1])
<1>1. Len(log) + 1 \in DOMAIN Append(log, r) /\ Append(log, r)[Len(log) + 1] = r
    BY Appended
<1> QED
    BY <1>1 DEF Points

\* A file is still read to its end when its last record is.
LEMMA AcceptedAppend ==
    ASSUME NEW log \in Seq(Record), NEW r \in Record
    PROVE  /\ AllAccepted(Append(log, r)) <=> AllAccepted(log) /\ Accepted(r)
           /\ NoneSwallows(Append(log, r)) <=>
                  NoneSwallows(log) /\ ~ (r.part = "value" /\ r.slot[2] = "comp")
<1>. DEFINE a == Append(log, r)
            n == Len(log)
<1>1. /\ n \in Nat /\ DOMAIN log = 1 .. n /\ DOMAIN a = 1 .. n + 1
      /\ \A i \in 1 .. n : a[i] = log[i]
      /\ a[n + 1] = r
    BY Appended
<1>2. 1 .. n + 1 = 1 .. n \cup {n + 1}
    BY <1>1
<1>. HIDE DEF a, n
<1>3. AllAccepted(a) <=> AllAccepted(log) /\ Accepted(r)
    BY <1>1, <1>2 DEF AllAccepted
<1>4. NoneSwallows(a) <=> NoneSwallows(log) /\ ~ (r.part = "value" /\ r.slot[2] = "comp")
    BY <1>1, <1>2 DEF NoneSwallows
<1> QED
    BY <1>3, <1>4 DEF a

-----------------------------------------------------------------------------
(* Files that grow *)

\* The slots of a key are two, a plain one and a compressed one.
LEMMA SlotsAre ==
    /\ \A k \in Keys : /\ Plain(k) \in Slot /\ Plain(k)[1] = k /\ Plain(k)[2] = "plain"
                       /\ Comp(k) \in Slot /\ Comp(k)[1] = k /\ Comp(k)[2] = "comp"
                       /\ Plain(k) # Comp(k)
    /\ \A s \in Slot : /\ s[1] \in Keys
                       /\ (s = Plain(s[1]) /\ s[2] = "plain") \/ (s = Comp(s[1]) /\ s[2] = "comp")
<1>1. ASSUME NEW k \in Keys
      PROVE  /\ Plain(k) \in Slot /\ Plain(k)[1] = k /\ Plain(k)[2] = "plain"
             /\ Comp(k) \in Slot /\ Comp(k)[1] = k /\ Comp(k)[2] = "comp"
    BY DEF Slot, Plain, Comp
<1>2. \A k \in Keys : Plain(k) # Comp(k)
    BY DEF Plain, Comp
<1>3. ASSUME NEW s \in Slot
      PROVE  /\ s[1] \in Keys
             /\ (s = Plain(s[1]) /\ s[2] = "plain") \/ (s = Comp(s[1]) /\ s[2] = "comp")
    <2>1. PICK k \in Keys, q \in {"plain", "comp"} : s = <<k, q>>
        BY DEF Slot
    <2>2. s[1] = k /\ s[2] = q
        BY <2>1
    <2>3. q = "plain" => s = Plain(k)
        BY <2>1 DEF Plain
    <2>4. q = "comp" => s = Comp(k)
        BY <2>1 DEF Comp
    <2> QED
        BY <2>2, <2>3, <2>4
<1> QED
    BY <1>1, <1>2, <1>3

\* Some caller stores the key in this way.
Stored(s) == s[1] \in IF s[2] = "plain" THEN PlainKeys ELSE CompressedKeys

\* Records of a file are of such slots, and a value is all that a crash tears.
Legal(log) == \A i \in DOMAIN log : Stored(log[i].slot) /\ (log[i].part = "value" => log[i].val # None)

\* The only slot that can have records of its key.
Single(s) == s[1] \notin PlainKeys \cap CompressedKeys

\* Reading a file enters only slots it has records of.
LEMMA NeverStored ==
    ASSUME NEW log \in Seq(Record), Legal(log), NEW s \in Slot, ~ Stored(s)
    PROVE  Rebuilt(log)[s] = NoEntry
BY RebuiltPoints DEF Points, Legal

\* new is old with records of k, whole or not, behind it.
Extended(old, new, k) ==
    /\ new \in Seq(Record)
    /\ \A i \in DOMAIN old : i \in DOMAIN new /\ new[i] = old[i]
    /\ Legal(old) => Legal(new)
    /\ \A s \in Slot : s[1] # k => Rebuilt(new)[s] = Rebuilt(old)[s]
    /\ \A s \in Slot, e \in Entry : Points(old, s, e) => Points(new, s, e)
    /\ \A s \in Slot, e \in Entry :
           e = NoEntry \/ Points(old, s, e) => ReadBack(new, s, e) = ReadBack(old, s, e)

\* All of them are whole.
Sealed(old, new) ==
    /\ AllAccepted(old) => AllAccepted(new)
    /\ NoneSwallows(new) <=> NoneSwallows(old)

\* A file is an extension of itself.
LEMMA ExtendedNot ==
    ASSUME NEW log \in Seq(Record), NEW k
    PROVE  Extended(log, log, k) /\ Sealed(log, log)
BY DEF Extended, Sealed

\* A record is appended: the file is one record longer.
LEMMA ExtendedOnce ==
    ASSUME NEW log \in Seq(Record), NEW r \in Record, Stored(r.slot), r.part = "value" => r.val # None
    PROVE  /\ Extended(log, Append(log, r), r.slot[1])
           /\ r.part = "whole" => Sealed(log, Append(log, r))
<1>. DEFINE a == Append(log, r)
            n == Len(log)
<1>1. /\ a \in Seq(Record) /\ n \in Nat /\ DOMAIN log = 1 .. n /\ DOMAIN a = 1 .. n + 1
      /\ \A i \in 1 .. n : a[i] = log[i]
      /\ a[n + 1] = r
    BY Appended
<1>2. \A s \in Slot : s[1] # r.slot[1] => Rebuilt(a)[s] = Rebuilt(log)[s]
    BY RebuiltOther
<1>3. \A s \in Slot, e \in Entry : Points(log, s, e) => Points(a, s, e)
    BY PointsAppend
<1>4. \A s \in Slot, e \in Entry : e = NoEntry \/ Points(log, s, e) => ReadBack(a, s, e) = ReadBack(log, s, e)
    BY ReadBackAppend DEF Points
<1>5. r.part = "whole" => Sealed(log, a)
    BY AcceptedAppend DEF Sealed, Accepted
<1>. HIDE DEF a, n
<1>6. Legal(log) => Legal(a)
    <2>1. 1 .. n + 1 = 1 .. n \cup {n + 1}
        BY <1>1
    <2> QED
        BY <1>1, <2>1 DEF Legal
<1>7. Extended(log, a, r.slot[1])
    BY <1>1, <1>2, <1>3, <1>4, <1>6 DEF Extended
<1> QED
    BY <1>5, <1>7 DEF a

\* Extensions compose, as the tombstone and the record of one put do.
LEMMA ExtendedTwice ==
    ASSUME NEW a, NEW b, NEW c, NEW k, Extended(a, b, k), Extended(b, c, k)
    PROVE  /\ Extended(a, c, k)
           /\ Sealed(a, b) /\ Sealed(b, c) => Sealed(a, c)
BY DEF Extended, Sealed

\* Nothing changes for the other keys.
LEMMA ExtendedOthers ==
    ASSUME NEW old \in Seq(Record), NEW new, NEW k, Extended(old, new, k), NEW j \in Keys, j # k
    PROVE  FileGet(new, Rebuilt(new), j) = FileGet(old, Rebuilt(old), j)
<1>1. \A s \in {Plain(j), Comp(j)} : s \in Slot /\ s[1] = j
    BY SlotsAre
<1>2. \A s \in {Plain(j), Comp(j)} : Rebuilt(new)[s] = Rebuilt(old)[s]
    BY <1>1 DEF Extended
<1>3. ASSUME NEW s \in {Plain(j), Comp(j)}
      PROVE  ReadBack(new, s, Rebuilt(old)[s]) = ReadBack(old, s, Rebuilt(old)[s])
    <2>1. s \in Slot /\ Rebuilt(old)[s] \in Entry
        BY <1>1, RebuildTypes
    <2>2. Rebuilt(old)[s] = NoEntry \/ Points(old, s, Rebuilt(old)[s])
        BY <2>1, RebuiltPoints
    <2> QED
        BY <2>1, <2>2 DEF Extended
<1> QED
    BY <1>2, <1>3 DEF FileGet

\* Reading the file again, with the repair or the conversion that it may do, leaves
\* a table that is the one of what is then in the file, and no key with another value.
LEMMA RebuildGives ==
    ASSUME NEW log \in Seq(Record), NEW m, NEW d, NEW c, RebuildKeyTable(log, m, d, c)
    PROVE  /\ main' \in Seq(Record) /\ mode' \in {m, "rw"}
           /\ table' = Rebuilt(log) /\ Rebuilt(main') = Rebuilt(log)
           /\ \A s \in Slot : ReadBack(main', s, Rebuilt(log)[s]) = ReadBack(log, s, Rebuilt(log)[s])
           /\ Legal(log) => Legal(main')
           /\ AllAccepted(log) => AllAccepted(main')
           /\ m = "rw" /\ (Rebuilt(log) # EmptyTable \/ main' = <<>>) => AllAccepted(main')
<1>1. table' = Rebuilt(log) /\ mode' \in {m, "rw"}
    BY DEF RebuildKeyTable
<1>2. \/ main' = log /\ (m # "rw" \/ Rebuilt(log) = EmptyTable)
      \/ main' \in Repairs(log)
      \/ main' = <<>> /\ Rebuilt(log) = EmptyTable
    BY DEF RebuildKeyTable
<1>3. CASE main' = log /\ (m # "rw" \/ Rebuilt(log) = EmptyTable)
    <2>1. main' = <<>> => AllAccepted(main')
        BY RebuiltNone
    <2> QED
        BY <1>1, <1>3, <2>1
<1>4. CASE main' \in Repairs(log)
    <2>1. Legal(log) => Legal(main')
        BY <1>4, RepairsSame DEF Legal
    <2> QED
        BY <1>1, <1>4, <2>1, RepairsSame
<1>5. CASE main' = <<>> /\ Rebuilt(log) = EmptyTable
    <2>1. <<>> \in Seq(Record) /\ DOMAIN <<>> = {}
        OBVIOUS
    <2>2. Legal(main') /\ AllAccepted(main')
        BY <1>5, <2>1 DEF Legal, AllAccepted
    <2>3. DOMAIN log = 1 .. Len(log) /\ NoEntry.off \notin 1 .. Len(log)
        BY DEF NoEntry
    <2>4. \A s \in Slot : Rebuilt(log)[s] = NoEntry
        BY <1>5 DEF EmptyTable
    <2>5. ASSUME NEW s \in Slot
          PROVE  ReadBack(main', s, Rebuilt(log)[s]) = ReadBack(log, s, Rebuilt(log)[s])
        <3>1. ReadBack(main', s, NoEntry) = None
            BY <1>5, <2>1 DEF ReadBack
        <3>2. ReadBack(log, s, NoEntry) = None
            BY <2>3 DEF ReadBack
        <3> QED
            BY <2>4, <3>1, <3>2
    <2> QED
        BY <1>1, <1>5, <2>1, <2>2, <2>5, RebuiltNone
<1> QED
    BY <1>2, <1>3, <1>4, <1>5

\* So what is read from it is the same for every key.
LEMMA RebuiltReads ==
    ASSUME NEW log \in Seq(Record), NEW m, NEW d, NEW c, RebuildKeyTable(log, m, d, c), NEW k \in Keys
    PROVE  FileGet(main', Rebuilt(main'), k) = FileGet(log, Rebuilt(log), k)
<1>1. /\ Rebuilt(main') = Rebuilt(log)
      /\ \A s \in Slot : ReadBack(main', s, Rebuilt(log)[s]) = ReadBack(log, s, Rebuilt(log)[s])
    BY RebuildGives
<1>2. Plain(k) \in Slot /\ Comp(k) \in Slot
    BY SlotsAre
<1> QED
    BY <1>1, <1>2 DEF FileGet
=============================================================================
