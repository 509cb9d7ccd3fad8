-------------------------- MODULE CoreStoreProofs --------------------------
(***************************************************************************)
(* The agent core keeps its core module in the store under one key, always *)
(* compressed (agentcore.c:3182), and CoreModule models the store by the   *)
(* operators of CoreDatabase.  Here: whatever a store does, the value of   *)
(* such a key changes by the steps of CoreDatabase only.                   *)
(***************************************************************************)
EXTENDS SimpleDataStoreProofs

Core == INSTANCE CoreDatabase WITH Cores <- Values

\* What the value that a new process would find for s is worth.
End(log, s) ==
    LET e == Rebuilt(log)[s]
    IN  IF e = NoEntry \/ log[e.off].part = "whole" THEN "whole"
        ELSE IF log[e.off].part = "value" THEN "torn" ELSE "garbled"

\* Whether the value of the entry of s can be read.
EntryWhole(s) == table[s] = NoEntry \/ ReadBack(File(s), s, table[s]) # None

\* A reader sees nothing of what is added to the file: it has a record that is not
\* accepted, or one that takes the bytes behind it.
Blocked(log) == ~ (AllAccepted(log) /\ NoneSwallows(log))

\* This is so for another reason than that the value is torn.
Cut(log, s) == Blocked(log) /\ End(log, s) # "torn"

\* The key k of the store as CoreDatabase has it.
CoreDb(k) ==
    [table |-> IF mode = "down" THEN Rebuilt(main)[Comp(k)].val ELSE table[Comp(k)].val,
     whole |-> IF mode = "down" THEN End(main, Comp(k)) = "whole" ELSE EntryWhole(Comp(k)),
     cache |-> cache[Comp(k)],
     file  |-> Rebuilt(main)[Comp(k)].val,
     end   |-> End(main, Comp(k)),
     cut   |-> IF mode = "down" THEN FALSE ELSE Cut(main, Comp(k))]

\* CoreDatabase has a store with a file, of which no operation fails but writes and
\* flushes of the data file and the flushes of Compact.
Alone == mode # "mem" /\ failed \subseteq {"write", "flush"}

\* k is the only key that a caller stores compressed, and none stores it in another way.
Own(k) == CompressedKeys = {k} /\ k \notin PlainKeys \cup CachedKeys

\* Some of these operations may fail.
Fails == \E F \in Faults : F \cap {"write", "flush"} # {}

-----------------------------------------------------------------------------
(* The value in the file *)

\* What a value is worth says whether it is read.
LEMMA EndReads ==
    ASSUME NEW log \in Seq(Record), NEW s \in Slot
    PROVE  /\ End(log, s) = "whole" <=>
                  Rebuilt(log)[s] = NoEntry \/ ReadBack(log, s, Rebuilt(log)[s]) # None
           /\ Rebuilt(log)[s] = NoEntry <=> Rebuilt(log)[s].val = None
<1>. DEFINE e == Rebuilt(log)[s]
<1>1. e # NoEntry => Points(log, s, e) /\ e.val # None
    BY RebuiltPoints
<1>. HIDE DEF e
<1>2. e # NoEntry => (ReadBack(log, s, e) # None <=> log[e.off].part = "whole")
    BY <1>1, ReadBackPoints
<1>3. End(log, s) = "whole" <=> e = NoEntry \/ log[e.off].part = "whole"
    BY DEF End, e
<1>4. e = NoEntry => e.val = None
    BY DEF NoEntry
<1> QED
    BY <1>1, <1>2, <1>3, <1>4 DEF e

\* A reader that sees the same records finds the same.
LEMMA EndSame ==
    ASSUME NEW old \in Seq(Record), NEW new \in Seq(Record), NEW s \in Slot,
           \A i \in DOMAIN old : i \in DOMAIN new /\ new[i] = old[i],
           Rebuilt(new)[s] = Rebuilt(old)[s]
    PROVE  End(new, s) = End(old, s)
<1>1. Rebuilt(old)[s] # NoEntry => Rebuilt(old)[s].off \in DOMAIN old
    BY RebuiltPoints DEF Points
<1> QED
    BY <1>1 DEF End

\* Reading a file again changes what it holds for no slot, but the repair may give a torn
\* value the bytes that it lacks.
LEMMA EndRebuilt ==
    ASSUME NEW log \in Seq(Record), NEW m, NEW d, NEW c, RebuildKeyTable(log, m, d, c), NEW s \in Slot
    PROVE  \/ End(main', s) = End(log, s)
           \/ m = "rw" /\ End(log, s) = "torn" /\ End(main', s) = "garbled"
<1>. DEFINE e == Rebuilt(log)[s]
<1>1. Rebuilt(main')[s] = e /\ main' \in Seq(Record)
    BY RebuildGives
<1>2. CASE e = NoEntry
    BY <1>1, <1>2 DEF End
<1>3. CASE e # NoEntry
    <2>1. Rebuilt(log) # EmptyTable
        BY <1>3 DEF EmptyTable
    <2>2. main' = log \/ (m = "rw" /\ main' \in Repairs(log))
        BY <2>1 DEF RebuildKeyTable
    <2>3. CASE main' = log
        BY <2>3
    <2>4. CASE m = "rw" /\ main' \in Repairs(log)
        <3>1. e.off \in DOMAIN main'
            BY <1>1, <1>3, RebuiltPoints DEF Points
        <3>2. \/ main'[e.off].part = log[e.off].part
              \/ log[e.off].part = "value" /\ main'[e.off].part = "garbled"
            BY <2>4, <3>1, RepairsSame
        <3>. HIDE DEF e
        <3>3. End(main', s) = IF main'[e.off].part = "whole" THEN "whole"
                              ELSE IF main'[e.off].part = "value" THEN "torn" ELSE "garbled"
            BY <1>1, <1>3 DEF End
        <3>4. End(log, s) = IF log[e.off].part = "whole" THEN "whole"
                            ELSE IF log[e.off].part = "value" THEN "torn" ELSE "garbled"
            BY <1>3 DEF End, e
        <3> QED
            BY <2>4, <3>2, <3>3, <3>4
    <2> QED
        BY <2>2, <2>3, <2>4
<1> QED
    BY <1>2, <1>3

\* A torn value in a file that is read to its end is the last that a reader sees: it is
\* the one of the only key that is stored compressed.
LEMMA TornIs ==
    ASSUME NEW log \in Seq(Record), Legal(log), AllAccepted(log), NEW k \in Keys, CompressedKeys = {k},
           ~ NoneSwallows(log)
    PROVE  End(log, Comp(k)) = "torn"
<1>. DEFINE c == Cardinality(Parsed(log))
            s == Comp(k)
<1>0. s \in Slot /\ \A x \in Slot : x[2] = "comp" /\ Stored(x) => x = s
    BY SlotsAre DEF Stored
<1>1. c \in 0 .. Len(log) /\ Parsed(log) = 1 .. c /\ DOMAIN log = 1 .. Len(log) /\ Len(log) \in Nat
    BY ParsedIsPrefix
<1>. HIDE DEF c, s
<1>2. PICK t \in DOMAIN log : log[t].part = "value"
    BY DEF NoneSwallows
<1>3. c \in DOMAIN log /\ log[c].part = "value"
    <2>1. CASE t \in 1 .. c
        <3>1. c \in Parsed(log)
            BY <1>1, <2>1
        <3>2. \A j \in 1 .. c - 1 : log[j].part # "value"
            BY <3>1 DEF Parsed
        <3>3. t = c
            BY <1>1, <1>2, <2>1, <3>2
        <3> QED
            BY <1>2, <3>3
    <2>2. CASE t \notin 1 .. c
        <3>1. c + 1 \in DOMAIN log /\ c + 1 \notin Parsed(log)
            BY <1>1, <2>2
        <3>2. PICK j \in 1 .. c : ~ (Accepted(log[j]) /\ log[j].part # "value")
            BY <1>1, <3>1 DEF Parsed, AllAccepted
        <3>3. j \in DOMAIN log /\ log[j].part = "value"
            BY <1>1, <3>2 DEF AllAccepted
        <3>4. c \in Parsed(log)
            BY <1>1, <3>2
        <3>5. \A i \in 1 .. c - 1 : log[i].part # "value"
            BY <3>4 DEF Parsed
        <3>6. j = c
            BY <1>1, <3>3, <3>5
        <3> QED
            BY <3>3, <3>6
    <2> QED
        BY <2>1, <2>2
<1>4. log[c].slot = s /\ log[c].val # None
    <2>1. log[c] \in Record /\ log[c].slot[2] = "comp"
        BY <1>1, <1>3 DEF AllAccepted, Accepted
    <2>2. log[c].slot \in Slot /\ Stored(log[c].slot) /\ log[c].val # None
        BY <1>3, <2>1 DEF Legal, Record
    <2> QED
        BY <1>0, <2>1, <2>2
<1>5. IsLive(log, s, c)
    BY <1>1, <1>3, <1>4 DEF IsLive, IsLatest
<1>6. Rebuilt(log)[s] = [val |-> log[c].val, off |-> c]
    BY <1>0, <1>5, RebuiltLive
<1>7. Rebuilt(log)[s] # NoEntry /\ Rebuilt(log)[s].off = c
    BY <1>4, <1>6 DEF NoEntry
<1> QED
    BY <1>3, <1>7 DEF End, s

\* A torn value is a record.
LEMMA TornSwallows ==
    ASSUME NEW log \in Seq(Record), NEW s \in Slot, s[2] = "comp", End(log, s) = "torn"
    PROVE  ~ NoneSwallows(log)
<1>1. Rebuilt(log)[s] # NoEntry /\ log[Rebuilt(log)[s].off].part = "value"
    BY DEF End
<1>2. Rebuilt(log)[s].off \in DOMAIN log /\ log[Rebuilt(log)[s].off].slot = s
    BY <1>1, RebuiltPoints DEF Points
<1> QED
    BY <1>1, <1>2 DEF NoneSwallows

\* So what hides the records behind it is the value or something else.
LEMMA BlockedIs ==
    ASSUME NEW log \in Seq(Record), NEW s \in Slot, s[2] = "comp"
    PROVE  Blocked(log) <=> End(log, s) = "torn" \/ Cut(log, s)
BY TornSwallows DEF Cut, Blocked

\* What a record of the key behind the others does to the value in the file.
LEMMA OwnAppend ==
    ASSUME NEW log \in Seq(Record), NEW s \in Slot, s[2] = "comp",
           NEW r \in Record, r.slot = s, r.part \in {"whole", "header", "value"},
           NEW f2, NEW n2, f2 = Rebuilt(Append(log, r))[s], n2 = End(Append(log, r), s)
    PROVE  /\ Blocked(Append(log, r)) <=> Blocked(log) \/ r.part # "whole"
           /\ Blocked(log) \/ r.part = "header" => f2 = Rebuilt(log)[s] /\ n2 = End(log, s)
           /\ ~ Blocked(log) /\ r.part # "header" =>
                  /\ f2.val = r.val
                  /\ r.part = "whole" => n2 = "whole"
                  /\ r.part = "value" /\ r.val # None => n2 = "torn"
<1>. DEFINE new == Append(log, r)
<1>1. /\ new \in Seq(Record) /\ DOMAIN log = 1 .. Len(log) /\ Len(log) \in Nat
      /\ \A i \in DOMAIN log : i \in DOMAIN new /\ new[i] = log[i]
      /\ new[Len(log) + 1] = r
    BY Appended
<1>. HIDE DEF new
<1>a. f2 = Rebuilt(new)[s] /\ n2 = End(new, s)
    BY DEF new
<1>b. Blocked(new) <=> Blocked(log) \/ r.part # "whole"
    BY AcceptedAppend DEF Blocked, Accepted, new
<1>2. CASE Blocked(log) \/ r.part = "header"
    <2>1. ~ (AllAccepted(log) /\ NoneSwallows(log) /\ Accepted(r))
        BY <1>2 DEF Blocked, Accepted
    <2>2. Parsed(new) = Parsed(log)
        BY <2>1, ParsedAppend DEF new
    <2>3. Parsed(log) \subseteq DOMAIN log
        BY DEF Parsed
    <2>4. Rebuilt(log) = Rebuilt(new)
        BY <1>1, <2>2, <2>3, RebuiltSame
    <2>5. End(new, s) = End(log, s)
        BY <1>1, <2>4, EndSame
    <2> QED
        BY <1>2, <1>a, <1>b, <2>4, <2>5 DEF new
<1>3. CASE ~ Blocked(log) /\ r.part # "header"
    <2>1. AllAccepted(log) /\ NoneSwallows(log) /\ Accepted(r)
        BY <1>3 DEF Blocked, Accepted
    <2>3. Rebuilt(new) = [Rebuilt(log) EXCEPT ![s] = Entered(log, r)]
        BY <2>1, RebuiltEntered DEF new
    <2>4. Rebuilt(new)[s] = Entered(log, r)
        BY <2>3, RebuildTypes
    <2>5. Rebuilt(new)[s].val = r.val
        BY <2>4 DEF Entered, NoEntry
    <2>6. r.val = None => Rebuilt(new)[s] = NoEntry
        BY <2>4 DEF Entered
    <2>7. r.val # None => Rebuilt(new)[s] # NoEntry /\ Rebuilt(new)[s].off = Len(log) + 1
        BY <2>4 DEF Entered, NoEntry
    <2>8. r.part = "whole" => End(new, s) = "whole"
        BY <1>1, <2>6, <2>7 DEF End
    <2>9. r.part = "value" /\ r.val # None => End(new, s) = "torn"
        BY <1>1, <2>7 DEF End
    <2> QED
        BY <1>3, <1>a, <1>b, <2>5, <2>8, <2>9 DEF new
<1> QED
    BY <1>2, <1>3

\* A record of another key, which is plain, is no part of the value; it may be one of
\* which a reader sees nothing.
LEMMA PlainAppend ==
    ASSUME NEW log \in Seq(Record), NEW s \in Slot, s[2] = "comp", NEW r \in Record, r.slot[2] = "plain",
           NEW a, a = Append(log, r)
    PROVE  /\ Rebuilt(a)[s] = Rebuilt(log)[s] /\ End(a, s) = End(log, s)
           /\ \A e \in Entry : ReadBack(a, s, e) = ReadBack(log, s, e)
           /\ Blocked(a) <=> Blocked(log) \/ r.part # "whole"
<1>1. /\ a \in Seq(Record) /\ Len(log) \in Nat
      /\ DOMAIN log = 1 .. Len(log) /\ DOMAIN a = 1 .. Len(log) + 1
      /\ \A i \in DOMAIN log : i \in DOMAIN a /\ a[i] = log[i]
      /\ a[Len(log) + 1] = r
    BY Appended
<1>2. Rebuilt(a)[s] = Rebuilt(log)[s]
    BY RebuiltOther
<1>3. End(a, s) = End(log, s)
    BY <1>1, <1>2, EndSame
<1>4. ASSUME NEW e \in Entry PROVE ReadBack(a, s, e) = ReadBack(log, s, e)
    <2>1. e.off \in DOMAIN a => e.off \in DOMAIN log \/ a[e.off] = r
        BY <1>1
    <2> QED
        BY <1>1, <2>1 DEF ReadBack
<1>5. Blocked(a) <=> Blocked(log) \/ r.part # "whole"
    BY AcceptedAppend DEF Blocked, Accepted
<1> QED
    BY <1>2, <1>3, <1>4, <1>5

-----------------------------------------------------------------------------
(* The steps of CoreDatabase, field by field *)

Db(t, w, c, f, n, x) == [table |-> t, whole |-> w, cache |-> c, file |-> f, end |-> n, cut |-> x]

\* Terms that the provers take for values, not for formulas.
IsWhole(n) == n = "whole"
Uncut == FALSE
Unread == FALSE
Worth(w) == IF w THEN "whole" ELSE "garbled"

\* What it is when some fields are set.
SetTable(d, y, z) == [d EXCEPT !.table = y, !.whole = z]
SetRead(d, y, z, b) == [d EXCEPT !.table = y, !.whole = z, !.cut = b]
SetFile(d, y, z) == [d EXCEPT !.file = y, !.end = z]
SetCopy(d, y, z, b) == [d EXCEPT !.file = y, !.end = z, !.cut = b]
SetEnded(d, y, z, b) == [d EXCEPT !.table = y, !.whole = z, !.cache = None, !.cut = b]
SetCache(d, y) == [d EXCEPT !.cache = y]
SetEnd(d, y) == [d EXCEPT !.end = y]
SetWhole(d, y) == [d EXCEPT !.whole = y]
SetCut(d, y) == [d EXCEPT !.cut = y]

LEMMA DbFields ==
    ASSUME NEW t, NEW w, NEW c, NEW f, NEW n, NEW x
    PROVE  /\ Db(t, w, c, f, n, x).table = t
           /\ Db(t, w, c, f, n, x).whole = w
           /\ Db(t, w, c, f, n, x).cache = c
           /\ Db(t, w, c, f, n, x).file = f
           /\ Db(t, w, c, f, n, x).end = n
           /\ Db(t, w, c, f, n, x).cut = x
BY DEF Db

LEMMA DbSets ==
    ASSUME NEW t, NEW w, NEW c, NEW f, NEW n, NEW x, NEW y, NEW z
    PROVE  /\ SetTable(Db(t, w, c, f, n, x), y, z) = Db(y, z, c, f, n, x)
           /\ SetFile(Db(t, w, c, f, n, x), y, z) = Db(t, w, c, y, z, x)
<1>1. ASSUME NEW e, e = SetTable(Db(t, w, c, f, n, x), y, z) PROVE e = Db(y, z, c, f, n, x)
    BY <1>1 DEF Db, SetTable
<1>2. ASSUME NEW e, e = SetFile(Db(t, w, c, f, n, x), y, z) PROVE e = Db(t, w, c, y, z, x)
    BY <1>2 DEF Db, SetFile
<1> QED
    BY <1>1, <1>2

LEMMA DbSetsMore ==
    ASSUME NEW t, NEW w, NEW c, NEW f, NEW n, NEW x, NEW y, NEW z, NEW b
    PROVE  /\ SetRead(Db(t, w, c, f, n, x), y, z, b) = Db(y, z, c, f, n, b)
           /\ SetCopy(Db(t, w, c, f, n, x), y, z, b) = Db(t, w, c, y, z, b)
           /\ SetEnded(Db(t, w, c, f, n, x), y, z, b) = Db(y, z, None, f, n, b)
<1>1. ASSUME NEW e, e = SetRead(Db(t, w, c, f, n, x), y, z, b) PROVE e = Db(y, z, c, f, n, b)
    BY <1>1 DEF Db, SetRead
<1>2. ASSUME NEW e, e = SetCopy(Db(t, w, c, f, n, x), y, z, b) PROVE e = Db(t, w, c, y, z, b)
    BY <1>2 DEF Db, SetCopy
<1>3. ASSUME NEW e, e = SetEnded(Db(t, w, c, f, n, x), y, z, b) PROVE e = Db(y, z, None, f, n, b)
    BY <1>3 DEF Db, SetEnded
<1> QED
    BY <1>1, <1>2, <1>3

LEMMA DbSetsOne ==
    ASSUME NEW t, NEW w, NEW c, NEW f, NEW n, NEW x, NEW y
    PROVE  /\ SetCache(Db(t, w, c, f, n, x), y) = Db(t, w, y, f, n, x)
           /\ SetEnd(Db(t, w, c, f, n, x), y) = Db(t, w, c, f, y, x)
           /\ SetWhole(Db(t, w, c, f, n, x), y) = Db(t, y, c, f, n, x)
           /\ SetCut(Db(t, w, c, f, n, x), y) = Db(t, w, c, f, n, y)
<1>1. ASSUME NEW e, e = SetCache(Db(t, w, c, f, n, x), y) PROVE e = Db(t, w, y, f, n, x)
    BY <1>1 DEF Db, SetCache
<1>2. ASSUME NEW e, e = SetEnd(Db(t, w, c, f, n, x), y) PROVE e = Db(t, w, c, f, y, x)
    BY <1>2 DEF Db, SetEnd
<1>3. ASSUME NEW e, e = SetWhole(Db(t, w, c, f, n, x), y) PROVE e = Db(t, y, c, f, n, x)
    BY <1>3 DEF Db, SetWhole
<1>4. ASSUME NEW e, e = SetCut(Db(t, w, c, f, n, x), y) PROVE e = Db(t, w, c, f, n, y)
    BY <1>4 DEF Db, SetCut
<1> QED
    BY <1>1, <1>2, <1>3, <1>4

\* What the operators of CoreDatabase give.
LEMMA DbEnds ==
    ASSUME NEW t, NEW w, NEW c, NEW f, NEW n, NEW x, NEW d, d = Db(t, w, c, f, n, x)
    PROVE  Core!Ended(d) = Db(f, IsWhole(n), None, f, n, Uncut)
<1>1. d.file = f /\ d.end = n
    BY DbFields
<1>2. \A y, z, b : SetEnded(d, y, z, b) = Db(y, z, None, f, n, b)
    BY DbSetsMore
<1>3. \A z, b : SetEnded(d, f, z, b) = Db(f, z, None, f, n, b)
    BY <1>2, Zenon
<1>4. Core!Ended(d) = SetEnded(d, d.file, IsWhole(d.end), Uncut)
    BY Zenon DEF SetEnded, Core!Ended, IsWhole, Uncut
<1>5. Core!Ended(d) = SetEnded(d, f, IsWhole(n), Uncut)
    BY <1>1, <1>4, Zenon
<1> QED
    BY <1>3, <1>5, Zenon

LEMMA DbWrites ==
    ASSUME NEW t, NEW w, NEW c, NEW f, NEW n, NEW x, NEW v, NEW d, d = Db(t, w, c, f, n, x)
    PROVE  /\ Core!Hiding(d) => Core!Written(d, v) = d /\ Core!Torn(d, v) = d
           /\ ~ Core!Hiding(d) => /\ Core!Written(d, v) = Db(t, w, c, v, "whole", x)
                                  /\ Core!Torn(d, v) = Db(t, w, c, v, "torn", x)
<1>1. \A y, z : SetFile(d, y, z) = Db(t, w, c, y, z, x)
    BY DbSets
<1>2. /\ Core!Written(d, v) = IF Core!Hiding(d) THEN d ELSE SetFile(d, v, "whole")
      /\ Core!Torn(d, v) = IF Core!Hiding(d) THEN d ELSE SetFile(d, v, "torn")
    BY Zenon DEF SetFile, Core!Written, Core!Torn
<1>3. SetFile(d, v, "whole") = Db(t, w, c, v, "whole", x) /\ SetFile(d, v, "torn") = Db(t, w, c, v, "torn", x)
    BY <1>1, Zenon
<1> QED
    BY <1>2, <1>3, Zenon

LEMMA DbCopied ==
    ASSUME NEW t, NEW w, NEW c, NEW f, NEW n, NEW x, NEW d, d = Db(t, w, c, f, n, x)
    PROVE  Core!Copied(d) = Db(t, w, c, t, Worth(w), Uncut)
<1>1. d.table = t /\ d.whole = w
    BY DbFields
<1>2. \A y, z, b : SetCopy(d, y, z, b) = Db(t, w, c, y, z, b)
    BY DbSetsMore
<1>3. Core!Copied(d) = SetCopy(d, d.table, Worth(d.whole), Uncut)
    BY Zenon DEF SetCopy, Core!Copied, Worth, Uncut
<1> QED
    BY <1>1, <1>2, <1>3, Zenon

\* What is left of another record may hide what is written; the conversion of a file
\* without a value removes it.
MayCut(n, x, y) == y = x \/ y = (n # "torn")
MayMend(f, x, y) == y = x \/ (y = Uncut /\ f = None)

\* What a flush that fails, and reading the file again, may make of it.
LEMMA DbLost ==
    ASSUME NEW t, NEW w, NEW c, NEW f, NEW n, NEW x, NEW y
    PROVE  /\ MayCut(n, x, y) => Db(t, w, c, f, n, y) \in Core!Lost(Db(t, w, c, f, n, x))
           /\ MayMend(f, x, y) => Db(f, IsWhole(n), c, f, n, y) \in Core!Reread(Db(t, w, c, f, n, x))
<1>. DEFINE d == Db(t, w, c, f, n, x)
<1>1. d.file = f /\ d.end = n /\ d.cut = x
    BY DbFields
<1>2. \A b : SetCut(d, b) = Db(t, w, c, f, n, b)
    BY DbSetsOne
<1>3. \A z, b : SetRead(d, f, z, b) = Db(f, z, c, f, n, b)
    BY DbSetsMore
<1>4. y = x => Db(t, w, c, f, n, y) = d
    OBVIOUS
<1>. HIDE DEF d
<1>5. y = (n # "torn") => Db(t, w, c, f, n, y) = SetCut(d, d.end # "torn")
    BY <1>1, <1>2, Zenon
<1>6. MayCut(n, x, y) => Db(t, w, c, f, n, y) \in Core!Lost(d)
    <2>1. Core!Lost(d) = {d, SetCut(d, d.end # "torn")}
        BY Zenon DEF SetCut, Core!Lost
    <2> QED
        BY <1>4, <1>5, <2>1, Zenon DEF MayCut
<1>7. ASSUME MayMend(f, x, y) PROVE Db(f, IsWhole(n), c, f, n, y) \in Core!Reread(d)
    <2>1. y \in {d.cut} \cup {FALSE : v \in {None} \cap {d.file}}
        BY <1>1, <1>7, Zenon DEF MayMend, Uncut
    <2>2. SetRead(d, d.file, IsWhole(d.end), y) \in Core!Reread(d)
        BY <2>1, Zenon DEF SetRead, Core!Reread, IsWhole
    <2> QED
        BY <1>1, <1>3, <2>2, Zenon
<1> QED
    BY <1>6, <1>7, Zenon DEF d

\* The fields of CoreDb, before and after a step.
LEMMA CoreDbIs ==
    ASSUME NEW k
    PROVE  /\ mode = "down" =>
                  CoreDb(k) = Db(Rebuilt(main)[Comp(k)].val, IsWhole(End(main, Comp(k))), cache[Comp(k)],
                                 Rebuilt(main)[Comp(k)].val, End(main, Comp(k)), Uncut)
           /\ mode # "down" =>
                  CoreDb(k) = Db(table[Comp(k)].val, EntryWhole(Comp(k)), cache[Comp(k)],
                                 Rebuilt(main)[Comp(k)].val, End(main, Comp(k)), Cut(main, Comp(k)))
           /\ mode' = "down" =>
                  CoreDb(k)' = Db(Rebuilt(main')[Comp(k)].val, IsWhole(End(main', Comp(k))), cache'[Comp(k)],
                                  Rebuilt(main')[Comp(k)].val, End(main', Comp(k)), Uncut)
           /\ mode' # "down" =>
                  CoreDb(k)' = Db(table'[Comp(k)].val, EntryWhole(Comp(k))', cache'[Comp(k)],
                                  Rebuilt(main')[Comp(k)].val, End(main', Comp(k)), Cut(main', Comp(k)))
           /\ EntryWhole(Comp(k)) \in BOOLEAN /\ EntryWhole(Comp(k))' \in BOOLEAN
           /\ \A log : Cut(log, Comp(k)) \in BOOLEAN
<1>. DEFINE t == IF mode = "down" THEN Rebuilt(main)[Comp(k)].val ELSE table[Comp(k)].val
            w == IF mode = "down" THEN IsWhole(End(main, Comp(k))) ELSE EntryWhole(Comp(k))
            x == IF mode = "down" THEN Uncut ELSE Cut(main, Comp(k))
<1>0. /\ CoreDb(k) = Db(t, w, cache[Comp(k)], Rebuilt(main)[Comp(k)].val, End(main, Comp(k)), x)
      /\ CoreDb(k)' = Db(t', w', cache'[Comp(k)], Rebuilt(main')[Comp(k)].val, End(main', Comp(k)), x')
    BY Zenon DEF CoreDb, Db, IsWhole, Uncut
<1>1. ASSUME mode = "down"
      PROVE  /\ t = Rebuilt(main)[Comp(k)].val /\ w = IsWhole(End(main, Comp(k))) /\ x = Uncut
    BY <1>1
<1>2. ASSUME mode # "down"
      PROVE  /\ t = table[Comp(k)].val /\ w = EntryWhole(Comp(k)) /\ x = Cut(main, Comp(k))
    BY <1>2, Zenon
<1>3. ASSUME mode' = "down"
      PROVE  /\ t' = Rebuilt(main')[Comp(k)].val /\ w' = IsWhole(End(main', Comp(k))) /\ x' = Uncut
    BY <1>3
<1>4. ASSUME mode' # "down"
      PROVE  /\ t' = table'[Comp(k)].val /\ w' = EntryWhole(Comp(k))' /\ x' = Cut(main', Comp(k))
    BY <1>4, Zenon
<1>5. EntryWhole(Comp(k)) \in BOOLEAN /\ EntryWhole(Comp(k))' \in BOOLEAN
    BY DEF EntryWhole
<1>6. \A log : Cut(log, Comp(k)) \in BOOLEAN
    BY DEF Cut
<1>. HIDE DEF t, w, x
<1> QED
    BY <1>0, <1>1, <1>2, <1>3, <1>4, <1>5, <1>6, Zenon

\* The file and the value after a record that was begun: nothing is seen of it where
\* something hides it.
Wrote(d, f, n, f2, n2, v) == IF Core!Hiding(d) THEN f2 = f /\ n2 = n ELSE f2 = v /\ n2 = "whole"

\* The ends of the process: nothing is written, or a value or a deletion, or part of a value.
LEMMA EndedStep ==
    ASSUME NEW t, NEW w, NEW c, NEW f, NEW n, NEW x, NEW d, d = Db(t, w, c, f, n, x),
           NEW f2, NEW n2, NEW fails,
           \/ f2 = f /\ n2 = n
           \/ \E v \in Values \cup {None} : Wrote(d, f, n, f2, n2, v)
           \/ ~ Core!Hiding(d) /\ n2 = "torn" /\ f2 \in Values
    PROVE  Core!DatabaseStep(d, Db(f2, IsWhole(n2), None, f2, n2, Uncut), fails)
<1>. DEFINE e == Db(f2, IsWhole(n2), None, f2, n2, Uncut)
<1>1. e = Core!Ended(Db(t, w, c, f2, n2, x))
    BY DbEnds
<1>2. \A v : /\ Core!Hiding(d) => Core!Written(d, v) = d /\ Core!Torn(d, v) = d
             /\ ~ Core!Hiding(d) => /\ Core!Written(d, v) = Db(t, w, c, v, "whole", x)
                                    /\ Core!Torn(d, v) = Db(t, w, c, v, "torn", x)
    BY DbWrites
<1>. HIDE DEF e
<1>4. CASE f2 = f /\ n2 = n
    <2>1. e = Core!Ended(d)
        BY <1>1, <1>4
    <2> QED
        BY <2>1, Zenon DEF Core!DatabaseStep, e
<1>5. ASSUME NEW v \in Values \cup {None}, Wrote(d, f, n, f2, n2, v)
      PROVE  Core!DatabaseStep(d, e, fails)
    <2>1. Db(t, w, c, f2, n2, x) = Core!Written(d, v)
        BY <1>2, <1>5 DEF Wrote
    <2>2. e = Core!Ended(Core!Written(d, v))
        BY <1>1, <2>1
    <2> QED
        BY <2>2 DEF Core!DatabaseStep, Core!EndedInPut
<1>6. ASSUME ~ Core!Hiding(d), n2 = "torn", f2 \in Values PROVE Core!DatabaseStep(d, e, fails)
    <2>1. Db(t, w, c, f2, n2, x) = Core!Torn(d, f2)
        BY <1>2, <1>6
    <2>2. e = Core!Ended(Core!Torn(d, f2))
        BY <1>1, <2>1
    <2> QED
        BY <1>6, <2>2 DEF Core!DatabaseStep, Core!EndedInPut
<1> QED
    BY <1>4, <1>5, <1>6 DEF e

\* A put that changes the entry: its record is written,
LEMMA PutStep ==
    ASSUME NEW t, NEW w, NEW c, NEW f, NEW n, NEW x, NEW d, d = Db(t, w, c, f, n, x),
           NEW v \in Values, NEW fails \in BOOLEAN, NEW f2, NEW n2
    PROVE  t # v /\ Wrote(d, f, n, f2, n2, v) => Core!DatabaseStep(d, Db(v, TRUE, c, f2, n2, x), fails)
<1>1. SUFFICES ASSUME t # v, Wrote(d, f, n, f2, n2, v)
               PROVE  Core!DatabaseStep(d, Db(v, TRUE, c, f2, n2, x), fails)
    OBVIOUS
<1>2. d.table = t
    BY DbFields
<1>3. /\ Core!Hiding(d) => Core!Written(d, v) = d
      /\ ~ Core!Hiding(d) => Core!Written(d, v) = Db(t, w, c, v, "whole", x)
    BY DbWrites
<1>4. Core!Written(d, v) = Db(t, w, c, f2, n2, x)
    BY <1>1, <1>3 DEF Wrote
<1>5. \A z : SetTable(Db(t, w, c, f2, n2, x), v, z) = Db(v, z, c, f2, n2, x)
    BY DbSets
<1>6. Db(v, TRUE, c, f2, n2, x) = SetTable(Core!Written(d, v), v, TRUE)
    BY <1>4, <1>5, Zenon
<1>7. Db(v, TRUE, c, f2, n2, x) = [Core!Written(d, v) EXCEPT !.table = v, !.whole = TRUE]
    BY <1>6, Zenon DEF SetTable
<1>8. Db(v, TRUE, c, f2, n2, x) \in Core!Put(d, v, fails)
    BY <1>1, <1>2, <1>7, Zenon DEF Core!Put
<1> QED
    BY <1>8 DEF Core!DatabaseStep

\* or a write fails, which is noticed, or a flush, which is not.
LEMMA PutFails ==
    ASSUME NEW t, NEW w, NEW c, NEW f, NEW n, NEW x, NEW d, d = Db(t, w, c, f, n, x),
           NEW v \in Values, NEW y
    PROVE  /\ t # v /\ MayMend(f, x, y) => Core!DatabaseStep(d, Db(f, IsWhole(n), v, f, n, y), TRUE)
           /\ t # v /\ MayCut(n, x, y) => Core!DatabaseStep(d, Db(v, Unread, c, f, n, y), TRUE)
           /\ t # v /\ ~ Core!Hiding(d) => Core!DatabaseStep(d, Db(v, Unread, c, v, "torn", x), TRUE)
<1>1. d.table = t
    BY DbFields
<1>2. ASSUME NEW e, e \in Core!Put(d, v, TRUE) PROVE Core!DatabaseStep(d, e, TRUE)
    BY <1>2 DEF Core!DatabaseStep
<1>3. ASSUME t # v, MayMend(f, x, y) PROVE Db(f, IsWhole(n), v, f, n, y) \in Core!Put(d, v, TRUE)
    <2>1. Db(f, IsWhole(n), c, f, n, y) \in Core!Reread(d)
        BY <1>3, DbLost, Zenon
    <2>2. \A z : SetCache(Db(f, z, c, f, n, y), v) = Db(f, z, v, f, n, y)
        BY DbSetsOne
    <2>3. Db(f, IsWhole(n), v, f, n, y) = SetCache(Db(f, IsWhole(n), c, f, n, y), v)
        BY <2>2, Zenon
    <2> QED
        BY <1>1, <1>3, <2>1, <2>3, Zenon DEF SetCache, Core!Put
<1>4. ASSUME t # v, NEW z \in Core!Lost(d) \cup {Core!Torn(d, v)}
      PROVE  SetTable(z, v, Unread) \in Core!Put(d, v, TRUE)
    BY <1>1, <1>4, Zenon DEF SetTable, Core!Put, Unread
<1>5. ASSUME t # v, MayCut(n, x, y) PROVE Db(v, Unread, c, f, n, y) \in Core!Put(d, v, TRUE)
    <2>1. Db(t, w, c, f, n, y) \in Core!Lost(d)
        BY <1>5, DbLost
    <2>2. \A z : SetTable(Db(t, w, c, f, n, y), v, z) = Db(v, z, c, f, n, y)
        BY DbSets
    <2>3. SetTable(Db(t, w, c, f, n, y), v, Unread) = Db(v, Unread, c, f, n, y)
        BY <2>2, Zenon
    <2> QED
        BY <1>4, <1>5, <2>1, <2>3, Zenon
<1>6. ASSUME t # v, ~ Core!Hiding(d) PROVE Db(v, Unread, c, v, "torn", x) \in Core!Put(d, v, TRUE)
    <2>1. ~ Core!Hiding(d) => Core!Torn(d, v) = Db(t, w, c, v, "torn", x)
        BY DbWrites
    <2>2. \A z : SetTable(Db(t, w, c, v, "torn", x), v, z) = Db(v, z, c, v, "torn", x)
        BY DbSets
    <2>3. SetTable(Db(t, w, c, v, "torn", x), v, Unread) = Db(v, Unread, c, v, "torn", x)
        BY <2>2, Zenon
    <2> QED
        BY <1>4, <1>6, <2>1, <2>3, Zenon
<1> QED
    BY <1>2, <1>3, <1>5, <1>6, Zenon

\* A deletion of an entry.
LEMMA DeleteStep ==
    ASSUME NEW t, NEW w, NEW c, NEW f, NEW n, NEW x, NEW d, d = Db(t, w, c, f, n, x), t # None,
           NEW f2, NEW n2, NEW y, NEW e, e = Db(None, TRUE, c, f2, n2, y), NEW fails \in BOOLEAN,
           \/ Wrote(d, f, n, f2, n2, None) /\ y = x
           \/ fails /\ f2 = f /\ n2 = n /\ MayCut(n, x, y)
    PROVE  Core!DatabaseStep(d, e, fails)
<1>0. d.table = t
    BY DbFields
<1>1. \A z : SetTable(Db(t, w, c, f2, n2, y), None, z) = Db(None, z, c, f2, n2, y)
    BY DbSets
<1>2. e = SetTable(Db(t, w, c, f2, n2, y), None, TRUE)
    BY <1>1, Zenon
<1>a. /\ Core!Hiding(d) => Core!Written(d, None) = d
      /\ ~ Core!Hiding(d) => Core!Written(d, None) = Db(t, w, c, None, "whole", x)
    BY DbWrites
<1>3. Wrote(d, f, n, f2, n2, None) /\ y = x => Core!Written(d, None) = Db(t, w, c, f2, n2, y)
    BY <1>a DEF Wrote
<1>4. f2 = f /\ n2 = n /\ MayCut(n, x, y) => Db(t, w, c, f2, n2, y) \in Core!Lost(d)
    BY DbLost
<1>5. ASSUME e = SetTable(Core!Written(d, None), None, TRUE) PROVE e \in Core!Delete(d, fails)
    BY <1>0, <1>5, Zenon DEF SetTable, Core!Delete
<1>6. ASSUME fails, NEW z \in Core!Lost(d), e = SetTable(z, None, TRUE) PROVE e \in Core!Delete(d, fails)
    BY <1>0, <1>6, Zenon DEF SetTable, Core!Delete
<1>7. e \in Core!Delete(d, fails)
    BY <1>2, <1>3, <1>4, <1>5, <1>6
<1> QED
    BY <1>7 DEF Core!DatabaseStep

\* A write error of another key, a compaction, and the start of a process.
LEMMA OtherSteps ==
    ASSUME NEW t, NEW w, NEW c, NEW f, NEW n, NEW x, NEW d, d = Db(t, w, c, f, n, x), NEW y,
           NEW fails \in BOOLEAN
    PROVE  /\ fails /\ MayMend(f, x, y) => Core!DatabaseStep(d, Db(f, IsWhole(n), c, f, n, y), fails)
           /\ fails /\ MayCut(n, x, y) => Core!DatabaseStep(d, Db(t, w, c, f, n, y), fails)
           /\ Core!DatabaseStep(d, Db(t, w, c, t, Worth(w), Uncut), fails)
           /\ n = "torn" => Core!DatabaseStep(d, Db(t, w, c, f, "garbled", x), fails)
           /\ fails /\ t # None => Core!DatabaseStep(d, Db(t, FALSE, c, f, n, x), fails)
<1>1. /\ MayMend(f, x, y) => Db(f, IsWhole(n), c, f, n, y) \in Core!Reread(d)
      /\ MayCut(n, x, y) => Db(t, w, c, f, n, y) \in Core!Lost(d)
    BY DbLost, Zenon
<1>2. Db(t, w, c, t, Worth(w), Uncut) = Core!Copied(d)
    BY DbCopied
<1>3. Db(t, w, c, f, "garbled", x) = SetEnd(d, "garbled") /\ d.end = n /\ d.table = t
    BY DbSetsOne, DbFields
<1>4. Db(t, FALSE, c, f, n, x) = SetWhole(d, FALSE)
    <2>1. \A z : Db(t, z, c, f, n, x) = SetWhole(d, z)
        BY DbSetsOne
    <2> QED
        BY <2>1, Zenon
<1>5. ASSUME NEW e, fails, e \in Core!Reread(d) \cup Core!Lost(d) PROVE Core!DatabaseStep(d, e, fails)
    BY <1>5, Zenon DEF Core!DatabaseStep
<1>6. Core!DatabaseStep(d, Core!Copied(d), fails)
    BY Zenon DEF Core!DatabaseStep
<1>7. n = "torn" => Core!DatabaseStep(d, SetEnd(d, "garbled"), fails)
    <2>1. n = "torn" => SetEnd(d, "garbled") \in Core!Opened(d)
        BY <1>3 DEF Core!Opened, SetEnd
    <2> QED
        BY <2>1, Zenon DEF Core!DatabaseStep
<1>8. ASSUME fails, t # None PROVE Core!DatabaseStep(d, SetWhole(d, FALSE), fails)
    <2>a. (d.table = None) = FALSE
        BY <1>3, <1>8
    <2>1. SetWhole(d, FALSE) = [d EXCEPT !.whole = (d.table = None)]
        BY <2>a, Zenon DEF SetWhole
    <2>2. SetWhole(d, FALSE) \in {[d EXCEPT !.whole = (d.table = None)]}
        BY <2>1, Zenon
    <2> QED
        BY <1>8, <2>2, Zenon DEF Core!DatabaseStep
<1> QED
    BY <1>1, <1>2, <1>3, <1>4, <1>5, <1>6, <1>7, <1>8, Zenon

\* A copy that has not reached the new file.
LEMMA CopyLostStep ==
    ASSUME NEW t, NEW w, NEW c, NEW f, NEW n, NEW x, NEW d, d = Db(t, w, c, f, n, x), NEW y \in BOOLEAN,
           NEW f2, NEW n2, NEW e, e = Db(t, w, c, f2, n2, y),
           \/ f2 = None /\ n2 = "whole"
           \/ f2 = t /\ n2 = Worth(w)
           \/ f2 = t /\ w = FALSE /\ n2 = "torn" /\ y = Uncut
    PROVE  e \in Core!CopyLost(d)
<1>1. d.table = t /\ d.whole = w
    BY DbFields
<1>2. \A u, z, b : SetCopy(d, u, z, b) = Db(t, w, c, u, z, b)
    BY DbSetsMore
<1>3. Core!Copied(d) = Db(t, w, c, t, Worth(w), Uncut)
    BY DbCopied
<1>4. \A b : SetCut(Core!Copied(d), b) = Db(t, w, c, t, Worth(w), b)
    <2>1. \A a, b : SetCut(Db(t, w, c, t, Worth(w), a), b) = Db(t, w, c, t, Worth(w), b)
        BY DbSetsOne
    <2> QED
        BY <1>3, <2>1, Zenon
<1>5. CASE f2 = None /\ n2 = "whole"
    <2>1. e = SetCopy(d, None, "whole", y)
        BY <1>2, <1>5, Zenon
    <2> QED
        BY <2>1, Zenon DEF Core!CopyLost, SetCopy
<1>6. CASE f2 = t /\ n2 = Worth(w)
    <2>1. e = SetCut(Core!Copied(d), y)
        BY <1>4, <1>6, Zenon
    <2> QED
        BY <2>1, Zenon DEF Core!CopyLost, SetCut
<1>7. CASE f2 = t /\ w = FALSE /\ n2 = "torn" /\ y = Uncut
    <2>1. SetCopy(d, t, "torn", Uncut) = Db(t, w, c, t, "torn", Uncut)
        BY <1>2, Zenon
    <2>a. e = SetCopy(d, d.table, "torn", Uncut)
        BY <1>1, <1>7, <2>1, Zenon
    <2>2. FALSE \in {FALSE} \cap {d.whole}
        BY <1>1, <1>7, Zenon
    <2> QED
        BY <2>a, <2>2, Zenon DEF Core!CopyLost, SetCopy, Uncut
<1> QED
    BY <1>5, <1>6, <1>7, Zenon

-----------------------------------------------------------------------------
(* The operations of the store *)

\* What CoreDatabase allows.
Moves(k) == Core!DatabaseStep(CoreDb(k), CoreDb(k)', Fails) \/ CoreDb(k)' = CoreDb(k)

LEMMA FailsIs == \E b \in BOOLEAN : b = Fails
<1>1. Fails \in BOOLEAN
    BY DEF Fails
<1> QED
    BY <1>1, Zenon

\* The slot of the key is the only one it has records or an entry in, and all others are plain.
LEMMA OwnIs ==
    ASSUME StoreInv, NEW k, Own(k)
    PROVE  /\ k \in Keys /\ CompressedKeys = {k}
           /\ Comp(k) \in Slot /\ Comp(k)[1] = k /\ Comp(k)[2] = "comp"
           /\ Stored(Comp(k)) /\ Single(Comp(k)) /\ ~ Stored(Plain(k)) /\ Plain(k) \in Slot
           /\ table[Plain(k)] = NoEntry /\ Deleted(k) = Comp(k)
           /\ table[Comp(k)] # NoEntry => table[Comp(k)].val # None
           /\ table[Comp(k)] = NoEntry => table[Comp(k)].val = None
           /\ main \in Seq(Record) /\ Legal(main) /\ table \in [Slot -> Entry]
           /\ \A x \in Slot : Stored(x) /\ x # Comp(k) => x[2] = "plain" /\ x[1] # k /\ Single(x)
<1>1. k \in Keys /\ CompressedKeys = {k}
    BY KeysAssumption DEF Own
<1>2. Stored(Comp(k)) /\ ~ Stored(Plain(k))
    BY <1>1, PutSlots DEF Own
<1>3. /\ Comp(k) \in Slot /\ Comp(k)[1] = k /\ Comp(k)[2] = "comp" /\ Plain(k) \in Slot
    BY <1>1, SlotsAre
<1>4. Single(Comp(k))
    BY <1>3 DEF Own, Single
<1>5. table[Plain(k)] = NoEntry
    BY <1>2, <1>3 DEF StoreInv, SlotsOK
<1>6. Deleted(k) = Comp(k)
    BY <1>5 DEF Deleted
<1>7. table[Comp(k)] # NoEntry => table[Comp(k)].val # None
    BY <1>3 DEF StoreInv, SlotsOK
<1>8. NoEntry.val = None
    BY DEF NoEntry
<1>9. main \in Seq(Record) /\ Legal(main) /\ table \in [Slot -> Entry]
    BY DEF StoreInv, SlotsOK, TypeOK
<1>10. ASSUME NEW x \in Slot, Stored(x), x # Comp(k)
       PROVE  x[2] = "plain" /\ x[1] # k /\ Single(x)
    <2>1. x[2] = "plain" \/ (x = Comp(x[1]) /\ x[2] = "comp")
        BY SlotsAre
    <2>2. x[2] = "plain"
        BY <1>1, <1>10, <2>1 DEF Stored
    <2> QED
        BY <1>1, <1>10, <2>2 DEF Stored, Own, Single
<1> QED
    BY <1>1, <1>2, <1>3, <1>4, <1>5, <1>6, <1>7, <1>8, <1>9, <1>10

\* Both have records that hide what is written behind them.
LEMMA HidingIs ==
    ASSUME NEW k, mode # "down", main \in Seq(Record), Comp(k) \in Slot, Comp(k)[2] = "comp"
    PROVE  Core!Hiding(CoreDb(k)) <=> Blocked(main)
<1>1. Blocked(main) <=> End(main, Comp(k)) = "torn" \/ Cut(main, Comp(k))
    BY BlockedIs
<1>2. CoreDb(k).end = End(main, Comp(k)) /\ CoreDb(k).cut = Cut(main, Comp(k))
    BY Zenon DEF CoreDb
<1> QED
    BY <1>1, <1>2, Zenon DEF Core!Hiding

\* The process ends.
LEMMA EndsMove ==
    ASSUME NEW k \in Keys, mode # "down", Ended,
           NEW f2, NEW n2, f2 = Rebuilt(main')[Comp(k)].val, n2 = End(main', Comp(k)),
           \/ f2 = Rebuilt(main)[Comp(k)].val /\ n2 = End(main, Comp(k))
           \/ \E v \in Values \cup {None} :
                  Wrote(CoreDb(k), Rebuilt(main)[Comp(k)].val, End(main, Comp(k)), f2, n2, v)
           \/ ~ Core!Hiding(CoreDb(k)) /\ n2 = "torn" /\ f2 \in Values
    PROVE  Moves(k)
<1>1. mode' = "down" /\ cache'[Comp(k)] = None
    BY SlotsAre DEF Ended, EmptyCache
<1>2. CoreDb(k)' = Db(f2, IsWhole(n2), None, f2, n2, Uncut)
    BY <1>1, CoreDbIs
<1>. DEFINE f == Rebuilt(main)[Comp(k)].val
            n == End(main, Comp(k))
            d == CoreDb(k)
<1>3. PICK t, w, c, x : d = Db(t, w, c, f, n, x)
    BY CoreDbIs, Zenon
<1>4. \/ f2 = f /\ n2 = n
      \/ \E v \in Values \cup {None} : Wrote(d, f, n, f2, n2, v)
      \/ ~ Core!Hiding(d) /\ n2 = "torn" /\ f2 \in Values
    OBVIOUS
<1>. HIDE DEF f, n, d
<1>5. PICK b \in BOOLEAN : b = Fails
    BY FailsIs
<1>6. Core!DatabaseStep(d, Db(f2, IsWhole(n2), None, f2, n2, Uncut), b)
    BY <1>3, <1>4, EndedStep
<1> QED
    BY <1>2, <1>5, <1>6, Zenon DEF Moves, d

\* CreateEx2 builds the table from the file, which it may repair.
LEMMA OpenMoves ==
    ASSUME StoreInv, NEW k, Own(k), Alone', Open
    PROVE  Moves(k)
<1>. DEFINE s == Comp(k)
            f == Rebuilt(main)[s].val
            n == End(main, s)
            c == cache[s]
<1>1. /\ RebuildKeyTable(main, "rw", 0, 0) /\ mode = "down" /\ mode' # "down" /\ phase' = "idle" /\ cache' = cache
      /\ NoteConversion(main) = {}
    BY DEF Open, Alone, RebuildKeyTable, NoteConversion, StoreInv, ModeOK, Running
<1>2. s \in Slot /\ s[2] = "comp" /\ main \in Seq(Record) /\ Legal(main) /\ k \in Keys /\ CompressedKeys = {k}
    BY OwnIs
<1>a. Rebuilt(main) # EmptyTable \/ main' = <<>>
    BY <1>1 DEF NoteConversion
<1>3. /\ table' = Rebuilt(main) /\ Rebuilt(main') = Rebuilt(main)
      /\ ReadBack(main', s, Rebuilt(main)[s]) = ReadBack(main, s, Rebuilt(main)[s])
      /\ main' \in Seq(Record) /\ Legal(main') /\ AllAccepted(main')
    BY <1>1, <1>2, <1>a, RebuildGives
<1>4. End(main', s) = n \/ (n = "torn" /\ End(main', s) = "garbled")
    BY <1>1, <1>2, EndRebuilt
<1>5. EntryWhole(s)' <=> IsWhole(n)
    <2>1. EntryWhole(s)' <=> table'[s] = NoEntry \/ ReadBack(main', s, table'[s]) # None
        BY <1>1 DEF EntryWhole, File, Unmoved
    <2> QED
        BY <1>2, <1>3, <2>1, EndReads DEF IsWhole
<1>6. ~ Cut(main', s)
    <2>1. ~ NoneSwallows(main') => End(main', s) = "torn"
        BY <1>2, <1>3, TornIs
    <2> QED
        BY <1>3, <2>1 DEF Cut, Blocked
<1>7. CoreDb(k) = Db(f, IsWhole(n), c, f, n, Uncut)
    BY <1>1, CoreDbIs
<1>8. CoreDb(k)' = Db(f, EntryWhole(s)', c, f, End(main', s), Cut(main', s))
    BY <1>1, <1>3, CoreDbIs
<1>9. (EntryWhole(s)') = IsWhole(n) /\ Cut(main', s) = Uncut
    <2>1. EntryWhole(s)' \in BOOLEAN /\ Cut(main', s) \in BOOLEAN /\ IsWhole(n) \in BOOLEAN
        BY CoreDbIs DEF IsWhole
    <2> QED
        BY <1>5, <1>6, <2>1 DEF Uncut
<1>10. CoreDb(k)' = Db(f, IsWhole(n), c, f, End(main', s), Uncut)
    BY <1>8, <1>9, Zenon
<1>. HIDE DEF s, f, n, c
<1>11. CASE End(main', s) = n
    BY <1>7, <1>10, <1>11, Zenon DEF Moves
<1>12. CASE n = "torn" /\ End(main', s) = "garbled"
    <2>1. PICK b \in BOOLEAN : b = Fails
        BY FailsIs
    <2>2. PICK w : w = IsWhole(n)
        OBVIOUS
    <2>3. PICK x : x = Uncut
        OBVIOUS
    <2>4. CoreDb(k) = Db(f, w, c, f, n, x) /\ CoreDb(k)' = Db(f, w, c, f, "garbled", x)
        BY <1>7, <1>10, <1>12, <2>2, <2>3, Zenon
    <2>5. Core!DatabaseStep(CoreDb(k), Db(f, w, c, f, "garbled", x), b)
        BY <1>12, <2>4, OtherSteps
    <2> QED
        BY <2>1, <2>4, <2>5, Zenon DEF Moves
<1> QED
    BY <1>4, <1>11, <1>12

\* A record of the key is behind what was in the file.
LEMMA OwnWrites ==
    ASSUME StoreInv, NEW k, Own(k), mode # "down", NEW r \in Record, r.slot = Comp(k),
           r.part \in {"whole", "header", "value"}, r.part = "value" => r.val # None,
           main' = Append(main, r),
           NEW f, NEW n, NEW f2, NEW n2,
           f = Rebuilt(main)[Comp(k)].val, n = End(main, Comp(k)),
           f2 = Rebuilt(main')[Comp(k)].val, n2 = End(main', Comp(k))
    PROVE  /\ r.part = "whole" => Wrote(CoreDb(k), f, n, f2, n2, r.val) /\ Cut(main', Comp(k)) = Cut(main, Comp(k))
           /\ r.part # "whole" =>
                  \/ f2 = f /\ n2 = n /\ Cut(main', Comp(k)) = (n # "torn")
                  \/ /\ r.part = "value" /\ ~ Core!Hiding(CoreDb(k)) /\ f2 = r.val /\ n2 = "torn"
                     /\ Cut(main', Comp(k)) = Cut(main, Comp(k))
<1>. DEFINE s == Comp(k)
<1>1. main \in Seq(Record) /\ s \in Slot /\ s[2] = "comp"
    BY OwnIs
<1>2. Core!Hiding(CoreDb(k)) <=> Blocked(main)
    BY <1>1, HidingIs
<1>3. PICK e2 : e2 = Rebuilt(Append(main, r))[s]
    OBVIOUS
<1>4. e2.val = f2 /\ n2 = End(Append(main, r), s)
    BY <1>3
<1>. HIDE DEF s
<1>5. /\ Blocked(main') <=> Blocked(main) \/ r.part # "whole"
      /\ Blocked(main) \/ r.part = "header" => e2 = Rebuilt(main)[s] /\ n2 = End(main, s)
      /\ ~ Blocked(main) /\ r.part # "header" =>
             /\ e2.val = r.val
             /\ r.part = "whole" => n2 = "whole"
             /\ r.part = "value" /\ r.val # None => n2 = "torn"
    BY <1>1, <1>3, <1>4, OwnAppend DEF s
<1>6. (Cut(main', s) <=> Blocked(main') /\ n2 # "torn") /\ (Cut(main, s) <=> Blocked(main) /\ n # "torn")
    BY DEF Cut, s
<1>7. Cut(main', s) \in BOOLEAN /\ Cut(main, s) \in BOOLEAN
    BY DEF Cut
<1>8. f = Rebuilt(main)[s].val /\ n = End(main, s)
    BY DEF s
<1>9. CASE r.part = "whole"
    <2>1. CASE Blocked(main)
        <3>1. f2 = f /\ n2 = n /\ (Cut(main', s) <=> Cut(main, s))
            BY <1>4, <1>5, <1>6, <1>8, <1>9, <2>1
        <3> QED
            BY <1>2, <1>7, <1>9, <2>1, <3>1 DEF Wrote, s
    <2>2. CASE ~ Blocked(main)
        <3>1. f2 = r.val /\ n2 = "whole" /\ (Cut(main', s) <=> Cut(main, s))
            BY <1>4, <1>5, <1>6, <1>9, <2>2
        <3> QED
            BY <1>2, <1>7, <1>9, <2>2, <3>1 DEF Wrote, s
    <2> QED
        BY <2>1, <2>2
<1>10. CASE r.part # "whole"
    <2>1. CASE Blocked(main) \/ r.part = "header"
        <3>1. f2 = f /\ n2 = n /\ (Cut(main', s) <=> n # "torn")
            BY <1>4, <1>5, <1>6, <1>8, <1>10, <2>1
        <3> QED
            BY <1>7, <1>10, <3>1 DEF s
    <2>2. CASE ~ Blocked(main) /\ r.part # "header"
        <3>1. r.part = "value" /\ f2 = r.val /\ n2 = "torn" /\ (Cut(main', s) <=> Cut(main, s))
            BY <1>4, <1>5, <1>6, <1>10, <2>2
        <3> QED
            BY <1>2, <1>7, <1>10, <2>2, <3>1 DEF s
    <2> QED
        BY <2>1, <2>2
<1> QED
    BY <1>9, <1>10

\* A write or a flush that is known to fail can fail.
FaultsOK == failed \cap {"write", "flush"} # {} => Fails

LEMMA FailsMay ==
    ASSUME StoreInv, FaultsOK, mode # "mem", mode # "down",
           WriteOutcomes \cap {"write", "flush"} # {} \/ MayFail("flush") \/ "flush" \in failed
    PROVE  Fails
<1>1. ASSUME NEW f \in {"write", "flush"}, MayFail(f) PROVE Fails
    BY <1>1 DEF MayFail, Fails
<1>2. "write" \in failed \/ "flush" \in failed => Fails
    BY DEF FaultsOK
<1>3. mode # "rw" => "write" \in failed
    BY DEF StoreInv, TypeOK, ModeOK
<1> QED
    BY <1>1, <1>2, <1>3 DEF WriteOutcomes

LEMMA NoteOK ==
    ASSUME FaultsOK, NEW outs, outs \subseteq WriteOutcomes \cup {"none"}, NoteWrites(outs)
    PROVE  FaultsOK'
<1>1. Fails' <=> Fails
    BY DEF Fails
<1>2. CASE failed' \cap {"write", "flush"} \subseteq failed
    BY <1>1, <1>2 DEF FaultsOK
<1>3. ASSUME NEW f \in {"write", "flush"}, f \in failed', f \notin failed PROVE Fails
    <2>1. mode = "rw" /\ f \in outs
        BY <1>3 DEF NoteWrites
    <2>2. MayFail(f)
        BY <1>3, <2>1 DEF WriteOutcomes
    <2> QED
        BY <2>2 DEF MayFail, Fails
<1> QED
    BY <1>1, <1>2, <1>3 DEF FaultsOK

LEMMA FaultsStep ==
    ASSUME StoreInv, FaultsOK, [Next]_vars
    PROVE  FaultsOK'
<1>0. Fails' <=> Fails
    BY DEF Fails
<1>a. failed' \cap {"write", "flush"} \subseteq failed => FaultsOK'
    BY <1>0 DEF FaultsOK
<1>1. CASE Open
    <2>1. "write" \notin NoteConversion(main) /\ "flush" \notin NoteConversion(main)
        BY DEF NoteConversion
    <2>2. failed' = failed \/ failed' = (failed \ {"flush"}) \cup NoteConversion(main)
        BY <1>1 DEF Open
    <2> QED
        BY <1>a, <2>1, <2>2
<1>2. ASSUME NEW s \in Slot, NEW v \in Values, PutEx2(s, v)
      PROVE  FaultsOK'
    <2>1. CASE UNCHANGED failed
        BY <1>a, <2>1
    <2>2. ASSUME NEW hid \in HideOutcomes(s), NEW outs, outs \subseteq WriteOutcomes, NoteWrites({hid} \cup outs)
          PROVE  FaultsOK'
        <3>1. hid \in WriteOutcomes \cup {"none"}
            BY DEF HideOutcomes
        <3> QED
            BY <2>2, <3>1, NoteOK
    <2>3. CASE PutSame(s, v)
        <3>1. PICK hid \in HideOutcomes(s) : NoteWrites({hid})
            BY <2>3 DEF PutSame
        <3>2. NoteWrites({hid} \cup {}) /\ {} \subseteq WriteOutcomes
            <4>1. {hid} = {hid} \cup {}
                OBVIOUS
            <4> QED
                BY <3>1, <4>1
        <3>3. PICK outs : outs = {}
            OBVIOUS
        <3>4. NoteWrites({hid} \cup outs) /\ outs \subseteq WriteOutcomes
            BY <3>2, <3>3
        <3> QED
            BY <2>2, <3>4
    <2>4. CASE PutRecord(s, v)
        <3>1. PICK hid \in HideOutcomes(s), out \in WriteOutcomes : NoteWrites({hid, out})
            BY <2>4 DEF PutRecord
        <3>2. NoteWrites({hid} \cup {out}) /\ {out} \subseteq WriteOutcomes
            <4>1. {hid, out} = {hid} \cup {out}
                OBVIOUS
            <4> QED
                BY <3>1, <4>1
        <3> QED
            BY <2>2, <3>1, <3>2
    <2>5. CASE PutFailed(s, v)
        <3>1. PICK hid \in HideOutcomes(s) : NoteWrites({hid, "write"}) /\ "write" \in WriteOutcomes
            BY <2>5 DEF PutFailed
        <3>2. NoteWrites({hid} \cup {"write"}) /\ {"write"} \subseteq WriteOutcomes
            <4>1. {hid, "write"} = {hid} \cup {"write"}
                OBVIOUS
            <4> QED
                BY <3>1, <4>1
        <3> QED
            BY <2>2, <3>1, <3>2
    <2> QED
        BY <1>2, <2>1, <2>3, <2>4, <2>5 DEF PutEx2
<1>3. ASSUME NEW k \in Keys, Delete(k) PROVE FaultsOK'
    <2>1. CASE UNCHANGED failed
        BY <1>a, <2>1
    <2>2. ASSUME NEW out \in WriteOutcomes, NoteWrites({out}) PROVE FaultsOK'
        <3>1. {out} \subseteq WriteOutcomes \cup {"none"}
            OBVIOUS
        <3> QED
            BY <2>2, <3>1, NoteOK
    <2> QED
        BY <1>3, <2>1, <2>2 DEF Delete
<1>4. ASSUME NEW k \in Keys,
             DiesInDelete(k) \/ \E v \in Values : DiesInPut(k, v) \/ DiesInPutCompressed(k, v)
      PROVE  FaultsOK'
    BY <1>4, <1>a, DiesOK DEF Ended
<1>5. CASE Stop \/ CompactCopyFails \/ CompactReplace
    BY <1>5, <1>a DEF Stop, Ended, CompactCopyFails, CompactReplace
<1>6. CASE \/ CompactStart \/ UNCHANGED vars
           \/ \E j \in Keys, v \in Values : PutCached(j, v)
           \/ \E s \in Slot : CompactHangs(s)
    <2>1. UNCHANGED failed
        BY <1>6 DEF CompactStart, vars, PutCached, CompactHangs
    <2> QED
        BY <1>a, <2>1
<1>7. ASSUME NEW s \in Slot, CompactCopy(s) PROVE FaultsOK'
    <2>1. UNCHANGED failed \/ MayFail("flush")
        BY <1>7 DEF CompactCopy
    <2>2. MayFail("flush") => Fails
        BY DEF MayFail, Fails
    <2> QED
        BY <1>0, <1>a, <2>1, <2>2 DEF FaultsOK
<1>8. \A j \in Keys : Plain(j) \in Slot /\ Comp(j) \in Slot
    BY SlotsAre
<1>9. ASSUME NEW j \in Keys, NEW v \in Values, Put(j, v) \/ PutCompressed(j, v) PROVE FaultsOK'
    BY <1>2, <1>8, <1>9 DEF Put, PutCompressed
<1> QED
    BY <1>1, <1>3, <1>4, <1>5, <1>6, <1>7, <1>9 DEF Next

\* A step that changes none of the fields.
LEMMA Stays ==
    ASSUME NEW k, mode # "down", mode' # "down",
           table'[Comp(k)].val = table[Comp(k)].val,
           EntryWhole(Comp(k))' = EntryWhole(Comp(k)),
           cache'[Comp(k)] = cache[Comp(k)],
           Rebuilt(main')[Comp(k)].val = Rebuilt(main)[Comp(k)].val,
           End(main', Comp(k)) = End(main, Comp(k)),
           Cut(main', Comp(k)) = Cut(main, Comp(k))
    PROVE  Moves(k)
<1>1. CoreDb(k)' = CoreDb(k)
    BY CoreDbIs, Zenon
<1> QED
    BY <1>1 DEF Moves

\* The value can no longer be read.
LEMMA Spoils ==
    ASSUME NEW k, Fails, mode # "down", mode' # "down",
           table'[Comp(k)].val = table[Comp(k)].val, table[Comp(k)].val # None,
           ~ EntryWhole(Comp(k))',
           UNCHANGED <<main, cache>>
    PROVE  Moves(k)
<1>. DEFINE s == Comp(k)
            t == table[s].val
            f == Rebuilt(main)[s].val
            n == End(main, s)
            c == cache[s]
<1>1. PICK w, x : CoreDb(k) = Db(t, w, c, f, n, x) /\ x = Cut(main, s)
    BY CoreDbIs, Zenon
<1>2. CoreDb(k)' = Db(t, EntryWhole(s)', c, f, n, x)
    <2>1. x = Cut(main', s)
        BY <1>1
    <2> QED
        BY <2>1, CoreDbIs, Zenon
<1>3. EntryWhole(s)' = FALSE /\ t # None
    BY CoreDbIs
<1>4. CoreDb(k)' = Db(t, FALSE, c, f, n, x)
    BY <1>2, <1>3, Zenon
<1>. HIDE DEF s, t, f, n, c
<1>5. PICK b \in BOOLEAN : b = Fails
    BY FailsIs
<1>6. Core!DatabaseStep(CoreDb(k), Db(t, FALSE, c, f, n, x), b)
    BY <1>1, <1>3, <1>5, OtherSteps
<1> QED
    BY <1>4, <1>5, <1>6, Zenon DEF Moves

\* An operation on another key, whose record is plain, that writes, or writes nothing.
LEMMA OtherWrites ==
    ASSUME StoreInv, FaultsOK, NEW k, Own(k), Alone, Idle,
           NEW r \in Record, r.slot[2] = "plain", r.part = "whole",
           NEW out \in WriteOutcomes \cup {"none"}, main' \in AfterWrite(main, r, out),
           table'[Comp(k)] = table[Comp(k)], UNCHANGED <<cache, mode, phase, todo>>
    PROVE  Moves(k)
<1>. DEFINE s == Comp(k)
            f == Rebuilt(main)[s].val
            n == End(main, s)
<1>1. s \in Slot /\ s[2] = "comp" /\ main \in Seq(Record) /\ table \in [Slot -> Entry] /\ table[s] \in Entry
    BY OwnIs
<1>2. mode # "down" /\ mode # "mem"
    BY DEF Idle, Alone
<1>3. File(s) = main /\ File(s)' = main'
    BY DEF File, Unmoved, Idle
<1>4. CASE main' = main
    <2>1. EntryWhole(s)' = EntryWhole(s)
        BY <1>3, <1>4 DEF EntryWhole
    <2> QED
        BY <1>2, <1>4, <2>1, Stays
<1>5. ASSUME NEW p \in Record, p.slot[2] = "plain", main' = Append(main, p), p.part = "whole" \/ Fails
      PROVE  Moves(k)
    <2>1. /\ Rebuilt(main')[s] = Rebuilt(main)[s] /\ End(main', s) = End(main, s)
          /\ \A e \in Entry : ReadBack(main', s, e) = ReadBack(main, s, e)
          /\ Blocked(main') <=> Blocked(main) \/ p.part # "whole"
        <3>. HIDE DEF s, f, n
        <3>1. PICK a : a = Append(main, p)
            OBVIOUS
        <3>2. /\ Rebuilt(a)[s] = Rebuilt(main)[s] /\ End(a, s) = End(main, s)
              /\ \A e \in Entry : ReadBack(a, s, e) = ReadBack(main, s, e)
              /\ Blocked(a) <=> Blocked(main) \/ p.part # "whole"
            <4>1. main \in Seq(Record) /\ s \in Slot /\ s[2] = "comp" /\ p.slot[2] = "plain"
                BY <1>1, <1>5
            <4> QED
                BY <3>1, <4>1, PlainAppend
        <3> QED
            BY <1>5, <3>1, <3>2
    <2>2. EntryWhole(s)' = EntryWhole(s)
        BY <1>1, <1>3, <2>1 DEF EntryWhole
    <2>3. Cut(main', s) \in BOOLEAN /\ Cut(main, s) \in BOOLEAN
        BY CoreDbIs
    <2>4. CASE p.part = "whole"
        <3>1. Cut(main', s) = Cut(main, s)
            BY <2>1, <2>3, <2>4 DEF Cut
        <3> QED
            BY <1>2, <2>1, <2>2, <3>1, Stays
    <2>5. CASE p.part # "whole"
        <3>1. PICK y : y = Cut(main', s)
            OBVIOUS
        <3>2. y = (n # "torn")
            BY <2>1, <2>3, <2>5, <3>1 DEF Cut
        <3>3. PICK t, w, c, x : CoreDb(k) = Db(t, w, c, f, n, x) /\ t = table[s].val /\ w = EntryWhole(s) /\ c = cache[s]
            BY <1>2, CoreDbIs, Zenon
        <3>4. CoreDb(k)' = Db(t, w, c, f, n, y)
            <4>1. /\ mode' # "down" /\ t = table'[s].val /\ w = EntryWhole(s)' /\ c = cache'[s]
                  /\ f = Rebuilt(main')[s].val /\ n = End(main', s)
                BY <1>2, <2>1, <2>2, <3>3, Zenon
            <4> QED
                BY <3>1, <4>1, CoreDbIs, Zenon
        <3>. HIDE DEF s, f, n
        <3>5. MayCut(n, x, y)
            BY <3>2, Zenon DEF MayCut
        <3>6. PICK b \in BOOLEAN : b = Fails
            BY FailsIs
        <3>7. b
            BY <1>5, <2>5, <3>6
        <3>8. Core!DatabaseStep(CoreDb(k), Db(t, w, c, f, n, y), b)
            BY <3>3, <3>5, <3>7, OtherSteps
        <3> QED
            BY <3>4, <3>6, <3>8, Zenon DEF Moves
    <2> QED
        BY <2>4, <2>5
<1>6. CASE out = "written"
    <2>1. main' = Append(main, r)
        BY <1>6 DEF AfterWrite
    <2> QED
        BY <1>5, <2>1
<1>7. CASE out = "flush"
    <2>1. Fails
        BY <1>2, <1>7, FailsMay
    <2>2. main' = main \/ \E part \in Tears : main' = Append(main, PartOf(r, part))
        BY <1>7 DEF AfterWrite, Leftovers
    <2>3. ASSUME NEW part \in Tears, main' = Append(main, PartOf(r, part)) PROVE Moves(k)
        <3>1. PartOf(r, part) \in Record /\ PartOf(r, part).slot[2] = "plain"
            BY ParametersAssumption DEF PartOf, Record
        <3> QED
            BY <1>5, <2>1, <2>3, <3>1
    <2> QED
        BY <1>4, <2>2, <2>3
<1>8. CASE out \notin {"written", "flush"}
    BY <1>4, <1>8 DEF AfterWrite
<1> QED
    BY <1>6, <1>7, <1>8

\* The table is built anew from the file.
LEMMA RereadIs ==
    ASSUME NEW k \in Keys, main \in Seq(Record), NEW d, NEW c, RebuildKeyTable(main, "ro", d, c), phase' = "idle",
           NEW f, NEW n, NEW x, f = Rebuilt(main)[Comp(k)].val, n = End(main, Comp(k)), x = Cut(main, Comp(k))
    PROVE  \E y : MayMend(f, x, y) /\ CoreDb(k)' = Db(f, IsWhole(n), cache'[Comp(k)], f, n, y)
<1>. DEFINE s == Comp(k)
<1>1. s \in Slot
    BY SlotsAre
<1>2. /\ table' = Rebuilt(main) /\ Rebuilt(main') = Rebuilt(main) /\ mode' \in {"ro", "rw"}
      /\ ReadBack(main', s, Rebuilt(main)[s]) = ReadBack(main, s, Rebuilt(main)[s])
    BY <1>1, RebuildGives
<1>3. End(main', s) = n
    BY <1>1, EndRebuilt
<1>4. (EntryWhole(s)') = IsWhole(n)
    <2>1. EntryWhole(s)' <=> table'[s] = NoEntry \/ ReadBack(main', s, table'[s]) # None
        BY DEF EntryWhole, File, Unmoved
    <2>2. EntryWhole(s)' <=> IsWhole(n)
        BY <1>1, <1>2, <2>1, EndReads DEF IsWhole
    <2>3. EntryWhole(s)' \in BOOLEAN /\ IsWhole(n) \in BOOLEAN
        BY CoreDbIs DEF IsWhole
    <2> QED
        BY <2>2, <2>3
<1>5. PICK y : y = Cut(main', s)
    OBVIOUS
<1>6. y = x \/ (y = Uncut /\ f = None)
    <2>1. CASE main' = main
        BY <1>5, <2>1
    <2>2. CASE main' # main
        <3>1. Rebuilt(main) = EmptyTable /\ main' = <<>>
            BY <2>2 DEF RebuildKeyTable
        <3>2. f = None
            BY <1>1, <3>1 DEF EmptyTable, NoEntry
        <3>3. ~ Cut(main', s)
            BY <3>1, RebuiltNone DEF Cut, Blocked
        <3> QED
            BY <1>5, <3>2, <3>3, CoreDbIs DEF Uncut
    <2> QED
        BY <2>1, <2>2
<1>7. CoreDb(k)' = Db(f, EntryWhole(s)', cache'[s], f, n, y)
    <2>1. mode' # "down" /\ f = table'[s].val /\ f = Rebuilt(main')[s].val /\ n = End(main', s)
        BY <1>2, <1>3
    <2> QED
        BY <1>5, <2>1, CoreDbIs, Zenon
<1>8. CoreDb(k)' = Db(f, IsWhole(n), cache'[s], f, n, y)
    BY <1>4, <1>7, Zenon
<1> QED
    BY <1>6, <1>8, Zenon DEF MayMend

\* A put under the key.
LEMMA OwnPut ==
    ASSUME StoreInv, FaultsOK, NEW k, Own(k), Alone, NEW v \in Values, PutEx2(Comp(k), v)
    PROVE  Moves(k)
<1>. DEFINE s == Comp(k)
            t == table[s].val
            f == Rebuilt(main)[s].val
            n == End(main, s)
            c == cache[s]
            f2 == Rebuilt(main')[s].val
            n2 == End(main', s)
            d == CoreDb(k)
<1>1. Idle /\ mode # "mem" /\ mode # "down" /\ UNCHANGED <<phase, todo>> /\ phase = "idle"
    BY DEF PutEx2, Alone, Idle
<1>2. /\ k \in Keys /\ s \in Slot /\ s[2] = "comp" /\ Stored(s) /\ Single(s) /\ main \in Seq(Record)
      /\ table[s] = NoEntry => t = None
      /\ table \in [Slot -> Entry]
    BY OwnIs
<1>3. \A hid \in HideOutcomes(s) : \A log \in Hidden(s, hid) : log = main
    BY <1>2, HiddenOK
<1>b. Uncovered(s) = table
    <2>1. table[Plain(s[1])] = NoEntry /\ s[1] = k
        BY OwnIs
    <2>2. Plain(k) \in Slot
        BY OwnIs
    <2> QED
        BY <1>2, <2>1, <2>2 DEF Uncovered
<1>4. PICK w, x : d = Db(t, w, c, f, n, x) /\ x = Cut(main, s)
    BY <1>1, CoreDbIs, Zenon
<1>5. ~ Same(s, v) => t # v
    BY <1>2, ValuesAssumption DEF Same
<1>6. PICK b \in BOOLEAN : b = Fails
    BY FailsIs
<1>7. CASE PutSame(s, v)
    <2>1. UNCHANGED <<main, table, cache, mode>>
        BY <1>b, <1>3, <1>7 DEF PutSame
    <2>2. EntryWhole(s)' = EntryWhole(s)
        BY <1>1, <2>1 DEF EntryWhole, File, Unmoved
    <2> QED
        BY <1>1, <2>1, <2>2, Stays
<1>8. CASE PutRecord(s, v)
    <2>. DEFINE r == Value(s, v)
    <2>1. PICK out \in WriteOutcomes \ {"write"} : main' \in AfterWrite(main, r, out)
        BY <1>3, <1>8 DEF PutRecord
    <2>2. table'[s] = [val |-> v, off |-> Len(main) + 1] /\ UNCHANGED <<mode, cache>>
        BY <1>2, <1>3, <1>b, <1>8 DEF PutRecord
    <2>3. r \in Record /\ r.slot = s /\ r.part = "whole" /\ r.val = v /\ v # None
        BY <1>2, RecordTypes, ValuesAssumption DEF Value
    <2>4. table'[s].val = v /\ table'[s] # NoEntry /\ table'[s].off = Len(main) + 1
        BY <2>2, <2>3 DEF NoEntry
    <2>5. File(s)' = main'
        BY <1>1 DEF File, Unmoved
    <2>6. t # v
        BY <1>5, <1>8 DEF PutRecord
    <2>7. PICK w2, y : CoreDb(k)' = Db(v, w2, c, f2, n2, y) /\ y = Cut(main', s) /\ w2 = EntryWhole(s)'
        BY <1>1, <2>2, <2>4, CoreDbIs, Zenon
    <2>8. ASSUME NEW p \in Record, p.slot = s, p.part \in {"whole", "header", "value"}, p.val = v, main' = Append(main, p)
          PROVE  /\ p.part = "whole" => Wrote(d, f, n, f2, n2, v) /\ y = x
                 /\ p.part # "whole" => \/ f2 = f /\ n2 = n /\ y = (n # "torn")
                                        \/ ~ Core!Hiding(d) /\ f2 = v /\ n2 = "torn" /\ y = x
                 /\ w2 = (p.part = "whole")
        <3>1. main'[Len(main) + 1] = p /\ Len(main) + 1 \in DOMAIN main'
            BY <1>2, <2>8, Appended
        <3>2. ReadBack(main', s, table'[s]) # None <=> p.part = "whole"
            BY <2>3, <2>4, <2>8, <3>1 DEF ReadBack
        <3>3. w2 = (p.part = "whole")
            BY <2>4, <2>5, <2>7, <3>2, CoreDbIs DEF EntryWhole
        <3>4. p.part = "value" => p.val # None
            BY <2>3, <2>8
        <3>. DEFINE g == Rebuilt(main')[s].val
                    m == End(main', s)
        <3>5. /\ p.part = "whole" => Wrote(d, f, n, g, m, p.val) /\ Cut(main', s) = Cut(main, s)
              /\ p.part # "whole" =>
                     \/ g = f /\ m = n /\ Cut(main', s) = (n # "torn")
                     \/ /\ p.part = "value" /\ ~ Core!Hiding(d) /\ g = p.val /\ m = "torn"
                        /\ Cut(main', s) = Cut(main, s)
            BY <1>1, <2>8, <3>4, OwnWrites
        <3>. HIDE DEF s, f, n, d
        <3> QED
            BY <1>4, <2>7, <2>8, <3>3, <3>5
    <2>9. CASE out = "written"
        <3>1. main' = Append(main, r)
            BY <2>1, <2>9 DEF AfterWrite
        <3>2. Wrote(d, f, n, f2, n2, v) /\ y = x /\ w2 = TRUE
            <4>. HIDE DEF r, s, t, f, n, f2, n2, c, d
            <4> QED
                BY <2>3, <2>8, <3>1
        <3>. HIDE DEF s, t, f, n, f2, n2, c
        <3>3. d = Db(t, w, c, f, n, x) /\ CoreDb(k)' = Db(v, TRUE, c, f2, n2, x)
            BY <1>4, <2>7, <3>2, Zenon
        <3>. HIDE DEF d
        <3>4. Core!DatabaseStep(d, Db(v, TRUE, c, f2, n2, x), b)
            <4>1. Wrote(d, f, n, f2, n2, v) /\ d = Db(t, w, c, f, n, x)
                BY <3>2, <3>3
            <4> QED
                BY <2>6, <4>1, PutStep
        <3> QED
            BY <1>6, <3>3, <3>4, Zenon DEF Moves, d
    <2>10. CASE out = "flush"
        <3>1. b
            BY <1>1, <1>6, <2>10, FailsMay
        <3>2. w2 = Unread /\ ((MayCut(n, x, y) /\ f2 = f /\ n2 = n) \/ (~ Core!Hiding(d) /\ f2 = v /\ n2 = "torn" /\ y = x))
            <4>1. main' = main \/ \E part \in Tears : main' = Append(main, PartOf(r, part))
                BY <2>1, <2>10 DEF AfterWrite, Leftovers
            <4>2. CASE main' = main
                <5>1. ReadBack(main', s, table'[s]) = None
                    BY <1>2, <2>4, <4>2 DEF ReadBack
                <5>2. w2 = Unread
                    BY <2>4, <2>5, <2>7, <5>1 DEF EntryWhole, Unread
                <5>3. y = x
                    BY <1>4, <2>7, <4>2
                <5> QED
                    BY <4>2, <5>2, <5>3, Zenon DEF MayCut
            <4>3. ASSUME NEW part \in Tears, main' = Append(main, PartOf(r, part))
                  PROVE  w2 = Unread /\ ((y = (n # "torn") /\ f2 = f /\ n2 = n) \/ (~ Core!Hiding(d) /\ f2 = v /\ n2 = "torn" /\ y = x))
                <5>. DEFINE p == PartOf(r, part)
                <5>1. p \in Record /\ p.slot = s /\ p.val = v /\ p.part \in {"header", "value"}
                    BY <2>3, ParametersAssumption DEF PartOf, Record
                <5>2. main' = Append(main, p)
                    BY <4>3
                <5>. HIDE DEF p, s, f, n, f2, n2, d
                <5>3. p.part # "whole"
                    BY <5>1
                <5> QED
                    BY <2>8, <5>1, <5>2, <5>3 DEF Unread
            <4> QED
                BY <4>1, <4>2, <4>3, Zenon DEF MayCut
        <3>. HIDE DEF s, t, f, n, f2, n2, c
        <3>3. d = Db(t, w, c, f, n, x) /\ CoreDb(k)' = Db(v, Unread, c, f2, n2, y)
            BY <1>4, <2>7, <3>2, Zenon
        <3>. HIDE DEF d
        <3>a. d = Db(t, w, c, f, n, x)
            BY <3>3
        <3>4. /\ MayCut(n, x, y) => Core!DatabaseStep(d, Db(v, Unread, c, f, n, y), TRUE)
              /\ ~ Core!Hiding(d) => Core!DatabaseStep(d, Db(v, Unread, c, v, "torn", x), TRUE)
            BY <2>6, <3>a, PutFails
        <3>5. Core!DatabaseStep(d, Db(v, Unread, c, f2, n2, y), TRUE)
            BY <3>2, <3>4, Zenon
        <3>6. b = TRUE
            BY <3>1
        <3> QED
            BY <1>6, <3>3, <3>5, <3>6, Zenon DEF Moves, d
    <2> QED
        BY <2>1, <2>9, <2>10 DEF WriteOutcomes
<1>9. CASE PutFailed(s, v)
    <2>1. PICK q : RebuildKeyTable(main, "ro", q, MinDirty)
        BY <1>3, <1>9 DEF PutFailed
    <2>2. cache'[s] = v
        BY <1>2, <1>9 DEF PutFailed, Cached, StoreInv, TypeOK
    <2>3. PICK y : MayMend(f, x, y) /\ CoreDb(k)' = Db(f, IsWhole(n), v, f, n, y)
        <3>1. x = Cut(main, s) /\ phase' = "idle"
            BY <1>1, <1>4
        <3>. HIDE DEF f, n
        <3>2. \E y : MayMend(f, x, y) /\ CoreDb(k)' = Db(f, IsWhole(n), cache'[s], f, n, y)
            BY <1>2, <2>1, <3>1, RereadIs DEF f, n
        <3> QED
            BY <2>2, <3>2
    <2>c. t # v
        BY <1>5, <1>9 DEF PutFailed
    <2>4. b
        BY <1>1, <1>6, <1>9, FailsMay DEF PutFailed
    <2>. HIDE DEF s, t, f, n, c, d
    <2>a. d = Db(t, w, c, f, n, x) /\ MayMend(f, x, y)
        BY <1>4, <2>3
    <2>5. Core!DatabaseStep(d, Db(f, IsWhole(n), v, f, n, y), TRUE)
        BY <2>a, <2>c, PutFails
    <2>6. b = TRUE
        BY <2>4
    <2> QED
        BY <1>6, <2>3, <2>5, <2>6, Zenon DEF Moves, d
<1> QED
    BY <1>1, <1>7, <1>8, <1>9 DEF PutEx2

\* A put under another key.
LEMMA OtherPut ==
    ASSUME StoreInv, FaultsOK, NEW k, Own(k), Alone, NEW z \in Slot, z # Comp(k), Stored(z),
           NEW v \in Values, PutEx2(z, v)
    PROVE  Moves(k)
<1>. DEFINE s == Comp(k)
            t == table[s].val
            f == Rebuilt(main)[s].val
            n == End(main, s)
            c == cache[s]
            d == CoreDb(k)
<1>1. Idle /\ mode # "mem" /\ mode # "down" /\ UNCHANGED <<phase, todo>> /\ phase = "idle"
    BY DEF PutEx2, Alone, Idle
<1>2. /\ k \in Keys /\ s \in Slot /\ main \in Seq(Record) /\ table \in [Slot -> Entry]
      /\ z[2] = "plain" /\ Single(z) /\ z # s
    BY OwnIs
<1>3. /\ \A hid \in HideOutcomes(z) : \A log \in Hidden(z, hid) : log = main
      /\ Uncovered(z) = table
    BY <1>2, HiddenOK DEF Uncovered
<1>4. CASE PutSame(z, v)
    <2>1. UNCHANGED <<main, table, cache, mode>>
        BY <1>3, <1>4 DEF PutSame
    <2>2. EntryWhole(s)' = EntryWhole(s)
        BY <1>1, <2>1 DEF EntryWhole, File, Unmoved
    <2> QED
        BY <1>1, <2>1, <2>2, Stays
<1>5. CASE PutRecord(z, v)
    <2>. DEFINE r == Value(z, v)
    <2>1. PICK out \in WriteOutcomes : main' \in AfterWrite(main, r, out)
        BY <1>3, <1>5 DEF PutRecord
    <2>2. table'[s] = table[s] /\ UNCHANGED <<mode, cache>>
        BY <1>2, <1>3, <1>5 DEF PutRecord
    <2>3. r \in Record /\ r.slot[2] = "plain" /\ r.part = "whole"
        BY <1>2, RecordTypes DEF Value
    <2>. HIDE DEF r
    <2> QED
        BY <1>1, <2>1, <2>2, <2>3, OtherWrites
<1>6. CASE PutFailed(z, v)
    <2>1. PICK q : RebuildKeyTable(main, "ro", q, MinDirty)
        BY <1>3, <1>6 DEF PutFailed
    <2>2. cache'[s] = c
        BY <1>2, <1>6 DEF PutFailed, Cached, StoreInv, TypeOK
    <2>3. PICK w, x : d = Db(t, w, c, f, n, x) /\ x = Cut(main, s)
        BY <1>1, CoreDbIs, Zenon
    <2>4. PICK y : MayMend(f, x, y) /\ CoreDb(k)' = Db(f, IsWhole(n), c, f, n, y)
        <3>1. x = Cut(main, s) /\ phase' = "idle"
            BY <1>1, <2>3
        <3>. HIDE DEF f, n, c
        <3>2. \E y : MayMend(f, x, y) /\ CoreDb(k)' = Db(f, IsWhole(n), cache'[s], f, n, y)
            BY <1>2, <2>1, <3>1, RereadIs DEF f, n
        <3> QED
            BY <2>2, <3>2
    <2>5. PICK b \in BOOLEAN : b = Fails
        BY FailsIs
    <2>6. b
        BY <1>1, <1>6, <2>5, FailsMay DEF PutFailed
    <2>. HIDE DEF s, t, f, n, c, d
    <2>7. Core!DatabaseStep(d, Db(f, IsWhole(n), c, f, n, y), b)
        BY <2>3, <2>4, <2>6, OtherSteps
    <2> QED
        BY <2>4, <2>5, <2>7, Zenon DEF Moves, d
<1> QED
    BY <1>1, <1>4, <1>5, <1>6 DEF PutEx2

\* A deletion of the key.
LEMMA OwnDelete ==
    ASSUME StoreInv, FaultsOK, NEW k, Own(k), Alone, Delete(k)
    PROVE  Moves(k)
<1>. DEFINE s == Comp(k)
            t == table[s].val
            f == Rebuilt(main)[s].val
            n == End(main, s)
            c == cache[s]
            f2 == Rebuilt(main')[s].val
            n2 == End(main', s)
            d == CoreDb(k)
<1>1. Idle /\ mode # "mem" /\ mode # "down" /\ UNCHANGED <<cache, mode, phase, todo>>
    BY DEF Delete, Alone, Idle
<1>2. /\ k \in Keys /\ s \in Slot /\ Deleted(k) = s /\ table \in [Slot -> Entry] /\ main \in Seq(Record)
      /\ table[s] # NoEntry => t # None
    BY OwnIs
<1>3. CASE table[s] = NoEntry
    <2>1. UNCHANGED <<main, table>>
        BY <1>2, <1>3 DEF Delete
    <2>2. EntryWhole(s)' = EntryWhole(s)
        BY <1>1, <2>1 DEF EntryWhole, File, Unmoved, Idle
    <2> QED
        BY <1>1, <2>1, <2>2, Stays
<1>4. CASE table[s] # NoEntry
    <2>. DEFINE r == Tombstone(s)
    <2>1. PICK out \in WriteOutcomes : main' \in AfterWrite(main, r, out)
        BY <1>2, <1>4 DEF Delete
    <2>2. table'[s] = NoEntry /\ NoEntry.val = None
        BY <1>2, <1>4 DEF Delete, NoEntry
    <2>3. EntryWhole(s)' = TRUE
        BY <2>2 DEF EntryWhole
    <2>4. PICK w, x, y : /\ d = Db(t, w, c, f, n, x) /\ CoreDb(k)' = Db(None, TRUE, c, f2, n2, y)
                         /\ x = Cut(main, s) /\ y = Cut(main', s)
        <3>1. table'[s].val = None /\ cache'[s] = c
            BY <1>1, <2>2
        <3> QED
            BY <1>1, <2>3, <3>1, CoreDbIs, Zenon
    <2>5. r \in Record /\ r.slot = s /\ r.part = "whole" /\ r.val = None
        BY <1>2, RecordTypes DEF Tombstone
    <2>6. PICK b \in BOOLEAN : b = Fails
        BY FailsIs
    <2>7. out # "written" => b
        <3>1. out # "written" => out \in {"write", "flush"}
            BY DEF WriteOutcomes
        <3> QED
            BY <1>1, <2>6, <3>1, FailsMay
    <2>8. ASSUME NEW p \in Record, p.slot = s, p.part \in {"whole", "header"}, p.val = None, main' = Append(main, p)
          PROVE  /\ p.part = "whole" => Wrote(d, f, n, f2, n2, None) /\ y = x
                 /\ p.part # "whole" => f2 = f /\ n2 = n /\ y = (n # "torn")
        <3>. DEFINE g == Rebuilt(main')[s].val
                    m == End(main', s)
        <3>5. /\ p.part = "whole" => Wrote(d, f, n, g, m, p.val) /\ Cut(main', s) = Cut(main, s)
              /\ p.part # "whole" =>
                     \/ g = f /\ m = n /\ Cut(main', s) = (n # "torn")
                     \/ /\ p.part = "value" /\ ~ Core!Hiding(d) /\ g = p.val /\ m = "torn"
                        /\ Cut(main', s) = Cut(main, s)
            BY <1>1, <2>8, OwnWrites
        <3>. HIDE DEF s, f, n, d
        <3> QED
            BY <2>4, <2>8, <3>5
    <2>9. \/ Wrote(d, f, n, f2, n2, None) /\ y = x
          \/ b /\ f2 = f /\ n2 = n /\ MayCut(n, x, y)
        <3>1. CASE out = "written"
            <4>1. main' = Append(main, r)
                BY <2>1, <3>1 DEF AfterWrite
            <4>. HIDE DEF r, s, f, n, f2, n2, d
            <4> QED
                BY <2>5, <2>8, <4>1
        <3>2. CASE out # "written" /\ main' = main
            BY <2>4, <2>7, <3>2, Zenon DEF MayCut
        <3>3. ASSUME out = "flush", main' # main
              PROVE  b /\ f2 = f /\ n2 = n /\ MayCut(n, x, y)
            <4>1. PICK part \in Tears : part # "value" /\ main' = Append(main, PartOf(r, part))
                BY <2>1, <2>5, <3>3 DEF AfterWrite, Leftovers
            <4>. DEFINE p == PartOf(r, part)
            <4>2. p \in Record /\ p.slot = s /\ p.val = None /\ p.part = "header"
                BY <2>5, <4>1, ParametersAssumption DEF PartOf, Record
            <4>3. main' = Append(main, p)
                BY <4>1
            <4>4. f2 = f /\ n2 = n /\ y = (n # "torn")
                <5>. HIDE DEF p, s, f, n, f2, n2, d
                <5> QED
                    BY <2>8, <4>2, <4>3
            <4>5. b
                BY <2>7, <3>3
            <4> QED
                BY <4>4, <4>5, Zenon DEF MayCut
        <3>4. out # "written" => main' = main \/ out = "flush"
            BY <2>1 DEF AfterWrite
        <3> QED
            BY <3>1, <3>2, <3>3, <3>4
    <2>10. t # None
        BY <1>2, <1>4
    <2>. HIDE DEF s, t, f, n, f2, n2, c, d
    <2>11. PICK e : e = Db(None, TRUE, c, f2, n2, y)
        OBVIOUS
    <2>12. Core!DatabaseStep(d, e, b)
        <3>1. d = Db(t, w, c, f, n, x)
            BY <2>4
        <3> QED
            BY <3>1, <2>9, <2>10, <2>11, DeleteStep
    <2> QED
        BY <2>4, <2>6, <2>11, <2>12, Zenon DEF Moves, d
<1> QED
    BY <1>3, <1>4

\* A deletion of another key.
LEMMA OtherDelete ==
    ASSUME StoreInv, FaultsOK, NEW k, Own(k), Alone, NEW j \in Keys, j # k, Delete(j)
    PROVE  Moves(k)
<1>. DEFINE s == Comp(k)
            z == Deleted(j)
<1>1. Idle /\ UNCHANGED <<cache, mode, phase, todo>> /\ mode # "down"
    BY DEF Delete, Idle
<1>2. s \in Slot /\ s[1] = k /\ main \in Seq(Record) /\ table \in [Slot -> Entry]
    BY OwnIs
<1>3. CASE table[z] = NoEntry
    <2>1. UNCHANGED <<main, table>>
        BY <1>3 DEF Delete
    <2>2. EntryWhole(s)' = EntryWhole(s)
        BY <1>1, <2>1 DEF EntryWhole, File, Unmoved, Idle
    <2> QED
        BY <1>1, <2>1, <2>2, Stays
<1>4. CASE table[z] # NoEntry
    <2>1. z \in Slot /\ z[1] = j /\ Stored(z) /\ table' = [table EXCEPT ![z] = NoEntry]
        BY <1>4, DeletedOK
    <2>2. table'[s] = table[s] /\ z[2] = "plain"
        BY <1>2, <2>1, OwnIs
    <2>. DEFINE r == Tombstone(z)
    <2>3. r \in Record /\ r.slot[2] = "plain" /\ r.part = "whole"
        BY <2>1, <2>2, RecordTypes DEF Tombstone
    <2>4. PICK out \in WriteOutcomes : main' \in AfterWrite(main, r, out)
        BY <1>4 DEF Delete
    <2>. HIDE DEF r
    <2> QED
        BY <1>1, <2>2, <2>3, <2>4, OtherWrites
<1> QED
    BY <1>3, <1>4

\* Of one record that is written when the process dies, a part is in the file.
LEMMA DiesOne ==
    ASSUME StoreInv, NEW w \in Record, w.part = "whole", DiesWriting(<<w>>)
    PROVE  /\ Ended /\ Running
           /\ \E r \in Record : /\ main' = Append(main, r) /\ r.slot = w.slot /\ r.val = w.val
                                /\ r.part \in {"whole", "header", "value"}
                                /\ r.part = "value" => r.val # None
<1>. DEFINE ws == <<w>>
<1>0. ws \in Seq(Record) /\ DOMAIN ws = 1 .. 1 /\ ws[1] = w
    OBVIOUS
<1>. HIDE DEF ws
<1>1. PICK i \in DOMAIN ws, part \in Tears \cup {"whole"} :
          /\ part = "value" => ws[i].val # None
          /\ main' = main \o SubSeq(ws, 1, i - 1) \o <<PartOf(ws[i], part)>>
    BY DEF DiesWriting, ws
<1>2. i = 1 /\ ws[i] = w
    BY <1>0, <1>1
<1>3. part \in {"whole", "header", "value"}
    BY <1>1, ParametersAssumption
<1>. DEFINE r == PartOf(w, part)
<1>4. /\ r \in Record /\ r.slot = w.slot /\ r.val = w.val /\ r.part = part
      /\ part = "value" => r.val # None
    BY <1>1, <1>2, <1>3 DEF Record, PartOf
<1>. HIDE DEF r
<1>5. main \in Seq(Record)
    BY DEF StoreInv, TypeOK
<1>6. SubSeq(ws, 1, i - 1) = <<>>
    BY <1>0, <1>2
<1>7. main' = Append(main, r)
    BY <1>1, <1>2, <1>4, <1>5, <1>6 DEF r
<1> QED
    BY <1>3, <1>4, <1>7 DEF DiesWriting, Running

\* The process dies in an operation on the key.
LEMMA OwnDies ==
    ASSUME StoreInv, NEW k, Own(k), Alone,
           DiesInDelete(k) \/ \E v \in Values : DiesInPut(k, v) \/ DiesInPutCompressed(k, v)
    PROVE  Moves(k)
<1>. DEFINE s == Comp(k)
            d == CoreDb(k)
<1>1. /\ k \in Keys /\ s \in Slot /\ s[1] = k /\ Deleted(k) = s /\ table[Plain(k)] = NoEntry
    BY OwnIs
<1>2. ASSUME NEW w \in Record, w.part = "whole", w.slot = s, DiesWriting(<<w>>)
      PROVE  Moves(k)
    <2>1. PICK r \in Record : /\ main' = Append(main, r) /\ r.slot = s
                              /\ r.part \in {"whole", "header", "value"}
                              /\ r.part = "value" => r.val # None
        BY <1>2, DiesOne
    <2>2. Ended /\ mode # "down"
        BY <1>2, DiesOne DEF Running
    <2>. DEFINE f == Rebuilt(main)[s].val
                n == End(main, s)
                f2 == Rebuilt(main')[s].val
                n2 == End(main', s)
    <2>3. /\ r.part = "whole" => Wrote(d, f, n, f2, n2, r.val)
          /\ r.part # "whole" =>
                 \/ f2 = f /\ n2 = n
                 \/ r.part = "value" /\ ~ Core!Hiding(d) /\ f2 = r.val /\ n2 = "torn"
        BY <2>1, <2>2, OwnWrites
    <2>4. r.val \in Values \cup {None}
        BY DEF Record
    <2>. HIDE DEF f, n, f2, n2, d
    <2>5. \/ f2 = f /\ n2 = n
          \/ \E v \in Values \cup {None} : Wrote(d, f, n, f2, n2, v)
          \/ ~ Core!Hiding(d) /\ n2 = "torn" /\ f2 \in Values
        BY <2>1, <2>3, <2>4
    <2> QED
        BY <1>1, <2>2, <2>5, EndsMove DEF f, n, f2, n2, d
<1>3. ASSUME NEW v \in Values, DiesInPutCompressed(k, v) PROVE Moves(k)
    <2>1. ~ Hides(s)
        BY <1>1 DEF Hides
    <2>2. DiesWriting(<<>> \o (IF Same(s, v) THEN <<>> ELSE <<Value(s, v)>>))
        BY <1>3, <2>1 DEF DiesInPutCompressed, DiesInPutEx2
    <2>3. ~ Same(s, v)
        BY <2>2 DEF DiesWriting
    <2>4. Value(s, v) \in Record /\ Value(s, v).part = "whole" /\ Value(s, v).slot = s
        BY <1>1, RecordTypes DEF Value
    <2>5. <<>> \o <<Value(s, v)>> = <<Value(s, v)>>
        OBVIOUS
    <2>6. DiesWriting(<<Value(s, v)>>)
        BY <2>2, <2>3, <2>5
    <2> QED
        BY <1>2, <2>4, <2>6
<1>4. ASSUME DiesInDelete(k) PROVE Moves(k)
    <2>1. Tombstone(s) \in Record /\ Tombstone(s).part = "whole" /\ Tombstone(s).slot = s
        BY <1>1, RecordTypes DEF Tombstone
    <2> QED
        BY <1>1, <1>2, <1>4, <2>1 DEF DiesInDelete
<1> QED
    BY <1>3, <1>4 DEF DiesInPut, Own

\* Or in an operation on another key, or without writing.
LEMMA OtherDies ==
    ASSUME StoreInv, NEW k, Own(k), NEW j \in Keys,
           \/ Stop
           \/ j # k /\ (DiesInDelete(j) \/ \E v \in Values : DiesInPut(j, v) \/ DiesInPutCompressed(j, v))
    PROVE  Moves(k)
<1>. DEFINE s == Comp(k)
<1>1. k \in Keys /\ main \in Seq(Record) /\ s \in Slot /\ s[1] = k
    BY OwnIs
<1>2. CASE Stop
    <2>1. Rebuilt(main')[s].val = Rebuilt(main)[s].val /\ End(main', s) = End(main, s) /\ Ended /\ mode # "down"
        BY <1>2 DEF Stop
    <2> QED
        BY <1>1, <2>1, EndsMove
<1>3. CASE j # k /\ (DiesInDelete(j) \/ \E v \in Values : DiesInPut(j, v) \/ DiesInPutCompressed(j, v))
    <2>1. Extended(main, main', j) /\ Ended /\ mode = "rw"
        BY <1>3, DiesOK
    <2>2. Rebuilt(main')[s] = Rebuilt(main)[s] /\ main' \in Seq(Record)
        BY <1>1, <1>3, <2>1 DEF Extended
    <2>3. End(main', s) = End(main, s)
        BY <1>1, <2>1, <2>2, EndSame DEF Extended
    <2> QED
        BY <1>1, <2>1, <2>2, <2>3, EndsMove
<1> QED
    BY <1>2, <1>3

\* The cache is filled under another slot, or Compact begins or hangs.
LEMMA NoneMoves ==
    ASSUME StoreInv, NEW k, Own(k),
           \/ \E j \in Keys, v \in Values : PutCached(j, v)
           \/ CompactStart
           \/ \E x \in Slot : CompactHangs(x)
    PROVE  Moves(k)
<1>. DEFINE s == Comp(k)
<1>1. k \in Keys /\ s \in Slot /\ \A j \in Keys : Plain(j) # s
    BY OwnIs, SlotsAre
<1>2. UNCHANGED <<main, table, mode>> /\ mode # "down"
    BY DEF PutCached, CompactStart, CompactHangs, Idle, StoreInv, ModeOK, Running
<1>3. cache'[s] = cache[s]
    BY <1>1 DEF PutCached, Cached, CompactStart, CompactHangs, StoreInv, TypeOK
<1>4. table[s] # NoEntry => File(s)' = File(s)
    BY <1>1 DEF PutCached, CompactStart, CompactHangs, File, Unmoved, Idle
<1>5. EntryWhole(s)' = EntryWhole(s)
    BY <1>2, <1>4 DEF EntryWhole
<1> QED
    BY <1>2, <1>3, <1>5, Stays

\* A plain record behind a log is never taken for a compressed one of it.
LEMMA PlainReads ==
    \A log \in Seq(Record), s \in Slot, p \in Record :
        s[2] = "comp" /\ p.slot[2] = "plain"
            => \A e \in Entry : ReadBack(Append(log, p), s, e) = ReadBack(log, s, e)
<1>1. ASSUME NEW log \in Seq(Record), NEW s \in Slot, NEW p \in Record, s[2] = "comp", p.slot[2] = "plain"
      PROVE  \A e \in Entry : ReadBack(Append(log, p), s, e) = ReadBack(log, s, e)
    <2>1. /\ Append(log, p) \in Seq(Record) /\ DOMAIN log = 1 .. Len(log) /\ DOMAIN Append(log, p) = 1 .. Len(log) + 1
          /\ \A i \in DOMAIN log : i \in DOMAIN Append(log, p) /\ Append(log, p)[i] = log[i]
          /\ Append(log, p)[Len(log) + 1] = p
        BY <1>1, Appended
    <2>2. ASSUME NEW e \in Entry PROVE ReadBack(Append(log, p), s, e) = ReadBack(log, s, e)
        <3>. DEFINE a == Append(log, p)
        <3>1. /\ DOMAIN log = 1 .. Len(log) /\ DOMAIN a = 1 .. Len(log) + 1
              /\ \A i \in DOMAIN log : i \in DOMAIN a /\ a[i] = log[i]
              /\ a[Len(log) + 1] = p
            BY <2>1
        <3>. HIDE DEF a
        <3>2. Len(log) \in Nat
            BY <1>1
        <3>3. e.off \in DOMAIN a => e.off \in DOMAIN log \/ a[e.off] = p
            BY <3>1, <3>2
        <3>4. ReadBack(a, s, e) = ReadBack(log, s, e)
            BY <1>1, <3>1, <3>3 DEF ReadBack
        <3> QED
            BY <3>4 DEF a
    <2> QED
        BY <2>2
<1> QED
    BY <1>1

\* Compact copies a value, which stays one that can be read, or one that cannot; if the
\* copy is not all in the file, it cannot.
LEMMA CopyMoves ==
    ASSUME StoreInv, FaultsOK, NEW k, Own(k), NEW x \in Slot, CompactCopy(x)
    PROVE  Moves(k)
<1>. DEFINE s == Comp(k)
            r == Copy(x)
<1>1. s \in Slot /\ s[2] = "comp" /\ table \in [Slot -> Entry] /\ tmp \in Seq(Record)
      /\ (table[s] # NoEntry => table[s].val # None)
    BY OwnIs DEF StoreInv, TypeOK
<1>2. UNCHANGED <<main, cache, mode, phase>> /\ phase = "copy" /\ x \in todo /\ todo' = todo \ {x} /\ mode # "down"
    BY DEF CompactCopy, StoreInv, ModeOK, Running
<1>3. table[x] # NoEntry /\ Stored(x) /\ table[x].val \in Values
    BY <1>1, <1>2 DEF StoreInv, ModeOK, SlotsOK, Entry
<1>4. r \in Record /\ r.slot = x /\ r.val = table[x].val /\ r.val # None
      /\ (r.part = "whole" <=> ReadBack(main, x, table[x]) # None)
    BY <1>3, ValuesAssumption DEF Copy, Record, Readable
<1>5. table' = [table EXCEPT ![x] = [val |-> table[x].val, off |-> Len(tmp) + 1]]
    BY DEF CompactCopy
<1>6. \/ tmp' = Append(tmp, r)
      \/ Fails /\ tmp' = tmp
      \/ Fails /\ \E part \in Tears : tmp' = Append(tmp, PartOf(r, part))
    <2>1. MayFail("flush") => Fails
        BY DEF MayFail, Fails
    <2> QED
        BY <2>1 DEF CompactCopy, Leftovers
<1>7. \A part \in Tears : /\ PartOf(r, part) \in Record /\ PartOf(r, part).slot = x
                          /\ PartOf(r, part).part # "whole"
    BY <1>4, ParametersAssumption DEF PartOf, Record
<1>. HIDE DEF r
<1>8. CASE x = s
    <2>1. table'[s].val = table[s].val /\ table'[s].off = Len(tmp) + 1 /\ table'[s].val # None /\ table'[s] # NoEntry
        BY <1>1, <1>3, <1>5, <1>8 DEF NoEntry
    <2>2. File(s) = main /\ File(s)' = tmp'
        BY <1>2, <1>8 DEF File, Unmoved
    <2>3. EntryWhole(s) <=> r.part = "whole"
        BY <1>3, <1>4, <1>8, <2>2 DEF EntryWhole
    <2>4. EntryWhole(s)' <=> ReadBack(tmp', s, table'[s]) # None
        BY <2>1, <2>2 DEF EntryWhole
    <2>5. ASSUME NEW p \in Record, p.slot = x, tmp' = Append(tmp, p)
          PROVE  ReadBack(tmp', s, table'[s]) # None => p.part = "whole"
        <3>1. tmp'[Len(tmp) + 1] = p
            BY <1>1, <2>5, Appended
        <3> QED
            BY <2>1, <3>1 DEF ReadBack
    <2>6. CASE tmp' = Append(tmp, r)
        <3>1. tmp'[Len(tmp) + 1] = r /\ Len(tmp) + 1 \in DOMAIN tmp'
            BY <1>1, <1>4, <2>6, Appended
        <3>2. r.part = "whole" => ReadBack(tmp', s, table'[s]) # None
            BY <1>4, <1>8, <2>1, <3>1 DEF ReadBack
        <3>3. EntryWhole(s)' = EntryWhole(s)
            <4>1. EntryWhole(s)' <=> EntryWhole(s)
                BY <1>4, <2>3, <2>4, <2>5, <2>6, <3>2
            <4> QED
                BY <4>1 DEF EntryWhole
        <3> QED
            BY <1>2, <2>1, <3>3, Stays
    <2>7. ASSUME Fails, tmp' = tmp PROVE Moves(k)
        <3>1. ReadBack(tmp', s, table'[s]) = None
            BY <1>1, <2>1, <2>7 DEF ReadBack
        <3> QED
            BY <1>2, <2>1, <2>4, <2>7, <3>1, Spoils
    <2>8. ASSUME Fails, NEW part \in Tears, tmp' = Append(tmp, PartOf(r, part)) PROVE Moves(k)
        <3>1. ReadBack(tmp', s, table'[s]) = None
            BY <1>7, <2>5, <2>8
        <3> QED
            BY <1>2, <2>1, <2>4, <2>8, <3>1, Spoils
    <2> QED
        BY <1>6, <2>6, <2>7, <2>8
<1>9. CASE x # s
    <2>1. table'[s] = table[s] /\ table[s] \in Entry
        BY <1>1, <1>5, <1>9
    <2>2. x[2] = "plain"
        BY <1>3, <1>9, OwnIs
    <2>3. \A e \in Entry : ReadBack(tmp', s, e) = ReadBack(tmp, s, e)
        <3>1. ASSUME NEW p \in Record, p.slot = x, tmp' = Append(tmp, p)
              PROVE  \A e \in Entry : ReadBack(tmp', s, e) = ReadBack(tmp, s, e)
            <4>1. tmp \in Seq(Record) /\ s \in Slot /\ s[2] = "comp" /\ p.slot[2] = "plain"
                BY <1>1, <2>2, <3>1
            <4>. HIDE DEF s
            <4>2. \A e \in Entry : ReadBack(Append(tmp, p), s, e) = ReadBack(tmp, s, e)
                BY <4>1, PlainReads
            <4> QED
                BY <3>1, <4>2
        <3> QED
            BY <1>4, <1>6, <1>7, <3>1
    <2>4. Unmoved(s)' <=> Unmoved(s)
        BY <1>2, <1>9 DEF Unmoved
    <2>5. ReadBack(File(s)', s, table[s]) = ReadBack(File(s), s, table[s])
        BY <1>2, <2>1, <2>3, <2>4 DEF File
    <2>6. EntryWhole(s)' = EntryWhole(s)
        BY <2>1, <2>5 DEF EntryWhole
    <2> QED
        BY <1>2, <2>1, <2>6, Stays
<1> QED
    BY <1>8, <1>9

\* What there is in the new file is copies that the table points at.
CopiesOK ==
    phase = "copy" => \A i \in DOMAIN tmp :
        tmp[i].slot \notin todo /\ table[tmp[i].slot] = [val |-> tmp[i].val, off |-> i]

LEMMA CopiesStep ==
    ASSUME StoreInv, CopiesOK, [Next]_vars
    PROVE  CopiesOK'
<1>1. CASE Open \/ CompactCopyFails \/ CompactReplace
    BY <1>1 DEF Open, CompactCopyFails, CompactReplace, CopiesOK, StoreInv, ModeOK, Running
<1>2. CASE CompactStart
    BY <1>2 DEF CompactStart, CopiesOK
<1>3. CASE \/ \E k \in Keys, v \in Values : Put(k, v) \/ PutCompressed(k, v) \/ PutCached(k, v)
           \/ \E k \in Keys : Delete(k)
    BY <1>3 DEF Put, PutCompressed, PutEx2, PutCached, Delete, Idle, CopiesOK
<1>4. CASE \/ Stop
           \/ \E k \in Keys : \/ DiesInDelete(k)
                              \/ \E v \in Values : DiesInPut(k, v) \/ DiesInPutCompressed(k, v)
    <2>1. Ended
        BY <1>4, DiesOK DEF Stop
    <2> QED
        BY <2>1 DEF Ended, CopiesOK
<1>5. CASE UNCHANGED vars \/ \E s \in Slot : CompactHangs(s)
    BY <1>5 DEF vars, CompactHangs, CopiesOK
<1>6. ASSUME NEW s \in Slot, CompactCopy(s) PROVE CopiesOK'
    <2>1. /\ phase = "copy" /\ phase' = "copy" /\ s \in todo /\ todo' = todo \ {s}
          /\ table' = [table EXCEPT ![s] = [val |-> table[s].val, off |-> Len(tmp) + 1]]
        BY <1>6 DEF CompactCopy
    <2>2. tmp \in Seq(Record) /\ table \in [Slot -> Entry] /\ table[s].val \in Values \cup {None}
        BY DEF StoreInv, TypeOK, Entry
    <2>3. \A i \in DOMAIN tmp : /\ tmp[i].slot \notin todo' /\ tmp[i].slot # s
                                /\ table'[tmp[i].slot] = [val |-> tmp[i].val, off |-> i]
        <3>1. ASSUME NEW i \in DOMAIN tmp
              PROVE  tmp[i].slot \in Slot /\ tmp[i].slot \notin todo /\ table[tmp[i].slot] = [val |-> tmp[i].val, off |-> i]
            <4>1. tmp[i] \in Record
                BY <2>2
            <4>2. tmp[i].slot \in Slot
                BY <4>1 DEF Record
            <4>3. tmp[i].slot \notin todo /\ table[tmp[i].slot] = [val |-> tmp[i].val, off |-> i]
                BY <2>1 DEF CopiesOK
            <4> QED
                BY <4>2, <4>3
        <3> QED
            BY <2>1, <2>2, <3>1
    <2>4. CASE tmp' = tmp
        BY <2>3, <2>4 DEF CopiesOK
    <2>5. ASSUME NEW p \in Record, p.slot = s, p.val = table[s].val, tmp' = Append(tmp, p) PROVE CopiesOK'
        <3>1. /\ Len(tmp) \in Nat /\ DOMAIN tmp = 1 .. Len(tmp) /\ DOMAIN tmp' = 1 .. Len(tmp) + 1
              /\ \A i \in 1 .. Len(tmp) : tmp'[i] = tmp[i]
              /\ tmp'[Len(tmp) + 1] = p
            BY <2>2, <2>5, Appended
        <3>2. s \notin todo' /\ table'[s] = [val |-> p.val, off |-> Len(tmp) + 1]
            BY <2>1, <2>2, <2>5
        <3>3. ASSUME NEW i \in DOMAIN tmp'
              PROVE  tmp'[i].slot \notin todo' /\ table'[tmp'[i].slot] = [val |-> tmp'[i].val, off |-> i]
            <4>1. CASE i \in DOMAIN tmp
                BY <2>3, <3>1, <4>1
            <4>2. CASE i = Len(tmp) + 1
                BY <2>5, <3>1, <3>2, <4>2
            <4> QED
                BY <3>1, <4>1, <4>2
        <3> QED
            BY <3>3 DEF CopiesOK
    <2>6. Copy(s) \in Record /\ Copy(s).slot = s /\ Copy(s).val = table[s].val
        BY <2>2 DEF Copy, Record
    <2>7. \A part \in Tears : /\ PartOf(Copy(s), part) \in Record /\ PartOf(Copy(s), part).slot = s
                              /\ PartOf(Copy(s), part).val = table[s].val
        BY <2>6, ParametersAssumption DEF PartOf, Record
    <2>8. \/ tmp' = tmp \/ tmp' = Append(tmp, Copy(s))
          \/ \E part \in Tears : tmp' = Append(tmp, PartOf(Copy(s), part))
        BY <1>6 DEF CompactCopy, Leftovers
    <2> QED
        BY <2>4, <2>5, <2>6, <2>7, <2>8
<1> QED
    BY <1>1, <1>2, <1>3, <1>4, <1>5, <1>6 DEF Next

\* The new file is put in place: it holds what the table says, or, if a flush failed, what
\* is left of it.
LEMMA ReplaceMoves ==
    ASSUME StoreInv, FaultsOK, CopiesOK, NEW k, Own(k), Alone, Alone', CompactReplace
    PROVE  Moves(k)
<1>. DEFINE s == Comp(k)
            t == table[s].val
            f == Rebuilt(main)[s].val
            n == End(main, s)
            c == cache[s]
            f2 == Rebuilt(tmp)[s].val
            n2 == End(tmp, s)
            d == CoreDb(k)
<1>1. /\ UNCHANGED <<table, cache, todo>> /\ phase = "copy" /\ todo = {} /\ mode' = "rw" /\ phase' = "idle"
      /\ mode # "down"
    BY DEF CompactReplace, StoreInv, ModeOK, Running
<1>2. main' = tmp
    BY DEF CompactReplace, Alone
<1>3. s \in Slot /\ s[2] = "comp" /\ tmp \in Seq(Record)
    BY OwnIs DEF StoreInv, TypeOK
<1>4. File(s) = tmp /\ File(s)' = tmp
    BY <1>1, <1>2 DEF File, Unmoved
<1>5. EntryWhole(s)' = EntryWhole(s)
    BY <1>1, <1>4 DEF EntryWhole
<1>6. PICK w, x : d = Db(t, w, c, f, n, x) /\ w = EntryWhole(s)
    BY <1>1, CoreDbIs, Zenon
<1>7. PICK y : y = Cut(tmp, s)
    OBVIOUS
<1>8. CoreDb(k)' = Db(t, w, c, f2, n2, y)
    <2>1. mode' # "down" /\ t = table'[s].val /\ w = EntryWhole(s)' /\ c = cache'[s]
          /\ f2 = Rebuilt(main')[s].val /\ n2 = End(main', s) /\ y = Cut(main', s)
        BY <1>1, <1>2, <1>5, <1>6, <1>7, Zenon
    <2> QED
        BY <2>1, CoreDbIs, Zenon
<1>9. Rebuilt(tmp)[s] # NoEntry => Rebuilt(tmp)[s] = table[s]
    <2>1. ASSUME Rebuilt(tmp)[s] # NoEntry PROVE Rebuilt(tmp)[s] = table[s]
        <3>1. Points(tmp, s, Rebuilt(tmp)[s]) /\ Rebuilt(tmp) \in [Slot -> Entry]
            BY <1>3, <2>1, RebuiltPoints, RebuildTypes
        <3>. DEFINE e == Rebuilt(tmp)[s]
        <3>2. e \in Entry /\ e.off \in DOMAIN tmp /\ tmp[e.off].slot = s /\ tmp[e.off].val = e.val
            BY <1>3, <3>1 DEF Points
        <3>. HIDE DEF e
        <3>3. table[s] = [val |-> e.val, off |-> e.off]
            BY <1>1, <3>2 DEF CopiesOK
        <3>4. e = [val |-> e.val, off |-> e.off]
            BY <3>2 DEF Entry
        <3> QED
            BY <3>3, <3>4 DEF e
    <2> QED
        BY <2>1
<1>10. /\ n2 \in {"whole", "torn", "garbled"}
       /\ Rebuilt(tmp)[s] = NoEntry => f2 = None /\ n2 = "whole"
    BY DEF End, NoEntry
<1>11. Rebuilt(tmp)[s] = table[s] => (w <=> n2 = "whole")
    BY <1>3, <1>4, <1>6, EndReads DEF EntryWhole
<1>12. w \in BOOLEAN /\ y \in BOOLEAN
    BY <1>6, <1>7, CoreDbIs
<1>13. PICK b \in BOOLEAN : b = Fails
    BY FailsIs
<1>14. CASE "flush" \notin failed
    <2>1. AllAccepted(tmp) /\ NoneSwallows(tmp) /\ Rebuilt(tmp)[s] = table[s]
        BY <1>1, <1>3, <1>14 DEF StoreInv, CopyOK, Alone, Sound
    <2>2. n2 # "torn" /\ ~ Blocked(tmp)
        BY <1>3, <2>1, TornSwallows DEF Blocked
    <2>3. f2 = t /\ n2 = Worth(w) /\ y = Uncut
        BY <1>7, <1>10, <1>11, <1>12, <2>1, <2>2 DEF Worth, Cut, Uncut
    <2>4. d = Db(t, w, c, f, n, x)
        BY <1>6
    <2>. HIDE DEF s, t, f, n, c, f2, n2, d
    <2>5. Core!DatabaseStep(d, Db(t, w, c, t, Worth(w), Uncut), b)
        BY <2>4, OtherSteps
    <2> QED
        BY <1>8, <1>13, <2>3, <2>5, Zenon DEF Moves, d
<1>15. CASE "flush" \in failed
    <2>1. b
        BY <1>13, <1>15 DEF FaultsOK
    <2>2. \/ f2 = None /\ n2 = "whole"
          \/ f2 = t /\ n2 = Worth(w)
          \/ f2 = t /\ w = FALSE /\ n2 = "torn" /\ y = Uncut
        <3>1. CASE Rebuilt(tmp)[s] = NoEntry
            BY <1>10, <3>1
        <3>2. CASE Rebuilt(tmp)[s] = table[s] /\ n2 # "torn"
            <4>1. n2 = Worth(w)
                BY <1>10, <1>11, <1>12, <3>2 DEF Worth
            <4> QED
                BY <3>2, <4>1
        <3>3. CASE Rebuilt(tmp)[s] = table[s] /\ n2 = "torn"
            <4>1. ~ Cut(tmp, s)
                BY <3>3 DEF Cut
            <4>2. y = Uncut
                BY <1>7, <1>12, <4>1 DEF Uncut
            <4>3. w = FALSE
                BY <1>11, <1>12, <3>3
            <4> QED
                BY <3>3, <4>2, <4>3
        <3> QED
            BY <1>9, <3>1, <3>2, <3>3
    <2>3. d = Db(t, w, c, f, n, x)
        BY <1>6
    <2>4. PICK e : e = Db(t, w, c, f2, n2, y)
        OBVIOUS
    <2>5. y \in BOOLEAN
        BY <1>12
    <2>. HIDE DEF s, t, f, n, c, f2, n2, d
    <2>6. e \in Core!CopyLost(d)
        BY <2>2, <2>3, <2>4, <2>5, CopyLostStep
    <2>7. Core!DatabaseStep(d, e, b)
        BY <2>1, <2>6, Zenon DEF Core!DatabaseStep
    <2> QED
        BY <1>8, <1>13, <2>4, <2>7, Zenon DEF Moves, d
<1> QED
    BY <1>14, <1>15

-----------------------------------------------------------------------------
(* Every step *)

LEMMA CoreStep ==
    ASSUME StoreInv, FaultsOK, CopiesOK, NEW k, Own(k), Alone, Alone', [Next]_vars
    PROVE  Moves(k)
<1>1. CASE Open
    BY <1>1, OpenMoves
<1>2. CASE Stop
    BY <1>2, OwnIs, OtherDies
<1>3. ASSUME NEW j \in Keys, NEW v \in Values, Put(j, v) PROVE Moves(k)
    <2>1. Plain(j) \in Slot /\ Stored(Plain(j)) /\ Plain(j) # Comp(k)
        BY <1>3, SlotsAre, PutSlots, OwnIs DEF Put
    <2> QED
        BY <1>3, <2>1, OtherPut DEF Put
<1>4. ASSUME NEW j \in Keys, NEW v \in Values, PutCompressed(j, v) PROVE Moves(k)
    <2>1. j = k
        BY <1>4 DEF PutCompressed, Own
    <2> QED
        BY <1>4, <2>1, OwnPut DEF PutCompressed
<1>5. ASSUME NEW j \in Keys, Delete(j) PROVE Moves(k)
    BY <1>5, OwnDelete, OtherDelete
<1>6. ASSUME NEW j \in Keys,
             DiesInDelete(j) \/ \E v \in Values : DiesInPut(j, v) \/ DiesInPutCompressed(j, v)
      PROVE  Moves(k)
    BY <1>6, OwnDies, OtherDies
<1>7. CASE CompactStart \/ CompactReplace
    BY <1>7, NoneMoves, ReplaceMoves
<1>8. ASSUME NEW x \in Slot, CompactCopy(x) \/ CompactHangs(x) PROVE Moves(k)
    BY <1>8, CopyMoves, NoneMoves
<1>9. CASE CompactCopyFails
    BY <1>9 DEF CompactCopyFails, Alone
<1>10. ASSUME NEW j \in Keys, NEW v \in Values, PutCached(j, v) PROVE Moves(k)
    BY <1>10, NoneMoves
<1>11. CASE UNCHANGED vars
    <2>1. CoreDb(k)' = CoreDb(k)
        BY <1>11 DEF vars, CoreDb, EntryWhole, File, Unmoved
    <2> QED
        BY <2>1 DEF Moves
<1> QED
    BY <1>1, <1>2, <1>3, <1>4, <1>5, <1>6, <1>7, <1>8, <1>9, <1>10, <1>11 DEF Next

\* A store that begins holds nothing under the key.
LEMMA CoreInit ==
    ASSUME Init, NEW k, Own(k)
    PROVE  CoreDb(k) = Core!EmptyDb
<1>1. Comp(k) \in Slot
    BY StoreInit, OwnIs
<1>2. Rebuilt(main)[Comp(k)] = NoEntry
    BY <1>1, RebuiltNone DEF Init, EmptyTable
<1>3. End(main, Comp(k)) = "whole" /\ NoEntry.val = None /\ cache[Comp(k)] = None
    BY <1>1, <1>2 DEF End, NoEntry, Init, EmptyCache
<1>4. CoreDb(k) = Db(None, IsWhole("whole"), None, None, "whole", Uncut)
    BY <1>2, <1>3, CoreDbIs DEF Init
<1> QED
    BY <1>4, Zenon DEF Db, Core!EmptyDb, IsWhole, Uncut

\* Whatever the store does, also with other keys, in a compaction or while the process
\* dies, and whatever writes and flushes fail, noticed or not, what is stored under the
\* one key that is always compressed, as the agent core stores the core module
\* (agentcore.c:3182), changes by the steps of CoreDatabase only, and begins as its
\* EmptyDb.  CoreModule builds its handlers from these steps.  (The store has a file, and
\* no operation fails but writes to it and flushes of it and of the compacted one.)
THEOREM CoreStored ==
    ASSUME NEW k, Own(k)
    PROVE  Spec /\ []Alone =>
               CoreDb(k) = Core!EmptyDb /\ [][Core!DatabaseStep(CoreDb(k), CoreDb(k)', Fails)]_(CoreDb(k))
<1>1. Init => CoreDb(k) = Core!EmptyDb
    BY CoreInit
<1>2. Init => FaultsOK /\ CopiesOK
    BY DEF Init, FaultsOK, CopiesOK
<1>3. StoreInv /\ FaultsOK /\ CopiesOK /\ [Next]_vars => FaultsOK' /\ CopiesOK'
    BY FaultsStep, CopiesStep
<1>4. StoreInv /\ FaultsOK /\ CopiesOK /\ Alone /\ Alone' /\ [Next]_vars =>
          [Core!DatabaseStep(CoreDb(k), CoreDb(k)', Fails)]_(CoreDb(k))
    BY CoreStep DEF Moves
<1> QED
    BY <1>1, <1>2, <1>3, <1>4, StoreInvAlways, PTL DEF Spec

=============================================================================
