----------------------- MODULE SimpleDataStoreProofs -----------------------
(***************************************************************************)
(* Theorems about SimpleDataStore: TypeOK, then StoreInv, which is         *)
(* inductive and relates the table to the file and both to what callers    *)
(* were told, and from it the properties of the store and the refinement   *)
(* of KVStore.  SimpleDataStoreFiles has what is true of every file.       *)
(***************************************************************************)
EXTENDS SimpleDataStoreFiles

-----------------------------------------------------------------------------
(* What the operators of the actions return *)

\* What goes to the cache is a value, with or without its quotes.
LEMMA CachedType ==
    ASSUME TypeOK, NEW s \in Slot, NEW v \in Values
    PROVE  Cached(s, v) \in [Slot -> Values \cup {None}]
BY ValuesAssumption DEF TypeOK, Cached

\* What is left of a record is a record.
LEMMA WriteType ==
    ASSUME NEW log \in Seq(Record), NEW r \in Record, NEW out
    PROVE  AfterWrite(log, r, out) \subseteq Seq(Record) /\ Leftovers(log, r) \subseteq Seq(Record)
<1>1. \A part \in Tears : PartOf(r, part) \in Record
    BY ParametersAssumption DEF PartOf, Record
<1>2. \A part \in Tears : Append(log, PartOf(r, part)) \in Seq(Record)
    BY <1>1
<1>3. Leftovers(log, r) \subseteq Seq(Record)
    BY <1>2 DEF Leftovers
<1> QED
    BY <1>3 DEF AfterWrite

\* A write fails at fwrite or at fflush, if it fails; on a read-only file always at
\* fwrite; and what failed is noted.
LEMMA OutcomesAre ==
    /\ WriteOutcomes \subseteq {"written", "write", "flush"}
    /\ mode # "rw" => WriteOutcomes = {"write"}
    /\ \A outs : NoteWrites(outs) =>
           /\ failed \subseteq failed' /\ failed' \subseteq failed \cup {"write", "flush"}
           /\ mode = "rw" => \A f \in {"write", "flush"} : f \in outs => f \in failed'
           /\ \A f : f \notin outs => (f \in failed' <=> f \in failed)
BY DEF WriteOutcomes, NoteWrites

\* The tombstone that hides a plain entry is a record.
LEMMA HiddenType ==
    ASSUME TypeOK, NEW s \in Slot, NEW out
    PROVE  /\ Hidden(s, out) \subseteq Seq(Record)
           /\ Uncovered(s) \in [Slot -> Entry]
<1>1. Plain(s[1]) \in Slot
    BY DEF Slot, Plain
<1> QED
    BY <1>1, WriteType, RecordTypes, EntryTypes DEF TypeOK, Hidden, Uncovered

\* RebuildKeyTable keeps the types.
LEMMA RebuildKeyTableType ==
    ASSUME NEW log \in Seq(Record), NEW m \in {"rw", "ro"}, NEW d \in Nat, NEW c,
           RebuildKeyTable(log, m, d, c)
    PROVE  /\ main' \in Seq(Record)
           /\ table' \in [Slot -> Entry]
           /\ dirty' \in 0 .. MinDirty
           /\ mode' \in {"rw", "ro"}
<1>1. <<>> \in Seq(Record)
    OBVIOUS
<1>2. d + Cardinality(Superseded(log)) \in Nat
    BY RebuildTypes
<1>3. dirty' \in 0 .. MinDirty
    BY <1>2, AtMostType DEF RebuildKeyTable
<1>4. table' \in [Slot -> Entry] /\ mode' \in {"rw", "ro"}
    BY RebuildTypes DEF RebuildKeyTable
<1>5. main' \in Seq(Record)
    BY <1>1, RepairsSame DEF RebuildKeyTable
<1> QED
    BY <1>3, <1>4, <1>5

-----------------------------------------------------------------------------
(* TypeOK *)

\* A put keeps the types, whichever way it ends.
LEMMA PutType ==
    ASSUME TypeOK, NEW s \in Slot, NEW v \in Values, PutEx2(s, v)
    PROVE  TypeOK'
<1> USE DEF TypeOK
<1>1. s[1] \in Keys
    BY DEF Slot
<1>2. told' \in [Keys -> Values \cup {None}]
    BY <1>1 DEF PutEx2, Tell
<1>3. \A outs : NoteWrites(outs) => failed' \subseteq {"write", "flush", "copy", "rename", "convert"}
    BY OutcomesAre
<1>4. CASE mode = "mem" /\ cache' = Cached(s, v) /\ UNCHANGED <<main, table, mode, dirty, failed>>
    BY <1>2, <1>4, CachedType DEF PutEx2
<1>5. CASE PutSame(s, v)
    <2>1. main' \in Seq(Record) /\ table' \in [Slot -> Entry]
        BY <1>5, HiddenType DEF PutSame
    <2>2. failed' \subseteq {"write", "flush", "copy", "rename", "convert"}
        BY <1>5, <1>3 DEF PutSame
    <2> QED
        BY <1>2, <1>5, <2>1, <2>2 DEF PutEx2, PutSame
<1>6. CASE PutRecord(s, v)
    <2>0. PICK hid, out : \E log \in Hidden(s, hid) :
              /\ main' \in AfterWrite(log, Value(s, v), out)
              /\ table' = [Uncovered(s) EXCEPT ![s] = [val |-> v, off |-> Len(log) + 1]]
              /\ NoteWrites({hid, out})
        BY <1>6 DEF PutRecord
    <2>1. PICK log \in Hidden(s, hid) :
              /\ main' \in AfterWrite(log, Value(s, v), out)
              /\ table' = [Uncovered(s) EXCEPT ![s] = [val |-> v, off |-> Len(log) + 1]]
              /\ NoteWrites({hid, out})
        BY <2>0
    <2>2. main' \in Seq(Record) /\ log \in Seq(Record)
        BY <2>1, HiddenType, WriteType, RecordTypes
    <2>3. failed' \subseteq {"write", "flush", "copy", "rename", "convert"}
        BY <2>1, <1>3
    <2>4. table' \in [Slot -> Entry]
        <3>1. Len(log) + 1 \in Nat
            BY <2>2
        <3>2. [val |-> v, off |-> Len(log) + 1] \in Entry
            BY <3>1 DEF Entry
        <3> QED
            BY <2>1, <3>2, HiddenType
    <2>5. dirty' \in 0 .. MinDirty
        BY <1>6, AtMostType, ParametersAssumption DEF PutRecord
    <2> QED
        BY <1>2, <1>6, <2>2, <2>3, <2>4, <2>5 DEF PutEx2, PutRecord
<1>7. CASE mode # "mem" /\ PutFailed(s, v)
    <2> DEFINE d == IF table[s] # NoEntry THEN AtMost(dirty + 1, MinDirty) ELSE dirty
    <2>0. PICK hid : /\ \E log \in Hidden(s, hid) : RebuildKeyTable(log, "ro", d, MinDirty)
                     /\ NoteWrites({hid, "write"})
        BY <1>7 DEF PutFailed
    <2>1. PICK log \in Hidden(s, hid) : RebuildKeyTable(log, "ro", d, MinDirty)
        BY <2>0
    <2>2. d \in Nat
        <3>1. dirty \in Nat /\ dirty + 1 \in Nat
            BY ParametersAssumption
        <3>2. AtMost(dirty + 1, MinDirty) \in Nat
            BY <3>1, ParametersAssumption DEF AtMost
        <3> QED
            BY <3>1, <3>2
    <2>3. log \in Seq(Record)
        BY <2>1, HiddenType
    <2> HIDE DEF d
    <2>4. /\ main' \in Seq(Record) /\ table' \in [Slot -> Entry]
          /\ dirty' \in 0 .. MinDirty /\ mode' \in {"rw", "ro"}
        BY <2>1, <2>2, <2>3, RebuildKeyTableType
    <2>5. cache' \in [Slot -> Values \cup {None}] /\ failed' \subseteq {"write", "flush", "copy", "rename", "convert"}
        BY <1>7, <2>0, <1>3, CachedType DEF PutFailed
    <2> QED
        BY <1>2, <2>4, <2>5 DEF PutEx2
<1> QED
    BY <1>4, <1>5, <1>6, <1>7 DEF PutEx2

\* A deletion keeps the types.
LEMMA DeleteType ==
    ASSUME TypeOK, NEW k \in Keys, Delete(k)
    PROVE  TypeOK'
<1> USE DEF TypeOK
<1>1. Deleted(k) \in Slot
    BY DEF Deleted, Plain, Comp, Slot
<1>2. told' \in [Keys -> Values \cup {None}]
    BY DEF Delete, Tell
<1>3. main' \in Seq(Record)
    <2>1. Tombstone(Deleted(k)) \in Record
        BY <1>1, RecordTypes
    <2>2. main' = main \/ \E out : main' \in AfterWrite(main, Tombstone(Deleted(k)), out)
        BY DEF Delete
    <2> QED
        BY <2>1, <2>2, WriteType
<1>4. table' \in [Slot -> Entry]
    BY <1>1, EntryTypes DEF Delete
<1>5. failed' \subseteq {"write", "flush", "copy", "rename", "convert"}
    BY OutcomesAre DEF Delete
<1> QED
    BY <1>2, <1>3, <1>4, <1>5 DEF Delete

\* The steps of Compact keep the types.
LEMMA CompactType ==
    ASSUME TypeOK,
           \/ CompactStart \/ CompactCopyFails \/ CompactReplace
           \/ \E s \in Slot : CompactCopy(s) \/ CompactHangs(s)
    PROVE  TypeOK'
<1> USE DEF TypeOK
<1>0. <<>> \in Seq(Record)
    OBVIOUS
<1>1. CASE CompactStart
    BY <1>0, <1>1 DEF CompactStart
<1>2. CASE CompactCopyFails
    BY <1>0, <1>2 DEF CompactCopyFails
<1>3. CASE CompactReplace
    BY <1>0, <1>3 DEF CompactReplace
<1>4. ASSUME NEW s \in Slot, CompactCopy(s) PROVE TypeOK'
    <2>1. Copy(s) \in Record
        BY <1>4 DEF Copy, Record, Entry
    <2>2. tmp' \in Seq(Record)
        <3>1. tmp' = Append(tmp, Copy(s)) \/ tmp' \in Leftovers(tmp, Copy(s))
            BY <1>4 DEF CompactCopy
        <3>2. Leftovers(tmp, Copy(s)) \subseteq Seq(Record)
            BY <2>1, WriteType
        <3>3. Append(tmp, Copy(s)) \in Seq(Record)
            BY <2>1, AppendProperties
        <3> QED
            BY <3>1, <3>2, <3>3
    <2>3. table' \in [Slot -> Entry]
        <3>1. Len(tmp) + 1 \in Nat
            OBVIOUS
        <3> QED
            BY <1>4, <3>1 DEF CompactCopy, Entry
    <2>4. failed' \subseteq {"write", "flush", "copy", "rename", "convert"}
        BY <1>4 DEF CompactCopy
    <2> QED
        BY <1>4, <2>2, <2>3, <2>4 DEF CompactCopy
<1>5. ASSUME NEW s \in Slot, CompactHangs(s) PROVE TypeOK'
    BY <1>5 DEF CompactHangs
<1> QED
    BY <1>1, <1>2, <1>3, <1>4, <1>5

\* The end of the process leaves the file and nothing else.
LEMMA EndedType ==
    ASSUME TypeOK, Ended, main' \in Seq(Record)
    PROVE  TypeOK'
<1>1. <<>> \in Seq(Record)
    OBVIOUS
<1>2. 0 \in 0 .. MinDirty
    BY ParametersAssumption
<1> QED
    BY <1>1, <1>2, EntryTypes DEF TypeOK, Ended

\* A process that dies while writing leaves records and parts of records.
LEMMA DiesWritingType ==
    ASSUME TypeOK, NEW writes \in Seq(Record), DiesWriting(writes)
    PROVE  TypeOK'
<1>1. PICK n \in DOMAIN writes, part \in Tears \cup {"whole"} :
          main' = main \o SubSeq(writes, 1, n - 1) \o <<PartOf(writes[n], part)>>
    BY DEF DiesWriting
<1>2. n \in 1 .. Len(writes) /\ Len(writes) \in Nat
    OBVIOUS
<1>3. \A i \in 1 .. n - 1 : writes[i] \in Record
    BY <1>2
<1>4. SubSeq(writes, 1, n - 1) \in Seq(Record)
    BY <1>2, <1>3, SubSeqProperties
<1>5. part \in {"whole", "header", "value", "garbled"}
    BY ParametersAssumption
<1>6. PartOf(writes[n], part) \in Record
    <2>1. writes[n] \in Record
        BY <1>2
    <2> QED
        BY <1>5, <2>1 DEF Record, PartOf
<1>7. main \o SubSeq(writes, 1, n - 1) \in Seq(Record)
    BY <1>4, ConcatProperties DEF TypeOK
<1>8. main' \in Seq(Record)
    BY <1>1, <1>6, <1>7
<1> QED
    BY <1>8, EndedType DEF DiesWriting

\* The deaths inside puts and deletions keep the types.
LEMMA DiesType ==
    ASSUME TypeOK, NEW k \in Keys,
           DiesInDelete(k) \/ \E v \in Values : DiesInPut(k, v) \/ DiesInPutCompressed(k, v)
    PROVE  TypeOK'
<1>1. \A s \in Slot : <<Tombstone(Plain(s[1]))>> \in Seq(Record)
    BY RecordTypes DEF Slot, Plain
<1>2. ASSUME NEW s \in Slot, NEW v \in Values, DiesInPutEx2(s, v) PROVE TypeOK'
    <2>1. <<Value(s, v)>> \in Seq(Record) /\ <<>> \in Seq(Record)
        BY RecordTypes
    <2> DEFINE a == IF Hides(s) THEN <<Tombstone(Plain(s[1]))>> ELSE <<>>
               b == IF Same(s, v) THEN <<>> ELSE <<Value(s, v)>>
    <2>2. a \in Seq(Record) /\ b \in Seq(Record)
        BY <1>1, <2>1
    <2>3. DiesWriting(a \o b)
        BY <1>2 DEF DiesInPutEx2
    <2> HIDE DEF a, b
    <2>4. a \o b \in Seq(Record)
        BY <2>2, ConcatProperties
    <2> QED
        BY <2>3, <2>4, DiesWritingType
<1>3. ASSUME DiesInDelete(k) PROVE TypeOK'
    <2>1. Deleted(k) \in Slot
        BY DEF Deleted, Plain, Comp, Slot
    <2>2. <<Tombstone(Deleted(k))>> \in Seq(Record)
        BY <2>1, RecordTypes
    <2> QED
        BY <1>3, <2>2, DiesWritingType DEF DiesInDelete
<1>4. Plain(k) \in Slot /\ Comp(k) \in Slot
    BY DEF Plain, Comp, Slot
<1> QED
    BY <1>2, <1>3, <1>4 DEF DiesInPut, DiesInPutCompressed

\* Every step keeps the types.
LEMMA TypeStep ==
    ASSUME TypeOK, [Next]_vars
    PROVE  TypeOK'
<1>0. \A k \in Keys : Plain(k) \in Slot /\ Comp(k) \in Slot
    BY DEF Plain, Comp, Slot
<1>1. CASE Open
    <2>1. /\ main' \in Seq(Record) /\ table' \in [Slot -> Entry]
          /\ dirty' \in 0 .. MinDirty /\ mode' \in {"rw", "ro", "mem"}
        <3>1. CASE RebuildKeyTable(main, "rw", 0, 0)
            BY <3>1, RebuildKeyTableType DEF TypeOK
        <3>2. CASE mode' = "mem" /\ UNCHANGED <<main, table, dirty, failed>>
            BY <3>2 DEF TypeOK
        <3> QED
            BY <1>1, <3>1, <3>2 DEF Open
    <2>2. failed' \subseteq {"write", "flush", "copy", "rename", "convert"}
        BY <1>1 DEF Open, NoteConversion, TypeOK
    <2>3. told' \in [Keys -> Values \cup {None}]
        BY <1>1, <2>1, FileGetType DEF Open
    <2> QED
        BY <1>1, <2>1, <2>2, <2>3 DEF Open, TypeOK
<1>2. CASE Stop
    BY <1>2, EndedType DEF Stop, TypeOK
<1>3. ASSUME NEW k \in Keys, NEW v \in Values, Put(k, v) PROVE TypeOK'
    BY <1>0, <1>3, PutType DEF Put
<1>4. ASSUME NEW k \in Keys, NEW v \in Values, PutCompressed(k, v) PROVE TypeOK'
    BY <1>0, <1>4, PutType DEF PutCompressed
<1>5. ASSUME NEW k \in Keys, NEW v \in Values, PutCached(k, v) PROVE TypeOK'
    BY <1>0, <1>5, CachedType, ValuesAssumption DEF PutCached, Tell, TypeOK
<1>6. ASSUME NEW k \in Keys, NEW v \in Values,
             DiesInPut(k, v) \/ DiesInPutCompressed(k, v)
      PROVE  TypeOK'
    BY <1>6, DiesType
<1>7. ASSUME NEW k \in Keys, Delete(k) \/ DiesInDelete(k) PROVE TypeOK'
    BY <1>7, DeleteType, DiesType
<1>8. CASE \/ CompactStart \/ CompactCopyFails \/ CompactReplace
           \/ \E s \in Slot : CompactCopy(s) \/ CompactHangs(s)
    BY <1>8, CompactType
<1>9. CASE UNCHANGED vars
    BY <1>9 DEF vars, TypeOK
<1> QED
    BY <1>1, <1>2, <1>3, <1>4, <1>5, <1>6, <1>7, <1>8, <1>9 DEF Next

\* Whatever fails and wherever a crash hits, every variable has its type.
THEOREM TypeCorrect == Spec => []TypeOK
<1>1. Init => TypeOK
    <2>1. <<>> \in Seq(Record)
        OBVIOUS
    <2>2. 0 \in 0 .. MinDirty /\ 0 \in Nat
        BY ParametersAssumption
    <2>3. [k \in Keys |-> None] \in [Keys -> Values \cup {None}]
        OBVIOUS
    <2> QED
        BY <2>1, <2>2, <2>3, EntryTypes DEF Init, TypeOK
<1>2. TypeOK /\ [Next]_vars => TypeOK'
    BY TypeStep
<1> QED
    BY <1>1, <1>2, PTL DEF Spec

-----------------------------------------------------------------------------
(* The inductive invariant.  Each part holds as long as nothing has failed that
would break it; what a failed operation breaks, the end of the process mends,
except a failed rename or conversion, after which the file itself may be wrong. *)

\* The entry of a slot is what log says, or what the callers were told.
Agrees(log, s, e, t) ==
    \/ e = Rebuilt(log)[s]
    \/ e = NoEntry /\ t = None
    \/ e # NoEntry /\ e.val = t /\ ReadBack(log, s, e) = t

Running == mode \in {"rw", "ro"}

\* Compact has not moved the entry of s to the new file.
Unmoved(s) == phase = "idle" \/ s \in todo

\* The file that the entry of s points into.
File(s) == IF Unmoved(s) THEN main ELSE tmp

\* Nothing has left the table pointing into the wrong file, or behind its end.
Sound == failed \cap {"flush", "copy", "rename"} = {}

\* What goes with each mode, and with Compact.
ModeOK ==
    /\ mode = "ro" => "write" \in failed
    /\ ~ Running => table = EmptyTable /\ phase = "idle"
    /\ mode = "down" => cache = EmptyCache /\ failed \subseteq {"flush", "rename", "convert"} /\ ~ tmpLocked
    /\ mode = "mem" => "write" \notin failed
    /\ tmpLocked <=> "copy" \in failed
    /\ phase # "idle" => ~ tmpLocked
    /\ phase = "idle" => todo = {}
    /\ \A s \in todo : table[s] # NoEntry

\* Only a write error, the command line and a store without a file fill the cache.
CacheOK ==
    \A k \in Keys : "write" \notin failed =>
        /\ cache[Comp(k)] # None => mode = "mem" /\ k \in CompressedKeys
        /\ cache[Plain(k)] # None => k \in CachedKeys \/ (mode = "mem" /\ k \in PlainKeys)

\* Records and entries are of keys that are stored in that way.
SlotsOK ==
    /\ Legal(main) /\ Legal(tmp)
    /\ \A s \in Slot : table[s] # NoEntry => Stored(s) /\ table[s].val # None

\* Each entry points at its record, in the file that it points into.
PointsOK == Sound => \A s \in Slot : table[s] # NoEntry => Points(File(s), s, table[s])

\* No record of an open file ends what a reader sees.
AcceptedOK == Running /\ failed \cap {"flush", "convert", "rename"} = {} => AllAccepted(main)

\* The new file holds what has been copied.
CopyOK ==
    phase = "copy" /\ Sound =>
        /\ AllAccepted(tmp) /\ NoneSwallows(tmp)
        /\ \A s \in Slot : Rebuilt(tmp)[s] = IF s \in todo THEN NoEntry ELSE table[s]

\* If nothing has failed, the table is the one of the file; a copied value reads as the one it is copied from.
FollowsOK ==
    Running /\ failed = {} /\ NoneSwallows(main) /\ phase # "hung" => \A s \in Slot :
        IF Unmoved(s) \/ table[s] = NoEntry THEN table[s] = Rebuilt(main)[s]
        ELSE ReadBack(tmp, s, table[s]) = ReadBack(main, s, Rebuilt(main)[s])

\* If only copying has failed, it has at least the same values.
ValuesOK ==
    Running /\ failed \subseteq {"copy"} /\ NoneSwallows(main) =>
        \A s \in Slot : table[s].val = Rebuilt(main)[s].val

\* Otherwise it differs from the file only where callers were told so.
AgreesOK ==
    Running /\ Sound /\ phase # "hung" => \A s \in Slot : Single(s) /\ Uncached(s[1]) =>
        IF Unmoved(s) \/ table[s] = NoEntry THEN Agrees(main, s, table[s], told[s[1]])
        ELSE ReadBack(tmp, s, table[s]) \in {ReadBack(main, s, Rebuilt(main)[s]), told[s[1]]}

\* A plain value in the table is what callers were told.
PlainOK ==
    "write" \notin failed => \A k \in Keys \ CompressedKeys :
        cache[Plain(k)] = None /\ table[Plain(k)] # NoEntry => table[Plain(k)].val = told[k]

\* So is every value, or it cannot be read; a key without one was told to have none.
ToldOK ==
    mode = "rw" /\ failed \subseteq {"convert"} => \A k \in Keys \ (PlainKeys \cap CompressedKeys) :
        Uncached(k) =>
        /\ table[Plain(k)] = NoEntry /\ table[Comp(k)] = NoEntry => told[k] = None
        /\ \A s \in {Plain(k), Comp(k)} : table[s] # NoEntry =>
               table[s].val = told[k] \/ ReadBack(File(s), s, table[s]) = None

\* A setting that nobody puts in the file is what callers were told, until it is deleted.
SettingOK ==
    \A k \in Keys \ (PlainKeys \cup CompressedKeys) :
        cache[Plain(k)] # None => told[k] \in {cache[Plain(k)], None}

StoreInv ==
    /\ TypeOK /\ ModeOK /\ CacheOK /\ SettingOK /\ SlotsOK /\ PointsOK /\ AcceptedOK /\ CopyOK
    /\ FollowsOK /\ ValuesOK /\ AgreesOK /\ PlainOK /\ ToldOK

\* A table just built from the file satisfies everything about entries.
LEMMA RebuiltFits ==
    ASSUME main' \in Seq(Record), Legal(main'), table' = Rebuilt(main'), phase' = "idle", todo' = {}
    PROVE  /\ PointsOK' /\ CopyOK' /\ FollowsOK' /\ ValuesOK' /\ AgreesOK'
           /\ \A s \in Slot : table'[s] # NoEntry => Stored(s) /\ table'[s].val # None
<1>1. \A s \in Slot : table'[s] # NoEntry => Points(main', s, table'[s]) /\ table'[s].val # None
    BY RebuiltPoints
<1>2. \A s \in Slot : table'[s] # NoEntry => Stored(s)
    BY NeverStored
<1>3. \A s \in Slot : Unmoved(s)' /\ File(s)' = main'
    BY DEF Unmoved, File
<1>4. PointsOK'
    BY <1>1, <1>3 DEF PointsOK
<1>5. CopyOK'
    BY DEF CopyOK
<1>6. FollowsOK' /\ ValuesOK'
    BY <1>3 DEF FollowsOK, ValuesOK
<1>7. AgreesOK'
    BY <1>3 DEF AgreesOK, Agrees
<1> QED
    BY <1>1, <1>2, <1>4, <1>5, <1>6, <1>7

\* So does an empty one, when the store is closed.
LEMMA EndedInv ==
    ASSUME StoreInv, Ended, Legal(main'), main' \in Seq(Record)
    PROVE  StoreInv'
<1>1. TypeOK'
    BY EndedType DEF StoreInv
<1>2. \A s \in Slot : table'[s] = NoEntry
    BY DEF Ended, EmptyTable
<1>3. ModeOK'
    BY DEF Ended, ModeOK, Running, EmptyTable, EmptyCache, StoreInv, TypeOK
<1>4. CacheOK' /\ SettingOK'
    BY SlotsAre DEF CacheOK, SettingOK, Ended, EmptyCache
<1>5. SlotsOK'
    BY <1>2 DEF SlotsOK, Ended, Legal
<1>6. PointsOK' /\ AcceptedOK' /\ CopyOK' /\ FollowsOK' /\ ValuesOK' /\ AgreesOK'
    BY <1>2 DEF PointsOK, AcceptedOK, CopyOK, FollowsOK, ValuesOK, AgreesOK, Running, Ended
<1>7. PlainOK' /\ ToldOK'
    BY <1>2, SlotsAre DEF PlainOK, ToldOK, Ended
<1> QED
    BY <1>1, <1>3, <1>4, <1>5, <1>6, <1>7 DEF StoreInv

\* CreateEx2 leaves a store whose table is what the file says.
LEMMA OpenInv ==
    ASSUME StoreInv, Open, TypeOK'
    PROVE  StoreInv'
<1>0. /\ mode = "down" /\ table = EmptyTable /\ cache = EmptyCache /\ phase = "idle" /\ todo = {}
      /\ failed \subseteq {"flush", "rename", "convert"} /\ ~ tmpLocked /\ main \in Seq(Record) /\ Legal(main)
      /\ Legal(tmp)
    BY DEF StoreInv, ModeOK, Running, SlotsOK, TypeOK, Open
<1>1. UNCHANGED <<cache, phase, tmp, todo, tmpLocked>> /\ told' = [k \in Keys |-> FileGet(main', table', k)]
    BY DEF Open
<1>a. \A s \in Slot : cache[s] = None
    BY <1>0 DEF EmptyCache
<1>b. CacheOK' /\ SettingOK'
    BY <1>1, <1>a, SlotsAre DEF CacheOK, SettingOK
<1>2. CASE mode' = "mem" /\ UNCHANGED <<main, table, dirty, failed>>
    <2>1. \A s \in Slot : table'[s] = NoEntry
        BY <1>0, <1>2 DEF EmptyTable
    <2>2. ModeOK'
        BY <1>0, <1>1, <1>2 DEF ModeOK, Running
    <2>3. SlotsOK'
        BY <1>0, <1>1, <1>2, <2>1 DEF SlotsOK
    <2>4. PointsOK' /\ AcceptedOK' /\ CopyOK' /\ FollowsOK' /\ ValuesOK' /\ AgreesOK'
        BY <1>0, <1>1, <1>2, <2>1
           DEF PointsOK, AcceptedOK, CopyOK, FollowsOK, ValuesOK, AgreesOK, Running
    <2>5. PlainOK' /\ ToldOK'
        BY <1>2, <2>1, SlotsAre DEF PlainOK, ToldOK
    <2> QED
        BY <1>b, <2>2, <2>3, <2>4, <2>5 DEF StoreInv
<1>3. CASE RebuildKeyTable(main, "rw", 0, 0) /\ failed' = (failed \ {"flush"}) \cup NoteConversion(main)
    <2>1. /\ main' \in Seq(Record) /\ mode' = "rw" /\ table' = Rebuilt(main')
          /\ Legal(main')
          /\ Rebuilt(main) # EmptyTable \/ main' = <<>> => AllAccepted(main')
        BY <1>0, <1>3, RebuildGives
    <2>2. PointsOK' /\ CopyOK' /\ FollowsOK' /\ ValuesOK' /\ AgreesOK' /\ SlotsOK'
        BY <1>0, <1>1, <2>1, RebuiltFits DEF SlotsOK
    <2>3. ModeOK'
        BY <1>0, <1>1, <1>3, <2>1 DEF ModeOK, Running, NoteConversion
    <2>4. AcceptedOK'
        BY <1>3, <2>1 DEF AcceptedOK, NoteConversion
    <2>5. \A s \in Slot : table'[s] # NoEntry => Points(main', s, table'[s])
        BY <2>1, RebuiltPoints
    <2>6. PlainOK'
        <3>1. ASSUME NEW k \in Keys, table'[Plain(k)] # NoEntry
              PROVE  table'[Plain(k)].val = told'[k]
            <4>1. told'[k] = ReadBack(main', Plain(k), table'[Plain(k)])
                BY <1>1, <3>1 DEF FileGet
            <4>2. Points(main', Plain(k), table'[Plain(k)]) /\ Plain(k)[2] # "comp"
                BY <2>5, <3>1, SlotsAre
            <4> QED
                BY <4>1, <4>2, ReadBackPoints
        <3> QED
            BY <3>1 DEF PlainOK
    <2>7. ToldOK'
        <3>. SUFFICES ASSUME NEW k \in Keys \ (PlainKeys \cap CompressedKeys)
                      PROVE  /\ table'[Plain(k)] = NoEntry /\ table'[Comp(k)] = NoEntry => told'[k] = None
                             /\ \A s \in {Plain(k), Comp(k)} : table'[s] # NoEntry =>
                                    table'[s].val = told'[k] \/ ReadBack(main', s, table'[s]) = None
            BY <1>0, <1>1 DEF ToldOK, File, Unmoved
        <3>1. Plain(k) \in Slot /\ Comp(k) \in Slot /\ Plain(k)[1] = k /\ Comp(k)[1] = k
                  /\ Plain(k)[2] = "plain" /\ Comp(k)[2] = "comp"
            BY SlotsAre
        <3>2. told'[k] = IF table'[Plain(k)] # NoEntry THEN ReadBack(main', Plain(k), table'[Plain(k)])
                         ELSE ReadBack(main', Comp(k), table'[Comp(k)])
            BY <1>1 DEF FileGet
        <3>3. \A s : ReadBack(main', s, NoEntry) = None
            <4>1. NoEntry.off \notin DOMAIN main'
                BY <2>1 DEF NoEntry
            <4> QED
                BY <4>1 DEF ReadBack
        <3>4. table'[Plain(k)] = NoEntry \/ table'[Comp(k)] = NoEntry
            BY <2>2, <3>1 DEF SlotsOK, Stored
        <3>5. \A s \in Slot : ReadBack(main', s, table'[s]) \in {table'[s].val, None}
            BY DEF ReadBack
        <3> QED
            BY <3>1, <3>2, <3>3, <3>4, <3>5
    <2> QED
        BY <1>b, <2>2, <2>3, <2>4, <2>6, <2>7 DEF StoreInv
<1> QED
    BY <1>2, <1>3 DEF Open

\* The cache has no part in what the table says of keys that are not cached.
LEMMA CachedInv ==
    ASSUME StoreInv, TypeOK', NEW k \in Keys, NEW v \in Values, PutCached(k, v)
    PROVE  StoreInv'
<1>1. /\ UNCHANGED <<main, table, mode, dirty, phase, tmp, todo, tmpLocked, failed>>
      /\ k \in CachedKeys /\ cache' = Cached(Plain(k), v) /\ told' = [told EXCEPT ![k] = Unquote[v]]
      /\ mode # "down"
    BY DEF PutCached, Tell, Idle
<1>2. /\ cache'[Plain(k)] # None /\ told'[k] = cache'[Plain(k)]
      /\ \A s \in Slot : s # Plain(k) => cache'[s] = cache[s]
      /\ \A j \in Keys : j # k => told'[j] = told[j] /\ cache'[Plain(j)] = cache[Plain(j)]
    <2>1. Unquote[v] \in Values /\ Unquote[v] # None
        BY ValuesAssumption
    <2>2. \A j \in Keys : j # k => Plain(j) # Plain(k)
        BY DEF Plain
    <2>3. cache \in [Slot -> Values \cup {None}] /\ told \in [Keys -> Values \cup {None}]
        BY DEF StoreInv, TypeOK
    <2> QED
        BY <1>1, <2>1, <2>2, <2>3, SlotsAre DEF Cached
<1>3. ModeOK' /\ SlotsOK' /\ PointsOK' /\ AcceptedOK' /\ CopyOK' /\ FollowsOK' /\ ValuesOK'
    BY <1>1 DEF StoreInv, ModeOK, SlotsOK, PointsOK, AcceptedOK, CopyOK, FollowsOK, ValuesOK,
       Running, Sound, File, Unmoved
<1>4. CacheOK'
    <2>1. \A j \in Keys : Comp(j) # Plain(k) /\ Comp(j) \in Slot /\ (Plain(j) = Plain(k) => j = k)
        BY SlotsAre
    <2> QED
        BY <1>1, <1>2, <2>1 DEF StoreInv, CacheOK
<1>5. \A j \in Keys : Uncached(j)' => j # k /\ Uncached(j)
    BY <1>1, <1>2 DEF Uncached
<1>6. AgreesOK'
    BY <1>1, <1>2, <1>5, SlotsAre DEF StoreInv, AgreesOK, Running, Sound, Unmoved
<1>7. PlainOK' /\ SettingOK'
    BY <1>1, <1>2 DEF StoreInv, PlainOK, SettingOK
<1>8. ToldOK'
    BY <1>1, <1>2, <1>5 DEF StoreInv, ToldOK, File, Unmoved
<1> QED
    BY <1>3, <1>4, <1>6, <1>7, <1>8 DEF StoreInv

\* Compact begins: every entry is still to be moved.
LEMMA CompactStartInv ==
    ASSUME StoreInv, TypeOK', CompactStart
    PROVE  StoreInv'
<1>1. /\ UNCHANGED <<main, table, cache, mode, dirty, tmpLocked, failed, told>>
      /\ Idle /\ mode # "mem" /\ ~ tmpLocked
      /\ phase = "idle" /\ phase' = "copy" /\ tmp' = <<>> /\ todo' = {s \in Slot : table[s] # NoEntry}
    BY DEF CompactStart, Idle
<1>2. \A s \in Slot : table[s] # NoEntry => File(s) = main /\ File(s)' = main /\ Unmoved(s)'
    BY <1>1 DEF File, Unmoved
<1>3. Unmoved(1) /\ \A s \in Slot : Unmoved(s)
    BY <1>1 DEF Unmoved
<1>a. ModeOK'
    <2>1. Running /\ Running'
        BY <1>1 DEF StoreInv, TypeOK, Running, Idle
    <2>2. \A s \in todo' : table'[s] # NoEntry
        BY <1>1
    <2> QED
        BY <1>1, <2>1, <2>2 DEF StoreInv, ModeOK, Running
<1>4. CacheOK' /\ SettingOK' /\ AcceptedOK' /\ ValuesOK' /\ PlainOK'
    BY <1>1 DEF StoreInv, Running, CacheOK, SettingOK, AcceptedOK, ValuesOK, PlainOK
<1>5. SlotsOK'
    BY <1>1 DEF StoreInv, SlotsOK, Legal
<1>6. PointsOK'
    BY <1>1, <1>2 DEF StoreInv, PointsOK, Sound
<1>7. CopyOK'
    <2>1. \A s \in Slot : Rebuilt(<<>>)[s] = NoEntry
        BY RebuiltNone DEF EmptyTable
    <2> QED
        BY <1>1, <2>1, RebuiltNone DEF CopyOK
<1>8. FollowsOK' /\ AgreesOK'
    BY <1>1, <1>2, <1>3 DEF StoreInv, FollowsOK, AgreesOK, Running, Sound, Uncached
<1>9. ToldOK'
    BY <1>1, <1>2, SlotsAre DEF StoreInv, ToldOK, Uncached
<1> QED
    BY <1>a, <1>4, <1>5, <1>6, <1>7, <1>8, <1>9 DEF StoreInv

\* What a flush that fails leaves of a record is a part of it or nothing.
LEMMA LeftoverExtends ==
    ASSUME NEW log \in Seq(Record), NEW r \in Record, Stored(r.slot), NEW new \in Leftovers(log, r)
    PROVE  Extended(log, new, r.slot[1])
<1>1. CASE new = log
    BY <1>1, ExtendedNot
<1>2. ASSUME NEW part \in Tears, part = "value" => r.val # None, new = Append(log, PartOf(r, part))
      PROVE  Extended(log, new, r.slot[1])
    <2>. DEFINE p == PartOf(r, part)
    <2>1. p \in Record /\ p.slot = r.slot /\ p.val = r.val /\ p.part = part
        BY ParametersAssumption DEF PartOf, Record
    <2>. HIDE DEF p
    <2>2. new = Append(log, p)
        BY <1>2 DEF p
    <2> QED
        BY <1>2, <2>1, <2>2, ExtendedOnce
<1> QED
    BY <1>1, <1>2 DEF Leftovers

\* Writing a record leaves all of it, part of it or nothing; only a flush leaves a part.
LEMMA WriteExtends ==
    ASSUME NEW log \in Seq(Record), NEW r \in Record, Stored(r.slot), r.part = "whole",
           NEW out, NEW new \in AfterWrite(log, r, out)
    PROVE  /\ Extended(log, new, r.slot[1])
           /\ out # "flush" => Sealed(log, new)
           /\ out = "written" => new = Append(log, r)
           /\ out \notin {"written", "flush"} => new = log
<1>1. CASE out = "written"
    BY <1>1, ExtendedOnce DEF AfterWrite
<1>2. CASE out = "flush"
    BY <1>2, LeftoverExtends DEF AfterWrite
<1>3. CASE out \notin {"written", "flush"}
    BY <1>3, ExtendedNot DEF AfterWrite
<1> QED
    BY <1>1, <1>2, <1>3

\* The copy of a value is at the entry's new place, and reads as the value did,
\* unless the flush of it failed.
LEMMA CopyReads ==
    ASSUME StoreInv, NEW s \in Slot, CompactCopy(s)
    PROVE  \E r \in Record :
              /\ r.slot = s /\ r.val = table[s].val /\ r.part # "value"
              /\ table[s] # NoEntry /\ table[s].val # None /\ Stored(s)
              /\ table' = [table EXCEPT ![s] = [val |-> r.val, off |-> Len(tmp) + 1]]
              /\ table'[s] = [val |-> r.val, off |-> Len(tmp) + 1] /\ table'[s] # NoEntry
              /\ \/ tmp' = Append(tmp, r) /\ failed' = failed
                 \/ tmp' \in Leftovers(tmp, r) /\ failed' = failed \cup {"flush"}
              /\ Sound /\ tmp' = Append(tmp, r) =>
                     /\ Accepted(r)
                     /\ Points(tmp', s, table'[s])
                     /\ ReadBack(tmp', s, table'[s]) = ReadBack(main, s, table[s])
<1>. DEFINE r == Copy(s)
<1>1. table \in [Slot -> Entry] /\ table[s] # NoEntry /\ table[s].val # None /\ Stored(s) /\ tmp \in Seq(Record)
    BY DEF StoreInv, TypeOK, ModeOK, SlotsOK, CompactCopy
<1>2. r \in Record
    BY <1>1 DEF Copy, Record, Entry
<1>3. r.slot = s /\ r.val = table[s].val /\ r.part \in {"whole", "garbled"} /\ (r.part = "whole" <=> Readable(s))
    BY DEF Copy
<1>4. \/ tmp' = Append(tmp, r) /\ failed' = failed
      \/ tmp' \in Leftovers(tmp, r) /\ failed' = failed \cup {"flush"}
    BY DEF CompactCopy
<1>. HIDE DEF r
<1>5. Len(tmp) \in Nat
    BY <1>1
<1>6. table' = [table EXCEPT ![s] = [val |-> r.val, off |-> Len(tmp) + 1]]
    BY <1>3 DEF CompactCopy
<1>7. table'[s] = [val |-> r.val, off |-> Len(tmp) + 1] /\ table'[s] # NoEntry
    BY <1>1, <1>5, <1>6 DEF NoEntry
<1>8. ASSUME Sound, tmp' = Append(tmp, r)
      PROVE  /\ Accepted(r)
             /\ Points(tmp', s, table'[s])
             /\ ReadBack(tmp', s, table'[s]) = ReadBack(main, s, table[s])
    <2>1. Points(main, s, table[s])
        BY <1>1, <1>8 DEF StoreInv, PointsOK, File, Unmoved, CompactCopy
    <2>2. Accepted(r)
        BY <1>1, <1>3, <2>1, ReadBackPoints DEF Accepted, Readable
    <2>3. Points(tmp', s, table'[s])
        BY <1>1, <1>2, <1>3, <1>7, <1>8, <2>2, PointsLast
    <2>4. tmp'[table'[s].off] = r
        BY <1>1, <1>2, <1>7, <1>8, Appended
    <2>5. ReadBack(tmp', s, table'[s]) = IF Readable(s) THEN table[s].val ELSE None
        BY <1>3, <1>7, <2>3, <2>4, ReadBackPoints
    <2>6. ReadBack(main, s, table[s]) = IF Readable(s) THEN table[s].val ELSE None
        BY <2>1, ReadBackPoints DEF Readable
    <2> QED
        BY <2>2, <2>3, <2>5, <2>6
<1> QED
    BY <1>1, <1>2, <1>3, <1>4, <1>6, <1>7, <1>8

\* A copy that is in the new file keeps what the invariant says of entries.
LEMMA CompactCopied ==
    ASSUME StoreInv, TypeOK', NEW s \in Slot, NEW r \in Record,
           phase = "copy", s \in todo, todo' = todo \ {s}, failed' = failed, tmp' = Append(tmp, r),
           UNCHANGED <<main, cache, mode, dirty, phase, tmpLocked, told>>,
           r.slot = s, r.val = table[s].val, r.part # "value",
           table[s] # NoEntry, table[s].val # None, Stored(s), table'[s] # NoEntry,
           table' = [table EXCEPT ![s] = [val |-> r.val, off |-> Len(tmp) + 1]],
           Sound => /\ Accepted(r)
                    /\ Points(tmp', s, table'[s])
                    /\ ReadBack(tmp', s, table'[s]) = ReadBack(main, s, table[s])
    PROVE  PointsOK' /\ CopyOK' /\ FollowsOK' /\ ValuesOK' /\ AgreesOK' /\ ToldOK'
<1>1. Sound' <=> Sound
    BY DEF Sound
<1>2. /\ table \in [Slot -> Entry] /\ tmp \in Seq(Record) /\ main \in Seq(Record) /\ todo \subseteq Slot
      /\ Extended(tmp, tmp', s[1])
    BY ExtendedOnce DEF StoreInv, TypeOK
<1>3. /\ \A x \in Slot : x # s => table'[x] = table[x] /\ (Unmoved(x)' <=> Unmoved(x))
      /\ \A x \in Slot : (table'[x] = NoEntry <=> table[x] = NoEntry) /\ table'[x].val = table[x].val
      /\ Unmoved(s) /\ ~ Unmoved(s)'
    BY <1>2 DEF Unmoved
<1>4. ASSUME NEW x \in Slot, x # s, Sound, table[x] # NoEntry
      PROVE  /\ Points(File(x)', x, table'[x])
             /\ ReadBack(File(x)', x, table'[x]) = ReadBack(File(x), x, table[x])
    <2>1. Points(File(x), x, table[x]) /\ table[x] \in Entry
        BY <1>2, <1>4 DEF StoreInv, PointsOK
    <2>2. CASE Unmoved(x)
        BY <1>3, <1>4, <2>1, <2>2 DEF File
    <2>3. CASE ~ Unmoved(x)
        <3>1. File(x) = tmp /\ File(x)' = tmp'
            BY <1>3, <1>4, <2>3 DEF File
        <3> QED
            BY <1>2, <1>3, <1>4, <2>1, <3>1 DEF Extended
    <2> QED
        BY <2>2, <2>3
<1>5. File(s) = main /\ File(s)' = tmp'
    BY <1>3 DEF File
<1>6. PointsOK'
    <2>. SUFFICES ASSUME Sound, NEW x \in Slot, table'[x] # NoEntry
                  PROVE  Points(File(x)', x, table'[x])
        BY DEF PointsOK, Sound
    <2>1. CASE x = s
        BY <1>5, <2>1
    <2>2. CASE x # s
        BY <1>3, <1>4, <2>2
    <2> QED
        BY <2>1, <2>2
<1>7. CopyOK'
    <2>. SUFFICES ASSUME Sound
                  PROVE  /\ AllAccepted(tmp') /\ NoneSwallows(tmp')
                         /\ \A x \in Slot : Rebuilt(tmp')[x] = IF x \in todo' THEN NoEntry ELSE table'[x]
        BY DEF CopyOK, Sound
    <2>1. /\ AllAccepted(tmp) /\ NoneSwallows(tmp)
          /\ \A x \in Slot : Rebuilt(tmp)[x] = IF x \in todo THEN NoEntry ELSE table[x]
        BY DEF StoreInv, CopyOK
    <2>2. AllAccepted(tmp') /\ NoneSwallows(tmp')
        BY <1>2, <2>1, AcceptedAppend
    <2>3. Rebuilt(tmp') = [Rebuilt(tmp) EXCEPT ![s] = Entered(tmp, r)]
        BY <1>2, <2>1, RebuiltEntered
    <2>4. Rebuilt(tmp) \in [Slot -> Entry]
        BY <1>2, RebuildTypes
    <2>5. Rebuilt(tmp')[s] = table'[s]
        BY <1>2, <2>3, <2>4 DEF Entered
    <2>6. \A x \in Slot : x # s => Rebuilt(tmp')[x] = Rebuilt(tmp)[x]
        BY <2>3, <2>4
    <2> QED
        BY <1>3, <2>1, <2>2, <2>5, <2>6
<1>8. FollowsOK'
    <2>. SUFFICES ASSUME Running, failed = {}, NoneSwallows(main), NEW x \in Slot
                  PROVE  IF Unmoved(x)' \/ table'[x] = NoEntry THEN table'[x] = Rebuilt(main)[x]
                         ELSE ReadBack(tmp', x, table'[x]) = ReadBack(main, x, Rebuilt(main)[x])
        BY DEF FollowsOK, Running
    <2>1. Sound
        BY DEF Sound
    <2>2. IF Unmoved(x) \/ table[x] = NoEntry THEN table[x] = Rebuilt(main)[x]
          ELSE ReadBack(tmp, x, table[x]) = ReadBack(main, x, Rebuilt(main)[x])
        BY DEF StoreInv, FollowsOK
    <2>3. CASE x = s
        BY <1>3, <2>1, <2>2, <2>3
    <2>4. CASE x # s
        BY <1>3, <1>4, <2>1, <2>2, <2>4 DEF File
    <2> QED
        BY <2>3, <2>4
<1>9. ValuesOK'
    BY <1>3 DEF StoreInv, ValuesOK, Running
<1>10. AgreesOK'
    <2>. SUFFICES ASSUME Running, Sound, NEW x \in Slot, Single(x), Uncached(x[1])
                  PROVE  IF Unmoved(x)' \/ table'[x] = NoEntry THEN Agrees(main, x, table'[x], told[x[1]])
                         ELSE ReadBack(tmp', x, table'[x]) \in
                                  {ReadBack(main, x, Rebuilt(main)[x]), told[x[1]]}
        BY DEF AgreesOK, Running, Sound, Uncached
    <2>1. IF Unmoved(x) \/ table[x] = NoEntry THEN Agrees(main, x, table[x], told[x[1]])
          ELSE ReadBack(tmp, x, table[x]) \in {ReadBack(main, x, Rebuilt(main)[x]), told[x[1]]}
        BY DEF StoreInv, AgreesOK
    <2>2. CASE x = s
        BY <1>3, <2>1, <2>2 DEF Agrees
    <2>3. CASE x # s
        BY <1>3, <1>4, <2>1, <2>3 DEF File
    <2> QED
        BY <2>2, <2>3
<1>11. ToldOK'
    <2>. SUFFICES ASSUME mode = "rw", failed \subseteq {"convert"},
                         NEW k \in Keys \ (PlainKeys \cap CompressedKeys), Uncached(k)
                  PROVE  /\ table'[Plain(k)] = NoEntry /\ table'[Comp(k)] = NoEntry => told[k] = None
                         /\ \A x \in {Plain(k), Comp(k)} : table'[x] # NoEntry =>
                                table'[x].val = told[k] \/ ReadBack(File(x)', x, table'[x]) = None
        BY DEF ToldOK, Uncached
    <2>1. Sound
        BY DEF Sound
    <2>2. /\ table[Plain(k)] = NoEntry /\ table[Comp(k)] = NoEntry => told[k] = None
          /\ \A x \in {Plain(k), Comp(k)} : table[x] # NoEntry =>
                 table[x].val = told[k] \/ ReadBack(File(x), x, table[x]) = None
        BY DEF StoreInv, ToldOK
    <2>3. \A x \in Slot : table[x] # NoEntry =>
              ReadBack(File(x)', x, table'[x]) = ReadBack(File(x), x, table[x])
        BY <1>4, <1>5, <2>1
    <2> QED
        BY <1>3, <2>2, <2>3, SlotsAre
<1> QED
    BY <1>6, <1>7, <1>8, <1>9, <1>10, <1>11

\* Compact_EnumerateSink moves one entry to the new file.
LEMMA CompactCopyInv ==
    ASSUME StoreInv, TypeOK', NEW s \in Slot, CompactCopy(s)
    PROVE  StoreInv'
<1>1. /\ UNCHANGED <<main, cache, mode, dirty, phase, tmpLocked, told>>
      /\ phase = "copy" /\ s \in todo /\ todo' = todo \ {s}
    BY DEF CompactCopy
<1>2. PICK r \in Record :
          /\ r.slot = s /\ r.val = table[s].val /\ r.part # "value"
          /\ table[s] # NoEntry /\ table[s].val # None /\ Stored(s)
          /\ table' = [table EXCEPT ![s] = [val |-> r.val, off |-> Len(tmp) + 1]]
          /\ table'[s] = [val |-> r.val, off |-> Len(tmp) + 1] /\ table'[s] # NoEntry
          /\ \/ tmp' = Append(tmp, r) /\ failed' = failed
             \/ tmp' \in Leftovers(tmp, r) /\ failed' = failed \cup {"flush"}
          /\ Sound /\ tmp' = Append(tmp, r) =>
                 /\ Accepted(r)
                 /\ Points(tmp', s, table'[s])
                 /\ ReadBack(tmp', s, table'[s]) = ReadBack(main, s, table[s])
    BY CopyReads
<1>3. /\ table \in [Slot -> Entry] /\ tmp \in Seq(Record) /\ main \in Seq(Record) /\ todo \subseteq Slot
      /\ Extended(tmp, tmp', s[1])
    BY <1>2, ExtendedOnce, LeftoverExtends DEF StoreInv, TypeOK
<1>4. /\ \A x \in Slot : x # s => table'[x] = table[x] /\ (Unmoved(x)' <=> Unmoved(x))
      /\ \A x \in Slot : (table'[x] = NoEntry <=> table[x] = NoEntry) /\ table'[x].val = table[x].val
      /\ Unmoved(s) /\ ~ Unmoved(s)'
    BY <1>1, <1>2, <1>3 DEF Unmoved
<1>5. failed' = failed \/ failed' = failed \cup {"flush"}
    BY <1>2
<1>6. ModeOK' /\ CacheOK' /\ SettingOK' /\ AcceptedOK'
    BY <1>1, <1>3, <1>4, <1>5 DEF StoreInv, ModeOK, Running, CacheOK, SettingOK, AcceptedOK
<1>7. SlotsOK'
    BY <1>1, <1>3, <1>4 DEF StoreInv, SlotsOK, Extended
<1>8. PlainOK'
    BY <1>1, <1>4, <1>5, SlotsAre DEF StoreInv, PlainOK
<1>9. CASE failed' = failed \cup {"flush"}
    <2>1. PointsOK' /\ CopyOK' /\ FollowsOK' /\ ValuesOK' /\ AgreesOK' /\ ToldOK'
        BY <1>9 DEF PointsOK, CopyOK, FollowsOK, ValuesOK, AgreesOK, ToldOK, Sound
    <2> QED
        BY <1>6, <1>7, <1>8, <2>1 DEF StoreInv
<1>10. CASE tmp' = Append(tmp, r) /\ failed' = failed
    <2>1. PointsOK' /\ CopyOK' /\ FollowsOK' /\ ValuesOK' /\ AgreesOK' /\ ToldOK'
        BY <1>1, <1>2, <1>10, CompactCopied
    <2> QED
        BY <1>6, <1>7, <1>8, <2>1 DEF StoreInv
<1> QED
    BY <1>2, <1>9, <1>10

\* A Compact that does not end keeps things as they are.
LEMMA CompactHangsInv ==
    ASSUME StoreInv, TypeOK', NEW s \in Slot, CompactHangs(s)
    PROVE  StoreInv'
<1>1. /\ UNCHANGED <<main, table, cache, mode, dirty, tmpLocked, failed, told, tmp, todo>>
      /\ phase = "copy" /\ phase' = "hung"
    BY DEF CompactHangs
<1>2. \A x : File(x)' = File(x)
    BY <1>1 DEF File, Unmoved
<1>3. ModeOK' /\ CacheOK' /\ SettingOK' /\ SlotsOK' /\ AcceptedOK' /\ ValuesOK' /\ PlainOK'
    BY <1>1 DEF StoreInv, ModeOK, Running, CacheOK, SettingOK, SlotsOK, AcceptedOK, ValuesOK, PlainOK
<1>4. CopyOK' /\ FollowsOK' /\ AgreesOK'
    BY <1>1 DEF CopyOK, FollowsOK, AgreesOK
<1>5. PointsOK'
    BY <1>1, <1>2 DEF StoreInv, PointsOK, Sound
<1>6. ToldOK'
    BY <1>1, <1>2 DEF StoreInv, ToldOK, Uncached
<1> QED
    BY <1>3, <1>4, <1>5, <1>6 DEF StoreInv

\* One that fails to copy leaves entries of the other file, but the right values.
LEMMA CompactCopyFailsInv ==
    ASSUME StoreInv, TypeOK', CompactCopyFails
    PROVE  StoreInv'
<1>1. /\ UNCHANGED <<main, table, cache, mode, dirty, told>>
      /\ failed' = failed \cup {"copy"} /\ phase' = "idle" /\ tmp' = <<>> /\ todo' = {} /\ tmpLocked' = TRUE
      /\ phase = "copy"
    BY DEF CompactCopyFails
<1>2. ~ Sound' /\ ~ failed' \subseteq {"convert"} /\ failed' # {}
    BY <1>1 DEF Sound
<1>3. ModeOK' /\ CacheOK' /\ SettingOK' /\ AcceptedOK' /\ PlainOK'
    BY <1>1 DEF StoreInv, ModeOK, Running, CacheOK, SettingOK, AcceptedOK, PlainOK
<1>4. SlotsOK'
    BY <1>1 DEF StoreInv, SlotsOK, Legal
<1>5. PointsOK' /\ CopyOK' /\ FollowsOK' /\ AgreesOK' /\ ToldOK'
    BY <1>2 DEF PointsOK, CopyOK, FollowsOK, AgreesOK, ToldOK
<1>6. ValuesOK'
    BY <1>1 DEF StoreInv, ValuesOK, Running
<1> QED
    BY <1>3, <1>4, <1>5, <1>6 DEF StoreInv

\* The new file is put in place, or it is not and the table points into it.
LEMMA CompactReplaceInv ==
    ASSUME StoreInv, TypeOK', CompactReplace
    PROVE  StoreInv'
<1>1. /\ UNCHANGED <<table, cache, dirty, todo, tmpLocked, told>>
      /\ phase = "copy" /\ todo = {} /\ mode' = "rw" /\ phase' = "idle" /\ tmp' = <<>>
      /\ ~ tmpLocked /\ "copy" \notin failed /\ Running
    BY DEF CompactReplace, StoreInv, ModeOK
<1>2. \/ main' = tmp /\ failed' = failed
      \/ main' = main /\ failed' = failed \cup {"rename"}
    BY DEF CompactReplace
<1>3. Legal(tmp) /\ Legal(main) /\ Legal(tmp') /\ main' \in Seq(Record) /\ table \in [Slot -> Entry]
    BY <1>1 DEF StoreInv, SlotsOK, Legal, TypeOK
<1>4. ModeOK' /\ CacheOK'
    BY <1>1, <1>2 DEF StoreInv, ModeOK, Running, CacheOK
<1>5. SlotsOK'
    BY <1>1, <1>2, <1>3 DEF StoreInv, SlotsOK
<1>6. PlainOK' /\ SettingOK'
    BY <1>1, <1>2 DEF StoreInv, PlainOK, SettingOK
<1>7. CASE main' = main /\ failed' = failed \cup {"rename"}
    <2>1. PointsOK' /\ AcceptedOK' /\ CopyOK' /\ FollowsOK' /\ ValuesOK' /\ AgreesOK' /\ ToldOK'
        BY <1>7 DEF PointsOK, AcceptedOK, CopyOK, FollowsOK, ValuesOK, AgreesOK, ToldOK, Sound
    <2> QED
        BY <1>4, <1>5, <1>6, <2>1 DEF StoreInv
<1>8. CASE main' = tmp /\ failed' = failed /\ Sound
    <2>1. AllAccepted(tmp) /\ \A s \in Slot : Rebuilt(tmp)[s] = table[s]
        BY <1>1, <1>8 DEF StoreInv, CopyOK
    <2>2. Rebuilt(tmp) \in [Slot -> Entry]
        BY <1>3, <1>8, RebuildTypes
    <2>3. table' = Rebuilt(main')
        BY <1>1, <1>3, <1>8, <2>1, <2>2
    <2>4. PointsOK' /\ CopyOK' /\ FollowsOK' /\ ValuesOK' /\ AgreesOK'
        BY <1>1, <1>3, <1>8, <2>3, RebuiltFits
    <2>5. AcceptedOK'
        BY <1>8, <2>1 DEF AcceptedOK
    <2>6. ToldOK'
        <3>1. \A s : File(s)' = main' /\ File(s) = tmp
            BY <1>1 DEF File, Unmoved
        <3>2. failed \subseteq {"convert"} => mode = "rw"
            BY <1>1 DEF StoreInv, ModeOK, Running
        <3> QED
            BY <1>1, <1>8, <3>1, <3>2 DEF StoreInv, ToldOK, Uncached
    <2> QED
        BY <1>4, <1>5, <1>6, <2>4, <2>5, <2>6 DEF StoreInv
<1>9. CASE main' = tmp /\ failed' = failed /\ ~ Sound
    <2>1. "rename" \in failed' \/ "flush" \in failed'
        BY <1>1, <1>9 DEF Sound
    <2>2. PointsOK' /\ AcceptedOK' /\ CopyOK' /\ FollowsOK' /\ ValuesOK' /\ AgreesOK' /\ ToldOK'
        BY <2>1 DEF PointsOK, AcceptedOK, CopyOK, FollowsOK, ValuesOK, AgreesOK, ToldOK, Sound
    <2> QED
        BY <1>4, <1>5, <1>6, <2>2 DEF StoreInv
<1> QED
    BY <1>2, <1>7, <1>8, <1>9

\* What the step that takes a key's plain entry away does to the file and the table.
LEMMA HiddenOK ==
    ASSUME StoreInv, NEW s \in Slot, Stored(s), NEW out \in HideOutcomes(s), NEW log \in Hidden(s, out)
    PROVE  /\ Extended(main, log, s[1]) /\ (out # "flush" => Sealed(main, log))
           /\ Uncovered(s) \in [Slot -> Entry]
           /\ \A x \in Slot : Uncovered(s)[x] \in {table[x], NoEntry}
           /\ \A x \in Slot : x # Plain(s[1]) => Uncovered(s)[x] = table[x]
           /\ Uncovered(s)[s] = table[s] /\ (s[2] = "comp" => Uncovered(s)[Plain(s[1])] = NoEntry)
           /\ Single(s) => log = main /\ Uncovered(s) = table
           /\ AllAccepted(main) /\ NoneSwallows(main) /\ out \in {"written", "none"} => \A x \in Slot :
                  /\ Rebuilt(main)[x] = table[x] => Rebuilt(log)[x] = Uncovered(s)[x]
                  /\ Rebuilt(main)[x].val = table[x].val => Rebuilt(log)[x].val = Uncovered(s)[x].val
<1>. DEFINE p == Plain(s[1])
            w == Tombstone(p)
<1>1. /\ main \in Seq(Record) /\ table \in [Slot -> Entry]
      /\ p \in Slot /\ p[1] = s[1] /\ p[2] = "plain" /\ (s[2] = "comp" => s # p)
    BY SlotsAre DEF StoreInv, TypeOK
<1>2. w \in Record /\ w.slot = p /\ w.part = "whole" /\ w.val = None
    BY <1>1, RecordTypes DEF Tombstone
<1>3. Hides(s) => Stored(p) /\ ~ Single(s)
    BY <1>1 DEF Hides, StoreInv, SlotsOK, Stored, Single
<1>4. log \in AfterWrite(main, w, out)
    BY DEF Hidden
<1>5. Uncovered(s) = IF Hides(s) THEN [table EXCEPT ![p] = NoEntry] ELSE table
    <2>1. CASE s[2] = "comp" /\ table[p] = NoEntry
        <3>1. [table EXCEPT ![p] = NoEntry] = table
            BY <1>1, <2>1
        <3> QED
            BY <2>1, <3>1 DEF Uncovered, Hides
    <2> QED
        BY <2>1 DEF Uncovered, Hides
<1>6. s[2] = "comp" => Uncovered(s)[p] = NoEntry
    BY <1>1 DEF Uncovered
<1>. HIDE DEF w
<1>7. ~ Hides(s) => log = main
    BY <1>4 DEF HideOutcomes, AfterWrite
<1>8. Hides(s) /\ out \in {"written", "none"} => log = Append(main, w)
    <2>1. Hides(s) => out # "none"
        BY OutcomesAre DEF HideOutcomes
    <2> QED
        BY <1>4, <2>1 DEF AfterWrite
<1>9. Extended(main, log, s[1]) /\ (out # "flush" => Sealed(main, log))
    <2>1. CASE Hides(s)
        BY <1>1, <1>2, <1>3, <1>4, <2>1, WriteExtends
    <2> QED
        BY <1>1, <1>7, <2>1, ExtendedNot
<1>10. Uncovered(s) \in [Slot -> Entry] /\ \A x \in Slot : Uncovered(s)[x] \in {table[x], NoEntry}
    BY <1>1, <1>5, EntryTypes
<1>11. \A x \in Slot : x # p => Uncovered(s)[x] = table[x]
    BY <1>1, <1>5
<1>12. Uncovered(s)[s] = table[s]
    BY <1>1, <1>5, <1>11 DEF Hides
<1>13. Single(s) => log = main /\ Uncovered(s) = table
    BY <1>3, <1>5, <1>7
<1>14. ASSUME AllAccepted(main), NoneSwallows(main), out \in {"written", "none"}, NEW x \in Slot
       PROVE  /\ Rebuilt(main)[x] = table[x] => Rebuilt(log)[x] = Uncovered(s)[x]
              /\ Rebuilt(main)[x].val = table[x].val => Rebuilt(log)[x].val = Uncovered(s)[x].val
    <2>1. CASE ~ Hides(s)
        BY <1>5, <1>7, <2>1
    <2>2. CASE Hides(s)
        <3>1. Rebuilt(Append(main, w)) = [Rebuilt(main) EXCEPT ![p] = NoEntry]
            BY <1>1, <1>2, <1>14, RebuiltEntered DEF Accepted, Entered
        <3>2. Rebuilt(main) \in [Slot -> Entry]
            BY <1>1, RebuildTypes
        <3>3. log = Append(main, w) /\ Uncovered(s) = [table EXCEPT ![p] = NoEntry]
            BY <1>5, <1>8, <1>14, <2>2
        <3>4. CASE x = p
            BY <1>1, <3>1, <3>2, <3>3, <3>4
        <3>5. CASE x # p
            BY <1>1, <3>1, <3>2, <3>3, <3>5
        <3> QED
            BY <3>4, <3>5
    <2> QED
        BY <2>1, <2>2
<1> QED
    BY <1>6, <1>9, <1>10, <1>11, <1>12, <1>13, <1>14

\* What goes wrong with the writes of a running store is noted.
LEMMA WritesNoted ==
    ASSUME StoreInv, Running, NEW outs, outs \subseteq WriteOutcomes \cup {"none"}, NoteWrites(outs)
    PROVE  /\ failed \subseteq failed' /\ failed' \subseteq failed \cup {"write", "flush"}
           /\ "write" \in outs => "write" \in failed'
           /\ "flush" \in outs => "flush" \in failed'
           /\ "write" \notin failed' /\ "flush" \notin failed' => outs \subseteq {"written", "none"}
<1>1. mode \in {"rw", "ro"} /\ (mode = "ro" => "write" \in failed)
    BY DEF StoreInv, ModeOK, Running
<1>2. failed \subseteq failed' /\ failed' \subseteq failed \cup {"write", "flush"}
    BY OutcomesAre
<1>3. \A f \in {"write", "flush"} : mode = "rw" /\ f \in outs => f \in failed'
    BY DEF NoteWrites
<1>4. mode = "ro" => WriteOutcomes = {"write"}
    BY OutcomesAre
<1> QED
    BY <1>1, <1>2, <1>3, <1>4, OutcomesAre

\* A step of a running store on the key of s adds records of the key, and callers are told t.
Touches(s, t) ==
    /\ Idle /\ Running
    /\ UNCHANGED <<cache, mode, phase, tmp, todo, tmpLocked>>
    /\ told' = [told EXCEPT ![s[1]] = t]
    /\ failed \subseteq failed' /\ failed' \subseteq failed \cup {"write", "flush"}
    /\ Extended(main, main', s[1]) /\ ("flush" \notin failed' => Sealed(main, main'))
    /\ \A x \in Slot : x[1] # s[1] => table'[x] = table[x]

\* The entries that the key then has point at their records,
OwnPoints(s) ==
    \A x \in Slot : x[1] = s[1] /\ table'[x] # NoEntry =>
        Stored(x) /\ table'[x].val # None /\ (Sound' => Points(main', x, table'[x]))

\* follow the file, unless a write failed or its flush,
OwnFollows(s) ==
    "write" \notin failed' /\ "flush" \notin failed' /\ AllAccepted(main) /\ NoneSwallows(main) => \A x \in Slot : x[1] = s[1] =>
        /\ Rebuilt(main) = table => Rebuilt(main')[x] = table'[x]
        /\ (\A y \in Slot : Rebuilt(main)[y].val = table[y].val) => Rebuilt(main')[x].val = table'[x].val

\* and are what callers were told.
OwnTold(s, t) ==
    /\ IF table'[s] = NoEntry THEN t = None ELSE table'[s].val = t
    /\ Single(s) => \A x \in Slot : x[1] = s[1] /\ x # s =>
           table'[x] = NoEntry /\ (t = None \/ Rebuilt(main')[x] = NoEntry)
    /\ table'[s] # NoEntry /\ Single(s) /\ Sound' /\ Uncached(s[1]) =>
           table'[s] = Rebuilt(main')[s] \/ ReadBack(main', s, table'[s]) = t

\* An operation on one key preserves the invariant if it only touches that key
\* (Touches) and what the invariant says of the key holds afterwards: the argument for
\* the other keys is made here once.
LEMMA KeyStep ==
    ASSUME StoreInv, TypeOK', NEW s \in Slot, NEW t,
           Touches(s, t), OwnPoints(s), OwnFollows(s), OwnTold(s, t)
    PROVE  StoreInv'
<1>. USE DEF Touches, OwnPoints, OwnFollows, OwnTold
<1>. DEFINE k == s[1]
<1>1. /\ k \in Keys /\ table \in [Slot -> Entry] /\ table' \in [Slot -> Entry] /\ main \in Seq(Record)
      /\ told \in [Keys -> Values \cup {None}]
    BY SlotsAre DEF StoreInv, TypeOK
<1>2. /\ phase = "idle" /\ phase' = "idle" /\ todo' = {} /\ (Sound' => Sound) /\ Running'
      /\ \A x : File(x) = main /\ File(x)' = main' /\ Unmoved(x) /\ Unmoved(x)'
    BY DEF Idle, File, Unmoved, Sound, Running, StoreInv, ModeOK
<1>3. \A j \in Keys : (j # k => told'[j] = told[j]) /\ (Uncached(j)' <=> Uncached(j)) /\ told'[k] = t
    BY <1>1 DEF Uncached
<1>4. ModeOK'
    BY <1>2 DEF StoreInv, ModeOK, Running
<1>5. CacheOK'
    BY DEF StoreInv, CacheOK
<1>6. SettingOK'
    <2>. SUFFICES ASSUME NEW j \in Keys \ (PlainKeys \cup CompressedKeys), cache[Plain(j)] # None
                  PROVE  told'[j] \in {cache[Plain(j)], None}
        BY DEF SettingOK
    <2>1. told[j] \in {cache[Plain(j)], None}
        BY DEF StoreInv, SettingOK
    <2>2. j = k => table'[s] = NoEntry
        BY DEF Stored
    <2> QED
        BY <1>3, <2>1, <2>2
<1>7. SlotsOK'
    <2>1. \A x \in Slot : table'[x] # NoEntry => Stored(x) /\ table'[x].val # None
        BY DEF StoreInv, SlotsOK
    <2> QED
        BY <2>1 DEF StoreInv, SlotsOK, Extended
<1>8. ASSUME Sound', NEW x \in Slot, table'[x] # NoEntry
      PROVE  Points(main', x, table'[x])
    <2>1. CASE x[1] # k
        <3>1. Points(main, x, table'[x])
            BY <1>2, <1>8, <2>1 DEF StoreInv, PointsOK
        <3> QED
            BY <1>1, <3>1 DEF Extended
    <2> QED
        BY <1>8, <2>1
<1>9. PointsOK'
    BY <1>2, <1>8 DEF PointsOK
<1>10. AcceptedOK'
    BY <1>2 DEF StoreInv, AcceptedOK, Sealed
<1>11. CopyOK'
    BY <1>2 DEF CopyOK
<1>12. FollowsOK'
    <2>. SUFFICES ASSUME failed' = {}, NoneSwallows(main'), NEW x \in Slot
                  PROVE  table'[x] = Rebuilt(main')[x]
        BY <1>2 DEF FollowsOK
    <2>1. failed = {} /\ NoneSwallows(main) /\ AllAccepted(main)
        BY <1>2 DEF Sealed, StoreInv, AcceptedOK
    <2>2. \A y \in Slot : table[y] = Rebuilt(main)[y]
        BY <1>2, <2>1 DEF StoreInv, FollowsOK
    <2>3. Rebuilt(main) = table
        <3>1. Rebuilt(main) \in [Slot -> Entry]
            BY <1>1, RebuildTypes
        <3> QED
            BY <1>1, <2>2, <3>1
    <2>4. CASE x[1] = k
        BY <2>1, <2>3, <2>4
    <2>5. CASE x[1] # k
        BY <2>2, <2>5 DEF Extended
    <2> QED
        BY <2>4, <2>5
<1>13. ValuesOK'
    <2>. SUFFICES ASSUME failed' \subseteq {"copy"}, NoneSwallows(main'), NEW x \in Slot
                  PROVE  table'[x].val = Rebuilt(main')[x].val
        BY DEF ValuesOK
    <2>1. failed \subseteq {"copy"} /\ NoneSwallows(main) /\ AllAccepted(main) /\ "write" \notin failed'
          /\ "flush" \notin failed'
        BY DEF Sealed, StoreInv, AcceptedOK
    <2>2. \A y \in Slot : table[y].val = Rebuilt(main)[y].val
        BY <2>1 DEF StoreInv, ValuesOK
    <2>3. CASE x[1] = k
        BY <2>1, <2>2, <2>3
    <2>4. CASE x[1] # k
        BY <2>2, <2>4 DEF Extended
    <2> QED
        BY <2>3, <2>4
<1>14. AgreesOK'
    <2>. SUFFICES ASSUME Sound', Sound, NEW x \in Slot, Single(x), Uncached(x[1])
                  PROVE  Agrees(main', x, table'[x], told'[x[1]])
        BY <1>2, <1>3, SlotsAre DEF AgreesOK
    <2>1. Agrees(main, x, table[x], told[x[1]])
        BY <1>2 DEF StoreInv, AgreesOK
    <2>2. CASE x[1] # k
        <3>1. table[x] = NoEntry \/ Points(main, x, table[x])
            BY <1>2 DEF StoreInv, PointsOK
        <3>2. ReadBack(main', x, table[x]) = ReadBack(main, x, table[x])
            BY <1>1, <3>1 DEF Extended
        <3>3. Rebuilt(main')[x] = Rebuilt(main)[x] /\ table'[x] = table[x] /\ told'[x[1]] = told[x[1]]
            BY <1>3, <2>2, SlotsAre DEF Extended
        <3> QED
            BY <2>1, <3>2, <3>3 DEF Agrees
    <2>3. CASE x[1] = k /\ x # s
        <3>1. Single(s)
            BY <2>3 DEF Single
        <3> QED
            BY <1>1, <1>3, <2>3, <3>1 DEF Agrees
    <2>4. CASE x = s
        BY <1>1, <1>3, <2>4 DEF Agrees
    <2> QED
        BY <2>2, <2>3, <2>4
<1>15. PlainOK'
    <2>. SUFFICES ASSUME "write" \notin failed, NEW j \in Keys \ CompressedKeys,
                         cache[Plain(j)] = None, table'[Plain(j)] # NoEntry
                  PROVE  table'[Plain(j)].val = told'[j]
        BY DEF PlainOK
    <2>1. CASE j # k
        BY <1>3, <2>1, SlotsAre DEF StoreInv, PlainOK
    <2>2. CASE j = k
        <3>1. Single(s)
            BY <2>2 DEF Single
        <3>2. s = Plain(k)
            BY <2>2, <3>1, SlotsAre
        <3> QED
            BY <1>3, <2>2, <3>2
    <2> QED
        BY <2>1, <2>2
<1>16. ToldOK'
    <2>. SUFFICES ASSUME mode = "rw", failed' \subseteq {"convert"},
                         NEW j \in Keys \ (PlainKeys \cap CompressedKeys), Uncached(j)
                  PROVE  /\ table'[Plain(j)] = NoEntry /\ table'[Comp(j)] = NoEntry => told'[j] = None
                         /\ \A x \in {Plain(j), Comp(j)} : table'[x] # NoEntry =>
                                table'[x].val = told'[j] \/ ReadBack(main', x, table'[x]) = None
        BY <1>2, <1>3 DEF ToldOK
    <2>1. CASE j # k
        <3>1. failed \subseteq {"convert"} /\ Sound
            BY DEF Sound
        <3>2. /\ table[Plain(j)] = NoEntry /\ table[Comp(j)] = NoEntry => told[j] = None
              /\ \A x \in {Plain(j), Comp(j)} : table[x] # NoEntry =>
                     table[x].val = told[j] \/ ReadBack(main, x, table[x]) = None
            BY <1>2, <3>1 DEF StoreInv, ToldOK
        <3>3. \A x \in {Plain(j), Comp(j)} : x \in Slot /\ x[1] # k /\ table'[x] = table[x]
            BY <2>1, SlotsAre
        <3>4. ASSUME NEW x \in {Plain(j), Comp(j)}, table[x] # NoEntry
              PROVE  ReadBack(main', x, table[x]) = ReadBack(main, x, table[x])
            <4>1. Points(main, x, table[x])
                BY <1>2, <3>1, <3>3, <3>4 DEF StoreInv, PointsOK
            <4> QED
                BY <1>1, <3>3, <4>1 DEF Extended
        <3> QED
            BY <1>3, <2>1, <3>2, <3>3, <3>4
    <2>2. CASE j = k
        <3>1. Single(s)
            BY <2>2 DEF Single
        <3>2. s \in {Plain(k), Comp(k)}
            BY SlotsAre
        <3>3. \A x \in {Plain(k), Comp(k)} : x # s => table'[x] = NoEntry
            BY <1>1, <3>1, SlotsAre
        <3> QED
            BY <1>3, <2>2, <3>2, <3>3
    <2> QED
        BY <2>1, <2>2
<1> QED
    BY <1>4, <1>5, <1>6, <1>7, <1>9, <1>10, <1>11, <1>12, <1>13, <1>14, <1>15, <1>16 DEF StoreInv

\* A slot that no caller stores its key in stays empty.
LEMMA OtherSlot ==
    ASSUME NEW s \in Slot, Stored(s), Single(s), main' \in Seq(Record), Legal(main'),
           \A x \in Slot : x[1] = s[1] /\ table'[x] # NoEntry => Stored(x)
    PROVE  \A x \in Slot : x[1] = s[1] /\ x # s =>
               table'[x] = NoEntry /\ Rebuilt(main')[x] = NoEntry
<1>. SUFFICES ASSUME NEW x \in Slot, x[1] = s[1], x # s
              PROVE  table'[x] = NoEntry /\ Rebuilt(main')[x] = NoEntry
    OBVIOUS
<1>1. ~ Stored(x)
    BY SlotsAre DEF Stored, Single
<1> QED
    BY <1>1, NeverStored

\* A put of the value the entry already has writes at most a tombstone.
LEMMA PutSameInv ==
    ASSUME StoreInv, TypeOK', NEW s \in Slot, NEW v \in Values, Stored(s), Idle, Running, PutSame(s, v),
           told' = [told EXCEPT ![s[1]] = v], UNCHANGED <<phase, tmp, todo, tmpLocked>>
    PROVE  StoreInv'
<1>1. PICK hid \in HideOutcomes(s) : main' \in Hidden(s, hid) /\ NoteWrites({hid})
    BY DEF PutSame
<1>2. table' = Uncovered(s) /\ UNCHANGED <<cache, mode>> /\ table[s] # NoEntry /\ table[s].val = v
    BY DEF PutSame, Same
<1>3. /\ failed \subseteq failed' /\ failed' \subseteq failed \cup {"write", "flush"}
      /\ hid = "flush" => "flush" \in failed'
      /\ "write" \notin failed' /\ "flush" \notin failed' => hid \in {"written", "none"}
    <2>1. {hid} \subseteq WriteOutcomes \cup {"none"}
        BY DEF HideOutcomes
    <2> QED
        BY <1>1, <2>1, WritesNoted
<1>5. /\ Extended(main, main', s[1]) /\ (hid # "flush" => Sealed(main, main'))
      /\ \A x \in Slot : table'[x] \in {table[x], NoEntry}
      /\ \A x \in Slot : x # Plain(s[1]) => table'[x] = table[x]
      /\ table'[s] = table[s]
      /\ Single(s) => main' = main /\ table' = table
      /\ AllAccepted(main) /\ NoneSwallows(main) /\ hid \in {"written", "none"} => \A x \in Slot :
             /\ Rebuilt(main)[x] = table[x] => Rebuilt(main')[x] = table'[x]
             /\ Rebuilt(main)[x].val = table[x].val => Rebuilt(main')[x].val = table'[x].val
    BY <1>1, <1>2, HiddenOK
<1>6. \A x \in Slot : x[1] # s[1] => table'[x] = table[x]
    BY <1>5, SlotsAre
<1>7. table \in [Slot -> Entry] /\ Legal(main) /\ main' \in Seq(Record) /\ Legal(main')
      /\ \A x : File(x) = main
    BY <1>5 DEF StoreInv, TypeOK, SlotsOK, Extended, File, Unmoved, Idle
<1>4. Sound' => Sound
    BY <1>3 DEF Sound
<1>8. OwnPoints(s)
    <2>. SUFFICES ASSUME NEW x \in Slot, table'[x] # NoEntry
                  PROVE  Stored(x) /\ table'[x].val # None /\ (Sound' => Points(main', x, table'[x]))
        BY DEF OwnPoints
    <2>1. table'[x] = table[x]
        BY <1>5
    <2>2. Sound' => Points(main, x, table[x])
        BY <1>4, <1>7, <2>1 DEF StoreInv, PointsOK
    <2> QED
        BY <1>5, <1>7, <2>1, <2>2 DEF StoreInv, SlotsOK, Extended
<1>9. OwnFollows(s)
    BY <1>3, <1>5 DEF OwnFollows
<1>10. IF table'[s] = NoEntry THEN v = None ELSE table'[s].val = v
    BY <1>2, <1>5
<1>11. Single(s) => \A x \in Slot : x[1] = s[1] /\ x # s =>
           table'[x] = NoEntry /\ (v = None \/ Rebuilt(main')[x] = NoEntry)
    BY <1>7, <1>8, OtherSlot DEF OwnPoints
<1>12. table'[s] # NoEntry /\ Single(s) /\ Sound' /\ Uncached(s[1]) =>
           table'[s] = Rebuilt(main')[s] \/ ReadBack(main', s, table'[s]) = v
    <2>. SUFFICES ASSUME Single(s), Sound, Uncached(s[1])
                  PROVE  table[s] = Rebuilt(main)[s] \/ ReadBack(main, s, table[s]) = v
        BY <1>4, <1>5
    <2>1. Agrees(main, s, table[s], told[s[1]])
        BY DEF StoreInv, AgreesOK, Unmoved, Idle
    <2> QED
        BY <1>2, <2>1 DEF Agrees
<1>13. OwnTold(s, v)
    BY <1>10, <1>11, <1>12 DEF OwnTold
<1>14. Touches(s, v)
    BY <1>2, <1>3, <1>5, <1>6 DEF Touches
<1> QED
    BY <1>8, <1>9, <1>13, <1>14, KeyStep

\* The record r and the entry that a put makes; h is the file that it extends, as
\* long as no flush fails.
Puts(s, v, h, r) ==
    /\ h \in Seq(Record) /\ r \in Record /\ r = Value(s, v) /\ r.slot = s
    /\ Accepted(r) /\ r.part = "whole"
    /\ table' = [Uncovered(s) EXCEPT ![s] = [val |-> v, off |-> Len(h) + 1]]
    /\ table'[s] = Entered(h, r) /\ table'[s] # NoEntry /\ table'[s].val = v
    /\ \A x \in Slot : x # s => table'[x] = Uncovered(s)[x]
    /\ failed \subseteq failed' /\ failed' \subseteq failed \cup {"write", "flush"}
    /\ Extended(main, h, s[1]) /\ Extended(main, main', s[1])
    /\ "flush" \notin failed' =>
           /\ main' = Append(h, r) /\ Sealed(main, h) /\ Sealed(main, main')
           /\ Points(main', s, table'[s]) /\ ReadBack(main', s, table'[s]) = v
    /\ Uncovered(s) \in [Slot -> Entry]
    /\ \A x \in Slot : x # Plain(s[1]) => Uncovered(s)[x] = table[x]
    /\ \A x \in Slot : Uncovered(s)[x] \in {table[x], NoEntry}
    /\ s[2] = "comp" => Uncovered(s)[Plain(s[1])] = NoEntry
    /\ AllAccepted(main) /\ NoneSwallows(main) /\ "write" \notin failed' /\ "flush" \notin failed' => \A x \in Slot :
           /\ Rebuilt(main)[x] = table[x] => Rebuilt(h)[x] = Uncovered(s)[x]
           /\ Rebuilt(main)[x].val = table[x].val => Rebuilt(h)[x].val = Uncovered(s)[x].val

\* A put of another value appends its record, behind a tombstone of the plain entry
\* or not, and enters it.
LEMMA RecordIs ==
    ASSUME StoreInv, NEW s \in Slot, NEW v \in Values, Stored(s), Idle, Running, PutRecord(s, v)
    PROVE  \E h, r : Puts(s, v, h, r)
<1>1. PICK hid \in HideOutcomes(s), out \in WriteOutcomes \ {"write"} :
          /\ \E log \in Hidden(s, hid) :
                /\ main' \in AfterWrite(log, Value(s, v), out)
                /\ table' = [Uncovered(s) EXCEPT ![s] = [val |-> v, off |-> Len(log) + 1]]
          /\ NoteWrites({hid, out})
    BY DEF PutRecord
<1>2. PICK h \in Hidden(s, hid) :
          /\ main' \in AfterWrite(h, Value(s, v), out)
          /\ table' = [Uncovered(s) EXCEPT ![s] = [val |-> v, off |-> Len(h) + 1]]
    BY <1>1
<1>. DEFINE r == Value(s, v)
            u == Uncovered(s)
<1>3. /\ Extended(main, h, s[1]) /\ (hid # "flush" => Sealed(main, h)) /\ u \in [Slot -> Entry]
      /\ \A x \in Slot : u[x] \in {table[x], NoEntry}
      /\ \A x \in Slot : x # Plain(s[1]) => u[x] = table[x]
      /\ s[2] = "comp" => u[Plain(s[1])] = NoEntry
      /\ AllAccepted(main) /\ NoneSwallows(main) /\ hid \in {"written", "none"} => \A x \in Slot :
             /\ Rebuilt(main)[x] = table[x] => Rebuilt(h)[x] = u[x]
             /\ Rebuilt(main)[x].val = table[x].val => Rebuilt(h)[x].val = u[x].val
    BY HiddenOK
<1>4. /\ failed \subseteq failed' /\ failed' \subseteq failed \cup {"write", "flush"}
      /\ hid = "flush" \/ out = "flush" => "flush" \in failed'
      /\ "write" \notin failed' /\ "flush" \notin failed' => hid \in {"written", "none"}
      /\ out \in {"written", "flush"}
    <2>1. {hid, out} \subseteq WriteOutcomes \cup {"none"}
        BY DEF HideOutcomes
    <2> QED
        BY <1>1, <2>1, WritesNoted, OutcomesAre
<1>5. r \in Record /\ r.slot = s /\ r.val = v /\ r.part = "whole" /\ Accepted(r) /\ v # None
    BY RecordTypes, ValuesAssumption DEF Value, Accepted
<1>6. h \in Seq(Record) /\ Len(h) \in Nat
    BY <1>3 DEF Extended
<1>7. main' \in AfterWrite(h, r, out)
    BY <1>2
<1>. HIDE DEF r, u
<1>8. table' = [u EXCEPT ![s] = [val |-> v, off |-> Len(h) + 1]]
    BY <1>2 DEF u
<1>9. table'[s] = [val |-> v, off |-> Len(h) + 1] /\ \A x \in Slot : x # s => table'[x] = u[x]
    BY <1>3, <1>8
<1>10. table'[s] = Entered(h, r) /\ table'[s] # NoEntry /\ table'[s].val = v
    BY <1>5, <1>6, <1>9 DEF Entered, NoEntry
<1>11. /\ Extended(h, main', s[1])
       /\ out = "written" => main' = Append(h, r) /\ Sealed(h, main')
    BY <1>5, <1>6, <1>7, WriteExtends
<1>12. Extended(main, main', s[1])
    BY <1>3, <1>11, ExtendedTwice
<1>13. ASSUME "flush" \notin failed'
       PROVE  /\ main' = Append(h, r) /\ Sealed(main, h) /\ Sealed(main, main')
              /\ Points(main', s, table'[s]) /\ ReadBack(main', s, table'[s]) = v
    <2>1. main' = Append(h, r) /\ Sealed(h, main') /\ Sealed(main, h)
        BY <1>3, <1>4, <1>11, <1>13
    <2>2. Sealed(main, main')
        BY <1>3, <1>11, <2>1, ExtendedTwice
    <2>3. main'[Len(h) + 1] = r
        BY <1>5, <1>6, <2>1, Appended
    <2>4. Points(main', s, table'[s])
        BY <1>5, <1>6, <1>9, <2>1, PointsLast
    <2>5. ReadBack(main', s, table'[s]) = v
        BY <1>5, <1>9, <2>3, <2>4, ReadBackPoints
    <2> QED
        BY <2>1, <2>2, <2>4, <2>5
<1>14. AllAccepted(main) /\ NoneSwallows(main) /\ "write" \notin failed' /\ "flush" \notin failed' => \A x \in Slot :
           /\ Rebuilt(main)[x] = table[x] => Rebuilt(h)[x] = u[x]
           /\ Rebuilt(main)[x].val = table[x].val => Rebuilt(h)[x].val = u[x].val
    BY <1>3, <1>4
<1>15. Puts(s, v, h, r)
    BY <1>3, <1>4, <1>5, <1>6, <1>8, <1>9, <1>10, <1>12, <1>13, <1>14 DEF r, u, Puts
<1> QED
    BY <1>15

\* A put that writes its record.
LEMMA PutRecordInv ==
    ASSUME StoreInv, TypeOK', NEW s \in Slot, NEW v \in Values, Stored(s), Idle, Running, PutRecord(s, v),
           told' = [told EXCEPT ![s[1]] = v], UNCHANGED <<phase, tmp, todo, tmpLocked>>
    PROVE  StoreInv'
<1>. DEFINE u == Uncovered(s)
<1>a. PICK h, r : Puts(s, v, h, r)
    BY RecordIs
<1>1. /\ h \in Seq(Record) /\ r \in Record /\ Accepted(r) /\ r.slot = s
      /\ table'[s] = Entered(h, r) /\ table'[s] # NoEntry /\ table'[s].val = v
      /\ \A x \in Slot : x # s => table'[x] = u[x]
      /\ failed \subseteq failed' /\ failed' \subseteq failed \cup {"write", "flush"}
      /\ Extended(main, main', s[1])
      /\ "flush" \notin failed' =>
             /\ main' = Append(h, r) /\ Sealed(main, h) /\ Sealed(main, main')
             /\ Points(main', s, table'[s]) /\ ReadBack(main', s, table'[s]) = v
      /\ \A x \in Slot : x # Plain(s[1]) => u[x] = table[x]
      /\ \A x \in Slot : u[x] \in {table[x], NoEntry}
      /\ AllAccepted(main) /\ NoneSwallows(main) /\ "write" \notin failed' /\ "flush" \notin failed' => \A x \in Slot :
             /\ Rebuilt(main)[x] = table[x] => Rebuilt(h)[x] = u[x]
             /\ Rebuilt(main)[x].val = table[x].val => Rebuilt(h)[x].val = u[x].val
    BY <1>a DEF Puts
<1>. HIDE DEF u
<1>2. UNCHANGED <<cache, mode>>
    BY DEF PutRecord
<1>3. \A x \in Slot : x[1] # s[1] => table'[x] = table[x]
    BY <1>1, SlotsAre
<1>4. table \in [Slot -> Entry] /\ Legal(main) /\ main' \in Seq(Record) /\ Legal(main')
      /\ \A x : File(x) = main
    BY <1>1 DEF StoreInv, TypeOK, SlotsOK, Extended, File, Unmoved, Idle
<1>b. Sound' => Sound /\ "flush" \notin failed'
    BY <1>1 DEF Sound
<1>5. OwnPoints(s)
    <2>. SUFFICES ASSUME NEW x \in Slot, table'[x] # NoEntry
                  PROVE  Stored(x) /\ table'[x].val # None /\ (Sound' => Points(main', x, table'[x]))
        BY DEF OwnPoints
    <2>1. CASE x = s
        BY <1>1, <1>b, <2>1, ValuesAssumption
    <2>2. CASE x # s
        <3>1. table'[x] = table[x]
            BY <1>1, <2>2
        <3>2. Sound' => Points(main, x, table[x])
            BY <1>4, <1>b, <3>1 DEF StoreInv, PointsOK
        <3> QED
            BY <1>1, <1>4, <3>1, <3>2 DEF StoreInv, SlotsOK, Extended
    <2> QED
        BY <2>1, <2>2
<1>6. OwnFollows(s)
    <2>. SUFFICES ASSUME "write" \notin failed', "flush" \notin failed', AllAccepted(main), NoneSwallows(main), NEW x \in Slot
                  PROVE  /\ Rebuilt(main)[x] = table[x] => Rebuilt(main')[x] = table'[x]
                         /\ Rebuilt(main)[x].val = table[x].val => Rebuilt(main')[x].val = table'[x].val
        BY DEF OwnFollows
    <2>1. AllAccepted(h) /\ NoneSwallows(h) /\ Rebuilt(h) \in [Slot -> Entry]
        BY <1>1, RebuildTypes DEF Sealed
    <2>2. Rebuilt(main') = [Rebuilt(h) EXCEPT ![s] = Entered(h, r)]
        <3>1. Rebuilt(Append(h, r)) = [Rebuilt(h) EXCEPT ![s] = Entered(h, r)]
            BY <1>1, <2>1, RebuiltEntered
        <3> QED
            BY <1>1, <3>1
    <2>3. CASE x = s
        BY <1>1, <2>1, <2>2, <2>3
    <2>4. CASE x # s
        BY <1>1, <2>1, <2>2, <2>4
    <2> QED
        BY <2>3, <2>4
<1>7. IF table'[s] = NoEntry THEN v = None ELSE table'[s].val = v
    BY <1>1
<1>8. Single(s) => \A x \in Slot : x[1] = s[1] /\ x # s =>
          table'[x] = NoEntry /\ (v = None \/ Rebuilt(main')[x] = NoEntry)
    BY <1>4, <1>5, OtherSlot DEF OwnPoints
<1>9. OwnTold(s, v)
    BY <1>1, <1>b, <1>7, <1>8 DEF OwnTold
<1>10. Touches(s, v)
    BY <1>1, <1>2, <1>3 DEF Touches
<1> QED
    BY <1>5, <1>6, <1>9, <1>10, KeyStep

\* After a write error the table is the file's, and the cache has what callers were told.
LEMMA PutFailedInv ==
    ASSUME StoreInv, TypeOK', NEW s \in Slot, NEW v \in Values, Stored(s), Idle, Running, PutFailed(s, v),
           told' = [told EXCEPT ![s[1]] = v], UNCHANGED <<phase, tmp, todo, tmpLocked>>
    PROVE  StoreInv'
<1>. DEFINE d == IF table[s] # NoEntry THEN AtMost(dirty + 1, MinDirty) ELSE dirty
<1>0. PICK hid \in HideOutcomes(s) :
          /\ \E log \in Hidden(s, hid) : RebuildKeyTable(log, "ro", d, MinDirty)
          /\ NoteWrites({hid, "write"})
    BY DEF PutFailed
<1>1. PICK log \in Hidden(s, hid) : RebuildKeyTable(log, "ro", d, MinDirty)
    BY <1>0
<1>. HIDE DEF d
<1>2. /\ failed \subseteq failed' /\ failed' \subseteq failed \cup {"write", "flush"}
      /\ "write" \in failed' /\ (hid = "flush" => "flush" \in failed')
    <2>1. {hid, "write"} \subseteq WriteOutcomes \cup {"none"}
        BY DEF HideOutcomes, PutFailed
    <2> QED
        BY <1>0, <2>1, WritesNoted
<1>3. main \in Seq(Record) /\ Legal(main)
    BY DEF StoreInv, TypeOK, SlotsOK
<1>4. Extended(main, log, s[1]) /\ (hid # "flush" => Sealed(main, log))
    BY HiddenOK
<1>5. log \in Seq(Record) /\ Legal(log)
    BY <1>3, <1>4 DEF Extended
<1>6. /\ main' \in Seq(Record) /\ table' = Rebuilt(main') /\ Legal(main')
      /\ mode' \in {"ro", "rw"} /\ ("flush" \notin failed' /\ AllAccepted(main) => AllAccepted(main'))
    BY <1>1, <1>2, <1>4, <1>5, RebuildGives DEF Sealed
<1>7. phase' = "idle" /\ todo' = {} /\ tmp' = tmp
    BY DEF Idle, StoreInv, ModeOK
<1>8. /\ PointsOK' /\ CopyOK' /\ FollowsOK' /\ ValuesOK' /\ AgreesOK'
      /\ \A x \in Slot : table'[x] # NoEntry => Stored(x) /\ table'[x].val # None
    BY <1>6, <1>7, RebuiltFits
<1>9. ModeOK'
    BY <1>2, <1>6, <1>7 DEF StoreInv, ModeOK, Running
<1>10. CacheOK' /\ PlainOK' /\ ToldOK'
    BY <1>2 DEF CacheOK, PlainOK, ToldOK
<1>11. SlotsOK'
    BY <1>6, <1>7, <1>8 DEF SlotsOK, StoreInv
<1>12. AcceptedOK'
    BY <1>2, <1>6 DEF AcceptedOK, StoreInv
<1>13. SettingOK'
    <2>. SUFFICES ASSUME NEW j \in Keys \ (PlainKeys \cup CompressedKeys), cache'[Plain(j)] # None
                  PROVE  told'[j] \in {cache'[Plain(j)], None}
        BY DEF SettingOK
    <2>1. j # s[1] /\ Plain(j) # s /\ Plain(j) \in Slot
        BY SlotsAre DEF Stored
    <2>2. cache'[Plain(j)] = cache[Plain(j)] /\ told'[j] = told[j]
        BY <2>1 DEF PutFailed, Cached, StoreInv, TypeOK
    <2> QED
        BY <2>2 DEF StoreInv, SettingOK
<1> QED
    BY <1>8, <1>9, <1>10, <1>11, <1>12, <1>13 DEF StoreInv

\* Without a file a value goes to the cache and nowhere else.
LEMMA MemPutInv ==
    ASSUME StoreInv, TypeOK', NEW s \in Slot, NEW v \in Values, Stored(s), mode = "mem",
           cache' = Cached(s, v), told' = [told EXCEPT ![s[1]] = v],
           UNCHANGED <<main, table, mode, dirty, failed, phase, tmp, todo, tmpLocked>>
    PROVE  StoreInv'
<1>1. \A x \in Slot : table'[x] = NoEntry
    BY DEF StoreInv, ModeOK, Running, EmptyTable
<1>2. cache \in [Slot -> Values \cup {None}] /\ told \in [Keys -> Values \cup {None}]
    BY DEF StoreInv, TypeOK
<1>3. \A x \in Slot : x # s => cache'[x] = cache[x]
    BY <1>2 DEF Cached
<1>4. ModeOK' /\ SlotsOK'
    BY DEF StoreInv, ModeOK, Running, SlotsOK
<1>5. CacheOK'
    <2>. SUFFICES ASSUME NEW k \in Keys, "write" \notin failed
                  PROVE  /\ cache'[Comp(k)] # None => k \in CompressedKeys
                         /\ cache'[Plain(k)] # None => k \in CachedKeys \/ k \in PlainKeys
        BY DEF CacheOK
    <2>1. /\ Comp(k) = s => k \in CompressedKeys
          /\ Plain(k) = s => k \in PlainKeys
        BY SlotsAre DEF Stored
    <2> QED
        BY <1>3, <2>1, SlotsAre DEF StoreInv, CacheOK
<1>6. SettingOK'
    <2>. SUFFICES ASSUME NEW j \in Keys \ (PlainKeys \cup CompressedKeys), cache'[Plain(j)] # None
                  PROVE  told'[j] \in {cache'[Plain(j)], None}
        BY DEF SettingOK
    <2>1. j # s[1] /\ Plain(j) # s /\ Plain(j) \in Slot
        BY SlotsAre DEF Stored
    <2>2. cache'[Plain(j)] = cache[Plain(j)] /\ told'[j] = told[j]
        BY <1>2, <1>3, <2>1
    <2> QED
        BY <2>2 DEF StoreInv, SettingOK
<1>7. PointsOK' /\ PlainOK'
    BY <1>1, SlotsAre DEF PointsOK, PlainOK
<1>8. AcceptedOK' /\ CopyOK' /\ FollowsOK' /\ ValuesOK' /\ AgreesOK' /\ ToldOK'
    BY DEF AcceptedOK, CopyOK, FollowsOK, ValuesOK, AgreesOK, ToldOK, Running, StoreInv, ModeOK
<1> QED
    BY <1>4, <1>5, <1>6, <1>7, <1>8 DEF StoreInv

\* A put, plain or compressed, whichever way it ends.
LEMMA PutInv ==
    ASSUME StoreInv, TypeOK', NEW s \in Slot, NEW v \in Values, Stored(s), PutEx2(s, v)
    PROVE  StoreInv'
<1>1. Idle /\ told' = [told EXCEPT ![s[1]] = v] /\ UNCHANGED <<phase, tmp, todo, tmpLocked>>
    BY DEF PutEx2, Tell
<1>2. CASE mode = "mem" /\ cache' = Cached(s, v) /\ UNCHANGED <<main, table, mode, dirty, failed>>
    BY <1>1, <1>2, MemPutInv
<1>3. CASE mode # "mem" /\ (PutSame(s, v) \/ PutRecord(s, v) \/ PutFailed(s, v))
    <2>1. Running
        BY <1>1, <1>3 DEF Idle, Running, StoreInv, TypeOK
    <2> QED
        BY <1>1, <1>3, <2>1, PutSameInv, PutRecordInv, PutFailedInv
<1> QED
    BY <1>2, <1>3 DEF PutEx2

\* What a deletion does when the key has an entry.
LEMMA DeletedOK ==
    ASSUME StoreInv, NEW k \in Keys, Delete(k), table[Deleted(k)] # NoEntry
    PROVE  /\ Deleted(k) \in Slot /\ Deleted(k)[1] = k /\ Stored(Deleted(k)) /\ Running
           /\ Extended(main, main', k) /\ ("flush" \notin failed' => Sealed(main, main'))
           /\ failed \subseteq failed' /\ failed' \subseteq failed \cup {"write", "flush"}
           /\ table' = [table EXCEPT ![Deleted(k)] = NoEntry]
           /\ "write" \notin failed' /\ "flush" \notin failed' /\ AllAccepted(main) /\ NoneSwallows(main) =>
                  Rebuilt(main') = [Rebuilt(main) EXCEPT ![Deleted(k)] = NoEntry]
<1>. DEFINE s == Deleted(k)
            w == Tombstone(s)
<1>1. s \in Slot /\ s[1] = k
    BY SlotsAre DEF Deleted
<1>2. Stored(s) /\ Running
    BY <1>1 DEF StoreInv, SlotsOK, ModeOK, EmptyTable
<1>3. PICK out \in WriteOutcomes : main' \in AfterWrite(main, w, out) /\ NoteWrites({out})
    BY DEF Delete
<1>4. /\ failed \subseteq failed' /\ failed' \subseteq failed \cup {"write", "flush"}
      /\ out = "flush" => "flush" \in failed'
      /\ "write" \notin failed' /\ "flush" \notin failed' => out = "written"
    <2>1. {out} \subseteq WriteOutcomes \cup {"none"} /\ out # "none"
        BY OutcomesAre
    <2> QED
        BY <1>2, <1>3, <2>1, WritesNoted
<1>6. w \in Record /\ w.slot = s /\ w.part = "whole" /\ w.val = None /\ main \in Seq(Record)
    BY <1>1, RecordTypes DEF Tombstone, StoreInv, TypeOK
<1>7. table' = [table EXCEPT ![s] = NoEntry]
    BY DEF Delete
<1>. HIDE DEF s, w
<1>8. /\ Extended(main, main', k) /\ (out # "flush" => Sealed(main, main'))
      /\ out = "written" => main' = Append(main, w)
    BY <1>1, <1>2, <1>3, <1>6, WriteExtends
<1>9. AllAccepted(main) /\ NoneSwallows(main) => Rebuilt(Append(main, w)) = [Rebuilt(main) EXCEPT ![s] = NoEntry]
    BY <1>6, RebuiltEntered DEF Accepted, Entered
<1> QED
    BY <1>1, <1>2, <1>4, <1>7, <1>8, <1>9 DEF s

\* A deletion, also one whose tombstone cannot be written.
LEMMA DeleteInv ==
    ASSUME StoreInv, TypeOK', NEW k \in Keys, Delete(k)
    PROVE  StoreInv'
<1>. DEFINE s == Deleted(k)
<1>1. /\ Idle /\ told' = [told EXCEPT ![k] = None] /\ UNCHANGED <<cache, mode, phase, tmp, todo, tmpLocked>>
      /\ table[s] = NoEntry => UNCHANGED <<main, table, failed>>
    BY DEF Delete, Tell
<1>2. /\ s \in Slot /\ s[1] = k /\ table \in [Slot -> Entry] /\ main \in Seq(Record)
      /\ told \in [Keys -> Values \cup {None}]
    BY SlotsAre DEF Deleted, StoreInv, TypeOK
<1>3. table[s] = NoEntry => table[Plain(k)] = NoEntry /\ s = Comp(k)
    BY DEF Deleted
<1>. HIDE DEF s
<1>4. CASE table[s] # NoEntry
    <2>1. /\ Stored(s) /\ Running /\ Extended(main, main', s[1]) /\ ("flush" \notin failed' => Sealed(main, main'))
          /\ failed \subseteq failed' /\ failed' \subseteq failed \cup {"write", "flush"}
          /\ table' = [table EXCEPT ![s] = NoEntry]
          /\ "write" \notin failed' /\ "flush" \notin failed' /\ AllAccepted(main) /\ NoneSwallows(main) =>
                 Rebuilt(main') = [Rebuilt(main) EXCEPT ![s] = NoEntry]
        BY <1>2, <1>4, DeletedOK DEF s
    <2>2. table'[s] = NoEntry /\ \A x \in Slot : x # s => table'[x] = table[x]
        BY <1>2, <2>1
    <2>3. /\ Legal(main) /\ main' \in Seq(Record) /\ Legal(main')
          /\ \A x : File(x) = main
        BY <1>1, <2>1 DEF StoreInv, SlotsOK, Extended, File, Unmoved, Idle
    <2>a. Sound' => Sound
        BY <2>1 DEF Sound
    <2>4. OwnPoints(s)
        <3>. SUFFICES ASSUME NEW x \in Slot, table'[x] # NoEntry
                      PROVE  Stored(x) /\ table'[x].val # None /\ (Sound' => Points(main', x, table'[x]))
            BY DEF OwnPoints
        <3>1. table'[x] = table[x]
            BY <2>2
        <3>2. Sound' => Points(main, x, table[x])
            BY <2>3, <2>a, <3>1 DEF StoreInv, PointsOK
        <3> QED
            BY <1>2, <2>1, <3>1, <3>2 DEF StoreInv, SlotsOK, Extended
    <2>5. OwnFollows(s)
        <3>. SUFFICES ASSUME "write" \notin failed', "flush" \notin failed', AllAccepted(main), NoneSwallows(main), NEW x \in Slot
                      PROVE  /\ Rebuilt(main)[x] = table[x] => Rebuilt(main')[x] = table'[x]
                             /\ Rebuilt(main)[x].val = table[x].val => Rebuilt(main')[x].val = table'[x].val
            BY DEF OwnFollows
        <3>1. Rebuilt(main) \in [Slot -> Entry]
            BY <1>2, RebuildTypes
        <3>2. CASE x = s
            BY <1>2, <2>1, <2>2, <3>1, <3>2
        <3>3. CASE x # s
            BY <1>2, <2>1, <2>2, <3>1, <3>3
        <3> QED
            BY <3>2, <3>3
    <2>6. Single(s) => \A x \in Slot : x[1] = s[1] /\ x # s => table'[x] = NoEntry
        BY <1>2, <2>1, <2>3, <2>4, OtherSlot DEF OwnPoints
    <2>7. OwnTold(s, None)
        BY <2>2, <2>6 DEF OwnTold
    <2>8. Touches(s, None)
        BY <1>1, <1>2, <2>1, <2>2 DEF Touches
    <2> QED
        BY <1>2, <2>4, <2>5, <2>7, <2>8, KeyStep
<1>5. CASE table[s] = NoEntry /\ Running
    <2>1. UNCHANGED <<main, table, failed>>
        BY <1>1, <1>5
    <2>2. \A x \in Slot : x[1] = s[1] => table[x] = NoEntry
        BY <1>2, <1>3, <1>5, SlotsAre
    <2>3. Extended(main, main', s[1]) /\ Sealed(main, main')
        BY <1>2, <2>1, ExtendedNot
    <2>4. OwnPoints(s) /\ OwnFollows(s) /\ OwnTold(s, None)
        BY <1>2, <2>1, <2>2 DEF OwnPoints, OwnFollows, OwnTold
    <2>5. Touches(s, None)
        BY <1>1, <1>2, <1>5, <2>1, <2>3 DEF Touches
    <2> QED
        BY <1>2, <2>4, <2>5, KeyStep
<1>6. CASE table[s] = NoEntry /\ ~ Running
    <2>1. UNCHANGED <<main, table, failed>>
        BY <1>1, <1>6
    <2>2. \A x \in Slot : table[x] = NoEntry
        BY <1>6 DEF StoreInv, ModeOK, EmptyTable
    <2>3. ModeOK' /\ CacheOK' /\ SlotsOK' /\ PointsOK'
        BY <1>1, <2>1 DEF StoreInv, ModeOK, CacheOK, SlotsOK, PointsOK, Running, Sound, File, Unmoved
    <2>4. SettingOK'
        BY <1>1, <1>2 DEF StoreInv, SettingOK
    <2>5. PlainOK'
        BY <2>1, <2>2, SlotsAre DEF PlainOK
    <2>6. AcceptedOK' /\ CopyOK' /\ FollowsOK' /\ ValuesOK' /\ AgreesOK' /\ ToldOK'
        BY <1>1, <1>6 DEF AcceptedOK, CopyOK, FollowsOK, ValuesOK, AgreesOK, ToldOK, Running, Idle
    <2> QED
        BY <2>3, <2>4, <2>5, <2>6 DEF StoreInv
<1> QED
    BY <1>4, <1>5, <1>6

-----------------------------------------------------------------------------
(* Crashes: the file has more records of the key, the last of them perhaps torn *)

\* What a process that dies leaves is the file, with records of one key behind it.
LEMMA DiesExtends ==
    ASSUME StoreInv, NEW writes \in Seq(Record), Len(writes) \in 0 .. 2, NEW k \in Keys, DiesWriting(writes),
           \A i \in DOMAIN writes :
               Stored(writes[i].slot) /\ writes[i].slot[1] = k /\ writes[i].part = "whole"
    PROVE  Extended(main, main', k)
<1>1. PICK n \in DOMAIN writes, part \in Tears \cup {"whole"} :
          /\ part = "value" => writes[n].val # None
          /\ main' = main \o SubSeq(writes, 1, n - 1) \o <<PartOf(writes[n], part)>>
    BY DEF DiesWriting
<1>. DEFINE r == PartOf(writes[n], part)
<1>2. DOMAIN writes = 1 .. Len(writes) /\ n \in {1, 2} /\ writes[n] \in Record /\ writes[1] \in Record
    OBVIOUS
<1>3. part \in {"whole", "header", "value", "garbled"}
    BY ParametersAssumption
<1>4. r \in Record /\ Stored(r.slot) /\ r.slot[1] = k /\ (r.part = "value" => r.val # None)
    BY <1>1, <1>2, <1>3 DEF Record, PartOf
<1>5. main \in Seq(Record)
    BY DEF StoreInv, TypeOK
<1>. HIDE DEF r
<1>6. CASE n = 1
    <2>1. SubSeq(writes, 1, n - 1) = <<>>
        BY <1>6
    <2>2. main' = Append(main, r)
        BY <1>1, <1>4, <1>5, <2>1 DEF r
    <2> QED
        BY <1>4, <1>5, <2>2, ExtendedOnce
<1>7. CASE n = 2
    <2>. DEFINE h == Append(main, writes[1])
                q == SubSeq(writes, 1, n - 1)
    <2>0. q \in Seq(Record) /\ Len(q) = 1 /\ q[1] = writes[1]
        <3>1. \A i \in 1 .. 1 : writes[i] \in Record
            BY <1>2
        <3> QED
            BY <1>7, <3>1, SubSeqProperties
    <2>1. main \o q = h
        <3>. HIDE DEF q
        <3>1. /\ main \o q \in Seq(Record) /\ Len(main \o q) = Len(main) + 1
              /\ \A i \in 1 .. Len(main) + 1 : (main \o q)[i] = IF i <= Len(main) THEN main[i] ELSE q[i - Len(main)]
            <4>1. main \o q \in Seq(Record)
                BY <1>5, <2>0, ConcatProperties
            <4>2. Len(main \o q) = Len(main) + Len(q)
                BY <1>5, <2>0, ConcatProperties
            <4>3. \A i \in 1 .. Len(main) + Len(q) :
                      (main \o q)[i] = IF i <= Len(main) THEN main[i] ELSE q[i - Len(main)]
                BY <1>5, <2>0, ConcatProperties
            <4> QED
                BY <2>0, <4>1, <4>2, <4>3
        <3>2. /\ h \in Seq(Record) /\ Len(h) = Len(main) + 1 /\ Len(main) \in Nat
              /\ \A i \in 1 .. Len(main) : h[i] = main[i]
              /\ h[Len(main) + 1] = writes[1]
            BY <1>2, <1>5, Appended
        <3>. HIDE DEF h
        <3>3. \A i \in 1 .. Len(main) + 1 : (main \o q)[i] = h[i]
            BY <2>0, <3>1, <3>2
        <3> QED
            BY <3>1, <3>2, <3>3, SeqEqual
    <2>2. main' = Append(h, r)
        <3>1. main' = h \o <<r>>
            BY <1>1, <2>1 DEF r
        <3>2. h \in Seq(Record)
            BY <1>2, <1>5, Appended
        <3>. HIDE DEF h
        <3> QED
            BY <1>4, <3>1, <3>2
    <2>3. Extended(main, h, k)
        BY <1>2, <1>5, ExtendedOnce
    <2>. HIDE DEF h
    <2>4. Extended(h, main', k)
        BY <1>4, <2>2, <2>3, ExtendedOnce DEF Extended
    <2> QED
        BY <2>3, <2>4, ExtendedTwice
<1> QED
    BY <1>2, <1>6, <1>7

\* A process dies in an operation on one key.
LEMMA DiesOK ==
    ASSUME StoreInv, NEW k \in Keys,
           DiesInDelete(k) \/ \E v \in Values : DiesInPut(k, v) \/ DiesInPutCompressed(k, v)
    PROVE  Extended(main, main', k) /\ Ended /\ mode = "rw"
<1>1. Plain(k) \in Slot /\ Comp(k) \in Slot /\ Plain(k)[1] = k /\ Comp(k)[1] = k
          /\ Plain(k)[2] = "plain" /\ Comp(k)[2] = "comp"
    BY SlotsAre
<1>2. ASSUME NEW s \in Slot, Stored(s), s[1] = k, NEW v \in Values, DiesInPutEx2(s, v)
      PROVE  Extended(main, main', k) /\ Ended /\ mode = "rw"
    <2>. DEFINE p == <<Tombstone(Plain(k))>>
                w == <<Value(s, v)>>
                a == IF Hides(s) THEN p ELSE <<>>
                b == IF Same(s, v) THEN <<>> ELSE w
    <2>0. /\ Tombstone(Plain(k)) \in Record /\ Tombstone(Plain(k)).slot = Plain(k)
          /\ Value(s, v) \in Record /\ Value(s, v).slot = s
          /\ Tombstone(Plain(k)).part = "whole" /\ Value(s, v).part = "whole"
        <3>1. Tombstone(Plain(k)) \in Record /\ Value(s, v) \in Record
            BY <1>1, RecordTypes
        <3>2. /\ Tombstone(Plain(k)).slot = Plain(k) /\ Value(s, v).slot = s
              /\ Tombstone(Plain(k)).part = "whole" /\ Value(s, v).part = "whole"
            BY DEF Tombstone, Value
        <3> QED
            BY <3>1, <3>2
    <2>1. /\ p \in Seq(Record) /\ Len(p) = 1 /\ p[1].slot = Plain(k) /\ p[1].part = "whole"
          /\ w \in Seq(Record) /\ Len(w) = 1 /\ w[1].slot = s /\ w[1].part = "whole"
        BY <2>0
    <2>2. Hides(s) => Stored(Plain(k))
        BY <1>1, <1>2 DEF Hides, StoreInv, SlotsOK
    <2>3. DiesWriting(a \o b)
        BY <1>2 DEF DiesInPutEx2
    <2>. HIDE DEF p, w
    <2>4. /\ a \in Seq(Record) /\ Len(a) \in {0, 1}
          /\ \A i \in 1 .. Len(a) : Stored(a[i].slot) /\ a[i].slot[1] = k /\ a[i].part = "whole"
        <3>1. CASE Hides(s)
            <4>1. a = p
                BY <3>1
            <4>2. \A i \in 1 .. 1 : Stored(p[i].slot) /\ p[i].slot[1] = k /\ p[i].part = "whole"
                BY <1>1, <2>1, <2>2, <3>1
            <4> QED
                BY <2>1, <4>1, <4>2
        <3>2. CASE ~ Hides(s)
            BY <3>2
        <3> QED
            BY <3>1, <3>2
    <2>5. /\ b \in Seq(Record) /\ Len(b) \in {0, 1}
          /\ \A i \in 1 .. Len(b) : Stored(b[i].slot) /\ b[i].slot[1] = k /\ b[i].part = "whole"
        <3>1. CASE Same(s, v)
            BY <3>1
        <3>2. CASE ~ Same(s, v)
            <4>1. b = w
                BY <3>2
            <4>2. \A i \in 1 .. 1 : Stored(w[i].slot) /\ w[i].slot[1] = k /\ w[i].part = "whole"
                BY <1>2, <2>1
            <4> QED
                BY <2>1, <4>1, <4>2
        <3> QED
            BY <3>1, <3>2
    <2>. HIDE DEF a, b
    <2>6. a \o b \in Seq(Record) /\ Len(a \o b) = Len(a) + Len(b)
        BY <2>4, <2>5, ConcatProperties
    <2>7. \A i \in DOMAIN (a \o b) :
              Stored((a \o b)[i].slot) /\ (a \o b)[i].slot[1] = k /\ (a \o b)[i].part = "whole"
        BY <2>4, <2>5
    <2>8. Len(a \o b) \in 0 .. 2
        BY <2>4, <2>5, <2>6
    <2> QED
        BY <2>3, <2>6, <2>7, <2>8, DiesExtends DEF DiesWriting
<1>3. ASSUME DiesInDelete(k)
      PROVE  Extended(main, main', k) /\ Ended /\ mode = "rw"
    <2>. DEFINE w == <<Tombstone(Deleted(k))>>
    <2>1. Deleted(k) \in Slot /\ Deleted(k)[1] = k
        BY <1>1 DEF Deleted
    <2>2. Stored(Deleted(k))
        BY <1>3, <2>1 DEF DiesInDelete, StoreInv, SlotsOK
    <2>3. w \in Seq(Record) /\ Len(w) = 1 /\ DOMAIN w = 1 .. 1 /\ w[1].slot = Deleted(k)
          /\ w[1].part = "whole" /\ DiesWriting(w)
        BY <1>3, <2>1, RecordTypes DEF DiesInDelete, Tombstone
    <2>. HIDE DEF w
    <2> QED
        BY <2>1, <2>2, <2>3, DiesExtends DEF DiesWriting
<1> QED
    BY <1>1, <1>2, <1>3 DEF DiesInPut, DiesInPutCompressed, Stored

-----------------------------------------------------------------------------
(* StoreInv is inductive *)

\* The store begins without a file and without a process.
LEMMA StoreInit == Init => StoreInv
<1>. SUFFICES ASSUME Init PROVE StoreInv
    OBVIOUS
<1>1. <<>> \in Seq(Record) /\ 0 \in 0 .. MinDirty
    BY ParametersAssumption
<1>2. TypeOK
    BY <1>1, EntryTypes DEF Init, TypeOK
<1>3. \A s \in Slot : table[s] = NoEntry /\ cache[s] = None
    BY DEF Init, EmptyTable, EmptyCache
<1>4. ModeOK
    BY DEF Init, ModeOK, Running
<1>5. CacheOK /\ SettingOK
    BY <1>3, SlotsAre DEF CacheOK, SettingOK
<1>6. SlotsOK
    BY <1>3 DEF Init, SlotsOK, Legal
<1>7. PointsOK /\ AcceptedOK /\ CopyOK /\ FollowsOK /\ ValuesOK /\ AgreesOK
    BY <1>3 DEF Init, PointsOK, AcceptedOK, CopyOK, FollowsOK, ValuesOK, AgreesOK, Running
<1>8. PlainOK /\ ToldOK
    BY <1>3, SlotsAre DEF Init, PlainOK, ToldOK
<1> QED
    BY <1>2, <1>4, <1>5, <1>6, <1>7, <1>8 DEF StoreInv

\* The slots that PutEx and PutCompressed write to.
LEMMA PutSlots ==
    \A k \in Keys : /\ k \in PlainKeys <=> Stored(Plain(k))
                    /\ k \in CompressedKeys <=> Stored(Comp(k))
BY SlotsAre DEF Stored

\* Every step preserves the invariant.
LEMMA StoreStep ==
    ASSUME StoreInv, [Next]_vars
    PROVE  StoreInv'
<1>0. TypeOK'
    BY TypeStep DEF StoreInv
<1>1. CASE Open
    BY <1>0, <1>1, OpenInv
<1>2. CASE Stop
    BY <1>2, EndedInv DEF Stop, StoreInv, TypeOK, SlotsOK
<1>3. ASSUME NEW k \in Keys, NEW v \in Values, Put(k, v) \/ PutCompressed(k, v) PROVE StoreInv'
    BY <1>0, <1>3, PutInv, PutSlots, SlotsAre DEF Put, PutCompressed
<1>4. ASSUME NEW k \in Keys, NEW v \in Values, PutCached(k, v) PROVE StoreInv'
    BY <1>0, <1>4, CachedInv
<1>5. ASSUME NEW k \in Keys,
             DiesInDelete(k) \/ \E v \in Values : DiesInPut(k, v) \/ DiesInPutCompressed(k, v)
      PROVE  StoreInv'
    <2>1. Extended(main, main', k) /\ Ended
        BY <1>5, DiesOK
    <2> QED
        BY <2>1, EndedInv DEF Extended, StoreInv, SlotsOK
<1>6. ASSUME NEW k \in Keys, Delete(k) PROVE StoreInv'
    BY <1>0, <1>6, DeleteInv
<1>7. CASE CompactStart \/ CompactCopyFails \/ CompactReplace
    BY <1>0, <1>7, CompactStartInv, CompactCopyFailsInv, CompactReplaceInv
<1>8. ASSUME NEW s \in Slot, CompactCopy(s) \/ CompactHangs(s) PROVE StoreInv'
    BY <1>0, <1>8, CompactCopyInv, CompactHangsInv
<1>9. CASE UNCHANGED vars
    BY <1>9 DEF vars, StoreInv, TypeOK, ModeOK, CacheOK, SettingOK, SlotsOK, PointsOK, AcceptedOK, CopyOK,
       FollowsOK, ValuesOK, AgreesOK, PlainOK, ToldOK, Running, Sound, File, Unmoved, Uncached
<1> QED
    BY <1>1, <1>2, <1>3, <1>4, <1>5, <1>6, <1>7, <1>8, <1>9 DEF Next

\* Whatever fails and wherever a crash hits, the table and the file are as StoreInv says.
THEOREM StoreInvAlways == Spec => []StoreInv
BY StoreInit, StoreStep, PTL DEF Spec

-----------------------------------------------------------------------------
(* What Get answers *)

\* Of a key with at most one entry, that entry is the one that is read.
LEMMA OneEntry ==
    ASSUME NEW log \in Seq(Record), NEW tbl, NEW k \in Keys
    PROVE  /\ tbl[Comp(k)] = NoEntry => FileGet(log, tbl, k) = ReadBack(log, Plain(k), tbl[Plain(k)])
           /\ tbl[Plain(k)] = NoEntry => FileGet(log, tbl, k) = ReadBack(log, Comp(k), tbl[Comp(k)])
           /\ tbl[Plain(k)] # NoEntry => FileGet(log, tbl, k) = ReadBack(log, Plain(k), tbl[Plain(k)])
           /\ \A s : ReadBack(log, s, NoEntry) = None
<1>1. \A s : ReadBack(log, s, NoEntry) = None
    <2>1. NoEntry.off \notin DOMAIN log
        BY DEF NoEntry
    <2> QED
        BY <2>1 DEF ReadBack
<1> QED
    BY <1>1 DEF FileGet

\* What is read at an entry is its value or nothing; of a plain record, or a compressed
\* one that no crash has torn, it is the value.
LEMMA EntryReads ==
    ASSUME NEW log \in Seq(Record), NEW k \in Keys, NEW s \in {Plain(k), Comp(k)}, NEW e
    PROVE  /\ ReadBack(log, s, e) \in {e.val, None}
           /\ (/\ Points(log, s, e)
               /\ \A i \in DOMAIN log : log[i].slot = Comp(k) => log[i].part \notin {"value", "garbled"})
              => ReadBack(log, s, e) = e.val
<1>1. ReadBack(log, s, e) \in {e.val, None}
    BY DEF ReadBack
<1>2. ASSUME Points(log, s, e),
             \A i \in DOMAIN log : log[i].slot = Comp(k) => log[i].part \notin {"value", "garbled"}
      PROVE  ReadBack(log, s, e) = e.val
    <2>1. log[e.off].part = "whole"
        BY <1>2, SlotsAre DEF Points, Accepted
    <2> QED
        BY <1>2, <2>1, ReadBackPoints
<1> QED
    BY <1>1, <1>2

\* The parts of StoreInv that the properties read, of a store between two operations.
LEMMA IdleIs ==
    ASSUME StoreInv, Idle
    PROVE  /\ \A s : File(s) = main /\ Unmoved(s)
           /\ main \in Seq(Record) /\ table \in [Slot -> Entry]
           /\ mode # "mem" => Running
           /\ mode # "mem" /\ "write" \notin failed => mode = "rw"
           /\ mode = "mem" => \A s \in Slot : table[s] = NoEntry
           /\ \A s \in Slot : table[s] # NoEntry => Stored(s)
BY DEF StoreInv, Idle, File, Unmoved, TypeOK, Running, ModeOK, SlotsOK, EmptyTable

\* The invariant says that index and file agree.
LEMMA IndexMatchesFileHolds == StoreInv => IndexMatchesFile
<1>. SUFFICES ASSUME StoreInv, Idle, mode # "mem", failed = {}, ~ Swallows
              PROVE  table = Rebuilt(main)
    BY DEF IndexMatchesFile
<1>1. NoneSwallows(main)
    BY DEF Swallows, NoneSwallows
<1>2. \A s \in Slot : table[s] = Rebuilt(main)[s]
    BY <1>1, IdleIs DEF StoreInv, FollowsOK, Idle
<1> QED
    BY <1>2, IdleIs, RebuildTypes

\* The invariant says that the file does not answer with an older value.
LEMMA NeverStaleHolds == StoreInv => NeverStale
<1>. SUFFICES ASSUME StoreInv, Idle, "write" \notin failed, NEW k \in Keys \ (PlainKeys \cap CompressedKeys),
                     cache[Plain(k)] = None, cache[Comp(k)] = None,
                     k \in CompressedKeys => failed \cap {"flush", "copy", "rename"} = {}
              PROVE  Get(k) \in {told[k], None}
    BY DEF NeverStale
<1>1. Get(k) = FileGet(main, table, k)
    BY DEF Get
<1>2. Plain(k) \in Slot /\ Comp(k) \in Slot
    BY SlotsAre
<1>3. main \in Seq(Record)
    BY IdleIs
<1>4. CASE table[Plain(k)] = NoEntry /\ table[Comp(k)] = NoEntry
    BY <1>1, <1>3, <1>4, OneEntry
<1>5. CASE table[Plain(k)] # NoEntry
    <2>1. k \notin CompressedKeys
        BY <1>2, <1>5, IdleIs, PutSlots
    <2>2. table[Plain(k)].val = told[k]
        BY <1>5, <2>1 DEF StoreInv, PlainOK
    <2>3. FileGet(main, table, k) = ReadBack(main, Plain(k), table[Plain(k)])
        BY <1>3, <1>5, OneEntry
    <2> QED
        BY <1>1, <1>3, <2>2, <2>3, EntryReads
<1>6. CASE table[Plain(k)] = NoEntry /\ table[Comp(k)] # NoEntry
    <2>1. k \in CompressedKeys /\ mode = "rw"
        BY <1>2, <1>6, IdleIs, PutSlots
    <2>2. failed \subseteq {"convert"}
        BY <2>1 DEF StoreInv, TypeOK
    <2>3. table[Comp(k)].val = told[k] \/ ReadBack(main, Comp(k), table[Comp(k)]) = None
        BY <1>6, <2>1, <2>2, IdleIs DEF StoreInv, ToldOK, Uncached
    <2>4. FileGet(main, table, k) = ReadBack(main, Comp(k), table[Comp(k)])
        BY <1>3, <1>6, OneEntry
    <2> QED
        BY <1>1, <1>3, <2>3, <2>4, EntryReads
<1> QED
    BY <1>4, <1>5, <1>6

\* The invariant says that Get answers what the callers were told.
LEMMA ReadsAsToldHolds == StoreInv => ReadsAsTold
<1>. SUFFICES ASSUME StoreInv, Idle, mode # "mem", failed \subseteq {"convert"},
                     NEW k \in Keys \ (PlainKeys \cap CompressedKeys),
                     Intact(k), Uncached(k) \/ k \notin PlainKeys \cup CompressedKeys
              PROVE  Get(k) = told[k] \/ (k \in CachedKeys /\ told[k] = None)
    BY DEF ReadsAsTold
<1>1. mode = "rw" /\ main \in Seq(Record) /\ Sound
    BY IdleIs DEF Sound
<1>2. Plain(k) \in Slot /\ Comp(k) \in Slot
    BY SlotsAre
<1>3. cache[Comp(k)] = None /\ (cache[Plain(k)] # None => k \in CachedKeys)
    BY <1>1 DEF StoreInv, CacheOK
<1>4. CASE cache[Plain(k)] # None
    <2>1. k \notin PlainKeys \cup CompressedKeys
        BY <1>3, <1>4 DEF Uncached
    <2>2. told[k] \in {cache[Plain(k)], None}
        BY <1>4, <2>1 DEF StoreInv, SettingOK
    <2>3. Get(k) = cache[Plain(k)]
        BY <1>4 DEF Get
    <2> QED
        BY <1>3, <1>4, <2>2, <2>3
<1>5. CASE cache[Plain(k)] = None
    <2>1. Get(k) = FileGet(main, table, k) /\ Uncached(k)
        BY <1>3, <1>5 DEF Get, Uncached
    <2>2. /\ table[Plain(k)] = NoEntry /\ table[Comp(k)] = NoEntry => told[k] = None
          /\ \A s \in {Plain(k), Comp(k)} : table[s] # NoEntry =>
                 table[s].val = told[k] \/ ReadBack(main, s, table[s]) = None
        BY <1>1, <2>1, IdleIs DEF StoreInv, ToldOK
    <2>3. ASSUME NEW s \in {Plain(k), Comp(k)}, table[s] # NoEntry
          PROVE  ReadBack(main, s, table[s]) = told[k]
        <3>1. Points(main, s, table[s]) /\ table[s].val # None
            BY <1>1, <1>2, <2>3, IdleIs DEF StoreInv, PointsOK, SlotsOK
        <3>2. ReadBack(main, s, table[s]) = table[s].val
            BY <1>1, <3>1, EntryReads DEF Intact
        <3> QED
            BY <2>2, <2>3, <3>1, <3>2
    <2>4. CASE table[Plain(k)] # NoEntry
        BY <1>1, <2>1, <2>3, <2>4, OneEntry
    <2>5. CASE table[Plain(k)] = NoEntry /\ table[Comp(k)] # NoEntry
        BY <1>1, <2>1, <2>3, <2>5, OneEntry
    <2>6. CASE table[Plain(k)] = NoEntry /\ table[Comp(k)] = NoEntry
        BY <1>1, <2>1, <2>2, <2>6, OneEntry
    <2> QED
        BY <2>4, <2>5, <2>6
<1> QED
    BY <1>4, <1>5

\* The table of a running store is the one that opening its file anew would build.
THEOREM IndexMatchesFileAlways == Spec => []IndexMatchesFile
BY StoreInvAlways, IndexMatchesFileHolds, PTL

\* Get answers what the callers of Put, PutCompressed, Cached and Delete were told.
THEOREM ReadsAsToldAlways == Spec => []ReadsAsTold
BY StoreInvAlways, ReadsAsToldHolds, PTL

\* Whatever else failed, the file never answers with a value that was replaced since.
THEOREM NeverStaleAlways == Spec => []NeverStale
BY StoreInvAlways, NeverStaleHolds, PTL

-----------------------------------------------------------------------------
(* What a put leaves behind *)

\* What the three ways of a put in a running store leave in the table and in the file.
LEMMA PutLeaves ==
    ASSUME StoreInv, NEW s \in Slot, NEW v \in Values, Stored(s), Idle, Running, "write" \notin failed,
           PutSame(s, v) \/ PutRecord(s, v)
    PROVE  /\ Extended(main, main', s[1])
           /\ table'[s] # NoEntry /\ table'[s].val = v
           /\ s[2] = "comp" => table'[Plain(s[1])] = NoEntry
           /\ ReadBack(main', s, table'[s]) \in {v, None}
           /\ Sound' /\ Sound /\ Intact(s[1]) => ReadBack(main', s, table'[s]) = v
<1>1. main \in Seq(Record) /\ s[1] \in Keys /\ s \in {Plain(s[1]), Comp(s[1])} /\ table \in [Slot -> Entry]
    BY IdleIs, SlotsAre
<1>2. CASE PutSame(s, v)
    <2>1. PICK hid \in HideOutcomes(s) : main' \in Hidden(s, hid)
        BY <1>2 DEF PutSame
    <2>2. table' = Uncovered(s) /\ table[s] # NoEntry /\ table[s].val = v
        BY <1>2 DEF PutSame, Same
    <2>3. /\ Extended(main, main', s[1]) /\ table'[s] = table[s]
          /\ s[2] = "comp" => table'[Plain(s[1])] = NoEntry
        BY <2>1, <2>2, HiddenOK
    <2>4. ASSUME Sound, Intact(s[1]) PROVE ReadBack(main', s, table'[s]) = v
        <3>1. Points(main, s, table[s])
            BY <2>2, <2>4, IdleIs DEF StoreInv, PointsOK
        <3>2. ReadBack(main, s, table[s]) = v
            BY <1>1, <2>2, <2>4, <3>1, EntryReads DEF Intact
        <3> QED
            BY <1>1, <2>3, <3>1, <3>2 DEF Extended
    <2>5. ReadBack(main', s, table'[s]) \in {v, None}
        BY <2>2, <2>3 DEF ReadBack
    <2> QED
        BY <2>2, <2>3, <2>4, <2>5
<1>3. CASE PutRecord(s, v)
    <2>1. PICK h, r : Puts(s, v, h, r)
        BY <1>3, RecordIs
    <2>2. s[2] = "comp" => Plain(s[1]) # s /\ Plain(s[1]) \in Slot
        BY SlotsAre
    <2>3. ReadBack(main', s, table'[s]) \in {v, None}
        BY <2>1 DEF Puts, ReadBack
    <2> QED
        BY <2>1, <2>2, <2>3 DEF Puts, Sound
<1> QED
    BY <1>2, <1>3

\* A value that was put is read.
LEMMA PutIsReadStep ==
    ASSUME StoreInv, NEW s \in Slot, NEW v \in Values, Stored(s), PutEx2(s, v),
           failed \cap {"write", "copy", "rename"} = {}, Intact(s[1]), Uncached(s[1]),
           mode = "mem" => s[1] \notin PlainKeys \cap CompressedKeys,
           Unquote[v] # v => mode = "rw" /\ "write" \notin failed'
    PROVE  Get(s[1])' = v \/ ("flush" \in failed' /\ Get(s[1])' = None)
<1>. DEFINE k == s[1]
<1>1. /\ k \in Keys /\ Plain(k) \in Slot /\ Comp(k) \in Slot /\ Plain(k) # Comp(k) /\ v # None
      /\ (s = Plain(k) /\ s[2] = "plain") \/ (s = Comp(k) /\ s[2] = "comp")
    BY SlotsAre, ValuesAssumption
<1>2. Idle /\ cache \in [Slot -> Values \cup {None}] /\ "write" \notin failed
    BY DEF PutEx2, StoreInv, TypeOK
<1>3. cache[Plain(k)] # None => mode = "mem" /\ k \in PlainKeys
    BY <1>1, <1>2 DEF StoreInv, CacheOK, Uncached
<1>4. s[2] = "comp" => cache[Plain(k)] = None
    BY <1>1, <1>3, PutSlots
<1>5. ASSUME cache' = Cached(s, v), Unquote[v] # v => s[2] = "comp" PROVE Get(k)' = v
    <2>1. cache'[s] = v /\ \A x \in Slot : x # s => cache'[x] = cache[x]
        BY <1>1, <1>2, <1>5 DEF Cached
    <2> QED
        BY <1>1, <1>4, <2>1 DEF Get
<1>6. CASE mode = "mem" /\ cache' = Cached(s, v) /\ UNCHANGED <<main, table, mode, dirty, failed>>
    BY <1>5, <1>6
<1>7. CASE mode # "mem" /\ PutFailed(s, v)
    <2>1. "write" \in failed'
        BY <1>2, <1>7, IdleIs DEF PutFailed, NoteWrites
    <2> QED
        BY <1>5, <1>7, <2>1 DEF PutFailed
<1>8. CASE mode # "mem" /\ (PutSame(s, v) \/ PutRecord(s, v))
    <2>1. cache'[Plain(k)] = None /\ cache'[Comp(k)] = None
        BY <1>1, <1>2, <1>3, <1>8 DEF StoreInv, CacheOK, PutSame, PutRecord
    <2>2. Get(k)' = FileGet(main', table', k)
        BY <2>1 DEF Get
    <2>3. /\ Extended(main, main', k) /\ table'[s] # NoEntry
          /\ s[2] = "comp" => table'[Plain(k)] = NoEntry
          /\ ReadBack(main', s, table'[s]) \in {v, None}
          /\ Sound' /\ Sound => ReadBack(main', s, table'[s]) = v
        BY <1>2, <1>8, IdleIs, PutLeaves
    <2>7. failed \subseteq failed' /\ failed' \subseteq failed \cup {"write", "flush"}
        BY <1>8, OutcomesAre DEF PutSame, PutRecord
    <2>8. "flush" \notin failed' => Sound' /\ Sound
        BY <2>7 DEF Sound
    <2>9. ReadBack(main', s, table'[s]) = v \/ ("flush" \in failed' /\ ReadBack(main', s, table'[s]) = None)
        BY <2>3, <2>8
    <2>4. main' \in Seq(Record)
        BY <2>3 DEF Extended
    <2>5. CASE s = Plain(k)
        BY <1>1, <2>2, <2>3, <2>4, <2>5, <2>9, OneEntry
    <2>6. CASE s = Comp(k) /\ s[2] = "comp"
        BY <1>1, <2>2, <2>3, <2>4, <2>6, <2>9, OneEntry
    <2> QED
        BY <1>1, <2>5, <2>6
<1> QED
    BY <1>6, <1>7, <1>8 DEF PutEx2

\* A value that was put is the one that Get answers from then on.
THEOREM PutIsReadAlways == Spec => PutIsRead
<1>1. ASSUME StoreInv, NEW k \in Keys, NEW v \in Values, Put(k, v) \/ PutCompressed(k, v),
             failed \cap {"write", "copy", "rename"} = {}, Intact(k), Uncached(k),
             mode = "mem" => k \notin PlainKeys \cap CompressedKeys,
             Unquote[v] # v => mode = "rw" /\ "write" \notin failed'
      PROVE  Get(k)' = v \/ ("flush" \in failed' /\ Get(k)' = None)
    <2>1. CASE Put(k, v)
        <3>1. Stored(Plain(k)) /\ PutEx2(Plain(k), v) /\ Plain(k) \in Slot /\ Plain(k)[1] = k
            BY <2>1, PutSlots, SlotsAre DEF Put
        <3> QED
            BY <1>1, <3>1, PutIsReadStep
    <2>2. CASE PutCompressed(k, v)
        <3>1. Stored(Comp(k)) /\ PutEx2(Comp(k), v) /\ Comp(k) \in Slot /\ Comp(k)[1] = k
            BY <2>2, PutSlots, SlotsAre DEF PutCompressed
        <3> QED
            BY <1>1, <3>1, PutIsReadStep
    <2> QED
        BY <1>1, <2>1, <2>2
<1>2. StoreInv => [\A k \in Keys, v \in Values :
          /\ Put(k, v) \/ PutCompressed(k, v)
          /\ failed \cap {"write", "copy", "rename"} = {}
          /\ Intact(k) /\ Uncached(k)
          /\ mode = "mem" => k \notin PlainKeys \cap CompressedKeys
          /\ Unquote[v] # v => mode = "rw" /\ "write" \notin failed'
          => Get(k)' = v \/ ("flush" \in failed' /\ Get(k)' = None)]_vars
    BY <1>1
<1> QED
    BY <1>2, StoreInvAlways, PTL DEF PutIsRead

\* If the table has the values of the file, a put adds the value to both.
LEMMA PutIsDurableStep ==
    ASSUME StoreInv, NEW s \in Slot, NEW v \in Values, Stored(s), PutEx2(s, v),
           mode = "rw", failed' \subseteq {"copy"}, ~ Swallows, Intact(s[1])
    PROVE  Durable(s[1])' = v
<1>. DEFINE k == s[1]
            p == Plain(k)
<1>1. /\ k \in Keys /\ p \in Slot /\ Comp(k) \in Slot /\ p # Comp(k) /\ p[2] = "plain" /\ v # None
      /\ (s = p /\ s[2] = "plain") \/ (s = Comp(k) /\ s[2] = "comp")
    BY SlotsAre, ValuesAssumption
<1>2. Idle /\ Running /\ NoneSwallows(main) /\ "write" \notin failed' /\ "flush" \notin failed'
    BY DEF PutEx2, Running, Swallows, NoneSwallows
<1>3. PutSame(s, v) \/ PutRecord(s, v)
    BY <1>2 DEF PutEx2, PutFailed, NoteWrites
<1>4. failed \subseteq {"copy"}
    BY <1>3, OutcomesAre DEF PutSame, PutRecord
<1>5. AllAccepted(main) /\ \A x \in Slot : table[x].val = Rebuilt(main)[x].val
    BY <1>2, <1>4 DEF StoreInv, AcceptedOK, ValuesOK
<1>6. /\ main' \in Seq(Record) /\ Rebuilt(main')[s] # NoEntry
      /\ s[2] = "comp" => Rebuilt(main')[p].val = None
      /\ ReadBack(main', s, Rebuilt(main')[s]) = v
    <2>1. CASE PutSame(s, v)
        <3>1. PICK hid \in HideOutcomes(s) : main' \in Hidden(s, hid) /\ NoteWrites({hid})
            BY <2>1 DEF PutSame
        <3>2. hid \in {"written", "none"}
            <4>1. {hid} \subseteq WriteOutcomes \cup {"none"}
                BY DEF HideOutcomes
            <4> QED
                BY <1>2, <3>1, <4>1, WritesNoted
        <3>3. /\ Extended(main, main', k)
              /\ \A x \in Slot : Rebuilt(main')[x].val = Uncovered(s)[x].val
              /\ Uncovered(s)[s] = table[s] /\ (s[2] = "comp" => Uncovered(s)[p] = NoEntry)
            BY <1>2, <1>5, <3>1, <3>2, HiddenOK
        <3>4. table[s].val = v
            BY <2>1 DEF PutSame, Same
        <3>5. Rebuilt(main')[s] # NoEntry /\ Rebuilt(main')[s].val = v
            BY <1>1, <3>3, <3>4 DEF NoEntry
        <3>6. main' \in Seq(Record)
            BY <3>3 DEF Extended
        <3>7. Points(main', s, Rebuilt(main')[s])
            BY <3>5, <3>6, RebuiltPoints
        <3>8. \A i \in DOMAIN main' : main'[i].slot = Comp(k) => main'[i].part \notin {"value", "garbled"}
            <4>1. CASE main' = main
                BY <4>1 DEF Intact
            <4>2. CASE main' = Append(main, Tombstone(p))
                <5>1. main \in Seq(Record) /\ Tombstone(p) \in Record
                    BY <1>1, RecordTypes DEF StoreInv, TypeOK
                <5>2. Tombstone(p).slot = p
                    BY DEF Tombstone
                <5>. DEFINE w == Tombstone(p)
                <5>. HIDE DEF w
                <5>3. /\ DOMAIN main = 1 .. Len(main) /\ DOMAIN main' = 1 .. Len(main) + 1 /\ Len(main) \in Nat
                      /\ \A i \in 1 .. Len(main) : main'[i] = main[i]
                      /\ main'[Len(main) + 1].slot = p
                    <6>1. w \in Record /\ w.slot = p /\ main' = Append(main, w)
                        BY <4>2, <5>1, <5>2 DEF w
                    <6> QED
                        BY <5>1, <6>1, Appended
                <5>. DEFINE n == Len(main)
                <5>. HIDE DEF n
                <5>4. n \in Nat /\ DOMAIN main = 1 .. n /\ DOMAIN main' = 1 .. n + 1
                      /\ (\A i \in 1 .. n : main'[i] = main[i]) /\ main'[n + 1].slot = p
                    BY <5>3 DEF n
                <5> QED
                    BY <1>1, <5>4 DEF Intact
            <4> QED
                BY <3>1, <3>2, <4>1, <4>2 DEF Hidden, AfterWrite
        <3>9. ReadBack(main', s, Rebuilt(main')[s]) = v
            BY <1>1, <3>5, <3>6, <3>7, <3>8, EntryReads
        <3> QED
            BY <1>1, <3>3, <3>5, <3>6, <3>9 DEF NoEntry
    <2>2. CASE PutRecord(s, v)
        <3>1. PICK h, r : Puts(s, v, h, r)
            BY <1>2, <2>2, RecordIs
        <3>2. h \in Seq(Record) /\ r \in Record /\ r.slot = s /\ main' = Append(h, r) /\ Accepted(r)
            BY <1>2, <3>1 DEF Puts
        <3>3. AllAccepted(h) /\ NoneSwallows(h) /\ Rebuilt(h) \in [Slot -> Entry]
            BY <1>2, <1>5, <3>1, RebuildTypes DEF Puts, Sealed
        <3>4. Rebuilt(main') = [Rebuilt(h) EXCEPT ![s] = Entered(h, r)]
            BY <3>2, <3>3, RebuiltEntered
        <3>5. Rebuilt(main')[s] = table'[s]
            BY <3>1, <3>3, <3>4 DEF Puts
        <3>6. s[2] = "comp" => Rebuilt(main')[p].val = None
            <4>1. s[2] = "comp" => Rebuilt(h)[p].val = Uncovered(s)[p].val /\ Uncovered(s)[p] = NoEntry
                BY <1>1, <1>2, <1>5, <3>1 DEF Puts
            <4>2. s[2] = "comp" => Rebuilt(main')[p] = Rebuilt(h)[p]
                BY <1>1, <3>3, <3>4
            <4> QED
                BY <4>1, <4>2 DEF NoEntry
        <3>7. main' \in Seq(Record) /\ table'[s] # NoEntry /\ ReadBack(main', s, table'[s]) = v
            BY <1>2, <3>1 DEF Puts, Extended
        <3> QED
            BY <3>5, <3>6, <3>7
    <2> QED
        BY <1>3, <2>1, <2>2
<1>7. Durable(k)' = FileGet(main', Rebuilt(main'), k)
    BY DEF Durable
<1>8. CASE s = p
    BY <1>1, <1>6, <1>7, <1>8, OneEntry
<1>9. CASE s = Comp(k) /\ s[2] = "comp"
    <2>1. Rebuilt(main')[p] = NoEntry
        BY <1>1, <1>6, <1>9, RebuiltPoints
    <2> QED
        BY <1>1, <1>6, <1>7, <1>9, <2>1, OneEntry
<1> QED
    BY <1>1, <1>8, <1>9

\* A value that was put is what a restart would find, also after a Compact that failed to copy.
THEOREM PutIsDurableAlways == Spec => PutIsDurable
<1>1. ASSUME StoreInv, NEW k \in Keys, NEW v \in Values, Put(k, v) \/ PutCompressed(k, v),
             mode = "rw", failed' \subseteq {"copy"}, ~ Swallows, Intact(k)
      PROVE  Durable(k)' = v
    <2>1. CASE Put(k, v)
        <3>1. Stored(Plain(k)) /\ PutEx2(Plain(k), v) /\ Plain(k) \in Slot /\ Plain(k)[1] = k
            BY <2>1, PutSlots, SlotsAre DEF Put
        <3> QED
            BY <1>1, <3>1, PutIsDurableStep
    <2>2. CASE PutCompressed(k, v)
        <3>1. Stored(Comp(k)) /\ PutEx2(Comp(k), v) /\ Comp(k) \in Slot /\ Comp(k)[1] = k
            BY <2>2, PutSlots, SlotsAre DEF PutCompressed
        <3> QED
            BY <1>1, <3>1, PutIsDurableStep
    <2> QED
        BY <1>1, <2>1, <2>2
<1>2. StoreInv => [\A k \in Keys, v \in Values :
          /\ Put(k, v) \/ PutCompressed(k, v)
          /\ mode = "rw" /\ failed' \subseteq {"copy"} /\ ~ Swallows /\ Intact(k)
          => Durable(k)' = v]_vars
    BY <1>1
<1> QED
    BY <1>2, StoreInvAlways, PTL DEF PutIsDurable

-----------------------------------------------------------------------------
(* What the file holds *)

\* A put on one key leaves what the file holds for the others.
LEMMA PutOthers ==
    ASSUME StoreInv, NEW s \in Slot, NEW v \in Values, Stored(s), PutEx2(s, v), NEW j \in Keys, j # s[1]
    PROVE  Durable(j)' = Durable(j)
<1>1. main \in Seq(Record) /\ Legal(main) /\ Idle
    BY DEF StoreInv, TypeOK, SlotsOK, PutEx2
<1>2. Durable(j)' = FileGet(main', Rebuilt(main'), j)
    BY DEF Durable
<1>3. ASSUME NEW hid \in HideOutcomes(s), NEW log \in Hidden(s, hid)
      PROVE  log \in Seq(Record) /\ FileGet(log, Rebuilt(log), j) = Durable(j)
    <2>1. Extended(main, log, s[1])
        BY HiddenOK
    <2>2. log \in Seq(Record)
        BY <2>1 DEF Extended
    <2>3. FileGet(log, Rebuilt(log), j) = FileGet(main, Rebuilt(main), j)
        BY <1>1, <2>1, ExtendedOthers
    <2> QED
        BY <2>2, <2>3 DEF Durable
<1>4. CASE mode = "mem" /\ UNCHANGED main
    BY <1>4 DEF Durable
<1>5. CASE mode # "mem" /\ PutSame(s, v)
    BY <1>2, <1>3, <1>5 DEF PutSame
<1>6. CASE mode # "mem" /\ PutRecord(s, v)
    <2>1. PICK h, r : Puts(s, v, h, r)
        BY <1>1, <1>6, IdleIs, RecordIs
    <2>2. Extended(main, main', s[1])
        BY <2>1 DEF Puts
    <2> QED
        BY <1>1, <1>2, <2>2, ExtendedOthers DEF Durable
<1>7. CASE mode # "mem" /\ PutFailed(s, v)
    <2>. DEFINE d == IF table[s] # NoEntry THEN AtMost(dirty + 1, MinDirty) ELSE dirty
    <2>1. PICK hid \in HideOutcomes(s) : \E log \in Hidden(s, hid) : RebuildKeyTable(log, "ro", d, MinDirty)
        BY <1>7 DEF PutFailed
    <2>3. PICK log \in Hidden(s, hid) : RebuildKeyTable(log, "ro", d, MinDirty)
        BY <2>1
    <2>. HIDE DEF d
    <2>2. FileGet(main', Rebuilt(main'), j) = FileGet(log, Rebuilt(log), j)
        BY <1>3, <2>3, RebuiltReads
    <2> QED
        BY <1>2, <1>3, <2>2
<1> QED
    BY <1>4, <1>5, <1>6, <1>7 DEF PutEx2

\* So do a deletion and a process that dies in a put or a deletion.
LEMMA KeyOthers ==
    ASSUME StoreInv, NEW k \in Keys, NEW j \in Keys, j # k,
           \/ Delete(k) \/ DiesInDelete(k)
           \/ \E v \in Values : Put(k, v) \/ PutCompressed(k, v) \/ DiesInPut(k, v) \/ DiesInPutCompressed(k, v)
    PROVE  Durable(j)' = Durable(j)
<1>1. main \in Seq(Record) /\ Durable(j)' = FileGet(main', Rebuilt(main'), j)
    BY DEF StoreInv, TypeOK, Durable
<1>2. Extended(main, main', k) => Durable(j)' = Durable(j)
    BY <1>1, ExtendedOthers DEF Durable
<1>3. CASE DiesInDelete(k) \/ \E v \in Values : DiesInPut(k, v) \/ DiesInPutCompressed(k, v)
    BY <1>2, <1>3, DiesOK
<1>4. CASE Delete(k)
    <2>1. CASE table[Deleted(k)] = NoEntry
        BY <1>4, <2>1 DEF Delete, Durable
    <2> QED
        BY <1>2, <1>4, <2>1, DeletedOK
<1>5. ASSUME NEW v \in Values, Put(k, v) PROVE Durable(j)' = Durable(j)
    <2>1. Stored(Plain(k)) /\ PutEx2(Plain(k), v) /\ Plain(k) \in Slot /\ Plain(k)[1] = k
        BY <1>5, PutSlots, SlotsAre DEF Put
    <2> QED
        BY <2>1, PutOthers
<1>6. ASSUME NEW v \in Values, PutCompressed(k, v) PROVE Durable(j)' = Durable(j)
    <2>1. Stored(Comp(k)) /\ PutEx2(Comp(k), v) /\ Comp(k) \in Slot /\ Comp(k)[1] = k
        BY <1>6, PutSlots, SlotsAre DEF PutCompressed
    <2> QED
        BY <2>1, PutOthers
<1> QED
    BY <1>3, <1>4, <1>5, <1>6

\* Opening the file, with the repair or conversion that it does, leaves what it holds.
LEMMA OpenKeeps ==
    ASSUME StoreInv, Open, NEW k \in Keys
    PROVE  Durable(k)' = Durable(k)
<1>1. main \in Seq(Record) /\ Durable(k)' = FileGet(main', Rebuilt(main'), k)
    BY DEF StoreInv, TypeOK, Durable
<1>2. CASE RebuildKeyTable(main, "rw", 0, 0)
    BY <1>1, <1>2, RebuiltReads DEF Durable
<1>3. CASE UNCHANGED main
    BY <1>3 DEF Durable
<1> QED
    BY <1>2, <1>3 DEF Open

\* Nothing else but putting the compacted file in place changes the file.
LEMMA OthersKeep ==
    ASSUME NEW k \in Keys,
           \/ Stop \/ CompactStart \/ CompactCopyFails \/ UNCHANGED vars
           \/ \E j \in Keys, v \in Values : PutCached(j, v)
           \/ \E s \in Slot : CompactCopy(s) \/ CompactHangs(s)
    PROVE  Durable(k)' = Durable(k)
BY DEF Stop, CompactStart, CompactCopyFails, vars, PutCached, CompactCopy, CompactHangs, Durable

\* The compacted file has the values of the old one, or completes a deletion.
LEMMA ReplaceKeeps ==
    ASSUME StoreInv, CompactReplace, failed \cap {"rename", "flush"} = {},
           NEW k \in Keys \ (PlainKeys \cap CompressedKeys), Uncached(k)
    PROVE  Durable(k)' \in {Durable(k), told[k]}
<1>1. phase = "copy" /\ todo = {} /\ (main' = tmp \/ main' = main) /\ Durable(k)' = FileGet(main', Rebuilt(main'), k)
    BY DEF CompactReplace, Durable
<1>2. CASE main' = main
    BY <1>2 DEF Durable
<1>3. CASE main' = tmp
    <2>1. Running /\ Sound /\ main \in Seq(Record) /\ tmp \in Seq(Record) /\ Legal(main)
        BY <1>1 DEF StoreInv, ModeOK, Sound, TypeOK, SlotsOK
    <2>2. PICK s \in {Plain(k), Comp(k)} : \A x \in {Plain(k), Comp(k)} : x # s => ~ Stored(x)
        BY PutSlots
    <2>3. /\ \A x \in {Plain(k), Comp(k)} : x \in Slot /\ x[1] = k /\ Single(x)
          /\ Plain(k) # Comp(k)
        BY SlotsAre DEF Single
    <2>4. \A x \in {Plain(k), Comp(k)} : x # s => table[x] = NoEntry /\ Rebuilt(main)[x] = NoEntry
        BY <2>1, <2>2, <2>3, NeverStored DEF StoreInv, SlotsOK
    <2>5. \A x \in {Plain(k), Comp(k)} : Rebuilt(tmp)[x] = table[x]
        BY <1>1, <2>1, <2>3 DEF StoreInv, CopyOK
    <2>6. Durable(k)' = ReadBack(tmp, s, table[s])
        BY <1>1, <1>3, <2>1, <2>3, <2>4, <2>5, OneEntry
    <2>7. Durable(k) = ReadBack(main, s, Rebuilt(main)[s])
        BY <2>1, <2>3, <2>4, OneEntry DEF Durable
    <2>8. IF table[s] = NoEntry THEN Agrees(main, s, table[s], told[k])
          ELSE ReadBack(tmp, s, table[s]) \in {ReadBack(main, s, Rebuilt(main)[s]), told[k]}
        BY <1>1, <2>1, <2>3 DEF StoreInv, AgreesOK, Unmoved
    <2>9. CASE table[s] = NoEntry
        BY <2>1, <2>3, <2>6, <2>7, <2>8, <2>9, OneEntry DEF Agrees
    <2> QED
        BY <2>6, <2>7, <2>8, <2>9
<1> QED
    BY <1>1, <1>2, <1>3

\* What the file holds for a key changes only by an operation on that key, or to
\* what its callers were told.
THEOREM NothingLostAlways == Spec => NothingLost
<1>1. ASSUME StoreInv, [Next]_vars, "rename" \notin failed,
             NEW k \in Keys \ (PlainKeys \cap CompressedKeys), Uncached(k),
             ~ Delete(k), ~ DiesInDelete(k), ~ (CompactReplace /\ "flush" \in failed),
             \A v \in Values : ~ Put(k, v) /\ ~ DiesInPut(k, v) /\ ~ PutCompressed(k, v) /\ ~ DiesInPutCompressed(k, v)
      PROVE  Durable(k)' \in {Durable(k), told[k]}
    <2>1. CASE Open
        BY <1>1, <2>1, OpenKeeps
    <2>2. CASE CompactReplace
        BY <1>1, <2>2, ReplaceKeeps
    <2>3. CASE \/ Stop \/ CompactStart \/ CompactCopyFails \/ UNCHANGED vars
               \/ \E j \in Keys, v \in Values : PutCached(j, v)
               \/ \E s \in Slot : CompactCopy(s) \/ CompactHangs(s)
        BY <1>1, <2>3, OthersKeep
    <2>4. ASSUME NEW j \in Keys,
                 \/ Delete(j) \/ DiesInDelete(j)
                 \/ \E v \in Values :
                        Put(j, v) \/ PutCompressed(j, v) \/ DiesInPut(j, v) \/ DiesInPutCompressed(j, v)
          PROVE  Durable(k)' \in {Durable(k), told[k]}
        <3>1. j # k
            BY <1>1, <2>4
        <3> QED
            BY <1>1, <2>4, <3>1, KeyOthers
    <2> QED
        BY <1>1, <2>1, <2>2, <2>3, <2>4 DEF Next
<1>2. StoreInv /\ [Next]_vars => ["rename" \notin failed => \A k \in Keys \ (PlainKeys \cap CompressedKeys) :
          Uncached(k) =>
          \/ Durable(k)' \in {Durable(k), told[k]}
          \/ CompactReplace /\ "flush" \in failed
          \/ Delete(k) \/ DiesInDelete(k)
          \/ \E v \in Values : \/ Put(k, v) \/ DiesInPut(k, v)
                              \/ PutCompressed(k, v) \/ DiesInPutCompressed(k, v)]_vars
    BY <1>1
<1> QED
    BY <1>2, StoreInvAlways, PTL DEF Spec, NothingLost

-----------------------------------------------------------------------------
(* The store implements KVStore as long as no file operation fails and no torn
compressed value swallows what is behind it. *)

\* When nothing has failed, the compacted file has the values of the old one.
LEMMA ReplaceSame ==
    ASSUME StoreInv, CompactReplace, failed' = {}, ~ Swallows, NEW k \in Keys
    PROVE  Durable(k)' = Durable(k)
<1>1. /\ phase = "copy" /\ todo = {} /\ main' = tmp /\ failed = {} /\ NoneSwallows(main)
      /\ Durable(k)' = FileGet(tmp, Rebuilt(tmp), k)
    BY DEF CompactReplace, Durable, Swallows, NoneSwallows
<1>2. Running /\ Sound /\ main \in Seq(Record) /\ tmp \in Seq(Record)
    BY <1>1 DEF StoreInv, ModeOK, Sound, TypeOK
<1>3. ASSUME NEW s \in {Plain(k), Comp(k)}
      PROVE  /\ Rebuilt(tmp)[s] = NoEntry <=> Rebuilt(main)[s] = NoEntry
             /\ ReadBack(tmp, s, Rebuilt(tmp)[s]) = ReadBack(main, s, Rebuilt(main)[s])
    <2>1. s \in Slot
        BY SlotsAre
    <2>2. Rebuilt(tmp)[s] = table[s]
        BY <1>1, <1>2, <2>1 DEF StoreInv, CopyOK
    <2>3. IF table[s] = NoEntry THEN table[s] = Rebuilt(main)[s]
          ELSE ReadBack(tmp, s, table[s]) = ReadBack(main, s, Rebuilt(main)[s])
        BY <1>1, <1>2, <2>1 DEF StoreInv, FollowsOK, Unmoved
    <2>4. table[s] # NoEntry => Rebuilt(main)[s] # NoEntry
        <3>1. table[s].val = Rebuilt(main)[s].val
            BY <1>1, <1>2, <2>1 DEF StoreInv, ValuesOK
        <3>2. table[s] # NoEntry => table[s].val # None
            BY <2>1 DEF StoreInv, SlotsOK
        <3> QED
            BY <3>1, <3>2 DEF NoEntry
    <2>5. CASE table[s] = NoEntry
        BY <1>2, <2>2, <2>3, <2>5, OneEntry
    <2> QED
        BY <2>2, <2>3, <2>4, <2>5
<1> QED
    BY <1>1, <1>3 DEF FileGet, Durable

\* A restart finds a value or none.
LEMMA DurableType ==
    ASSUME StoreInv, [Next]_vars
    PROVE  \A k \in Keys : Durable(k)' \in Values \cup {None}
<1>1. main' \in Seq(Record)
    BY TypeStep DEF StoreInv, TypeOK
<1>2. Rebuilt(main') \in [Slot -> Entry]
    BY <1>1, RebuildTypes
<1> QED
    BY <1>2, FileGetType DEF Durable

\* A step without a failing operation is a step of the durable dictionary.
LEMMA StoreRefines ==
    ASSUME StoreInv, [Next]_vars, failed' = {}, ~ Swallows
    PROVE  [Store!Next]_(Store!vars)
<1>. DEFINE old == [k \in Keys |-> Durable(k)]
            new == [k \in Keys |-> Durable(k)']
<1>1. /\ Store!Open <=> ~ mode # "down" /\ mode' # "down" /\ new = old
      /\ Store!Stop <=> mode # "down" /\ ~ mode' # "down" /\ new = old
      /\ \A k, v : Store!Set(k, v) <=> mode # "down" /\ new = [old EXCEPT ![k] = v] /\ (mode' # "down" <=> mode # "down")
      /\ \A k, v : Store!StopAfterSet(k, v) <=> mode # "down" /\ ~ mode' # "down" /\ new = [old EXCEPT ![k] = v]
      /\ UNCHANGED Store!vars <=> new = old /\ (mode' # "down" <=> mode # "down")
    BY DEF Store!Open, Store!Stop, Store!Set, Store!StopAfterSet, Store!vars
<1>2. \A k \in Keys : Durable(k)' \in Values \cup {None}
    BY DurableType
<1>3. ASSUME NEW k \in Keys,
             \/ Delete(k) \/ DiesInDelete(k)
             \/ \E v \in Values : Put(k, v) \/ PutCompressed(k, v) \/ DiesInPut(k, v) \/ DiesInPutCompressed(k, v)
      PROVE  new = [old EXCEPT ![k] = Durable(k)'] /\ mode # "down"
    <2>1. \A j \in Keys : j # k => Durable(j)' = Durable(j)
        BY <1>3, KeyOthers
    <2>2. mode # "down"
        BY <1>3 DEF Delete, DiesInDelete, DiesInPut, DiesInPutCompressed, DiesInPutEx2, DiesWriting,
           Put, PutCompressed, PutEx2, Idle
    <2> QED
        BY <2>1, <2>2
<1>4. CASE Open
    <2>1. new = old
        BY <1>4, OpenKeeps
    <2>2. mode = "down" /\ mode' # "down"
        BY <1>4 DEF Open, RebuildKeyTable
    <2> QED
        BY <1>1, <2>1, <2>2 DEF Store!Next
<1>5. CASE Stop
    <2>1. new = old
        BY <1>5, OthersKeep
    <2>2. mode # "down" /\ mode' = "down"
        BY <1>5 DEF Stop, Ended
    <2> QED
        BY <1>1, <2>1, <2>2 DEF Store!Next
<1>6. ASSUME NEW k \in Keys, Delete(k) \/ \E v \in Values : Put(k, v) \/ PutCompressed(k, v)
      PROVE  Store!Next
    <2>1. mode' # "down"
        BY <1>6 DEF Delete, Put, PutCompressed, PutEx2, PutSame, PutRecord, PutFailed, RebuildKeyTable, Idle
    <2>2. Store!Set(k, Durable(k)')
        BY <1>1, <1>3, <1>6, <2>1
    <2> QED
        BY <1>2, <2>2 DEF Store!Next
<1>7. ASSUME NEW k \in Keys,
             DiesInDelete(k) \/ \E v \in Values : DiesInPut(k, v) \/ DiesInPutCompressed(k, v)
      PROVE  Store!Next
    <2>1. mode' = "down"
        BY <1>7, DiesOK DEF Ended
    <2>2. Store!StopAfterSet(k, Durable(k)')
        BY <1>1, <1>3, <1>7, <2>1
    <2> QED
        BY <1>2, <2>2 DEF Store!Next
<1>8. CASE CompactReplace
    <2>1. new = old
        BY <1>8, ReplaceSame
    <2>2. mode' = "rw" /\ mode # "down"
        BY <1>8 DEF CompactReplace, StoreInv, ModeOK, Running
    <2> QED
        BY <1>1, <2>1, <2>2
<1>9. CASE \/ CompactStart \/ CompactCopyFails \/ UNCHANGED vars
           \/ \E j \in Keys, v \in Values : PutCached(j, v)
           \/ \E s \in Slot : CompactCopy(s) \/ CompactHangs(s)
    <2>1. new = old
        BY <1>9, OthersKeep
    <2>2. mode' = mode
        BY <1>9 DEF CompactStart, CompactCopyFails, vars, PutCached, CompactCopy, CompactHangs
    <2> QED
        BY <1>1, <2>1, <2>2
<1> QED
    BY <1>4, <1>5, <1>6, <1>7, <1>8, <1>9 DEF Next

\* The store is a durable dictionary: a crash leaves it with or without the operation that it
\* hit, as long as no file operation fails and no torn compressed value is in the file.
THEOREM KVStoreImplemented == Spec /\ [](failed = {} /\ ~ Swallows) => ImplementsKVStore
<1>1. Init => Store!Init
    <2>. SUFFICES ASSUME Init PROVE Store!Init
        OBVIOUS
    <2>1. main = <<>> /\ mode = "down" /\ main \in Seq(Record)
        BY DEF Init
    <2>2. \A k \in Keys : Durable(k) = None
        <3>1. \A s \in Slot : Rebuilt(main)[s] = NoEntry
            BY <2>1, RebuiltNone DEF EmptyTable
        <3>2. \A k \in Keys : Rebuilt(main)[Plain(k)] = NoEntry /\ Rebuilt(main)[Comp(k)] = NoEntry
            BY <3>1, SlotsAre
        <3>3. \A k \in Keys : FileGet(main, Rebuilt(main), k) = ReadBack(main, Comp(k), NoEntry)
            BY <3>2 DEF FileGet
        <3>4. \A s : ReadBack(main, s, NoEntry) = None
            BY <2>1 DEF ReadBack, NoEntry
        <3> QED
            BY <3>3, <3>4 DEF Durable
    <2> QED
        BY <2>1, <2>2 DEF Store!Init
<1>2. StoreInv /\ [Next]_vars /\ (failed = {} /\ ~ Swallows)' /\ (failed = {} /\ ~ Swallows)
          => [Store!Next]_(Store!vars)
    BY StoreRefines
<1> QED
    BY <1>1, <1>2, StoreInvAlways, PTL DEF Spec, ImplementsKVStore, Store!Spec

\* A store whose file operations all succeed records no failure.
LEMMA NoneFails ==
    ASSUME \A F \in Faults : F = {}, StoreInv, failed = {}, [Next]_vars
    PROVE  failed' = {}
<1>1. \A f : ~ MayFail(f)
    BY DEF MayFail
<1>2. mode # "ro"
    BY DEF StoreInv, ModeOK
<1>3. WriteOutcomes \subseteq {"written"} \/ (mode # "rw" /\ WriteOutcomes = {"write"})
    BY <1>1 DEF WriteOutcomes
<1>a. ASSUME NEW outs \in SUBSET (WriteOutcomes \cup {"none"}), NoteWrites(outs) PROVE failed' = {}
    BY <1>3, <1>a DEF NoteWrites
<1>4. CASE Open
    <2>1. CASE RebuildKeyTable(main, "rw", 0, 0) /\ failed' = (failed \ {"flush"}) \cup NoteConversion(main)
        <3>1. ~ tmpLocked /\ main \in Seq(Record)
            BY <1>4 DEF Open, StoreInv, ModeOK, TypeOK
        <3>2. dirty' \in Nat
            BY <2>1, <3>1, RebuildKeyTableType, ParametersAssumption
        <3>3. NoteConversion(main) = {}
            BY <1>1, <2>1, <3>1, <3>2 DEF RebuildKeyTable, NoteConversion
        <3> QED
            BY <2>1, <3>3
    <2> QED
        BY <1>4, <2>1 DEF Open
<1>5. ASSUME NEW s \in Slot, NEW v \in Values, PutEx2(s, v) PROVE failed' = {}
    <2>1. HideOutcomes(s) \subseteq WriteOutcomes \cup {"none"}
        BY DEF HideOutcomes
    <2>2. CASE mode = "mem" /\ UNCHANGED failed
        BY <2>2
    <2>3. CASE PutSame(s, v)
        <3>1. PICK hid \in HideOutcomes(s) : NoteWrites({hid})
            BY <2>3 DEF PutSame
        <3> QED
            BY <1>a, <2>1, <3>1
    <2>4. CASE PutRecord(s, v)
        <3>1. PICK hid \in HideOutcomes(s), out \in WriteOutcomes : NoteWrites({hid, out})
            BY <2>4 DEF PutRecord
        <3> QED
            BY <1>a, <2>1, <3>1
    <2>5. CASE PutFailed(s, v)
        <3>1. PICK hid \in HideOutcomes(s) : NoteWrites({hid, "write"})
            BY <2>5 DEF PutFailed
        <3> QED
            BY <1>a, <2>1, <2>5, <3>1 DEF PutFailed
    <2> QED
        BY <1>5, <2>2, <2>3, <2>4, <2>5 DEF PutEx2
<1>6. ASSUME NEW k \in Keys, Delete(k) PROVE failed' = {}
    <2>1. UNCHANGED failed \/ \E out \in WriteOutcomes : NoteWrites({out})
        BY <1>6 DEF Delete
    <2> QED
        BY <1>a, <2>1
<1>7. ASSUME NEW k \in Keys,
             DiesInDelete(k) \/ \E v \in Values : DiesInPut(k, v) \/ DiesInPutCompressed(k, v)
      PROVE  failed' = {}
    BY <1>7, DiesOK DEF Ended
<1>8. CASE \/ Stop \/ CompactStart \/ CompactCopyFails \/ CompactReplace \/ UNCHANGED vars
           \/ \E j \in Keys, v \in Values : PutCached(j, v)
           \/ \E s \in Slot : CompactCopy(s) \/ CompactHangs(s)
    BY <1>1, <1>8 DEF Stop, Ended, CompactStart, CompactCopyFails, CompactReplace, vars, PutCached,
       CompactCopy, CompactHangs
<1> QED
    BY <1>4, <1>5, <1>6, <1>7, <1>8, SlotsAre DEF Next, Put, PutCompressed

\* With plain values and no failing file operation the store is a durable dictionary, with a
\* crash at any moment.
THEOREM PlainStoreImplemented ==
    (\A F \in Faults : F = {}) /\ CompressedKeys = {} /\ Spec => ImplementsKVStore
<1>. DEFINE Calm == (\A F \in Faults : F = {}) /\ CompressedKeys = {} /\ failed = {}
<1>1. (\A F \in Faults : F = {}) /\ CompressedKeys = {} /\ Init => Calm
    BY DEF Init
<1>2. StoreInv /\ Calm /\ [Next]_vars => Calm'
    BY NoneFails
<1>3. StoreInv /\ Calm => failed = {} /\ ~ Swallows
    <2>. SUFFICES ASSUME StoreInv, Calm, NEW i \in DOMAIN main, main[i].slot[2] = "comp" PROVE FALSE
        BY DEF Swallows
    <2>1. Stored(main[i].slot)
        BY DEF StoreInv, SlotsOK, Legal
    <2> QED
        BY <2>1 DEF Stored
<1>. HIDE DEF Calm
<1>4. (\A F \in Faults : F = {}) /\ CompressedKeys = {} /\ Spec => [](failed = {} /\ ~ Swallows)
    BY <1>1, <1>2, <1>3, StoreInvAlways, PTL DEF Spec
<1> QED
    BY <1>4, KVStoreImplemented, PTL
=============================================================================
