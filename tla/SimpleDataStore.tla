-------------------------- MODULE SimpleDataStore --------------------------
(***************************************************************************)
(* microstack/ILibSimpleDataStore.c: the key/value store that keeps the    *)
(* agent's identity, settings and core module.                             *)
(*                                                                         *)
(* The store is an append-only file of records (main) and an in-memory     *)
(* table from keys to the offset and the hash of the newest value.  A key  *)
(* may have a plain record and, under the key followed by its CRC, a       *)
(* compressed one: a slot is a key with "plain" or "comp".  Compact copies *)
(* the live records to a second file (tmp) and renames it over the first.  *)
(* When the file cannot be written, values go to a cache that shadows it.  *)
(*                                                                         *)
(* A record is one unit of the file, so the offset of a value is the index *)
(* of its record, and the hash of a value is the value.                    *)
(***************************************************************************)
EXTENDS Naturals, Sequences, FiniteSets

CONSTANTS
    Keys,           \* all keys
    PlainKeys,      \* the keys some caller stores with PutEx
    CompressedKeys, \* the keys some caller stores with PutCompressed
    CachedKeys,     \* the keys given on the command line or set with Cached
    Values,         \* the non-empty values
    None,           \* "no value"
    Unquote,        \* what CachedEx makes of a plain value (quotes, 0x... hex)
    Backed,         \* with a file (TRUE) or without one (CreateCachedOnly), or both
    MinDirty,       \* compactDirtyMinimum, in values
    Tears,          \* what a crash or a flush that fails may leave of a record
    Faults,         \* bound: the sets of file operations that may fail in one process
    MaxLog          \* bound: records in the file

Slot == Keys \X {"plain", "comp"}
Plain(k) == <<k, "plain">>
Comp(k) == <<k, "comp">>

ASSUME KeysAssumption ==
    /\ PlainKeys \subseteq Keys
    /\ CompressedKeys \subseteq Keys
    /\ CachedKeys \subseteq Keys
ASSUME ValuesAssumption ==
    /\ None \notin Values
    /\ Unquote \in [Values -> Values]
ASSUME ParametersAssumption ==
    /\ Backed \subseteq BOOLEAN
    /\ Backed # {}
    /\ MinDirty \in Nat
    /\ Tears \subseteq {"header", "value"}
    /\ Faults \subseteq SUBSET {"write", "flush", "tmp", "copy", "rename"}
    /\ MaxLog \in Nat

\* A record of the file: a value, or a tombstone (val = None).  part says what
\* the file holds of it: all of it; not even its header and key; its header and
\* key but not all of the value; or as many bytes as it says, but other ones.
Record == [slot : Slot, val : Values \cup {None},
           part : {"whole", "header", "value", "garbled"}]

\* An entry of the key table; off = 0 is no entry.
Entry == [val : Values \cup {None}, off : Nat]
NoEntry == [val |-> None, off |-> 0]
EmptyTable == [s \in Slot |-> NoEntry]
EmptyCache == [s \in Slot |-> None]

VARIABLES
    main,       \* the records of the data file
    table,      \* keyTable: for every slot, the hash and the offset of its value
    cache,      \* cacheTable: for every slot, the cached value
    mode,       \* "down", "rw", "ro" (after a write error) or "mem" (no file)
    dirty,      \* dirtySize, capped at MinDirty, which is all Compact asks of it
    phase,      \* of Compact: "idle", "copy" (enumerating) or "hung"
    tmp,        \* the records of the compacted file
    todo,       \* the slots Compact has not visited yet
    tmpLocked,  \* the process still holds the lock of a .tmp file it never closed
    failed,     \* history: the kinds of file operations that failed, in this process
                \* or, as long as that may show in the file, an earlier one
    told        \* history: what each key holds, going by the answers callers got

vars == <<main, table, cache, mode, dirty, phase, tmp, todo, tmpLocked, failed, told>>

-----------------------------------------------------------------------------
(* Reading a file *)

Value(s, v) == [slot |-> s, val |-> v, part |-> "whole"]
Tombstone(s) == [slot |-> s, val |-> None, part |-> "whole"]

\* A record with a wrong value fails its hash check.  Under a compressed key it
\* is taken all the same: its hash is that of the inflated value.
Accepted(r) == r.part = "whole" \/ (r.part \in {"value", "garbled"} /\ r.slot[2] = "comp")

\* The records a reader that starts at the beginning gets to see.  It stops at
\* the first one it does not accept, and an accepted record that is cut short
\* takes the bytes of the records after it for its value.
Parsed(log) ==
    {i \in DOMAIN log :
        /\ Accepted(log[i])
        /\ \A j \in 1 .. i - 1 : Accepted(log[j]) /\ log[j].part # "value"}

IsLatest(log, s, i) ==
    /\ i \in Parsed(log)
    /\ log[i].slot = s
    /\ \A j \in Parsed(log) : j > i => log[j].slot # s

IsLive(log, s, i) == IsLatest(log, s, i) /\ log[i].val # None

\* The table that reading the whole file produces.
Rebuilt(log) ==
    [s \in Slot |->
        IF \E i \in DOMAIN log : IsLive(log, s, i)
        THEN LET i == CHOOSE i \in DOMAIN log : IsLive(log, s, i)
             IN  [val |-> log[i].val, off |-> i]
        ELSE NoEntry]

\* What reading the file adds to dirtySize: every value overwritten or deleted.
Superseded(log) ==
    {i \in Parsed(log) : log[i].val # None /\ ~IsLatest(log, log[i].slot, i)}

\* Mutants: the last valid record goes too; nothing is cut off.
ValidPrefixShort(log) == [i \in 1 .. Cardinality(Parsed(log)) - 1 |-> log[i]]
ValidPrefixAll(log) == log

\* The part of the file that is kept when the reader stops before its end.
ValidPrefix(log) ==
    [i \in 1 .. Cardinality(Parsed(log)) |-> log[i]]

\* A torn value that has taken the bytes of records behind it for its own.
Filled(log) ==
    [i \in DOMAIN log |-> IF log[i].part = "value" THEN [log[i] EXCEPT !.part = "garbled"] ELSE log[i]]

\* The file as it is repaired.  The bytes that a torn value at the end of its
\* valid part lacks may be more, or not, than those of the records behind it.
Repairs(log) ==
    {ValidPrefix(log)}
    \cup {p \in {Filled(ValidPrefix(log))} : Cardinality(Parsed(log)) < Len(log)}

\* Mutant: the hash of the value that was read is not checked.
ReadBackUnchecked(log, s, e) == IF e.off \in DOMAIN log THEN log[e.off].val ELSE None

\* The value read back at the offset of an entry, if its hash is right.
ReadBack(log, s, e) ==
    IF /\ e.off \in DOMAIN log
       /\ log[e.off].part = "whole"
       /\ log[e.off].slot[2] = s[2]
       /\ log[e.off].val = e.val
    THEN e.val
    ELSE None

\* ILibSimpleDataStore_GetEx without its cache: the plain entry if there is
\* one, or else the compressed one.
FileGet(log, tbl, k) ==
    LET s == IF tbl[Plain(k)] # NoEntry THEN Plain(k) ELSE Comp(k)
    IN  ReadBack(log, s, tbl[s])

\* ILibSimpleDataStore_GetEx.
Get(k) ==
    IF cache[Plain(k)] # None THEN cache[Plain(k)]
    ELSE IF cache[Comp(k)] # None THEN cache[Comp(k)]
    ELSE FileGet(main, table, k)

\* What a process that opens the file now would answer for k.
Durable(k) == FileGet(main, Rebuilt(main), k)

-----------------------------------------------------------------------------
(* Writing *)

\* Bound: a flush fails once before the file is opened again.
MayFail(f) ==
    /\ \E F \in Faults : (failed \ {"convert"}) \cup {f} \subseteq F
    /\ f = "flush" => "flush" \notin failed

PartOf(r, part) == [slot |-> r.slot, val |-> r.val, part |-> part]

\* What may be left of a record in a file that had no room for it.
Leftovers(log, r) ==
    {log} \cup {Append(log, PartOf(r, part)) :
                 part \in {t \in Tears : t = "value" => r.val # None}}

\* What becomes of a record in ILibSimpleDataStore_WriteRecord.  When fwrite
\* fails ("write"), always on a read-only file, it cuts the file back to its
\* former length.  When fwrite only fills the buffer and fflush fails ("flush"),
\* nobody notices: the bytes that were not written are dropped.
WriteOutcomes ==
    IF mode = "rw" THEN {"written"} \cup {f \in {"write", "flush"} : MayFail(f)} ELSE {"write"}

\* The files that writing r to the file log may leave.
AfterWrite(log, r, outcome) ==
    IF outcome = "written" THEN {Append(log, r)}
    ELSE IF outcome = "flush" THEN Leftovers(log, r)
    ELSE {log}

\* On a read-only file a write is not even tried.
NoteWrites(outcomes) ==
    failed' = IF mode = "rw" THEN failed \cup (outcomes \cap {"write", "flush"}) ELSE failed

AtMost(n, bound) == IF n > bound THEN bound ELSE n

HasRoom == Len(main) + 2 <= MaxLog

Idle == phase = "idle" /\ mode # "down"

Tell(k, v) == told' = [told EXCEPT ![k] = v]

\* Mutant: a cached value is not replaced.
CachedOnce(s, v) == IF cache[s] # None THEN cache ELSE [cache EXCEPT ![s] = v]

\* ILibSimpleDataStore_CachedEx.
Cached(s, v) == [cache EXCEPT ![s] = IF s[2] = "plain" THEN Unquote[v] ELSE v]

\* ILibSimpleDataStore_RebuildKeyTable on a file that holds log and is open in
\* mode m.  A file without any value could be of an older format, so it is
\* converted: Compact replaces it by an empty one, which it leaves open for
\* writing, unless that is refused or fails.
RebuildKeyTable(log, m, dirtyBefore, minDirty) ==
    /\ table' = Rebuilt(log)
    /\ dirty' = AtMost(dirtyBefore + Cardinality(Superseded(log)), MinDirty)
    /\ \/ /\ Rebuilt(log) # EmptyTable
          /\ main' \in IF m = "rw" THEN Repairs(log) ELSE {log}
          /\ mode' = m
       \/ /\ Rebuilt(log) = EmptyTable
          /\ dirty' >= minDirty /\ ~tmpLocked
          /\ main' = <<>> \/ (MayFail("rename") /\ main' = log)
          /\ mode' = "rw"
       \/ /\ Rebuilt(log) = EmptyTable
          /\ dirty' < minDirty \/ tmpLocked \/ MayFail("tmp")
          /\ main' = log
          /\ mode' = m

\* The conversion failed: what the file holds stays in front of what is appended.
NoteConversion(log) ==
    IF Rebuilt(log) = EmptyTable /\ main' # <<>> THEN {"convert"} ELSE {}

\* Mutants: the plain entry's tombstone is not written; the entry stays.
HidesNever(s) == FALSE
UncoveredNever(s) == table

\* PutEx2 of a compressed value first takes the plain entry of the key away.
Hides(s) == s[2] = "comp" /\ table[Plain(s[1])] # NoEntry
Uncovered(s) == IF s[2] = "comp" THEN [table EXCEPT ![Plain(s[1])] = NoEntry] ELSE table

\* What becomes of that entry's tombstone, and the files that leaves.
HideOutcomes(s) == IF Hides(s) THEN WriteOutcomes ELSE {"none"}
Hidden(s, outcome) == AfterWrite(main, Tombstone(Plain(s[1])), outcome)

\* Mutant: a key that has an entry is taken to have this value.
SameKey(s, v) == table[s] # NoEntry

\* PutEx2 of a value whose hash is the one in the table writes no value.
Same(s, v) == table[s] # NoEntry /\ table[s].val = v

PutSame(s, v) ==
    /\ Same(s, v)
    /\ \E hid \in HideOutcomes(s) :
        /\ main' \in Hidden(s, hid)
        /\ NoteWrites({hid})
    /\ table' = Uncovered(s)
    /\ UNCHANGED <<cache, mode, dirty>>

\* The entry is made whether or not the flush failed.
PutRecord(s, v) ==
    /\ ~Same(s, v)
    /\ \E hid \in HideOutcomes(s), out \in WriteOutcomes \ {"write"} :
        /\ \E log \in Hidden(s, hid) :
            /\ main' \in AfterWrite(log, Value(s, v), out)
            /\ table' = [Uncovered(s) EXCEPT ![s] = [val |-> v, off |-> Len(log) + 1]]
        /\ NoteWrites({hid, out})
    /\ dirty' = IF table[s] # NoEntry THEN AtMost(dirty + 1, MinDirty) ELSE dirty
    /\ UNCHANGED <<cache, mode>>

\* A write error: the value goes to the cache and the file is opened again,
\* read only (ILibSimpleDataStore_ReOpenReadOnly).
PutFailed(s, v) ==
    /\ ~Same(s, v)
    /\ "write" \in WriteOutcomes
    /\ cache' = Cached(s, v)
    /\ \E hid \in HideOutcomes(s) :
        /\ \E log \in Hidden(s, hid) :
            RebuildKeyTable(log, "ro",
                            IF table[s] # NoEntry THEN AtMost(dirty + 1, MinDirty) ELSE dirty,
                            MinDirty)
        /\ NoteWrites({hid, "write"})

\* ILibSimpleDataStore_PutEx2; without a file it only fills the cache.
PutEx2(s, v) ==
    /\ Idle
    /\ \/ mode = "mem" /\ cache' = Cached(s, v) /\ UNCHANGED <<main, table, mode, dirty, failed>>
       \/ mode # "mem" /\ HasRoom /\ (PutSame(s, v) \/ PutRecord(s, v) \/ PutFailed(s, v))
    /\ Tell(s[1], v)
    /\ UNCHANGED <<phase, tmp, todo, tmpLocked>>

Put(k, v) == k \in PlainKeys /\ PutEx2(Plain(k), v)

\* ILibSimpleDataStore_PutCompressed.
PutCompressed(k, v) == k \in CompressedKeys /\ PutEx2(Comp(k), v)

\* ILibSimpleDataStore_Cached, called for what the command line sets.
PutCached(k, v) ==
    /\ Idle
    /\ k \in CachedKeys
    /\ cache' = Cached(Plain(k), v)
    /\ Tell(k, Unquote[v])
    /\ UNCHANGED <<main, table, mode, dirty, phase, tmp, todo, tmpLocked, failed>>

\* The slot ILibSimpleDataStore_DeleteEx deletes.
Deleted(k) == IF table[Plain(k)] # NoEntry THEN Plain(k) ELSE Comp(k)

\* ILibSimpleDataStore_DeleteEx.  The entry goes whether or not its tombstone
\* can be written; a key without an entry is left as it is.
Delete(k) ==
    /\ Idle
    /\ IF table[Deleted(k)] # NoEntry
       THEN /\ HasRoom
            /\ \E out \in WriteOutcomes :
                /\ main' \in AfterWrite(main, Tombstone(Deleted(k)), out)
                /\ NoteWrites({out})
            /\ table' = [table EXCEPT ![Deleted(k)] = NoEntry]
       ELSE UNCHANGED <<main, table, failed>>
    /\ Tell(k, None)
    /\ UNCHANGED <<cache, mode, dirty, phase, tmp, todo, tmpLocked>>

-----------------------------------------------------------------------------
(* Compaction *)

\* Mutant: Compact goes through the keys, not through the entries.
CompactStartByKey ==
    /\ Idle /\ mode # "mem" /\ dirty >= MinDirty /\ ~tmpLocked
    /\ phase' = "copy"
    /\ tmp' = <<>>
    /\ todo' = Keys
    /\ UNCHANGED <<main, table, cache, mode, dirty, tmpLocked, failed, told>>

\* ILibSimpleDataStore_Compact up to the enumeration.  When it refuses to run,
\* or cannot open the .tmp file, nothing changes.
CompactStart ==
    /\ Idle
    /\ mode # "mem"
    /\ dirty >= MinDirty
    /\ ~tmpLocked
    /\ phase' = "copy"
    /\ tmp' = <<>>
    /\ todo' = {s \in Slot : table[s] # NoEntry}
    /\ UNCHANGED <<main, table, cache, mode, dirty, tmpLocked, failed, told>>

Readable(s) == ReadBack(main, s, table[s]) # None

\* Mutant: the read loop waits for more than the last record of the file.
RunsOutAtLast(s) == table[s].off = Len(main)

\* The file ends before the value of s does.
RunsOut(s) ==
    \/ table[s].off > Len(main)
    \/ /\ table[s].off = Len(main)
       /\ main[table[s].off].part \in {"header", "value"}

\* As many bytes as the value of s has are at the entry's offset.
Complete(s) ==
    /\ table[s].off \in DOMAIN main
    /\ main[table[s].off].slot[2] = s[2]
    /\ main[table[s].off].val = table[s].val
    /\ main[table[s].off].part \in {"whole", "garbled"}

\* Mutant: the entry keeps the offset it had in the old file.
CompactCopyKeepsOffset(s) ==
    /\ phase = "copy" /\ s \in todo /\ ~RunsOut(s)
    /\ tmp' = Append(tmp, Value(s, table[s].val))
    /\ todo' = todo \ {s}
    /\ UNCHANGED <<main, table, cache, mode, dirty, phase, tmpLocked, failed, told>>

\* ILibSimpleDataStore_Compact_EnumerateSink for one slot: it copies whatever
\* is at the entry's offset and moves the entry to the copy, also when what it
\* wrote to the buffer is not in the file after fflush, or fclose.
Copy(s) == [slot |-> s, val |-> table[s].val,
            part |-> IF Readable(s) THEN "whole" ELSE "garbled"]
CompactCopy(s) ==
    /\ phase = "copy"
    /\ s \in todo
    /\ ~RunsOut(s)
    /\ \/ tmp' = Append(tmp, Copy(s)) /\ UNCHANGED failed
       \/ MayFail("flush") /\ tmp' \in Leftovers(tmp, Copy(s)) /\ failed' = failed \cup {"flush"}
    /\ table' = [table EXCEPT ![s] = [val |-> table[s].val, off |-> Len(tmp) + 1]]
    /\ todo' = todo \ {s}
    /\ UNCHANGED <<main, cache, mode, dirty, phase, tmpLocked, told>>

\* Its read loop only counts bytes it gets, so it does not end at the end of
\* the file, which it may reach when it does not read the value it looks for.
CompactHangs(s) ==
    /\ phase = "copy"
    /\ s \in todo
    /\ RunsOut(s) \/ ~Complete(s)
    /\ phase' = "hung"
    /\ UNCHANGED <<main, table, cache, mode, dirty, tmp, todo, tmpLocked, failed, told>>

\* Mutant: root->error is not checked after the enumeration.
CompactCopyFailsUnseen ==
    /\ phase = "copy" /\ todo # {} /\ MayFail("copy")
    /\ failed' = failed \cup {"copy"}
    /\ todo' = {}
    /\ UNCHANGED <<main, table, cache, mode, dirty, phase, tmp, tmpLocked, told>>

\* A write to the .tmp file fails.  The rest of the enumeration does nothing and
\* Compact returns without closing the file it holds a lock on.
CompactCopyFails ==
    /\ phase = "copy"
    /\ todo # {}
    /\ MayFail("copy")
    /\ failed' = failed \cup {"copy"}
    /\ phase' = "idle"
    /\ tmp' = <<>>
    /\ todo' = {}
    /\ tmpLocked' = TRUE
    /\ UNCHANGED <<main, table, cache, mode, dirty, told>>

\* The .tmp file is renamed over the data file, which is then opened again for
\* writing, whether or not the rename worked.
CompactReplace ==
    /\ phase = "copy"
    /\ todo = {}
    /\ \/ main' = tmp /\ UNCHANGED failed
       \/ MayFail("rename") /\ failed' = failed \cup {"rename"} /\ UNCHANGED main
    /\ mode' = "rw"
    /\ phase' = "idle"
    /\ tmp' = <<>>
    /\ UNCHANGED <<table, cache, dirty, todo, tmpLocked, told>>

Compacting == CompactReplace \/ \E s \in Slot : CompactCopy(s) \/ CompactHangs(s)

-----------------------------------------------------------------------------
(* Opening and ending *)

\* ILibSimpleDataStore_CreateEx2.  The compaction threshold is still zero.
Open ==
    /\ mode = "down"
    /\ \/ /\ TRUE \in Backed
          /\ RebuildKeyTable(main, "rw", 0, 0)
          /\ failed' = (failed \ {"flush"}) \cup NoteConversion(main)
       \/ /\ FALSE \in Backed
          /\ mode' = "mem"
          /\ UNCHANGED <<main, table, dirty, failed>>
    /\ told' = [k \in Keys |-> FileGet(main', table', k)]
    /\ UNCHANGED <<cache, phase, tmp, todo, tmpLocked>>

\* What is left when the process has ended: the file, as it is.
Ended ==
    /\ mode' = "down"
    /\ table' = EmptyTable
    /\ cache' = EmptyCache
    /\ dirty' = 0
    /\ phase' = "idle"
    /\ tmp' = <<>>
    /\ todo' = {}
    /\ tmpLocked' = FALSE
    /\ failed' = failed \cap {"flush", "rename", "convert"}
    /\ UNCHANGED told

\* ILibSimpleDataStore_Close, or the end of the process at any moment at which
\* no record is being written to the data file, also in the middle of Compact.
Stop ==
    /\ mode # "down"
    /\ UNCHANGED main
    /\ Ended

\* The process dies while it appends the records of writes: some of them are in
\* the file, and what is in Tears, or all, of the next one.
DiesWriting(writes) ==
    /\ Idle
    /\ mode = "rw"
    /\ HasRoom
    /\ \E n \in DOMAIN writes, part \in Tears \cup {"whole"} :
        /\ part = "value" => writes[n].val # None
        /\ main' = main \o SubSeq(writes, 1, n - 1) \o <<PartOf(writes[n], part)>>
    /\ Ended

DiesInPutEx2(s, v) ==
    DiesWriting((IF Hides(s) THEN <<Tombstone(Plain(s[1]))>> ELSE <<>>)
                \o (IF Same(s, v) THEN <<>> ELSE <<Value(s, v)>>))

DiesInPut(k, v) == k \in PlainKeys /\ DiesInPutEx2(Plain(k), v)

DiesInPutCompressed(k, v) == k \in CompressedKeys /\ DiesInPutEx2(Comp(k), v)

DiesInDelete(k) ==
    /\ table[Deleted(k)] # NoEntry
    /\ DiesWriting(<<Tombstone(Deleted(k))>>)

-----------------------------------------------------------------------------
Init ==
    /\ main = <<>>
    /\ table = EmptyTable
    /\ cache = EmptyCache
    /\ mode = "down"
    /\ dirty = 0
    /\ phase = "idle"
    /\ tmp = <<>>
    /\ todo = {}
    /\ tmpLocked = FALSE
    /\ failed = {}
    /\ told = [k \in Keys |-> None]

Next ==
    \/ Open
    \/ Stop
    \/ \E k \in Keys, v \in Values :
        \/ Put(k, v)
        \/ PutCompressed(k, v)
        \/ PutCached(k, v)
        \/ DiesInPut(k, v)
        \/ DiesInPutCompressed(k, v)
    \/ \E k \in Keys : Delete(k) \/ DiesInDelete(k)
    \/ CompactStart
    \/ \E s \in Slot : CompactCopy(s) \/ CompactHangs(s)
    \/ CompactCopyFails
    \/ CompactReplace

Spec == Init /\ [][Next]_vars

\* Compact is one call on the chain's only thread: nothing else runs until it
\* has ended, so its loop is never starved.
FairSpec == Spec /\ WF_vars(Compacting)

-----------------------------------------------------------------------------
TypeOK ==
    /\ main \in Seq(Record)
    /\ table \in [Slot -> Entry]
    /\ cache \in [Slot -> Values \cup {None}]
    /\ mode \in {"down", "rw", "ro", "mem"}
    /\ dirty \in 0 .. MinDirty
    /\ phase \in {"idle", "copy", "hung"}
    /\ tmp \in Seq(Record)
    /\ todo \subseteq Slot
    /\ tmpLocked \in BOOLEAN
    /\ failed \subseteq {"write", "flush", "copy", "rename", "convert"}
    /\ told \in [Keys -> Values \cup {None}]

\* The file holds a compressed record without the end of its value.
Swallows == \E i \in DOMAIN main : main[i].part = "value" /\ main[i].slot[2] = "comp"

\* No compressed value of k in the file is one that a crash has torn.  (Such a
\* value is never read, and not written again either, since its hash is right.)
Intact(k) ==
    \A i \in DOMAIN main : main[i].slot = Comp(k) => main[i].part \notin {"value", "garbled"}

\* No setting from the command line covers what the file holds for k.
Uncached(k) == k \in CachedKeys => cache[Plain(k)] = None

\* The table of a running store is the one that opening its file anew would
\* build: appending, deleting and compacting keep index and file together.  (A
\* compressed value a crash has torn swallows the records that are added after it.)
IndexMatchesFile ==
    Idle /\ mode # "mem" /\ failed = {} /\ ~ Swallows => table = Rebuilt(main)

\* Get answers what the callers of Put, PutCompressed, Cached and Delete were
\* told, and after a restart what the file held.  (Deleting a setting that was
\* only cached leaves it; a cached one covers what is put later; the deletion of
\* a key with two entries leaves one; without a file values lose their quotes.)
ReadsAsTold ==
    Idle /\ mode # "mem" /\ failed \subseteq {"convert"} =>
        \A k \in Keys \ (PlainKeys \cap CompressedKeys) :
            Intact(k) /\ (Uncached(k) \/ k \notin PlainKeys \cup CompressedKeys)
            => Get(k) = told[k] \/ (k \in CachedKeys /\ told[k] = None)

\* A value that was put is the one that Get answers from then on: no older value
\* of the key, plain, compressed or cached, covers it.  When a flush has failed,
\* which nothing notices (line 247), the file and the cache may have no value:
\* then Get answers none.  (A plain value in the cache does cover it, after a
\* write error or in a store without a file, and one that goes to the cache itself
\* loses its quotes; after a Compact that failed to copy or to rename the table
\* points into the file that was not put in place, and putting the same value
\* again does not write it.)
PutIsRead ==
    [][\A k \in Keys, v \in Values :
        /\ Put(k, v) \/ PutCompressed(k, v)
        /\ failed \cap {"write", "copy", "rename"} = {}
        /\ Intact(k) /\ Uncached(k)
        /\ mode = "mem" => k \notin PlainKeys \cap CompressedKeys
        /\ Unquote[v] # v => mode = "rw" /\ "write" \notin failed'
        => Get(k)' = v \/ ("flush" \in failed' /\ Get(k)' = None)]_vars

\* A value that was put is what a restart would find, also after a Compact that
\* noticed that it failed to copy.  (Not when a write failed; nor a flush, which
\* nothing notices, of a record or of the file that Compact renames over the
\* store; nor a rename, see NothingLost; nor the conversion of a file without any
\* value, which would have removed what is left of a record at its end; nor when
\* a record before it swallows it.)
PutIsDurable ==
    [][\A k \in Keys, v \in Values :
        /\ Put(k, v) \/ PutCompressed(k, v)
        /\ mode = "rw" /\ failed' \subseteq {"copy"} /\ ~ Swallows /\ Intact(k)
        => Durable(k)' = v]_vars

\* The file never answers with a value that was overwritten or deleted since: a
\* key that is not cached has the value its callers were told, or none.  (A
\* deletion whose tombstone could not be written is forgotten at the next error,
\* and the deletion of a key with two entries leaves one.  When a Compact, or a
\* flush, has failed, the entry of a compressed value that is torn may point at
\* the same value of another key.)
NeverStale ==
    Idle /\ "write" \notin failed => \A k \in Keys \ (PlainKeys \cap CompressedKeys) :
        /\ cache[Plain(k)] = None /\ cache[Comp(k)] = None
        /\ k \in CompressedKeys => failed \cap {"flush", "copy", "rename"} = {}
        => Get(k) \in {told[k], None}

\* A value that cannot be written is answered from the cache (line 711: "re-write
\* this record into the cache").  It is not when fflush fails (line 247): fwrite
\* only filled the buffer, and its result is all that line 249 looks at.
FailedWriteIsCached ==
    [][\A k \in Keys, v \in Values : failed = {} /\ Put(k, v) => Get(k)' = v]_vars

\* What the file holds for a key changes only by an operation on that key,
\* finished or cut short by a crash, or else to what the callers were told it is
\* (a compaction completes the deletion of a key whose tombstone could not be
\* written): never by an operation on another key, a write error, a compaction,
\* a restart or the repair of the end of the file.  (A Compact that does not
\* notice that a flush, or fclose at line 1108, failed puts a file in place that
\* lacks what was not written; after a failed rename the table points into the
\* file that was not put in place; deleting a key with two entries uncovers the
\* other one; and callers are told a cached setting.)
NothingLost ==
    []["rename" \notin failed => \A k \in Keys \ (PlainKeys \cap CompressedKeys) :
        Uncached(k) =>
        \/ Durable(k)' \in {Durable(k), told[k]}
        \/ CompactReplace /\ "flush" \in failed
        \/ Delete(k) \/ DiesInDelete(k)
        \/ \E v \in Values : \/ Put(k, v) \/ DiesInPut(k, v)
                            \/ PutCompressed(k, v) \/ DiesInPutCompressed(k, v)]_vars

\* Compact comes to an end.
CompactEnds == phase # "idle" ~> phase = "idle"

\* The store implements the durable dictionary of KVStore.
Store == INSTANCE KVStore WITH data <- [k \in Keys |-> Durable(k)], alive <- mode # "down"

ImplementsKVStore == Store!Spec
=============================================================================
