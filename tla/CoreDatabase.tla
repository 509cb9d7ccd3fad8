---------------------------- MODULE CoreDatabase ----------------------------
(***************************************************************************)
(* What a component sees of ILibSimpleDataStore.c that keeps one value     *)
(* under one key, compressed, as the agent core keeps the core module:     *)
(* its own puts and deletions, and what those of other keys, compactions   *)
(* and the end of the process do to the value.                             *)
(***************************************************************************)
CONSTANTS
    Cores,  \* the values, named by their hash
    None    \* no value

MaybeCore == Cores \cup {None}

\* table: the entry of the process.  whole: its value can be read back.  cache:
\* set after a write error.  file: what a new process finds.  end: the value in
\* the file can be read ("whole"), or it is torn, and then it hides what is
\* written behind it ("torn"), or it has other bytes by now ("garbled").  cut: a
\* write that failed unnoticed has left a record of which no reader sees anything
\* and that, like a torn value, hides what is written behind it, until the file is
\* opened again.
Database == [table : MaybeCore, whole : BOOLEAN, cache : MaybeCore,
             file : MaybeCore, end : {"whole", "torn", "garbled"}, cut : BOOLEAN]
EmptyDb == [table |-> None, whole |-> TRUE, cache |-> None,
            file |-> None, end |-> "whole", cut |-> FALSE]

\* ILibSimpleDataStore_GetHash, and whether ILibSimpleDataStore_Get returns the
\* value.
Hash(d) == IF d.cache # None THEN d.cache ELSE d.table
Readable(d) == d.cache # None \/ (d.table # None /\ d.whole)

\* The value, or none, is written behind what the file holds.
Hiding(d) == d.end = "torn" \/ d.cut
Written(d, v) == IF Hiding(d) THEN d ELSE [d EXCEPT !.file = v, !.end = "whole"]
Torn(d, v) == IF Hiding(d) THEN d ELSE [d EXCEPT !.file = v, !.end = "torn"]

\* What a flush that fails may leave in the file of a record that is not this value.
Lost(d) == {d, [d EXCEPT !.cut = (d.end # "torn")]}

\* The table is built anew from the file, as after every write error that is
\* noticed.  A file without a value is replaced by an empty one.
Reread(d) ==
    {[d EXCEPT !.table = d.file, !.whole = (d.end = "whole"), !.cut = cut] :
        cut \in {d.cut} \cup {FALSE : v \in {None} \cap {d.file}}}

\* ILibSimpleDataStore_PutCompressed: an entry with this hash is left alone.  When
\* fwrite fails the value goes to the cache; when fflush does, nobody knows.
Put(d, c, fails) ==
    IF d.table = c THEN {d}
    ELSE {[Written(d, c) EXCEPT !.table = c, !.whole = TRUE]}
         \cup IF ~fails THEN {}
              ELSE {[e EXCEPT !.cache = c] : e \in Reread(d)}
                   \cup {[e EXCEPT !.table = c, !.whole = FALSE] : e \in Lost(d) \cup {Torn(d, c)}}

\* ILibSimpleDataStore_Delete: the cache is not looked at, and the entry goes
\* whether or not that can be written.
Delete(d, fails) ==
    IF d.table = None THEN {d}
    ELSE {[e EXCEPT !.table = None, !.whole = TRUE] :
            e \in {Written(d, None)} \cup IF fails THEN Lost(d) ELSE {}}

\* ILibSimpleDataStore_Compact: the file becomes what the table says, if what was
\* copied has reached the new file.  If not, the value may be missing or torn, or
\* hidden by what is left of the copy of another one.
Copied(d) == [d EXCEPT !.file = d.table, !.end = IF d.whole THEN "whole" ELSE "garbled", !.cut = FALSE]
CopyLost(d) ==
    {[d EXCEPT !.file = None, !.end = "whole", !.cut = cut] : cut \in BOOLEAN}
    \cup {[Copied(d) EXCEPT !.cut = cut] : cut \in BOOLEAN}
    \cup {[d EXCEPT !.file = d.table, !.end = "torn", !.cut = FALSE] : whole \in {FALSE} \cap {d.whole}}
Compacted(d, fails) ==
    {Copied(d)} \cup IF fails THEN CopyLost(d) \cup CopyLost([d EXCEPT !.whole = (d.table = None)]) ELSE {}

\* The process ends, also while a value is written.  The next one cuts the file
\* off where a reader stops.
Ended(d) == [d EXCEPT !.table = d.file, !.whole = (d.end = "whole"), !.cache = None, !.cut = FALSE]
EndedInPut(d, c) == {Ended(Written(d, c)), Ended(Torn(d, c))}

\* ILibSimpleDataStore_CreateEx2: the records behind a torn value may have given
\* it the bytes it lacked.
Opened(d) == {d} \cup {[d EXCEPT !.end = "garbled"] : e \in {"torn"} \cap {d.end}}

\* Whatever happens to the value, also by operations on other keys.
DatabaseStep(d, e, fails) ==
    \/ \E c \in Cores : e \in Put(d, c, fails) \cup EndedInPut(d, c)
    \/ e \in Delete(d, fails) \cup {Ended(Written(d, None))} \cup Opened(d) \cup {Copied(d), Ended(d)}
    \/ fails /\ e \in Reread(d) \cup Lost(d) \cup CopyLost(d) \cup {[d EXCEPT !.whole = (d.table = None)]}
=============================================================================
