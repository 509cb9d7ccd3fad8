------------------------------ MODULE KVStore ------------------------------
(***************************************************************************)
(* What ILibSimpleDataStore promises to its callers: a durable dictionary. *)
(* Every operation takes effect at once, a process that dies in the middle *)
(* of an operation leaves the dictionary either with or without that       *)
(* operation, and nothing else ever changes what is stored.                *)
(***************************************************************************)
CONSTANTS
    Keys,       \* the keys a caller may use
    Values,     \* the non-empty values a caller may store
    None        \* what Get answers for a key that holds nothing

VARIABLES
    data,       \* the dictionary: what Get answers, now or after a restart
    alive       \* whether a process has the store open

vars == <<data, alive>>

TypeOK ==
    /\ data \in [Keys -> Values \cup {None}]
    /\ alive \in BOOLEAN

Init ==
    /\ data = [k \in Keys |-> None]
    /\ alive = FALSE

\* Putting a value, or deleting (None), while the process stays up.
Set(k, v) ==
    /\ alive
    /\ data' = [data EXCEPT ![k] = v]
    /\ UNCHANGED alive

Open ==
    /\ ~alive
    /\ alive' = TRUE
    /\ UNCHANGED data

\* The process ends between two operations.
Stop ==
    /\ alive
    /\ alive' = FALSE
    /\ UNCHANGED data

\* The process dies inside an operation that would have set k to v, and the
\* operation turns out to have taken effect.
StopAfterSet(k, v) ==
    /\ alive
    /\ alive' = FALSE
    /\ data' = [data EXCEPT ![k] = v]

Next ==
    \/ Open
    \/ Stop
    \/ \E k \in Keys, v \in Values \cup {None} : Set(k, v) \/ StopAfterSet(k, v)

Spec == Init /\ [][Next]_vars
=============================================================================
