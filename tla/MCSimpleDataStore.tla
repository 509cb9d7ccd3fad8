------------------------- MODULE MCSimpleDataStore -------------------------
(* Instances of SimpleDataStore for TLC. *)
EXTENDS SimpleDataStore

CONSTANTS k1, k2, k3, v1, v2, quoted

\* Every value is stored as it is given.
AsIs == [v \in Values |-> v]

\* CachedEx stores v1 when it is given v1 in quotes.
StripsQuotes == [v \in Values |-> IF v = quoted THEN v1 ELSE v]

\* Flushes fail with other writes to the file, everything else with each other.
FailingTogether == {{"write", "tmp", "copy", "rename"}, {"write", "flush"}}
=============================================================================
