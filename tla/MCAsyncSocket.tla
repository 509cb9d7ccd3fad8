---------------------------- MODULE MCAsyncSocket ----------------------------
(* Instances of AsyncSocket for TLC. *)
EXTENDS AsyncSocket

\* A buffer of two bytes, two buffers of one call, and an empty one.
TwoThenEmpty == {<<2>>, <<1, 1>>, <<0>>}
PairOrEmpty == {<<1, 1>>, <<0>>}
=============================================================================
