------------------------- MODULE MCControlChannel -------------------------
(* Instances of ControlChannel for TLC. *)
EXTENDS ControlChannel, TLC

OneOrTwo == {2, 3}
OnlyTwo == {2}
First == {1}
Nobody == {}
MCIds == {1, 2}
TwoCerts == {"certA", "certB"}
OneCert == {"certA"}
=============================================================================
