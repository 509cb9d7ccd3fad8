---------------------------- MODULE PostedCalls ----------------------------
(***************************************************************************)
(* What ILibChain_RunOnMicrostackThread promises: a call that was posted   *)
(* is made once on the chain's thread, whatever timers are added and       *)
(* removed meanwhile, or aborted when the chain has been told to stop.     *)
(***************************************************************************)
EXTENDS Integers

VARIABLES
    owed,      \* the calls posted and not yet made
    made,      \* those made
    stopped    \* the chain was told to stop

Init == owed = {} /\ made = {} /\ stopped = FALSE

PostCall(i) ==
    /\ i \notin owed \cup made
    /\ owed' = owed \cup {i}
    /\ UNCHANGED <<made, stopped>>

Make(i) ==
    /\ i \in owed
    /\ owed' = owed \ {i}
    /\ made' = made \cup {i}
    /\ UNCHANGED stopped

Stop == stopped' = TRUE /\ UNCHANGED <<owed, made>>

Abort == stopped /\ owed' = {} /\ UNCHANGED <<made, stopped>>

Next == (\E i \in owed' : PostCall(i)) \/ (\E i \in owed : Make(i)) \/ Stop \/ Abort

Spec == Init /\ [][Next]_<<owed, made, stopped>>
=============================================================================
