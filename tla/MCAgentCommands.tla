-------------------------- MODULE MCAgentCommands --------------------------
(* Instances of AgentCommands for TLC. *)
EXTENDS AgentCommands, TLC

Service == [noUpdateCoreModule |-> FALSE, forceUpdate |-> FALSE, fakeUpdate |-> FALSE,
            service |-> TRUE, zipped |-> FALSE, dbFails |-> FALSE, diskFails |-> FALSE,
            current |-> FALSE, changes |-> 2]

\* Each setting, and each kind of fault, with what it can make a difference to.
MCSetups == {
    [Service EXCEPT !.dbFails = TRUE, !.current = TRUE, !.changes = 1],
    [Service EXCEPT !.dbFails = TRUE, !.forceUpdate = TRUE, !.changes = 0],
    Service,
    [Service EXCEPT !.forceUpdate = TRUE, !.zipped = TRUE, !.diskFails = TRUE, !.changes = 1],
    [Service EXCEPT !.zipped = TRUE, !.changes = 0],
    [Service EXCEPT !.fakeUpdate = TRUE, !.noUpdateCoreModule = TRUE],
    [Service EXCEPT !.fakeUpdate = TRUE, !.zipped = TRUE, !.diskFails = TRUE, !.changes = 0],
    [Service EXCEPT !.service = FALSE, !.diskFails = TRUE, !.changes = 0]}
=============================================================================
