---------------------------- MODULE MCProgramTurns ----------------------------
(* Instances of ProgramTurns for TLC. *)
EXTENDS ProgramTurns, MCProgram

\* init and update return nothing, a message, or a batch with messages and an effect.
DrainCommands == {<<>>, <<Emit>>, <<Emit, Effect, Emit>>}

DrainPolicies == {Unbounded, DropOldest(1), DropOldest(2), RejectNew(1)}

=============================================================================
