---------------------------- MODULE MCTelemetry ----------------------------
(* Instances of Telemetry for TLC. *)
EXTENDS Telemetry

Bounded(kind) == [kind |-> kind, capacity |-> 1]
MCPolicies ==
    {[kind |-> "Unbounded", capacity |-> 0], [kind |-> "DropOldest", capacity |-> 0],
     Bounded("DropNewest"), Bounded("RejectNew")}

MCThreads == {"t1", "t2"}
MCKeys == {"k1", "k2"}
MCSources == {"s1"}

=============================================================================
