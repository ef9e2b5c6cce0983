--------------------------- MODULE MCQueueTracker ---------------------------
(* Instances of QueueTracker for TLC. *)
EXTENDS QueueTracker

CONSTANTS d1, d2

TwoDispatchers == {d1, d2}

\* Every policy, with the capacities 0 and 1, at which displacing and accepting meet,
\* and 2, at which a displacement can leave older messages than the one it takes.
AllPolicies ==
    {[kind |-> "Unbounded", capacity |-> 0]}
      \cup [kind : {"RejectNew", "DropNewest", "DropOldest"}, capacity : 0..2]

=============================================================================
