------------------------------ MODULE MCProgram ------------------------------
(* Instances of Program for TLC. *)
EXTENDS Program

CONSTANTS d1, d2, k1

OneDispatcher == {d1}
TwoDispatchers == {d1, d2}

NoKeys == {}
OneKey == {k1}

Emit == [kind |-> "Emit"]
Effect == [kind |-> "Effect"]
Start(k) == [kind |-> "Keyed", key |-> k]
Cancel(k) == [kind |-> "Cancel", key |-> k]

Quiet == {<<>>}

\* init and update emit, so that internal messages pile up before external ones.
BacklogCommands == {<<>>, <<Emit, Emit, Emit, Emit>>}

\* update starts an effect now and then.
EffectCommands == {<<>>, <<Effect>>}

\* update starts and cancels keyed effects, in the orders that a batch allows.
KeyedCommands ==
    {<<>>, <<Start(k1)>>, <<Start(k1), Start(k1)>>, <<Cancel(k1), Start(k1)>>,
     <<Effect, Cancel(k1)>>}

Unbounded == [kind |-> "Unbounded", capacity |-> 0]
DropOldest(n) == [kind |-> "DropOldest", capacity |-> n]
RejectNew(n) == [kind |-> "RejectNew", capacity |-> n]

LoadPolicies == {Unbounded, DropOldest(1), DropOldest(2), RejectNew(2)}
DropOldestOne == {DropOldest(1)}
UnboundedOnly == {Unbounded}

OneByOne == {1}
SmallBudgets == 1..2

MaxBusyDispatches == 2

\* No effect was started and nothing emitted, and nothing is about to be.
Quietly == todo = <<>> /\ emitted = 0 /\ nextEffectId = 0 /\ nextGeneration = 0

\* A load is a flood of dispatches to a program that only updates its state, or a few
\* dispatches, MaxBusyDispatches at most, to one that returns commands.
LoadNext == Next /\ (nextId' <= MaxBusyDispatches \/ Quietly')

LoadSpec == Init /\ [][LoadNext]_vars

=============================================================================
