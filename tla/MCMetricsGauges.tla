-------------------------- MODULE MCMetricsGauges --------------------------
(* Instances of MetricsGauges for TLC. *)
EXTENDS MetricsGauges

CONSTANTS p1, p2, t1, t2

OneProgram == {p1}
TwoPrograms == {p1, p2}
OneThread == {t1}
TwoThreads == {t1, t2}

Shared == {"shared"}
AllShared == [p \in Programs |-> "shared"]

=============================================================================
