-------------------------- MODULE MCEffectTracking --------------------------
(* Instances of EffectTracking for TLC. *)
EXTENDS EffectTracking

CONSTANTS k1, k2

TwoKeys == {k1, k2}

=============================================================================
