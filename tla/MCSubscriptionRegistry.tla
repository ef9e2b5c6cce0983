----------------------- MODULE MCSubscriptionRegistry -----------------------
(* Instances of SubscriptionRegistry for TLC. *)
EXTENDS SubscriptionRegistry

CONSTANTS k1, k2, k3

ThreeKeys == {k1, k2, k3}

=============================================================================
