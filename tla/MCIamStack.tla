----------------------------- MODULE MCIamStack ------------------------------
(* Values for the runs of IamStack. *)
EXTENDS IamStack

CONSTANTS d1, d2, t1

TwoDocs == {d1, d2}
OneTrust == {t1}
TwoPolicies == 1 .. 2

=============================================================================
