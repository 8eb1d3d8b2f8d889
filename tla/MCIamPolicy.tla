---------------------------- MODULE MCIamPolicy -----------------------------
(* Model values and symmetry for the runs of IamPolicy. *)
EXTENDS IamPolicy, TLC

CONSTANTS c1, c2, d1, d2, bad

OneComponent  == {c1}
TwoComponents == {c1, c2}

\* Two documents the provider accepts and one it refuses.
AllDocs  == {d1, d2, bad}
GoodDocs == {d1, d2}

Symmetry1 == Permutations(GoodDocs)
Symmetry2 == Permutations(TwoComponents) \cup Permutations(GoodDocs)

-----------------------------------------------------------------------------

\* No new version while the document is unchanged (createPolicyVersion's
\* comment, aws_iampolicy.go:104).
UnchangedMakesNoVersion ==
  [][exists /\ issued' > issued => text'[default'] # DocInForce]_vars

=============================================================================
