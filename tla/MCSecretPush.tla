---------------------------- MODULE MCSecretPush ----------------------------
(* Values for the runs of SecretPush. *)
EXTENDS SecretPush, TLC

CONSTANTS c1, c2, v1, v2, username, password

OneComponent  == {c1}
TwoComponents == {c1, c2}
TwoFields == {username, password}
TwoValues == {v1, v2}

SpecOf(user, update, deletion) ==
  [fields |-> (username :> user @@ password :> Generator),
   update |-> update, deletion |-> deletion]

\* The defaults, an explicit update, one that keeps the secret, and two that
\* resolveSpec refuses.
Accepted == {SpecOf(v1, "", ""), SpecOf(v2, "AlwaysUpdate", "Delete"),
             SpecOf(v2, "AlwaysUpdate", "Retain")}
AllSpecs == Accepted \cup {SpecOf(Malformed, "", ""), SpecOf(v1, "unknown", "Retain")}
Symmetry == Permutations(TwoComponents)

=============================================================================
