----------------------------- MODULE MCManagers ------------------------------
(* Values for the runs of Managers. *)
EXTENDS Managers

CONSTANTS team, m1, m2, n1, n2, c1, c2

TwoPrefixes == {NoPrefix, team}

With(p, e, n) == [prefix |-> p, elect |-> e, namespace |-> n]

Deploy(f1, f2) == [m \in {m1, m2} |-> IF m = m1 THEN f1 ELSE f2]

\* Replicas that elect, replicas that do not, one that does and one that does
\* not; two prefixes, electing in one namespace, electing in two, not electing.
SomeDeployments ==
  {Deploy(With(NoPrefix, TRUE, n1), With(NoPrefix, TRUE, n1)),
   Deploy(With(NoPrefix, FALSE, n1), With(NoPrefix, FALSE, n1)),
   Deploy(With(NoPrefix, TRUE, n1), With(NoPrefix, FALSE, n1)),
   Deploy(With(NoPrefix, TRUE, n1), With(team, TRUE, n1)),
   Deploy(With(NoPrefix, TRUE, n1), With(team, TRUE, n2)),
   Deploy(With(NoPrefix, FALSE, n1), With(team, FALSE, n1))}

\* A Component of the default rds provider and one of the prefixed.
SomeComponents == {c1, c2}
SomeProviders == [c \in SomeComponents |->
                    IF c = c1 THEN <<"rds">> ELSE <<team, "rds">>]

=============================================================================
