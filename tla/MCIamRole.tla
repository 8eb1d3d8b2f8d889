----------------------------- MODULE MCIamRole ------------------------------
(* Values for the runs of IamRole. *)
EXTENDS IamRole

CONSTANTS t1, t2

\* Two trust policies the provider accepts; a spec without policies it refuses.
TwoTrusts == {t1, t2}

ThreePolicies == 1 .. 3

-----------------------------------------------------------------------------
(* What the plan says. *)

\* The plan attaches the missing policies before it detaches the removed ones
\* (src/docs/plans/iam-role-handler.md:131-132, :201-203), so that an apply never
\* takes rights away while others that the spec wants are still missing.
AttachesFirst ==
  pc = "Detach" /\ ~disturbed => job.spec.policies \subseteq attached

=============================================================================
