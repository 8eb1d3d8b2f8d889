------------------------------- MODULE MCRds --------------------------------
(* Values and special cases for the runs of Rds. *)
EXTENDS Rds

CONSTANTS small, large

TwoClasses == {small, large}

SpecOf(k, protection, skip, named) ==
  [valid |-> TRUE, class |-> k, deletionProtection |-> protection,
   skipFinalSnapshot |-> skip, snapshotNamed |-> named]

\* The defaults, a throw-away instance, one with a named snapshot, and one that
\* resolveSpec refuses.
Defaults == SpecOf(small, "nil", "nil", FALSE)
ThrowAway == SpecOf(large, "false", "true", FALSE)
AllSpecs ==
  {Defaults, ThrowAway, SpecOf(large, "false", "nil", TRUE),
   [SpecOf(small, "false", "true", FALSE) EXCEPT !.valid = FALSE]}

\* Nothing said about snapshots, the protection taken off.
DefaultSnapshots == {SpecOf(small, "false", "nil", FALSE)}

-----------------------------------------------------------------------------
(* What comments and documents say. *)

\* No call is refused for reasons outside the model, nothing else happens to the
\* instance.
QuietNext ==
  \/ Reconcile \/ Interrupt \/ Aws
  \/ EditSpec \/ RequestDeletion

QuietFreshSpec == Init /\ NoInstance /\ [][QuietNext]_vars

\* An apply may be repeated: AWS handles idempotency (modifyInstance's comment,
\* aws_rds.go:174).
RepeatedApplySucceeds ==
  obj.generation = 1 /\ pc = "applyFailed" => ~job.spec.valid

\* By default a final snapshot is taken (applyDefaults' comment, config.go:152),
\* so AWS accepts to delete an instance that is there, available and not protected.
DeleteRequestIsValid ==
  pc = "DeleteInstance" /\ status = "available" /\ ~protected =>
    SnapshotSettingsAreValid(job.spec)

=============================================================================
