---------------------------- MODULE ComponentKit ----------------------------
(***************************************************************************)
(* The Component object and the reconciler of componentkit, seen from the  *)
(* providers of this repository.  The framework itself is a dependency     *)
(* (go.mod: github.com/rinswind/componator); what is written here is what  *)
(* the providers rely on when they register apply, checkApplied, delete    *)
(* and checkDeleted with functional.NewBuilder and answer with             *)
(* ActionSuccess, ActionFailure, ActionResultForError, CheckComplete,      *)
(* CheckInProgress and CheckResultForError.                                *)
(*                                                                         *)
(* A Component is a record                                                 *)
(*   phase       where its life cycle stands                               *)
(*   spec        the configuration the user asks for                       *)
(*   generation  bumped by the API server on every edit of the spec        *)
(*   observed    the generation the last finished apply worked on          *)
(*   deleting    a deletion was requested                                  *)
(*   status      what the provider last had persisted (ProviderStatus)     *)
(*                                                                         *)
(* The module has no variables: the provider modules keep one record per   *)
(* Component and use these operators on it.                                *)
(***************************************************************************)
EXTENDS Naturals

Phase == {"Pending", "Deploying", "Ready", "Failed", "Terminating", "Gone"}

Component(Spec, Status, Generation) ==
  [phase : Phase, spec : Spec, generation : Generation,
   observed : Generation \cup {0}, deleting : BOOLEAN, status : Status]

\* A Component the user has just created: nothing applied, nothing persisted.
NewComponent(spec, noStatus) ==
  [phase |-> "Pending", spec |-> spec, generation |-> 1,
   observed |-> 0, deleting |-> FALSE, status |-> noStatus]

-----------------------------------------------------------------------------
(* Which handler the reconciler calls next. *)

NeedsApply(o) ==
  /\ ~o.deleting
  /\ o.phase \notin {"Terminating", "Gone"}
  /\ o.observed # o.generation

NeedsApplyCheck(o) ==
  /\ ~o.deleting
  /\ o.phase = "Deploying"
  /\ o.observed = o.generation

NeedsDelete(o) ==
  /\ o.deleting
  /\ o.phase \in {"Pending", "Deploying", "Ready"}

\* Whether a failed Component under deletion is tried again is the framework's
\* business: the step is possible and nothing is assumed about its ever coming.
MayRetryDelete(o) ==
  /\ o.deleting
  /\ o.phase = "Failed"

NeedsDeleteCheck(o) ==
  /\ o.deleting
  /\ o.phase = "Terminating"

-----------------------------------------------------------------------------
(* What a handler's result does to the Component.  A retryable error, an   *)
(* error of the status update and a crash of the manager record nothing:   *)
(* the handler is called again with what was persisted before.             *)

\* ActionSuccess of apply, for the generation the handler was started with.
Applied(o, generation, status) ==
  [o EXCEPT !.phase = "Deploying", !.observed = generation, !.status = status]

\* ActionFailure, or a permanent error, of apply.
ApplyFailed(o, generation, status) ==
  [o EXCEPT !.phase = "Failed", !.observed = generation, !.status = status]

\* CheckComplete of checkApplied.
CheckedReady(o, status) == [o EXCEPT !.phase = "Ready", !.status = status]

\* A permanent error of a check or of delete.
Failed(o, status) == [o EXCEPT !.phase = "Failed", !.status = status]

\* ActionSuccess of delete.
DeleteStarted(o, status) == [o EXCEPT !.phase = "Terminating", !.status = status]

\* CheckComplete of checkDeleted: the finalizer is removed.
CheckedGone(o, status) == [o EXCEPT !.phase = "Gone", !.status = status]

-----------------------------------------------------------------------------
(* What the user does. *)

Edited(o, spec) ==
  [o EXCEPT !.spec = spec, !.generation = @ + 1]

DeletionRequested(o) == [o EXCEPT !.deleting = TRUE]

=============================================================================
