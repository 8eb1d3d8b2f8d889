------------------------------ MODULE IamRole -------------------------------
(***************************************************************************)
(* The iam-role provider (src/iamrole): the handlers of one Component that *)
(* keeps an IAM role, its trust policy and the managed policies attached   *)
(* to it, one step per call to AWS.  Others with access to the account may *)
(* attach and detach policies and delete the role between two calls.       *)
(***************************************************************************)
EXTENDS ComponentKit, FiniteSets

CONSTANTS
  Trusts,         \* trust policy documents, as the user writes them
  ValidTrusts,    \* those that resolveSpec accepts
  NoTrust,        \* the trust policy of a role that does not exist
  Policies,       \* ARNs of managed policies, as numbers: they get sorted
  MaxGeneration,  \* BOUND on the edits of the spec
  MaxFaults,      \* BOUND on interruptions and refused calls
  MaxOutside      \* BOUND on what others do to the role

RoleSpec == [trust : Trusts, policies : SUBSET Policies]

ASSUME RoleDataAssumption ==
  /\ ValidTrusts \subseteq Trusts
  /\ NoTrust \notin Trusts \cup RoleSpec
  /\ Policies \subseteq Nat

ASSUME RoleBoundsAssumption ==
  /\ MaxGeneration \in Nat \ {0}
  /\ MaxFaults \in Nat
  /\ MaxOutside \in Nat

\* GetRole answers with the trust policy percent-encoded (RFC 3986), and the
\* provider never decodes it.
URLEncoded(d) == [urlEncoded |-> d]

ASSUME RoleEncodingAssumption == \A d \in Trusts : URLEncoded(d) \notin Trusts

\* Semantic equality of two JSON texts; FALSE when either is not JSON.
jsonEquals(a, b) == a \in ValidTrusts /\ b \in ValidTrusts /\ a = b

VARIABLES
  trust,      \* the role's trust policy, NoTrust while there is no role
  attached,   \* the managed policies attached to it
  obj,        \* the Component object
  pc,         \* the call its handler makes next
  job,        \* the handler's local variables
  disturbed,  \* someone else changed the role since the last run began
  meddled,    \* the policies that someone else attached or detached since the
              \* running apply listed them: a history variable
  faults,
  outside

roleVars == <<trust, attached>>
vars == <<trust, attached, obj, pc, job, disturbed, meddled, faults, outside>>

exists == trust # NoTrust

Resolves(s) == s.trust \in ValidTrusts /\ s.policies # {}

Status == [arn : BOOLEAN, attached : SUBSET Policies]
NoStatus == [arn |-> FALSE, attached |-> {}]

ApplyCalls == {"GetRole", "CreateRole", "UpdateTrust", "ListAttached", "Detach", "Attach"}
DeleteCalls == {"GetForDelete", "ListForDelete", "DetachForDelete", "DeleteRole"}
Outcome == {"applied", "applyFailed", "ready", "failed", "deleteStarted", "gone"}

(* listed is what ListAttachedRolePolicies said, actual the code's           *)
(* actuallyAttached; reconciled tells whether reconcilePolicyAttachments has *)
(* got to its changes.                                                       *)
Job ==
  [spec : RoleSpec \cup {NoTrust}, generation : Nat,
   listed : SUBSET Policies, actual : SUBSET Policies,
   reconciled : BOOLEAN, status : Status]

NoJob == [spec |-> NoTrust, generation |-> 0, listed |-> {}, actual |-> {},
          reconciled |-> FALSE, status |-> NoStatus]

GoTo(call, j) ==
  /\ pc' = call
  /\ job' = j
  /\ UNCHANGED <<obj, meddled, faults, outside>>

Begin(call) ==
  GoTo(call, [NoJob EXCEPT !.spec = obj.spec, !.generation = obj.generation,
                           !.status = obj.status])

Init ==
  \* The account may hold a role of that name already.
  /\ \/ trust = NoTrust /\ attached = {}
     \/ trust \in ValidTrusts /\ attached \in SUBSET Policies
  /\ \E s \in RoleSpec : obj = NewComponent(s, NoStatus)
  /\ pc = "idle"
  /\ job = NoJob
  /\ disturbed = FALSE
  /\ meddled = {}
  /\ faults = 0
  /\ outside = 0

-----------------------------------------------------------------------------
(* apply *)

RejectSpec ==
  /\ pc = "idle" /\ NeedsApply(obj)
  /\ ~Resolves(obj.spec)
  /\ Begin("applyFailed")
  /\ UNCHANGED <<roleVars, disturbed>>

StartApply ==
  /\ pc = "idle" /\ NeedsApply(obj)
  /\ Resolves(obj.spec)
  /\ Begin("GetRole")
  /\ disturbed' = FALSE
  /\ UNCHANGED roleVars

\* Mutation: created without looking first.
GetRoleSkipped ==
  /\ pc = "GetRole"
  /\ GoTo("CreateRole", job)
  /\ UNCHANGED <<roleVars, disturbed>>

\* getRoleByName, and updateTrustPolicy's comparison.
GetRole ==
  /\ pc = "GetRole"
  /\ IF exists
       THEN GoTo(IF jsonEquals(URLEncoded(trust), job.spec.trust)
                   THEN "ListAttached" ELSE "UpdateTrust",
                 [job EXCEPT !.status.arn = TRUE])
       ELSE GoTo("CreateRole", job)
  /\ UNCHANGED <<roleVars, disturbed>>

\* CreateRole with trust policy d; EntityAlreadyExists is not retryable.
CreateWithTrust(d) ==
  /\ pc = "CreateRole"
  /\ IF exists
       THEN GoTo("applyFailed", job) /\ UNCHANGED roleVars
       ELSE /\ trust' = d
            /\ attached' = {}
            /\ GoTo("ListAttached", [job EXCEPT !.status.arn = TRUE])
  /\ UNCHANGED disturbed

\* Mutation: the document is encoded on its way out.
CreateRoleEncoded == CreateWithTrust(URLEncoded(job.spec.trust))

CreateRole == CreateWithTrust(job.spec.trust)

\* UpdateAssumeRolePolicy with trust policy d.
UpdateTrustTo(d) ==
  /\ pc = "UpdateTrust"
  /\ IF exists
       THEN trust' = d /\ GoTo("ListAttached", job)
       ELSE GoTo("applyFailed", job) /\ UNCHANGED trust
  /\ UNCHANGED <<attached, disturbed>>

\* Mutation: the current document is sent instead of the desired one.
UpdateTrustToCurrent == UpdateTrustTo(trust)

UpdateTrust == UpdateTrustTo(job.spec.trust)

\* Mutation: a clean sweep.
ToDetachAll(j) == j.listed

ToDetach(j) == j.listed \ j.spec.policies

ToAttach(j) == j.spec.policies \ j.listed

\* The code's slices.Sorted order: the next of the policies in S.
NextOf(S) == CHOOSE p \in S : \A q \in S : p <= q

\* At the end the status takes what is attached.
Finished(j) == [j EXCEPT !.status.attached = j.actual]

\* Where reconcilePolicyAttachments goes with its local variables j: detaching
\* first, then attaching.
Onward(j) ==
  IF ToDetach(j) \cap j.actual # {} THEN GoTo("Detach", j)
  ELSE IF ToAttach(j) \ j.actual # {} THEN GoTo("Attach", j)
  ELSE GoTo("applied", Finished(j))

ListAttached ==
  /\ pc = "ListAttached"
  /\ IF exists
       THEN Onward([job EXCEPT !.listed = attached, !.actual = attached,
                               !.reconciled = TRUE])
       ELSE GoTo("applyFailed", job)
  /\ UNCHANGED <<roleVars, disturbed>>

\* Mutation: the error return lists what was attached at the start.
PartialAtStart(j) == [j EXCEPT !.status.attached = j.listed]

\* What an error of a detach or of an attach leaves in the result.
Partial(j) == [j EXCEPT !.status.attached = j.actual]

\* DetachRolePolicy; NoSuchEntity, the policy or the role is gone, is an error.
Detach ==
  /\ pc = "Detach"
  /\ LET p == NextOf(ToDetach(job) \cap job.actual)
     IN  IF p \in attached
           THEN /\ attached' = attached \ {p}
                /\ Onward([job EXCEPT !.actual = @ \ {p}])
           ELSE GoTo("applyFailed", Partial(job)) /\ UNCHANGED attached
  /\ UNCHANGED <<trust, disturbed>>

\* AttachRolePolicy; an error only when the role is gone.
Attach ==
  /\ pc = "Attach"
  /\ LET p == NextOf(ToAttach(job) \ job.actual)
     IN  IF exists
           THEN /\ attached' = attached \cup {p}
                /\ Onward([job EXCEPT !.actual = @ \cup {p}])
           ELSE GoTo("applyFailed", Partial(job)) /\ UNCHANGED attached
  /\ UNCHANGED <<trust, disturbed>>

-----------------------------------------------------------------------------
(* checkApplied: one GetRole; an empty ARN is still in progress. *)

CheckWhen(due) ==
  /\ pc = "idle" /\ NeedsApplyCheck(obj)
  /\ due
  /\ Begin(IF exists THEN "ready" ELSE "failed")
  /\ UNCHANGED <<roleVars, disturbed>>

\* Mutation: the test of the ARN inverted.
CheckAppliedInverted == CheckWhen(~obj.status.arn)

CheckApplied == CheckWhen(obj.status.arn)

-----------------------------------------------------------------------------
(* delete goes by the role's name, whatever the status says. *)

BeginDelete ==
  /\ pc = "idle"
  /\ Begin("GetForDelete")
  /\ disturbed' = FALSE
  /\ UNCHANGED roleVars

StartDelete == NeedsDelete(obj) /\ BeginDelete
RetryDelete == MayRetryDelete(obj) /\ BeginDelete

GetForDelete ==
  /\ pc = "GetForDelete"
  /\ GoTo(IF exists THEN "ListForDelete" ELSE "deleteStarted", job)
  /\ UNCHANGED <<roleVars, disturbed>>

\* The policies to be detached are those in toDetach; a role that has gone
\* meanwhile is an error here.
BeginDetaching(toDetach) ==
  /\ pc = "ListForDelete"
  /\ IF exists
       THEN GoTo(IF toDetach = {} THEN "DeleteRole" ELSE "DetachForDelete",
                 [job EXCEPT !.listed = toDetach])
       ELSE GoTo("failed", job)
  /\ UNCHANGED <<roleVars, disturbed>>

\* Mutation: those in the status, without asking AWS.
ListForDeleteRecorded == BeginDetaching(job.status.attached)

ListForDelete == BeginDetaching(attached)

\* In the order of the listing, which is anyone's; NoSuchEntity is an error.
DetachForDelete ==
  /\ pc = "DetachForDelete"
  /\ \E p \in job.listed :
       IF p \in attached
         THEN /\ attached' = attached \ {p}
              /\ GoTo(IF job.listed = {p} THEN "DeleteRole" ELSE "DetachForDelete",
                      [job EXCEPT !.listed = @ \ {p}])
         ELSE GoTo("failed", job) /\ UNCHANGED attached
  /\ UNCHANGED <<trust, disturbed>>

\* DeleteRole; onConflict is the outcome of DeleteConflict, while policies are
\* attached.
DeleteOr(onConflict) ==
  /\ pc = "DeleteRole"
  /\ IF attached # {}
       THEN GoTo(onConflict, job) /\ UNCHANGED trust
       ELSE trust' = NoTrust /\ GoTo("deleteStarted", job)
  /\ UNCHANGED <<attached, disturbed>>

\* Mutation: a conflict is taken for a success.
DeleteRoleAnyway == DeleteOr("deleteStarted")

DeleteRole == DeleteOr("failed")

-----------------------------------------------------------------------------
(* checkDeleted: one GetRole; while the role exists, in progress. *)

CheckDeleted ==
  /\ pc = "idle" /\ NeedsDeleteCheck(obj)
  /\ ~exists
  /\ Begin("gone")
  /\ UNCHANGED <<roleVars, disturbed>>

-----------------------------------------------------------------------------
(* The reconciler records a result; or it never gets to. *)

Recorded ==
  CASE pc = "applied"       -> Applied(obj, job.generation, job.status)
    [] pc = "applyFailed"   -> ApplyFailed(obj, job.generation, job.status)
    [] pc = "ready"         -> CheckedReady(obj, job.status)
    [] pc = "failed"        -> Failed(obj, job.status)
    [] pc = "deleteStarted" -> DeleteStarted(obj, job.status)
    [] pc = "gone"          -> CheckedGone(obj, job.status)

Record ==
  /\ pc \in Outcome
  /\ obj' = Recorded
  /\ pc' = "idle"
  /\ job' = NoJob
  /\ meddled' = {}
  /\ UNCHANGED <<roleVars, disturbed, faults, outside>>

\* A retryable error, a lost response, a failed status update, a crash.
Interrupt ==
  /\ pc # "idle"
  /\ faults < MaxFaults
  /\ faults' = faults + 1
  /\ pc' = "idle"
  /\ job' = NoJob
  /\ meddled' = {}
  /\ UNCHANGED <<roleVars, obj, disturbed, outside>>

\* A call refused for good: AccessDenied, a policy that does not exist, a quota.
PermanentError ==
  /\ pc \in ApplyCalls \cup DeleteCalls
  /\ faults < MaxFaults
  /\ faults' = faults + 1
  /\ pc' = IF pc \in ApplyCalls THEN "applyFailed" ELSE "failed"
  /\ job' = IF pc \in {"Detach", "Attach"} THEN Partial(job) ELSE job
  /\ UNCHANGED <<roleVars, obj, disturbed, meddled, outside>>

\* The same for the one call of a check.
CheckRefused ==
  /\ pc = "idle"
  /\ (NeedsApplyCheck(obj) /\ obj.status.arn) \/ NeedsDeleteCheck(obj)
  /\ faults < MaxFaults
  /\ faults' = faults + 1
  /\ pc' = "failed"
  /\ job' = [job EXCEPT !.status = obj.status]
  /\ UNCHANGED <<roleVars, obj, disturbed, meddled, outside>>

-----------------------------------------------------------------------------
(* The environment. *)

EditSpec ==
  /\ ~obj.deleting
  /\ obj.generation < MaxGeneration
  /\ \E s \in RoleSpec \ {obj.spec} : obj' = Edited(obj, s)
  /\ UNCHANGED <<roleVars, pc, job, disturbed, meddled, faults, outside>>

RequestDeletion ==
  /\ ~obj.deleting
  /\ obj' = DeletionRequested(obj)
  /\ UNCHANGED <<roleVars, pc, job, disturbed, meddled, faults, outside>>

\* Someone else attaches or detaches a policy, or deletes the bare role.
Outside ==
  /\ exists
  /\ outside < MaxOutside
  /\ outside' = outside + 1
  /\ \/ \E p \in Policies \ attached : attached' = attached \cup {p} /\ UNCHANGED trust
     \/ \E p \in attached : attached' = attached \ {p} /\ UNCHANGED trust
     \/ attached = {} /\ trust' = NoTrust /\ UNCHANGED attached
  /\ disturbed' = TRUE
  /\ meddled' = IF job.reconciled
                  THEN meddled \cup (attached \ attached') \cup (attached' \ attached)
                  ELSE meddled
  /\ UNCHANGED <<obj, pc, job, faults>>

-----------------------------------------------------------------------------

Apply ==
  \/ RejectSpec \/ StartApply
  \/ GetRole \/ CreateRole \/ UpdateTrust
  \/ ListAttached \/ Detach \/ Attach
  \/ CheckApplied

Delete ==
  \/ StartDelete \/ GetForDelete \/ ListForDelete
  \/ DetachForDelete \/ DeleteRole
  \/ CheckDeleted

Reconcile == Apply \/ Delete \/ Record

Next ==
  \/ Reconcile \/ RetryDelete
  \/ Interrupt \/ PermanentError \/ CheckRefused
  \/ EditSpec \/ RequestDeletion \/ Outside

Spec == Init /\ [][Next]_vars

\* The work queue calls a handler that is due, and a running one goes on.
FairSpec == Spec /\ WF_vars(Reconcile)

-----------------------------------------------------------------------------
(* Properties *)

\* Every variable holds a value of its type.
TypeOK ==
  /\ trust \in Trusts \cup {NoTrust}
  /\ attached \subseteq Policies
  /\ obj \in Component(RoleSpec, Status, 1 .. MaxGeneration)
  /\ pc \in {"idle"} \cup ApplyCalls \cup DeleteCalls \cup Outcome
  /\ job \in Job
  /\ disturbed \in BOOLEAN
  /\ meddled \subseteq Policies
  /\ faults \in 0 .. MaxFaults
  /\ outside \in 0 .. MaxOutside

Settled ==
  /\ obj.phase \in {"Deploying", "Ready"}
  /\ obj.observed = obj.generation
  /\ ~obj.deleting

\* A Component whose apply succeeded has the trust policy and exactly the
\* attachments of its spec, and lists them in its status, whatever interrupted
\* runs came before (applyAction, reconcilePolicyAttachments).
ReadyMeansInPlace ==
  Settled /\ ~disturbed =>
    /\ trust = obj.spec.trust
    /\ attached = obj.spec.policies
    /\ obj.status = [arn |-> TRUE, attached |-> attached]

\* Done or failed partway, an apply that has listed the attachments reports what is
\* really attached, except for policies that someone else attached or detached
\* behind its back: an outsider, also one that makes it fail, spoils the report of
\* nothing else (reconcilePolicyAttachments' comment, aws_iamrole_reconcile.go:22-24).
StatusReflectsReality ==
  pc \in {"applied", "applyFailed"} /\ job.reconciled =>
    job.status.attached \ meddled = attached \ meddled

\* A Component whose delete reported success leaves no role behind, even when
\* its status never learned of the role or somebody attached a policy meanwhile
\* (deleteAction goes by the name).
NoRoleLeftBehind ==
  obj.phase \in {"Terminating", "Gone"} => ~exists

DeletionEnds ==
  obj.deleting ~> obj.phase \in {"Gone", "Failed"}

EditsAreAnswered ==
  obj.observed # obj.generation ~>
    \/ obj.observed = obj.generation /\ obj.phase \in {"Ready", "Failed"}
    \/ obj.deleting

\* A requested deletion comes to an end, the Component is gone or it has failed;
\* an edit of the spec is eventually applied, failed, or overruled by a deletion
\* (the four handlers and what they make the reconciler wait for).
RequestsAreAnswered == DeletionEnds /\ EditsAreAnswered

-----------------------------------------------------------------------------
(* Why they hold: an invariant that every step preserves. *)

\* A handler works with what was persisted when it was called; an apply, with a
\* spec that resolves.
HandlerFits ==
  /\ obj.observed <= obj.generation
  /\ pc \in ApplyCalls \cup {"applied", "applyFailed"} =>
       /\ job.spec \in RoleSpec
       /\ obj.observed < job.generation
       /\ job.generation <= obj.generation
       /\ job.generation = obj.generation => job.spec = obj.spec
  /\ pc \in ApplyCalls \cup {"applied"} => Resolves(job.spec)
  /\ pc \in {"UpdateTrust", "ListAttached", "Detach", "Attach", "applied"} => job.status.arn
  /\ pc = "ready" => job.status = obj.status /\ obj.phase = "Deploying"
  /\ pc \in DeleteCalls \cup {"deleteStarted", "gone"} => obj.deleting

\* A role that is gone has nothing attached, and what a deletion has achieved no
\* apply undoes.
GoneStaysGone ==
  /\ exists \/ attached = {}
  /\ pc \in {"deleteStarted", "gone"} => ~exists
  /\ obj.phase \in {"Terminating", "Gone"} => ~exists /\ pc \in {"idle", "gone", "failed"}

\* Between two of its calls, reconcilePolicyAttachments has yet to detach some of
\* what was listed, or to attach some of what is wanted, and has undone nothing;
\* at the end what it believes attached is what is wanted.
Halfway ==
  /\ pc \in {"Detach", "Attach", "applied"} =>
       /\ job.reconciled
       /\ job.listed \cap job.spec.policies \subseteq job.actual
       /\ job.actual \subseteq job.listed \cup job.spec.policies
  /\ pc = "Detach" => ToDetach(job) \cap job.actual # {}
  /\ pc = "Attach" => /\ ToDetach(job) \cap job.actual = {}
                      /\ ToAttach(job) \ job.actual # {}
  /\ pc = "applied" => /\ job.actual = job.spec.policies
                       /\ job.status.attached = job.actual
  /\ job.reconciled => pc \in {"Detach", "Attach", "applied", "applyFailed"}

\* What the handler believes of the role is so: of its trust policy, as long as
\* nobody interferes, of an attachment, as long as nobody meddles with that one.
BelievesRight ==
  /\ ~disturbed /\ pc \in {"ListAttached", "Detach", "Attach", "applied"} =>
       trust = job.spec.trust
  /\ pc \in {"Detach", "Attach", "applied"} => job.actual \ meddled = attached \ meddled
  /\ meddled # {} => job.reconciled /\ disturbed

\* As long as nobody interferes, a deletion has before it what it listed, and no
\* deletion and no check fails without a fault.
Unimpeded ==
  ~disturbed =>
    /\ pc = "ListForDelete" => exists
    /\ pc = "DetachForDelete" => job.listed = attached
    /\ pc = "DeleteRole" => attached = {}
    /\ pc = "failed" => faults > 0

\* The inductive invariant behind ReadyMeansInPlace, StatusReflectsReality and
\* NoRoleLeftBehind (applyAction, reconcilePolicyAttachments, deleteAction).
Inv ==
  /\ TypeOK
  /\ HandlerFits /\ GoneStaysGone /\ Halfway /\ BelievesRight /\ Unimpeded
  /\ StatusReflectsReality
  /\ ReadyMeansInPlace

-----------------------------------------------------------------------------
(* What a user of the role sees of all this. *)

Promise == INSTANCE RolePromise WITH
  Specs      <- RoleSpec,
  ValidSpecs <- {s \in RoleSpec : Resolves(s)},
  NoSpec     <- NoTrust,
  wanted     <- obj.spec,
  released   <- obj.deleting,
  claim      <- IF pc \in ApplyCalls THEN job.spec ELSE NoTrust,
  granted    <- attached,
  others     <- outside

\* The provider keeps the promise: between the old rights and the new ones there
\* are none that neither spec wants, none is revoked that the spec wants, nobody
\* loses the role without a deletion (applyAction, reconcilePolicyAttachments,
\* deleteAction).
KeepsPromise == Promise!Spec

=============================================================================
