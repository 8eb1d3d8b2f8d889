------------------------------ MODULE IamStack -------------------------------
(***************************************************************************)
(* The iam-policy and the iam-role provider side by side, in one manager   *)
(* and one account: one Component keeps a customer-managed policy, another *)
(* a role that may have it attached.  The handlers are those of IamPolicy  *)
(* and IamRole, step for step; what the two share is the attachment, which *)
(* the role's handlers make and unmake and which AWS holds against the     *)
(* policy's deletion.                                                      *)
(***************************************************************************)
EXTENDS Naturals, FiniteSets

CONSTANTS
  PolicyComponent,
  Docs, ValidDocs, NoDoc,           \* as in IamPolicy
  MaxNumberOfPolicyVersions,
  Trusts, ValidTrusts, NoTrust,     \* as in IamRole
  Policies,
  Managed,                          \* the one of them that PolicyComponent keeps
  MaxVersionId,                     \* BOUND on the version numbers
  MaxPolicyGeneration,              \* BOUNDS on the edits of each spec
  MaxRoleGeneration,
  MaxFaults,                        \* BOUND on interruptions and refused calls
  MaxOutside                        \* BOUND on what others do to the role

ASSUME StackAssumption == Managed \in Policies

\* What IamPolicy and IamRole assume of theirs.
ASSUME StackDataAssumption ==
  /\ ValidDocs \subseteq Docs /\ NoDoc \notin Docs
  /\ \A d \in Docs : [urlEncoded |-> d] \notin Docs
  /\ ValidTrusts \subseteq Trusts /\ Policies \subseteq Nat
  /\ NoTrust \notin Trusts \cup [trust : Trusts, policies : SUBSET Policies]
  /\ \A d \in Trusts : [urlEncoded |-> d] \notin Trusts

ASSUME StackBoundsAssumption ==
  /\ MaxNumberOfPolicyVersions \in Nat /\ MaxNumberOfPolicyVersions >= 2
  /\ MaxVersionId \in Nat /\ MaxVersionId >= MaxNumberOfPolicyVersions
  /\ MaxPolicyGeneration \in Nat \ {0}
  /\ MaxRoleGeneration \in Nat \ {0}
  /\ MaxFaults \in Nat
  /\ MaxOutside \in Nat

VARIABLES
  text, default, issued,            \* the policy in AWS
  policyObj, policyPc, policyJob,   \* its Component and the handler of that
  trust, attached,                  \* the role in AWS, the policies on it
  roleObj, rolePc, roleJob,         \* its Component and the handler of that
  overtaken, renewed,               \* as in IamPolicy
  disturbed, meddled, outside,      \* as in IamRole
  faults

policySide == <<text, default, issued, policyObj, policyPc, policyJob, overtaken, renewed>>
roleSide == <<trust, attached, roleObj, rolePc, roleJob, disturbed, meddled, outside>>
vars == <<policySide, roleSide, faults>>

Policy == INSTANCE IamPolicy WITH
  Components <- {PolicyComponent},
  OnFirstPage <- TRUE,
  MaxGeneration <- MaxPolicyGeneration,
  attached <- Managed \in attached,
  obj <- policyObj, pc <- policyPc, job <- policyJob

Role == INSTANCE IamRole WITH
  MaxGeneration <- MaxRoleGeneration,
  obj <- roleObj, pc <- rolePc, job <- roleJob

Init == Role!Init /\ Policy!Init

-----------------------------------------------------------------------------

\* The policy that an attach at hand is about.
Attaching == Role!NextOf(Role!ToAttach(roleJob) \ roleJob.actual)

Missing == rolePc = "Attach" /\ Attaching = Managed /\ ~Policy!exists

PolicyIsThere == Managed \in attached' \ attached => Policy!exists

\* A step of the role's handlers, its user or others; a policy that is not there
\* cannot be attached.
RoleStep ==
  /\ Role!Next
  /\ PolicyIsThere
  /\ UNCHANGED policySide

\* Mutation: what is missing is taken for attached.
AttachMissingPasses ==
  /\ Missing
  /\ Role!Onward([roleJob EXCEPT !.actual = @ \cup {Managed}])
  /\ UNCHANGED <<trust, attached, disturbed, policySide>>

\* AttachRolePolicy answers NoSuchEntity, which is not retryable.
AttachMissing ==
  /\ Missing
  /\ Role!GoTo("applyFailed", Role!Partial(roleJob))
  /\ UNCHANGED <<trust, attached, disturbed, policySide>>

PolicyStep ==
  /\ UNCHANGED roleSide
  /\ Policy!Step(PolicyComponent)

Next == PolicyStep \/ RoleStep \/ AttachMissing

Spec == Init /\ [][Next]_vars

\* Each provider has its own work queue.
FairSpec ==
  /\ Spec
  /\ WF_vars(UNCHANGED roleSide /\ Policy!Reconcile(PolicyComponent))
  /\ WF_vars((Role!Reconcile /\ PolicyIsThere /\ UNCHANGED policySide) \/ AttachMissing)

-----------------------------------------------------------------------------
(* Properties *)

\* A role that is reported in place, and that nobody else has touched since, has
\* the rights asked for: its policy is there, whatever becomes of the policy's
\* Component, and where that one is settled too, with the document of its spec in
\* force (applyAction of both).
StackInPlace ==
  Role!Settled /\ ~disturbed /\ Managed \in roleObj.spec.policies =>
    /\ Managed \in attached
    /\ Policy!exists
    /\ Policy!Settled(PolicyComponent) => Policy!DocInForce = policyObj[PolicyComponent].spec

\* The role's Component can be deleted at any time: only a fault or an outsider
\* makes it fail, not what the policy's Component is doing meanwhile (deleteAction
\* detaches first, and AWS keeps a policy that is attached).
RoleDeletionSucceeds ==
  rolePc = "failed" /\ roleObj.deleting => faults > 0 \/ disturbed

\* Once the role's Component is gone, a deletion of the policy that has not yet
\* failed comes through, unless there is a fault.
PolicyFollowsRole ==
  /\ roleObj.phase = "Gone"
  /\ policyObj[PolicyComponent].deleting
  /\ policyPc[PolicyComponent] = "idle"
  /\ policyObj[PolicyComponent].phase # "Failed"
  ~> policyObj[PolicyComponent].phase = "Gone" \/ faults > 0

\* A role that is applied while the policy's Component is ready gets its policies,
\* unless its spec is invalid, somebody's deletion or an outsider intervenes or
\* there is a fault.
RoleFollowsPolicy ==
  /\ Policy!Settled(PolicyComponent)
  /\ roleObj.phase = "Pending" /\ rolePc = "idle"
  /\ Role!Resolves(roleObj.spec)
  ~> \/ Role!Settled
     \/ roleObj.deleting \/ policyObj[PolicyComponent].deleting
     \/ roleObj.generation > 1 \/ outside > 0 \/ faults > 0

-----------------------------------------------------------------------------
(* Why they hold: the invariants of the two providers, and AWS's own. *)

AttachedIsThere == Managed \in attached => Policy!exists

Inv == Policy!Inv /\ Role!Inv /\ AttachedIsThere

=============================================================================
