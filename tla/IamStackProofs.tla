--------------------------- MODULE IamStackProofs ---------------------------
(***************************************************************************)
(* Theorems about IamStack, for every value of its constants.  What holds  *)
(* of each provider for itself is taken from IamPolicyProofs and           *)
(* IamRoleProofs; what is new is that neither undoes the other's work.     *)
(***************************************************************************)
EXTENDS IamStack, TLAPS

PolicyProofs == INSTANCE IamPolicyProofs WITH
  Components <- {PolicyComponent},
  OnFirstPage <- TRUE,
  MaxGeneration <- MaxPolicyGeneration,
  attached <- Managed \in attached,
  obj <- policyObj, pc <- policyPc, job <- policyJob

RoleProofs == INSTANCE IamRoleProofs WITH
  MaxGeneration <- MaxRoleGeneration,
  obj <- roleObj, pc <- rolePc, job <- roleJob

-----------------------------------------------------------------------------
(* Each provider for itself. *)

LEMMA PolicyAssumptions ==
  /\ PolicyProofs!DocsAssumption /\ PolicyProofs!ListingAssumption
  /\ PolicyProofs!LimitAssumption /\ PolicyProofs!EncodingAssumption
BY StackDataAssumption, StackBoundsAssumption
   DEF PolicyProofs!DocsAssumption, PolicyProofs!ListingAssumption,
       PolicyProofs!LimitAssumption, PolicyProofs!EncodingAssumption, PolicyProofs!URLEncoded

LEMMA RoleAssumptions ==
  /\ RoleProofs!RoleDataAssumption /\ RoleProofs!RoleBoundsAssumption
  /\ RoleProofs!RoleEncodingAssumption
BY StackDataAssumption, StackBoundsAssumption
   DEF RoleProofs!RoleDataAssumption, RoleProofs!RoleBoundsAssumption,
       RoleProofs!RoleEncodingAssumption, RoleProofs!RoleSpec, RoleProofs!URLEncoded

\* The modules spell out the same definitions.
LEMMA SamePolicyInit == Policy!Init = PolicyProofs!Init
BY DEF Policy!Init, PolicyProofs!Init, Policy!VersionId, PolicyProofs!VersionId,
       Policy!NewComponent, PolicyProofs!NewComponent, Policy!NoStatus,
       PolicyProofs!NoStatus, Policy!NoJob, PolicyProofs!NoJob

LEMMA SamePolicyInv == Policy!Inv = PolicyProofs!Inv /\ Policy!Inv' = PolicyProofs!Inv'
BY DEF Policy!Inv, PolicyProofs!Inv, Policy!TypeOK, PolicyProofs!TypeOK,
       Policy!PolicyFits, PolicyProofs!PolicyFits, Policy!HandlersFit,
       PolicyProofs!HandlersFit, Policy!ApplyStands, PolicyProofs!ApplyStands,
       Policy!DeletionStands, PolicyProofs!DeletionStands, Policy!PruneFits,
       PolicyProofs!PruneFits, Policy!RemovalFits, PolicyProofs!RemovalFits,
       Policy!Listed, PolicyProofs!Listed, Policy!Served, PolicyProofs!Served, Policy!VersionId,
       PolicyProofs!VersionId, Policy!Component, PolicyProofs!Component,
       Policy!Status, PolicyProofs!Status, Policy!Generation,
       PolicyProofs!Generation, Policy!ApplyCalls, PolicyProofs!ApplyCalls,
       Policy!DeleteCalls, PolicyProofs!DeleteCalls, Policy!Outcome,
       PolicyProofs!Outcome, Policy!Job, PolicyProofs!Job, Policy!versions,
       PolicyProofs!versions, Policy!InForce, PolicyProofs!InForce, Policy!Settled,
       PolicyProofs!Settled, Policy!exists, PolicyProofs!exists, Policy!HasRoom,
       PolicyProofs!HasRoom, Policy!AtLimit, PolicyProofs!AtLimit, Policy!IsOldest,
       PolicyProofs!IsOldest, Policy!DocInForce, PolicyProofs!DocInForce,
       Policy!Phase, PolicyProofs!Phase, Policy!NonDefault, PolicyProofs!NonDefault,
       Policy!Cardinality, PolicyProofs!Cardinality, Policy!IsFiniteSet,
       PolicyProofs!IsFiniteSet

LEMMA SamePolicyStep ==
  ASSUME NEW c
  PROVE  Policy!Step(c) = PolicyProofs!Step(c)
BY DEF Policy!Step, PolicyProofs!Step, Policy!Reconcile, PolicyProofs!Reconcile,
       Policy!RetryDelete, PolicyProofs!RetryDelete, Policy!Interrupt,
       PolicyProofs!Interrupt, Policy!PermanentError, PolicyProofs!PermanentError,
       Policy!CheckRefused, PolicyProofs!CheckRefused, Policy!EditSpec,
       PolicyProofs!EditSpec, Policy!RequestDeletion, PolicyProofs!RequestDeletion,
       Policy!Apply, PolicyProofs!Apply, Policy!Delete, PolicyProofs!Delete,
       Policy!Record, PolicyProofs!Record, Policy!MayRetryDelete,
       PolicyProofs!MayRetryDelete, Policy!BeginDelete, PolicyProofs!BeginDelete,
       Policy!NoJob, PolicyProofs!NoJob, Policy!awsVars, PolicyProofs!awsVars,
       Policy!ApplyCalls, PolicyProofs!ApplyCalls, Policy!DeleteCalls,
       PolicyProofs!DeleteCalls, Policy!Idle, PolicyProofs!Idle,
       Policy!NeedsApplyCheck, PolicyProofs!NeedsApplyCheck, Policy!NeedsDeleteCheck,
       PolicyProofs!NeedsDeleteCheck, Policy!Edited, PolicyProofs!Edited,
       Policy!DeletionRequested, PolicyProofs!DeletionRequested, Policy!RejectSpec,
       PolicyProofs!RejectSpec, Policy!StartApply, PolicyProofs!StartApply,
       Policy!ListPolicies, PolicyProofs!ListPolicies, Policy!CreatePolicy,
       PolicyProofs!CreatePolicy, Policy!CreatePolicyConflict,
       PolicyProofs!CreatePolicyConflict, Policy!GetPolicy, PolicyProofs!GetPolicy,
       Policy!GetPolicyVersion, PolicyProofs!GetPolicyVersion, Policy!ListVersions,
       PolicyProofs!ListVersions, Policy!DeleteOldest, PolicyProofs!DeleteOldest,
       Policy!CreateVersion, PolicyProofs!CreateVersion, Policy!CreateVersionRefused,
       PolicyProofs!CreateVersionRefused, Policy!CheckApplied,
       PolicyProofs!CheckApplied, Policy!StartDelete, PolicyProofs!StartDelete,
       Policy!GetForDelete, PolicyProofs!GetForDelete, Policy!ListForDelete,
       PolicyProofs!ListForDelete, Policy!DeleteOneVersion,
       PolicyProofs!DeleteOneVersion, Policy!DeletePolicy, PolicyProofs!DeletePolicy,
       Policy!CheckDeleted, PolicyProofs!CheckDeleted, Policy!Outcome,
       PolicyProofs!Outcome, Policy!Recorded, PolicyProofs!Recorded, Policy!Begin,
       PolicyProofs!Begin, Policy!NoStatus, PolicyProofs!NoStatus, Policy!NeedsApply,
       PolicyProofs!NeedsApply, Policy!exists, PolicyProofs!exists, Policy!GoTo,
       PolicyProofs!GoTo, Policy!CreateWithText, PolicyProofs!CreateWithText,
       Policy!CompareDocument, PolicyProofs!CompareDocument, Policy!AtLimit,
       PolicyProofs!AtLimit, Policy!NonDefault, PolicyProofs!NonDefault,
       Policy!IsOldest, PolicyProofs!IsOldest, Policy!Overtakes,
       PolicyProofs!Overtakes, Policy!Renews, PolicyProofs!Renews,
       Policy!Listed, PolicyProofs!Listed, Policy!NewVersion, PolicyProofs!NewVersion,
       Policy!HasRoom, PolicyProofs!HasRoom, Policy!NeedsDelete,
       PolicyProofs!NeedsDelete, Policy!DeleteListed, PolicyProofs!DeleteListed,
       Policy!DeleteOr, PolicyProofs!DeleteOr, Policy!CheckGone,
       PolicyProofs!CheckGone, Policy!Applied, PolicyProofs!Applied,
       Policy!ApplyFailed, PolicyProofs!ApplyFailed, Policy!CheckedReady,
       PolicyProofs!CheckedReady, Policy!Failed, PolicyProofs!Failed,
       Policy!DeleteStarted, PolicyProofs!DeleteStarted, Policy!CheckedGone,
       PolicyProofs!CheckedGone, Policy!Called, PolicyProofs!Called, Policy!versions,
       PolicyProofs!versions, Policy!jsonEquals, PolicyProofs!jsonEquals,
       Policy!URLEncoded, PolicyProofs!URLEncoded, Policy!NoText,
       PolicyProofs!NoText, Policy!VersionId, PolicyProofs!VersionId,
       Policy!Cardinality, PolicyProofs!Cardinality, Policy!IsFiniteSet,
       PolicyProofs!IsFiniteSet

LEMMA SameRoleInit == Role!Init = RoleProofs!Init
BY DEF Role!Init, RoleProofs!Init, Role!RoleSpec, RoleProofs!RoleSpec,
       Role!NewComponent, RoleProofs!NewComponent, Role!NoStatus,
       RoleProofs!NoStatus, Role!NoJob, RoleProofs!NoJob

LEMMA SameRoleInv == Role!Inv = RoleProofs!Inv /\ Role!Inv' = RoleProofs!Inv'
BY DEF Role!Inv, RoleProofs!Inv, Role!TypeOK, RoleProofs!TypeOK, Role!HandlerFits,
       RoleProofs!HandlerFits, Role!GoneStaysGone, RoleProofs!GoneStaysGone,
       Role!Halfway, RoleProofs!Halfway, Role!BelievesRight,
       RoleProofs!BelievesRight, Role!Unimpeded, RoleProofs!Unimpeded,
       Role!StatusReflectsReality, RoleProofs!StatusReflectsReality,
       Role!ReadyMeansInPlace, RoleProofs!ReadyMeansInPlace, Role!Component,
       RoleProofs!Component, Role!RoleSpec, RoleProofs!RoleSpec, Role!Status,
       RoleProofs!Status, Role!ApplyCalls, RoleProofs!ApplyCalls, Role!DeleteCalls,
       RoleProofs!DeleteCalls, Role!Outcome, RoleProofs!Outcome, Role!Job,
       RoleProofs!Job, Role!Resolves, RoleProofs!Resolves, Role!exists,
       RoleProofs!exists, Role!ToDetach, RoleProofs!ToDetach, Role!ToAttach,
       RoleProofs!ToAttach, Role!Settled, RoleProofs!Settled, Role!Phase,
       RoleProofs!Phase

LEMMA SameRoleNext == Role!Next = RoleProofs!Next
BY DEF Role!Next, RoleProofs!Next, Role!Reconcile, RoleProofs!Reconcile,
       Role!RetryDelete, RoleProofs!RetryDelete, Role!Interrupt,
       RoleProofs!Interrupt, Role!PermanentError, RoleProofs!PermanentError,
       Role!CheckRefused, RoleProofs!CheckRefused, Role!EditSpec,
       RoleProofs!EditSpec, Role!RequestDeletion, RoleProofs!RequestDeletion,
       Role!Outside, RoleProofs!Outside, Role!Apply, RoleProofs!Apply, Role!Delete,
       RoleProofs!Delete, Role!Record, RoleProofs!Record, Role!MayRetryDelete,
       RoleProofs!MayRetryDelete, Role!BeginDelete, RoleProofs!BeginDelete,
       Role!NoJob, RoleProofs!NoJob, Role!roleVars, RoleProofs!roleVars,
       Role!ApplyCalls, RoleProofs!ApplyCalls, Role!DeleteCalls,
       RoleProofs!DeleteCalls, Role!Partial, RoleProofs!Partial,
       Role!NeedsApplyCheck, RoleProofs!NeedsApplyCheck, Role!NeedsDeleteCheck,
       RoleProofs!NeedsDeleteCheck, Role!RoleSpec, RoleProofs!RoleSpec, Role!Edited,
       RoleProofs!Edited, Role!DeletionRequested, RoleProofs!DeletionRequested,
       Role!exists, RoleProofs!exists, Role!RejectSpec, RoleProofs!RejectSpec,
       Role!StartApply, RoleProofs!StartApply, Role!GetRole, RoleProofs!GetRole,
       Role!CreateRole, RoleProofs!CreateRole, Role!UpdateTrust,
       RoleProofs!UpdateTrust, Role!ListAttached, RoleProofs!ListAttached,
       Role!Detach, RoleProofs!Detach, Role!Attach, RoleProofs!Attach,
       Role!CheckApplied, RoleProofs!CheckApplied, Role!StartDelete,
       RoleProofs!StartDelete, Role!GetForDelete, RoleProofs!GetForDelete,
       Role!ListForDelete, RoleProofs!ListForDelete, Role!DetachForDelete,
       RoleProofs!DetachForDelete, Role!DeleteRole, RoleProofs!DeleteRole,
       Role!CheckDeleted, RoleProofs!CheckDeleted, Role!Outcome, RoleProofs!Outcome,
       Role!Recorded, RoleProofs!Recorded, Role!Begin, RoleProofs!Begin,
       Role!NoStatus, RoleProofs!NoStatus, Role!NeedsApply, RoleProofs!NeedsApply,
       Role!Resolves, RoleProofs!Resolves, Role!GoTo, RoleProofs!GoTo,
       Role!jsonEquals, RoleProofs!jsonEquals, Role!URLEncoded,
       RoleProofs!URLEncoded, Role!CreateWithTrust, RoleProofs!CreateWithTrust,
       Role!UpdateTrustTo, RoleProofs!UpdateTrustTo, Role!Onward, RoleProofs!Onward,
       Role!NextOf, RoleProofs!NextOf, Role!ToDetach, RoleProofs!ToDetach,
       Role!ToAttach, RoleProofs!ToAttach, Role!CheckWhen, RoleProofs!CheckWhen,
       Role!NeedsDelete, RoleProofs!NeedsDelete, Role!BeginDetaching,
       RoleProofs!BeginDetaching, Role!DeleteOr, RoleProofs!DeleteOr, Role!Applied,
       RoleProofs!Applied, Role!ApplyFailed, RoleProofs!ApplyFailed,
       Role!CheckedReady, RoleProofs!CheckedReady, Role!Failed, RoleProofs!Failed,
       Role!DeleteStarted, RoleProofs!DeleteStarted, Role!CheckedGone,
       RoleProofs!CheckedGone, Role!Finished, RoleProofs!Finished

LEMMA PolicyBegins == Policy!Init => Policy!Inv
BY PolicyAssumptions, PolicyProofs!InitInv, SamePolicyInit, SamePolicyInv
   DEF PolicyProofs!DocsAssumption, PolicyProofs!ListingAssumption,
       PolicyProofs!LimitAssumption, PolicyProofs!EncodingAssumption

LEMMA PolicyGoesOn ==
  ASSUME Policy!Inv, Policy!Step(PolicyComponent)
  PROVE  /\ Policy!Inv'
         /\ faults' = faults \/ faults' > 0
         /\ Managed \in attached /\ Policy!exists => Policy!exists'
<1> USE PolicyAssumptions
    DEF PolicyProofs!DocsAssumption, PolicyProofs!ListingAssumption,
        PolicyProofs!LimitAssumption, PolicyProofs!EncodingAssumption
<1>1. PolicyProofs!Inv /\ PolicyProofs!Step(PolicyComponent)
  BY SamePolicyInv, SamePolicyStep
<1>2. /\ PolicyProofs!TypeOK /\ PolicyProofs!PolicyFits
      /\ PolicyProofs!HandlersFit(PolicyComponent)
  BY <1>1 DEF PolicyProofs!Inv
<1>3. PolicyProofs!Inv'
  BY <1>1, PolicyProofs!NextInv DEF PolicyProofs!Next
<1>4. faults' = faults \/ faults' > 0
  BY <1>1, <1>2, PolicyProofs!FaultsGrow
<1>5. Managed \in attached /\ PolicyProofs!exists => PolicyProofs!exists'
  BY <1>1, <1>2, PolicyProofs!AttachedStays
<1>6. Policy!exists = PolicyProofs!exists /\ Policy!exists' = PolicyProofs!exists'
  BY DEF Policy!exists, PolicyProofs!exists, Policy!versions, PolicyProofs!versions,
         Policy!VersionId, PolicyProofs!VersionId
<1>7. QED
  BY <1>3, <1>4, <1>5, <1>6, SamePolicyInv

LEMMA RoleBegins == Role!Init => Role!Inv
BY RoleAssumptions, RoleProofs!InitInv, SameRoleInit, SameRoleInv
   DEF RoleProofs!RoleDataAssumption, RoleProofs!RoleBoundsAssumption,
       RoleProofs!RoleEncodingAssumption

LEMMA RoleGoesOn == Role!Inv /\ Role!Next => Role!Inv'
BY RoleAssumptions, RoleProofs!NextInv, SameRoleNext, SameRoleInv
   DEF RoleProofs!RoleDataAssumption, RoleProofs!RoleBoundsAssumption,
       RoleProofs!RoleEncodingAssumption

\* AttachMissing is a refused attach.
LEMMA MissingGoesOn == Role!Inv /\ AttachMissing => Role!Inv'
<1> SUFFICES ASSUME Role!Inv, AttachMissing PROVE Role!Inv'
  OBVIOUS
<1>1. RoleProofs!Inv /\ rolePc = "Attach" /\ UNCHANGED <<trust, attached, disturbed>>
  BY SameRoleInv DEF AttachMissing, Missing
<1>2. RoleProofs!GoTo("applyFailed", RoleProofs!Partial(roleJob))
  BY DEF AttachMissing, Role!GoTo, RoleProofs!GoTo, Role!Partial, RoleProofs!Partial
<1>3. QED
  BY <1>1, <1>2, RoleAssumptions, RoleProofs!RefusedAttach, SameRoleInv
     DEF RoleProofs!RoleDataAssumption, RoleProofs!RoleBoundsAssumption,
         RoleProofs!RoleEncodingAssumption

-----------------------------------------------------------------------------
(* Each undisturbed by the other. *)

LEMMA PolicyFrame ==
  ASSUME Policy!Inv, UNCHANGED policySide, faults' \in 0 .. MaxFaults
  PROVE  Policy!Inv' /\ Policy!exists' = Policy!exists
<1>0. /\ text' = text /\ default' = default /\ issued' = issued /\ policyObj' = policyObj
      /\ policyPc' = policyPc /\ policyJob' = policyJob /\ overtaken' = overtaken
      /\ renewed' = renewed
  BY DEF policySide
<1>1. Policy!versions' = Policy!versions
  BY <1>0 DEF Policy!versions
<1>2. /\ Policy!exists' = Policy!exists /\ Policy!NonDefault' = Policy!NonDefault
      /\ Policy!DocInForce' = Policy!DocInForce
      /\ Policy!HasRoom' = Policy!HasRoom /\ Policy!AtLimit' = Policy!AtLimit
  BY <1>0, <1>1 DEF Policy!exists, Policy!NonDefault, Policy!DocInForce, Policy!HasRoom,
                    Policy!AtLimit
<1>3. Policy!TypeOK'
  BY <1>0 DEF Policy!Inv, Policy!TypeOK
<1>4. Policy!PolicyFits'
  BY <1>0, <1>1 DEF Policy!Inv, Policy!PolicyFits
<1>5. ASSUME NEW c \in {PolicyComponent}
      PROVE  /\ Policy!HandlersFit(c)' /\ Policy!ApplyStands(c)' /\ Policy!DeletionStands(c)'
             /\ Policy!PruneFits(c)' /\ Policy!RemovalFits(c)'
             /\ Policy!Served(c)' = Policy!Served(c)
  <2>1. Policy!HandlersFit(c)'
    BY <1>0 DEF Policy!Inv, Policy!HandlersFit
  <2>2. Policy!Settled(c)' = Policy!Settled(c)
    BY <1>0 DEF Policy!Settled
  <2>3. Policy!ApplyStands(c)'
    BY <1>0, <1>2, <2>2 DEF Policy!Inv, Policy!ApplyStands, Policy!InForce
  <2>4. Policy!DeletionStands(c)'
    BY <1>0, <1>2 DEF Policy!Inv, Policy!DeletionStands
  <2>5. Policy!PruneFits(c)'
    BY <1>0, <1>1, <1>2 DEF Policy!Inv, Policy!PruneFits, Policy!IsOldest
  <2>6. Policy!Served(c)' = Policy!Served(c)
    BY <1>0, <1>2, <2>2 DEF Policy!Served
  <2>7. Policy!RemovalFits(c)'
    BY <1>0, <1>2 DEF Policy!Inv, Policy!RemovalFits, Policy!Listed
  <2>8. QED
    BY <2>1, <2>3, <2>4, <2>5, <2>6, <2>7
<1>6. QED
  BY <1>2, <1>3, <1>4, <1>5 DEF Policy!Inv

LEMMA RoleFrame ==
  ASSUME Role!Inv, UNCHANGED roleSide, faults' \in 0 .. MaxFaults,
         faults' = faults \/ faults' > 0
  PROVE  Role!Inv'
BY DEF roleSide, Role!Inv, Role!TypeOK, Role!HandlerFits, Role!GoneStaysGone, Role!Halfway,
       Role!BelievesRight, Role!Unimpeded, Role!StatusReflectsReality,
       Role!ReadyMeansInPlace, Role!Component, Role!RoleSpec, Role!Status,
       Role!ApplyCalls, Role!DeleteCalls, Role!Outcome, Role!Job, Role!Resolves,
       Role!exists, Role!ToDetach, Role!ToAttach, Role!Settled, Role!Phase

LEMMA InitInv == Init => Inv
<1> SUFFICES ASSUME Init PROVE Inv
  OBVIOUS
<1>1. Policy!Inv /\ Role!Inv
  BY PolicyBegins, RoleBegins DEF Init
<1>2. AttachedIsThere
  BY DEF Init, Policy!Init, AttachedIsThere
<1>3. QED
  BY <1>1, <1>2 DEF Inv

LEMMA NextInv == Inv /\ [Next]_vars => Inv'
<1> SUFFICES ASSUME Inv, [Next]_vars PROVE Inv'
  OBVIOUS
<1>0. Policy!Inv /\ Role!Inv /\ AttachedIsThere
  BY DEF Inv
<1>a. faults \in 0 .. MaxFaults
  BY <1>0 DEF Policy!Inv, Policy!TypeOK
<1>1. CASE PolicyStep
  <2>1. Policy!Step(PolicyComponent) /\ UNCHANGED roleSide /\ attached' = attached
    BY <1>1 DEF PolicyStep, roleSide
  <2>2. /\ Policy!Inv'
        /\ faults' = faults \/ faults' > 0
        /\ Managed \in attached /\ Policy!exists => Policy!exists'
    BY <1>0, <2>1, PolicyGoesOn
  <2>3. faults' \in 0 .. MaxFaults
    BY <2>2 DEF Policy!Inv, Policy!TypeOK
  <2>4. Role!Inv'
    BY <1>0, <2>1, <2>2, <2>3, RoleFrame
  <2>5. AttachedIsThere'
    BY <1>0, <2>1, <2>2 DEF AttachedIsThere
  <2>6. QED
    BY <2>2, <2>4, <2>5 DEF Inv
<1>2. CASE RoleStep
  <2>1. Role!Next /\ PolicyIsThere /\ UNCHANGED policySide
    BY <1>2 DEF RoleStep
  <2>2. Role!Inv'
    BY <1>0, <2>1, RoleGoesOn
  <2>3. faults' \in 0 .. MaxFaults
    BY <2>2 DEF Role!Inv, Role!TypeOK
  <2>4. Policy!Inv' /\ Policy!exists' = Policy!exists
    BY <1>0, <2>1, <2>3, PolicyFrame
  <2>5. AttachedIsThere'
    BY <1>0, <2>1, <2>4 DEF AttachedIsThere, PolicyIsThere
  <2>6. QED
    BY <2>2, <2>4, <2>5 DEF Inv
<1>3. CASE AttachMissing
  <2>1. /\ UNCHANGED policySide /\ attached' = attached /\ faults' = faults
    BY <1>3 DEF AttachMissing, Role!GoTo
  <2>2. Role!Inv'
    BY <1>0, <1>3, MissingGoesOn
  <2>3. Policy!Inv' /\ Policy!exists' = Policy!exists
    BY <1>0, <1>a, <2>1, PolicyFrame
  <2>4. AttachedIsThere'
    BY <1>0, <2>1, <2>3 DEF AttachedIsThere
  <2>5. QED
    BY <2>2, <2>3, <2>4 DEF Inv
<1>4. CASE UNCHANGED vars
  <2>1. UNCHANGED policySide /\ UNCHANGED roleSide /\ faults' = faults /\ attached' = attached
    BY <1>4 DEF vars, roleSide
  <2>2. Role!Inv'
    BY <1>0, <1>a, <2>1, RoleFrame
  <2>3. Policy!Inv' /\ Policy!exists' = Policy!exists
    BY <1>0, <1>a, <2>1, PolicyFrame
  <2>4. AttachedIsThere'
    BY <1>0, <2>1, <2>3 DEF AttachedIsThere
  <2>5. QED
    BY <2>2, <2>3, <2>4 DEF Inv
<1>5. QED
  BY <1>1, <1>2, <1>3, <1>4 DEF Next

\* The invariants of both providers hold while they work side by side, and what is
\* attached to the role is there.
THEOREM Invariance == Spec => []Inv
<1>1. QED
  BY InitInv, NextInv, PTL DEF Spec

\* A role that is reported in place, and that nobody else has touched since, has
\* its policy attached, which is there, whatever becomes of the policy's Component.
THEOREM StackIsInPlace == Spec => []StackInPlace
<1>1. Inv => StackInPlace
  <2> SUFFICES ASSUME Inv, Role!Settled, ~disturbed, Managed \in roleObj.spec.policies
               PROVE  /\ Managed \in attached
                      /\ Policy!exists
                      /\ Policy!Settled(PolicyComponent) =>
                           Policy!DocInForce = policyObj[PolicyComponent].spec
    BY DEF StackInPlace
  <2>1. attached = roleObj.spec.policies
    BY DEF Inv, Role!Inv, Role!ReadyMeansInPlace
  <2>2. Policy!exists
    BY <2>1 DEF Inv, AttachedIsThere
  <2>3. Policy!Settled(PolicyComponent) =>
          Policy!DocInForce = policyObj[PolicyComponent].spec
    BY DEF Inv, Policy!Inv, Policy!Served
  <2>4. QED
    BY <2>1, <2>2, <2>3
<1>2. QED
  BY <1>1, Invariance, PTL

\* The role's Component can be deleted at any time: its deletion fails for a fault
\* or an outsider, never for what the policy's Component does.
THEOREM RoleCanBeDeleted == Spec => []RoleDeletionSucceeds
<1>1. Inv => RoleDeletionSucceeds
  BY DEF Inv, Role!Inv, Role!Unimpeded, RoleDeletionSucceeds
<1>2. QED
  BY <1>1, Invariance, PTL
-----------------------------------------------------------------------------
(* The promises of both, kept side by side. *)

LEMMA SamePolicyPromise ==
  /\ Policy!Promise!Init = PolicyProofs!Promise!Init
  /\ [Policy!Promise!Next]_(Policy!Promise!vars)
       = [PolicyProofs!Promise!Next]_(PolicyProofs!Promise!vars)
BY DEF Policy!Promise!Init, PolicyProofs!Promise!Init, Policy!Promise!Next,
       PolicyProofs!Promise!Next, Policy!Promise!vars, PolicyProofs!Promise!vars,
       Policy!Promise!Want, PolicyProofs!Promise!Want, Policy!Promise!Release,
       PolicyProofs!Promise!Release, Policy!Promise!Claim,
       PolicyProofs!Promise!Claim, Policy!Promise!EndClaim,
       PolicyProofs!Promise!EndClaim, Policy!Promise!Withdraw,
       PolicyProofs!Promise!Withdraw, Policy!Promise!Enforce,
       PolicyProofs!Promise!Enforce, Policy!Promise!Abandon,
       PolicyProofs!Promise!Abandon, Policy!DocInForce, PolicyProofs!DocInForce,
       Policy!exists, PolicyProofs!exists, Policy!versions, PolicyProofs!versions,
       Policy!VersionId, PolicyProofs!VersionId, Policy!ApplyCalls,
       PolicyProofs!ApplyCalls

LEMMA SameRolePromise ==
  /\ Role!Promise!Init = RoleProofs!Promise!Init
  /\ [Role!Promise!Next]_(Role!Promise!vars)
       = [RoleProofs!Promise!Next]_(RoleProofs!Promise!vars)
BY DEF Role!Promise!Init, RoleProofs!Promise!Init, Role!Promise!exists,
       RoleProofs!Promise!exists, Role!Promise!Next, RoleProofs!Promise!Next,
       Role!Promise!vars, RoleProofs!Promise!vars, Role!Promise!Want,
       RoleProofs!Promise!Want, Role!Promise!Release, RoleProofs!Promise!Release,
       Role!Promise!Claim, RoleProofs!Promise!Claim, Role!Promise!EndClaim,
       RoleProofs!Promise!EndClaim, Role!Promise!BeginRelease,
       RoleProofs!Promise!BeginRelease, Role!Promise!Trust, RoleProofs!Promise!Trust,
       Role!Promise!Grant, RoleProofs!Promise!Grant, Role!Promise!Revoke,
       RoleProofs!Promise!Revoke, Role!Promise!RevokeAll,
       RoleProofs!Promise!RevokeAll, Role!Promise!Withdraw,
       RoleProofs!Promise!Withdraw, Role!Promise!Interfere,
       RoleProofs!Promise!Interfere, Role!Promise!Serves, RoleProofs!Promise!Serves,
       Role!ApplyCalls, RoleProofs!ApplyCalls, Role!RoleSpec, RoleProofs!RoleSpec,
       Role!Resolves, RoleProofs!Resolves

LEMMA PolicyPromiseNext ==
  ASSUME Inv, [Next]_vars
  PROVE  [Policy!Promise!Next]_(Policy!Promise!vars)
<1>1. CASE PolicyStep
  <2>1. PolicyProofs!Inv /\ PolicyProofs!Step(PolicyComponent)
    BY <1>1, SamePolicyInv, SamePolicyStep DEF PolicyStep, Inv
  <2>2. /\ PolicyProofs!TypeOK /\ PolicyProofs!PolicyFits
        /\ PolicyProofs!HandlersFit(PolicyComponent)
    BY <2>1 DEF PolicyProofs!Inv
  <2>3. QED
    BY <2>1, <2>2, PolicyAssumptions, PolicyProofs!PromiseStep, SamePolicyPromise
       DEF PolicyProofs!DocsAssumption, PolicyProofs!ListingAssumption,
           PolicyProofs!LimitAssumption, PolicyProofs!EncodingAssumption
<1>2. CASE UNCHANGED policySide
  BY <1>2 DEF policySide, Policy!Promise!vars, Policy!DocInForce, Policy!exists,
              Policy!versions
<1>3. QED
  BY <1>1, <1>2 DEF Next, RoleStep, AttachMissing, vars

LEMMA RolePromiseNext ==
  ASSUME Inv, [Next]_vars
  PROVE  [Role!Promise!Next]_(Role!Promise!vars)
<1> USE RoleAssumptions
    DEF RoleProofs!RoleDataAssumption, RoleProofs!RoleBoundsAssumption,
        RoleProofs!RoleEncodingAssumption
<1>1. RoleProofs!Inv
  BY SameRoleInv DEF Inv
<1>2. CASE RoleStep
  <2>1. RoleProofs!Next
    BY <1>2, SameRoleNext DEF RoleStep
  <2>2. QED
    BY <1>1, <2>1, RoleProofs!PromiseNext, SameRolePromise
<1>3. CASE AttachMissing
  <2>1. rolePc = "Attach" /\ UNCHANGED <<trust, attached, disturbed>>
    BY <1>3 DEF AttachMissing, Missing
  <2>2. RoleProofs!GoTo("applyFailed", RoleProofs!Partial(roleJob))
    BY <1>3 DEF AttachMissing, Role!GoTo, RoleProofs!GoTo, Role!Partial, RoleProofs!Partial
  <2>3. RoleProofs!Promise!EndClaim
    BY <1>1, <2>1, <2>2, RoleProofs!RefusedAttachEnds
  <2>4. QED
    BY <2>3, SameRolePromise DEF RoleProofs!Promise!Next
<1>4. CASE UNCHANGED roleSide
  BY <1>4 DEF roleSide, Role!Promise!vars
<1>5. QED
  BY <1>2, <1>3, <1>4 DEF Next, PolicyStep, vars

\* Side by side, each provider still implements its own abstract specification.
THEOREM PromisesAreKept == Spec => Policy!KeepsPromise /\ Role!KeepsPromise
<1>1. Init => Policy!Promise!Init
  BY PolicyAssumptions, PolicyProofs!InitPromise, SamePolicyInit, SamePolicyPromise
     DEF Init, PolicyProofs!DocsAssumption, PolicyProofs!ListingAssumption,
         PolicyProofs!LimitAssumption, PolicyProofs!EncodingAssumption
<1>2. Init => Role!Promise!Init
  BY RoleAssumptions, RoleProofs!PromiseInit, SameRoleInit, SameRolePromise
     DEF Init, RoleProofs!RoleDataAssumption, RoleProofs!RoleBoundsAssumption,
         RoleProofs!RoleEncodingAssumption
<1>3. Inv /\ [Next]_vars => [Policy!Promise!Next]_(Policy!Promise!vars)
  BY PolicyPromiseNext
<1>4. Inv /\ [Next]_vars => [Role!Promise!Next]_(Role!Promise!vars)
  BY RolePromiseNext
<1>5. QED
  BY <1>1, <1>2, <1>3, <1>4, Invariance, PTL
     DEF Spec, Policy!KeepsPromise, Policy!Promise!Spec, Role!KeepsPromise, Role!Promise!Spec


=============================================================================
