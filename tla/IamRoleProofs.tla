---------------------------- MODULE IamRoleProofs -----------------------------
(* Theorems about IamRole, for every set of trust policies and of policies,   *)
(* and all bounds on edits, faults and interference.                           *)
EXTENDS IamRole, WellFoundedInduction, TLAPS

-----------------------------------------------------------------------------
(* The operators of the module. *)

\* slices.Sorted has a first element wherever there is one at all.
LEMMA NextOfIsOneOf ==
  ASSUME NEW S \in SUBSET Nat, S # {}
  PROVE  NextOf(S) \in S
<1> DEFINE R == OpToRel(<, Nat)
<1>1. IsWellFoundedOn(R, Nat)
  BY NatLessThanWellFounded
<1>2. \A x, y \in Nat : x < y => <<x, y>> \in R
  BY DEF OpToRel
<1> HIDE DEF R
<1>3. PICK x \in S : \A y \in S : <<y, x>> \notin R
  BY <1>1, WFMin
<1>4. ASSUME NEW y \in S PROVE x <= y
  <2>1. ~(y < x)
    BY <1>2, <1>3
  <2>2. QED
    BY <2>1
<1>5. QED
  BY <1>4 DEF NextOf

\* Where reconcilePolicyAttachments goes, it goes with what it knew.
LEMMA OnwardGoes ==
  ASSUME NEW j \in Job, Onward(j)
  PROVE  /\ obj' = obj /\ meddled' = meddled /\ faults' = faults /\ outside' = outside
         /\ job' \in Job
         /\ job'.spec = j.spec /\ job'.generation = j.generation /\ job'.listed = j.listed
         /\ job'.actual = j.actual /\ job'.reconciled = j.reconciled
         /\ job'.status.arn = j.status.arn
         /\ \/ pc' = "Detach" /\ ToDetach(j) \cap j.actual # {}
            \/ pc' = "Attach" /\ ToDetach(j) \cap j.actual = {} /\ ToAttach(j) \ j.actual # {}
            \/ /\ pc' = "applied" /\ ToDetach(j) \cap j.actual = {} /\ ToAttach(j) \ j.actual = {}
               /\ job'.status.attached = j.actual
BY DEF Onward, GoTo, Finished, Job, Status

\* What the handler knows of the attachments when it goes on.
Underway(j) ==
  /\ j.spec \in RoleSpec /\ j.reconciled
  /\ j.listed \cap j.spec.policies \subseteq j.actual
  /\ j.actual \subseteq j.listed \cup j.spec.policies

LEMMA OnwardIsHalfway ==
  ASSUME NEW j \in Job, Onward(j), Underway(j)
  PROVE  Halfway'
<1>1. /\ job'.spec = j.spec /\ job'.listed = j.listed /\ job'.actual = j.actual
      /\ job'.reconciled
      /\ ToDetach(job)' = ToDetach(j) /\ ToAttach(job)' = ToAttach(j)
  BY OnwardGoes DEF Underway, ToDetach, ToAttach
<1>2. CASE pc' \in {"Detach", "Attach"}
  BY <1>1, <1>2, OnwardGoes DEF Underway, Halfway, ApplyCalls
<1>3. CASE pc' = "applied"
  <2>1. ToDetach(j) \cap j.actual = {} /\ ToAttach(j) \ j.actual = {}
        /\ job'.status.attached = j.actual
    BY <1>3, OnwardGoes
  <2>2. j.actual = j.spec.policies
    BY <2>1 DEF Underway, ToDetach, ToAttach
  <2>3. QED
    BY <1>1, <1>3, <2>1, <2>2 DEF Underway, Halfway, ApplyCalls
<1>4. QED
  BY <1>2, <1>3, OnwardGoes

\* The handler's next call to attach or detach is for one of the policies that are
\* due.
LEMMA DetachOne ==
  ASSUME Inv, Detach
  PROVE  \E p \in (job.listed \ job.spec.policies) \cap job.actual :
           \/ /\ p \in attached /\ attached' = attached \ {p}
              /\ Onward([job EXCEPT !.actual = @ \ {p}])
           \/ /\ p \notin attached /\ attached' = attached
              /\ GoTo("applyFailed", Partial(job))
<1> DEFINE S == ToDetach(job) \cap job.actual
<1>1. S # {} /\ S \subseteq Nat
  BY RoleDataAssumption DEF Inv, Halfway, Detach, TypeOK, Job
<1>2. NextOf(S) \in S
  BY <1>1, NextOfIsOneOf
<1>3. QED
  BY <1>2 DEF Detach, ToDetach

LEMMA AttachOne ==
  ASSUME Inv, Attach
  PROVE  \E p \in (job.spec.policies \ job.listed) \ job.actual :
           \/ /\ exists /\ attached' = attached \cup {p}
              /\ Onward([job EXCEPT !.actual = @ \cup {p}])
           \/ /\ ~exists /\ attached' = attached
              /\ GoTo("applyFailed", Partial(job))
<1> DEFINE S == ToAttach(job) \ job.actual
<1>1. S # {} /\ S \subseteq Nat
  BY RoleDataAssumption
     DEF Inv, Halfway, HandlerFits, Attach, ApplyCalls, ToAttach, RoleSpec
<1>2. NextOf(S) \in S
  BY <1>1, NextOfIsOneOf
<1>3. QED
  BY <1>2 DEF Attach, ToAttach

\* The local variables after each of them.
LEMMA AfterDetach ==
  ASSUME Inv, pc = "Detach", NEW p \in job.listed \ job.spec.policies
  PROVE  LET j == [job EXCEPT !.actual = @ \ {p}]
         IN  j \in Job /\ Underway(j) /\ p \in Policies
<1>1. /\ job \in Job /\ job.spec \in RoleSpec /\ job.reconciled
      /\ job.listed \cap job.spec.policies \subseteq job.actual
      /\ job.actual \subseteq job.listed \cup job.spec.policies
  BY DEF Inv, TypeOK, HandlerFits, Halfway, ApplyCalls
<1>2. QED
  BY <1>1 DEF Job, Underway

LEMMA AfterAttach ==
  ASSUME Inv, pc = "Attach", NEW p \in job.spec.policies
  PROVE  LET j == [job EXCEPT !.actual = @ \cup {p}]
         IN  j \in Job /\ Underway(j) /\ p \in Policies
<1>1. /\ job \in Job /\ job.spec \in RoleSpec /\ job.reconciled
      /\ job.listed \cap job.spec.policies \subseteq job.actual
      /\ job.actual \subseteq job.listed \cup job.spec.policies
  BY DEF Inv, TypeOK, HandlerFits, Halfway, ApplyCalls
<1>2. p \in Policies
  BY <1>1 DEF RoleSpec
<1>3. QED
  BY <1>1, <1>2 DEF Job, Underway

-----------------------------------------------------------------------------
(* Type correctness. *)

Calls == {"idle"} \cup ApplyCalls \cup DeleteCalls \cup Outcome

\* A step of a handler is well typed when what it writes is.
LEMMA GoToType ==
  ASSUME TypeOK, NEW call \in Calls, NEW j \in Job, GoTo(call, j),
         trust' \in Trusts \cup {NoTrust}, attached' \subseteq Policies, disturbed' \in BOOLEAN
  PROVE  TypeOK'
BY DEF TypeOK, GoTo, Calls

LEMMA OnwardType ==
  ASSUME TypeOK, NEW j \in Job, Onward(j), trust' = trust,
         attached' \subseteq Policies, disturbed' = disturbed
  PROVE  TypeOK'
<1>1. /\ pc' \in {"Detach", "Attach", "applied"} /\ job' \in Job
      /\ obj' = obj /\ meddled' = meddled /\ faults' = faults /\ outside' = outside
  BY OnwardGoes
<1>2. QED
  BY <1>1 DEF TypeOK, ApplyCalls, Outcome

\* What the handlers assign to their local variables.
LEMMA LocalsType ==
  ASSUME TypeOK
  PROVE  /\ job \in Job /\ NoJob \in Job
         /\ [NoJob EXCEPT !.spec = obj.spec, !.generation = obj.generation,
                          !.status = obj.status] \in Job
         /\ [job EXCEPT !.status.arn = TRUE] \in Job
         /\ [job EXCEPT !.listed = attached, !.actual = attached, !.reconciled = TRUE] \in Job
         /\ \A S \in SUBSET Policies : [job EXCEPT !.listed = S] \in Job
         /\ \A p : [job EXCEPT !.listed = @ \ {p}] \in Job
         /\ \A p : [job EXCEPT !.actual = @ \ {p}] \in Job
         /\ [job EXCEPT !.status = obj.status] \in Job
         /\ Partial(job) \in Job
<1>1. /\ job \in Job /\ attached \in SUBSET Policies
      /\ obj.spec \in RoleSpec /\ obj.generation \in Nat /\ obj.status \in Status
  BY RoleBoundsAssumption DEF TypeOK, Component
<1>2. NoJob \in Job
  BY DEF NoJob, Job, NoStatus, Status
<1>3. [NoJob EXCEPT !.spec = obj.spec, !.generation = obj.generation,
                    !.status = obj.status] \in Job
  BY <1>1 DEF NoJob, Job
<1>4. [job EXCEPT !.status.arn = TRUE] \in Job /\ Partial(job) \in Job
  BY <1>1 DEF Partial, Job, Status
<1>5. [job EXCEPT !.listed = attached, !.actual = attached, !.reconciled = TRUE] \in Job
  BY <1>1 DEF Job
<1>6. /\ \A S \in SUBSET Policies : [job EXCEPT !.listed = S] \in Job
      /\ \A p : [job EXCEPT !.listed = @ \ {p}] \in Job
      /\ \A p : [job EXCEPT !.actual = @ \ {p}] \in Job
      /\ [job EXCEPT !.status = obj.status] \in Job
  BY <1>1 DEF Job
<1>7. QED
  BY <1>1, <1>2, <1>3, <1>4, <1>5, <1>6

LEMMA InitType == Init => TypeOK
<1> SUFFICES ASSUME Init PROVE TypeOK
  OBVIOUS
<1> USE RoleDataAssumption, RoleBoundsAssumption
<1>1. trust \in Trusts \cup {NoTrust} /\ attached \subseteq Policies
  BY DEF Init
<1>2. NoStatus \in Status /\ NoJob \in Job
  BY DEF NoJob, Job, NoStatus, Status
<1>3. obj \in Component(RoleSpec, Status, 1 .. MaxGeneration)
  BY <1>2 DEF Init, NewComponent, Component, Phase
<1>4. /\ pc \in {"idle"} \cup ApplyCalls \cup DeleteCalls \cup Outcome
      /\ job \in Job
      /\ faults \in 0 .. MaxFaults /\ outside \in 0 .. MaxOutside
  BY <1>2 DEF Init
<1>5. disturbed \in BOOLEAN /\ meddled \subseteq Policies
  BY Zenon DEF Init
<1>6. QED
  BY <1>1, <1>3, <1>4, <1>5 DEF TypeOK

LEMMA NextType == Inv /\ [Next]_vars => TypeOK'
<1> SUFFICES ASSUME Inv, [Next]_vars PROVE TypeOK'
  OBVIOUS
<1> USE RoleBoundsAssumption DEF roleVars
<1>0. TypeOK /\ HandlerFits /\ Halfway
  BY DEF Inv
<1>1. /\ trust \in Trusts \cup {NoTrust} /\ attached \subseteq Policies
      /\ disturbed \in BOOLEAN /\ obj \in Component(RoleSpec, Status, 1 .. MaxGeneration)
      /\ faults \in 0 .. MaxFaults /\ outside \in 0 .. MaxOutside
  BY <1>0 DEF TypeOK
<1>2. pc \in ApplyCalls => job.spec.trust \in Trusts
  BY <1>0 DEF HandlerFits, RoleSpec
<1>3. CASE RejectSpec \/ StartApply \/ CheckApplied \/ StartDelete \/ RetryDelete \/ CheckDeleted
  <2>1. PICK call \in Calls : Begin(call)
    BY <1>3 DEF RejectSpec, StartApply, CheckApplied, CheckWhen, StartDelete, RetryDelete,
                BeginDelete, CheckDeleted, Calls, ApplyCalls, DeleteCalls, Outcome
  <2>2. UNCHANGED roleVars /\ disturbed' \in BOOLEAN
    BY <1>1, <1>3 DEF RejectSpec, StartApply, CheckApplied, CheckWhen, StartDelete,
                      RetryDelete, BeginDelete, CheckDeleted
  <2>3. QED
    BY <1>0, <1>1, <2>1, <2>2, GoToType, LocalsType DEF Begin
<1>4. CASE GetRole
  BY <1>0, <1>1, <1>4, GoToType, LocalsType DEF GetRole, Calls, ApplyCalls
<1>5. CASE CreateRole
  BY <1>0, <1>1, <1>2, <1>5, GoToType, LocalsType
     DEF CreateRole, CreateWithTrust, Calls, ApplyCalls, Outcome
<1>6. CASE UpdateTrust
  BY <1>0, <1>1, <1>2, <1>6, GoToType, LocalsType
     DEF UpdateTrust, UpdateTrustTo, Calls, ApplyCalls, Outcome
<1>7. CASE ListAttached
  <2>1. CASE exists
    BY <1>0, <1>1, <1>7, <2>1, OnwardType, LocalsType DEF ListAttached
  <2>2. CASE ~exists
    BY <1>0, <1>1, <1>7, <2>2, GoToType, LocalsType DEF ListAttached, Calls, Outcome
  <2>3. QED
    BY <2>1, <2>2
<1>8. CASE Detach
  <2>1. pc = "Detach" /\ trust' = trust /\ disturbed' = disturbed
    BY <1>8 DEF Detach
  <2>2. PICK p \in (job.listed \ job.spec.policies) \cap job.actual :
          \/ /\ attached' = attached \ {p}
             /\ Onward([job EXCEPT !.actual = @ \ {p}])
          \/ attached' = attached /\ GoTo("applyFailed", Partial(job))
    BY <1>8, DetachOne
  <2>3. [job EXCEPT !.actual = @ \ {p}] \in Job
    BY <1>0, LocalsType
  <2>4. QED
    BY <1>0, <1>1, <2>1, <2>2, <2>3, OnwardType, GoToType, LocalsType DEF Calls, Outcome
<1>9. CASE Attach
  <2>1. pc = "Attach" /\ trust' = trust /\ disturbed' = disturbed
    BY <1>9 DEF Attach
  <2>2. PICK p \in (job.spec.policies \ job.listed) \ job.actual :
          \/ /\ attached' = attached \cup {p}
             /\ Onward([job EXCEPT !.actual = @ \cup {p}])
          \/ attached' = attached /\ GoTo("applyFailed", Partial(job))
    BY <1>9, AttachOne
  <2>3. [job EXCEPT !.actual = @ \cup {p}] \in Job /\ p \in Policies
    BY <2>1, AfterAttach
  <2>4. QED
    BY <1>0, <1>1, <2>1, <2>2, <2>3, OnwardType, GoToType, LocalsType DEF Calls, Outcome
<1>10. CASE GetForDelete
  BY <1>0, <1>1, <1>10, GoToType, LocalsType DEF GetForDelete, Calls, DeleteCalls, Outcome
<1>11. CASE ListForDelete
  BY <1>0, <1>1, <1>11, GoToType, LocalsType
     DEF ListForDelete, BeginDetaching, Calls, DeleteCalls, Outcome
<1>12. CASE DetachForDelete
  BY <1>0, <1>1, <1>12, GoToType, LocalsType DEF DetachForDelete, Calls, DeleteCalls, Outcome
<1>13. CASE DeleteRole
  BY <1>0, <1>1, <1>13, GoToType, LocalsType DEF DeleteRole, DeleteOr, Calls, Outcome
<1>14. CASE Record
  <2>1. job.status \in Status /\ pc \in Outcome
    BY <1>0, <1>14 DEF TypeOK, Job, Record
  <2>2. pc \in {"applied", "applyFailed"} => job.generation \in 1 .. MaxGeneration
    <3>1. /\ job.generation \in Nat /\ obj.observed \in Nat
          /\ obj.generation \in Nat /\ obj.generation <= MaxGeneration
      BY <1>0, <1>1 DEF TypeOK, Job, Component
    <3>2. QED
      BY <1>0, <3>1 DEF HandlerFits
  <2>3. Recorded \in Component(RoleSpec, Status, 1 .. MaxGeneration)
    <3>1. CASE pc \in {"applied", "applyFailed"}
      BY <1>1, <2>1, <2>2, <3>1 DEF Recorded, Applied, ApplyFailed, Component, Phase
    <3>2. CASE pc \in {"ready", "failed"}
      BY <1>1, <2>1, <3>2 DEF Recorded, CheckedReady, Failed, Component, Phase
    <3>3. CASE pc \in {"deleteStarted", "gone"}
      BY <1>1, <2>1, <3>3 DEF Recorded, DeleteStarted, CheckedGone, Component, Phase
    <3>4. QED
      BY <2>1, <3>1, <3>2, <3>3 DEF Outcome
  <2>4. QED
    BY <1>0, <1>14, <2>3, LocalsType DEF Record, TypeOK
<1>15. CASE Interrupt
  BY <1>0, <1>15, LocalsType DEF Interrupt, TypeOK
<1>16. CASE PermanentError
  BY <1>0, <1>16, LocalsType DEF PermanentError, TypeOK, Outcome
<1>17. CASE CheckRefused
  BY <1>0, <1>17, LocalsType DEF CheckRefused, TypeOK, Outcome
<1>18. CASE EditSpec
  <2>1. PICK s \in RoleSpec : obj' = Edited(obj, s)
    BY <1>18 DEF EditSpec
  <2>2. obj.generation + 1 \in 1 .. MaxGeneration
    BY <1>1, <1>18 DEF EditSpec, Component
  <2>3. Edited(obj, s) \in Component(RoleSpec, Status, 1 .. MaxGeneration)
    BY <1>1, <2>2 DEF Edited, Component
  <2>4. QED
    BY <1>0, <1>18, <2>1, <2>3 DEF EditSpec, TypeOK
<1>19. CASE RequestDeletion
  BY <1>0, <1>1, <1>19 DEF RequestDeletion, DeletionRequested, TypeOK, Component
<1>20. CASE Outside
  BY <1>0, <1>1, <1>20 DEF Outside, TypeOK
<1>21. CASE UNCHANGED vars
  BY <1>0, <1>21 DEF vars, TypeOK
<1>22. QED
  BY <1>3, <1>4, <1>5, <1>6, <1>7, <1>8, <1>9, <1>10, <1>11, <1>12, <1>13, <1>14, <1>15,
     <1>16, <1>17, <1>18, <1>19, <1>20, <1>21 DEF Next, Reconcile, Apply, Delete

-----------------------------------------------------------------------------
(* What the steps of the handlers do. *)

\* A handler that is called works with what was persisted.
LEMMA BeginGives ==
  ASSUME NEW call, Begin(call)
  PROVE  /\ obj' = obj /\ pc' = call
         /\ job'.spec = obj.spec /\ job'.generation = obj.generation
         /\ job'.status = obj.status /\ ~job'.reconciled /\ meddled' = meddled
BY DEF Begin, GoTo, NoJob

\* One policy detached or attached, or the call has failed.
LEMMA ChangeOne ==
  ASSUME Inv, Detach \/ Attach
  PROVE  /\ pc \in {"Detach", "Attach"}
         /\ obj' = obj /\ trust' = trust /\ disturbed' = disturbed /\ meddled' = meddled
         /\ job'.spec = job.spec /\ job'.generation = job.generation /\ job'.reconciled
         /\ job'.status.arn = job.status.arn
         /\ exists \/ attached' = attached
         /\ \/ /\ pc' \in {"Detach", "Attach", "applied"} /\ Halfway'
               /\ job.actual \ meddled = attached \ meddled =>
                   job'.actual \ meddled = attached' \ meddled
            \/ /\ pc' = "applyFailed" /\ attached' = attached
               /\ job'.status.attached = job.actual
<1>1. /\ pc \in {"Detach", "Attach"} /\ trust' = trust /\ disturbed' = disturbed
      /\ job \in Job /\ job.reconciled
      /\ exists \/ attached = {}
  BY DEF Detach, Attach, Inv, TypeOK, Halfway, GoneStaysGone
<1>2. ASSUME NEW j \in Job, Onward(j), Underway(j), j.spec = job.spec,
             j.generation = job.generation, j.status = job.status,
             job.actual \ meddled = attached \ meddled =>
               j.actual \ meddled = attached' \ meddled
      PROVE  /\ obj' = obj /\ meddled' = meddled
             /\ job'.spec = job.spec /\ job'.generation = job.generation
             /\ job'.reconciled /\ job'.status.arn = job.status.arn
             /\ pc' \in {"Detach", "Attach", "applied"} /\ Halfway'
             /\ job.actual \ meddled = attached \ meddled =>
                  job'.actual \ meddled = attached' \ meddled
  BY <1>2, OnwardGoes, OnwardIsHalfway DEF Underway
<1>3. ASSUME GoTo("applyFailed", Partial(job))
      PROVE  /\ obj' = obj /\ meddled' = meddled
             /\ job'.spec = job.spec /\ job'.generation = job.generation
             /\ job'.reconciled /\ job'.status.arn = job.status.arn
             /\ pc' = "applyFailed" /\ job'.status.attached = job.actual
  BY <1>1, <1>3 DEF GoTo, Partial, Job, Status
<1>4. CASE Detach
  <2>1. pc = "Detach"
    BY <1>4 DEF Detach
  <2>2. PICK p \in (job.listed \ job.spec.policies) \cap job.actual :
           \/ /\ p \in attached /\ attached' = attached \ {p}
              /\ Onward([job EXCEPT !.actual = @ \ {p}])
           \/ /\ p \notin attached /\ attached' = attached
              /\ GoTo("applyFailed", Partial(job))
    BY <1>4, DetachOne
  <2> DEFINE j == [job EXCEPT !.actual = @ \ {p}]
  <2>3. j \in Job /\ Underway(j)
    BY <2>1, <2>2, AfterDetach
  <2>4. /\ j.spec = job.spec /\ j.generation = job.generation /\ j.status = job.status
        /\ j.actual = job.actual \ {p}
    BY <1>1 DEF Job
  <2>5. CASE p \in attached /\ attached' = attached \ {p} /\ Onward(j)
    <3> HIDE DEF j
    <3>1. exists
      BY <1>1, <2>5
    <3>2. QED
      BY <1>1, <1>2, <2>3, <2>4, <2>5, <3>1
  <2>6. QED
    BY <1>1, <1>3, <2>2, <2>5
<1>5. CASE Attach
  <2>1. pc = "Attach"
    BY <1>5 DEF Attach
  <2>2. PICK p \in (job.spec.policies \ job.listed) \ job.actual :
           \/ /\ exists /\ attached' = attached \cup {p}
              /\ Onward([job EXCEPT !.actual = @ \cup {p}])
           \/ /\ ~exists /\ attached' = attached
              /\ GoTo("applyFailed", Partial(job))
    BY <1>5, AttachOne
  <2> DEFINE j == [job EXCEPT !.actual = @ \cup {p}]
  <2>3. j \in Job /\ Underway(j)
    BY <2>1, <2>2, AfterAttach
  <2>4. /\ j.spec = job.spec /\ j.generation = job.generation /\ j.status = job.status
        /\ j.actual = job.actual \cup {p}
    BY <1>1 DEF Job
  <2>5. CASE exists /\ attached' = attached \cup {p} /\ Onward(j)
    <3> HIDE DEF j
    <3>1. QED
      BY <1>1, <1>2, <2>3, <2>4, <2>5
  <2>6. QED
    BY <1>1, <1>3, <2>2, <2>5
<1>6. QED
  BY <1>4, <1>5

\* The listing, from which reconcilePolicyAttachments works, or there is no role.
LEMMA ListOne ==
  ASSUME Inv, ListAttached
  PROVE  /\ pc = "ListAttached" /\ UNCHANGED <<obj, trust, attached, disturbed, meddled>>
         /\ job'.spec = job.spec /\ job'.generation = job.generation
         /\ job'.status.arn = job.status.arn
         /\ \/ /\ pc' \in {"Detach", "Attach", "applied"} /\ Halfway'
               /\ exists /\ job'.actual = attached
            \/ pc' = "applyFailed" /\ job' = job
<1>1. /\ pc = "ListAttached" /\ UNCHANGED <<trust, attached, disturbed>>
      /\ job \in Job /\ job.spec \in RoleSpec
  BY DEF ListAttached, roleVars, Inv, TypeOK, HandlerFits, ApplyCalls
<1>2. CASE exists
  <2> DEFINE j == [job EXCEPT !.listed = attached, !.actual = attached, !.reconciled = TRUE]
  <2>1. j \in Job
    BY LocalsType DEF Inv
  <2>2. /\ j.spec = job.spec /\ j.generation = job.generation /\ j.status = job.status
        /\ j.listed = attached /\ j.actual = attached /\ j.reconciled
    BY <1>1 DEF Job
  <2>3. Onward(j)
    BY <1>2 DEF ListAttached
  <2> HIDE DEF j
  <2>4. Underway(j)
    BY <1>1, <2>2 DEF Underway
  <2>5. QED
    BY <1>1, <1>2, <2>1, <2>2, <2>3, <2>4, OnwardGoes, OnwardIsHalfway
<1>3. CASE ~exists
  BY <1>1, <1>3 DEF ListAttached, GoTo
<1>4. QED
  BY <1>2, <1>3

\* What the reconciler makes of a result.
LEMMA RecordGives ==
  ASSUME TypeOK, Record
  PROVE  /\ pc \in Outcome /\ pc' = "idle" /\ UNCHANGED <<trust, attached, disturbed>>
         /\ obj'.spec = obj.spec /\ obj'.generation = obj.generation
         /\ obj'.deleting = obj.deleting
         /\ pc = "applied" =>
              /\ obj'.phase = "Deploying" /\ obj'.observed = job.generation
              /\ obj'.status = job.status
         /\ pc = "applyFailed" => obj'.phase = "Failed" /\ obj'.observed = job.generation
         /\ pc = "ready" => obj'.phase = "Ready" /\ obj'.status = job.status
         /\ pc = "failed" => obj'.phase = "Failed"
         /\ pc = "deleteStarted" => obj'.phase = "Terminating"
         /\ pc = "gone" => obj'.phase = "Gone"
         /\ pc \notin {"applied", "applyFailed"} => obj'.observed = obj.observed
<1>1. /\ pc \in Outcome /\ pc' = "idle" /\ UNCHANGED <<trust, attached, disturbed>>
      /\ obj' = Recorded /\ obj \in Component(RoleSpec, Status, 1 .. MaxGeneration)
  BY DEF TypeOK, Record, roleVars
<1>2. CASE pc \in {"applied", "applyFailed"}
  BY <1>1, <1>2 DEF Recorded, Applied, ApplyFailed, Component
<1>3. CASE pc \in {"ready", "failed"}
  BY <1>1, <1>3 DEF Recorded, CheckedReady, Failed, Component
<1>4. CASE pc \in {"deleteStarted", "gone"}
  BY <1>1, <1>4 DEF Recorded, DeleteStarted, CheckedGone, Component
<1>5. QED
  BY <1>1, <1>2, <1>3, <1>4 DEF Outcome

\* What an edit and a request of deletion leave of the Component.
LEMMA UserGives ==
  ASSUME TypeOK, EditSpec \/ RequestDeletion
  PROVE  /\ UNCHANGED <<trust, attached, pc, job, disturbed, meddled>>
         /\ obj'.phase = obj.phase /\ obj'.observed = obj.observed /\ obj'.status = obj.status
         /\ obj.deleting => obj'.deleting
         /\ \/ obj'.generation = obj.generation + 1
            \/ /\ obj'.generation = obj.generation /\ obj'.spec = obj.spec
               /\ obj'.deleting
<1>1. obj \in Component(RoleSpec, Status, 1 .. MaxGeneration)
  BY DEF TypeOK
<1>2. CASE EditSpec
  <2>1. PICK s \in RoleSpec : obj' = Edited(obj, s)
    BY <1>2 DEF EditSpec
  <2>2. QED
    BY <1>1, <1>2, <2>1 DEF EditSpec, Edited, Component, roleVars
<1>3. CASE RequestDeletion
  BY <1>1, <1>3 DEF RequestDeletion, DeletionRequested, Component, roleVars
<1>4. QED
  BY <1>2, <1>3

\* The generations are numbers.
LEMMA Generations ==
  ASSUME TypeOK
  PROVE  obj.observed \in Nat /\ obj.generation \in Nat /\ job.generation \in Nat
BY RoleBoundsAssumption DEF TypeOK, Component, Job

\* The calls of an apply before it reconciles the attachments.
LEMMA TrustSteps ==
  ASSUME TypeOK, GetRole \/ CreateRole \/ UpdateTrust
  PROVE  /\ pc \in {"GetRole", "CreateRole", "UpdateTrust"}
         /\ obj' = obj /\ disturbed' = disturbed /\ meddled' = meddled
         /\ job'.spec = job.spec /\ job'.generation = job.generation
         /\ job'.reconciled = job.reconciled
         /\ job.status.arn => job'.status.arn
         /\ pc = "GetRole" => /\ UNCHANGED <<trust, attached>>
                              /\ pc' \in {"CreateRole", "UpdateTrust"}
                              /\ pc' = "UpdateTrust" => job'.status.arn
         /\ pc = "CreateRole" =>
              \/ /\ ~exists /\ trust' = job.spec.trust /\ attached' = {}
                 /\ pc' = "ListAttached" /\ job'.status.arn
              \/ UNCHANGED <<trust, attached>> /\ pc' = "applyFailed"
         /\ pc = "UpdateTrust" =>
              \/ exists /\ trust' = job.spec.trust /\ attached' = attached /\ pc' = "ListAttached"
              \/ UNCHANGED <<trust, attached>> /\ pc' = "applyFailed"
<1> USE DEF GoTo, roleVars
<1>1. job \in Job
  BY DEF TypeOK
<1>2. CASE GetRole
  <2>1. exists => ~jsonEquals(URLEncoded(trust), job.spec.trust)
    BY RoleDataAssumption, RoleEncodingAssumption DEF TypeOK, exists, jsonEquals
  <2>2. QED
    BY <1>1, <1>2, <2>1 DEF GetRole, Job, Status
<1>3. CASE CreateRole
  BY <1>1, <1>3 DEF CreateRole, CreateWithTrust, Job, Status
<1>4. CASE UpdateTrust
  BY <1>1, <1>4 DEF UpdateTrust, UpdateTrustTo
<1>5. QED
  BY <1>2, <1>3, <1>4

-----------------------------------------------------------------------------
(* Each part of the invariant, over every step. *)

LEMMA FitsStep == Inv /\ [Next]_vars => HandlerFits'
<1> SUFFICES ASSUME Inv, [Next]_vars PROVE HandlerFits'
  OBVIOUS
<1>0. TypeOK /\ HandlerFits
  BY DEF Inv
<1>a. obj.observed \in Nat /\ obj.generation \in Nat /\ job.generation \in Nat
  BY <1>0, Generations
<1>b. obj.spec \in RoleSpec
  BY <1>0 DEF TypeOK, Component
<1> USE DEF HandlerFits, ApplyCalls, DeleteCalls
<1>1. CASE RejectSpec \/ StartApply
  BY <1>0, <1>1, <1>a, <1>b, BeginGives DEF RejectSpec, StartApply, NeedsApply
<1>2. CASE GetRole \/ CreateRole \/ UpdateTrust
  BY <1>0, <1>2, TrustSteps
<1>3. CASE ListAttached
  BY <1>0, <1>3, ListOne
<1>4. CASE Detach \/ Attach
  BY <1>0, <1>4, ChangeOne
<1>5. CASE CheckApplied
  BY <1>0, <1>5, BeginGives DEF CheckApplied, CheckWhen, NeedsApplyCheck
<1>6. CASE StartDelete \/ RetryDelete \/ CheckDeleted
  BY <1>0, <1>6, BeginGives
     DEF StartDelete, RetryDelete, BeginDelete, CheckDeleted, NeedsDelete, MayRetryDelete,
         NeedsDeleteCheck
<1>7. CASE GetForDelete \/ ListForDelete \/ DetachForDelete \/ DeleteRole
  BY <1>0, <1>7
     DEF GetForDelete, ListForDelete, BeginDetaching, DetachForDelete, DeleteRole, DeleteOr, GoTo
<1>8. CASE Record
  BY <1>0, <1>8, <1>a, RecordGives
<1>9. CASE Interrupt \/ CheckRefused
  BY <1>0, <1>9 DEF Interrupt, CheckRefused
<1>10. CASE PermanentError
  <2>1. /\ obj' = obj /\ job'.spec = job.spec /\ job'.generation = job.generation
        /\ (pc \in ApplyCalls /\ pc' = "applyFailed") \/ pc' = "failed"
    BY <1>0, <1>10 DEF PermanentError, Partial, TypeOK, Job, Status
  <2>2. QED
    BY <1>0, <2>1
<1>11. CASE EditSpec \/ RequestDeletion
  BY <1>0, <1>11, <1>a, UserGives
<1>12. CASE Outside \/ UNCHANGED vars
  BY <1>0, <1>12 DEF Outside, vars
<1>13. QED
  BY <1>1, <1>2, <1>3, <1>4, <1>5, <1>6, <1>7, <1>8, <1>9, <1>10, <1>11, <1>12
     DEF Next, Reconcile, Apply, Delete

LEMMA GoneStep == Inv /\ [Next]_vars => GoneStaysGone'
<1> SUFFICES ASSUME Inv, [Next]_vars PROVE GoneStaysGone'
  OBVIOUS
<1>0. TypeOK /\ HandlerFits /\ GoneStaysGone
  BY DEF Inv
<1> USE DEF GoneStaysGone, ApplyCalls, DeleteCalls, exists
<1>1. CASE RejectSpec \/ StartApply
  BY <1>0, <1>1, BeginGives DEF RejectSpec, StartApply, NeedsApply, roleVars
<1>2. CASE GetRole \/ CreateRole \/ UpdateTrust
  <2>1. pc \in ApplyCalls => job.spec.trust # NoTrust
    BY <1>0, RoleDataAssumption DEF HandlerFits, RoleSpec
  <2>2. QED
    BY <1>0, <1>2, <2>1, TrustSteps
<1>3. CASE ListAttached
  BY <1>0, <1>3, ListOne
<1>4. CASE Detach \/ Attach
  BY <1>0, <1>4, ChangeOne
<1>5. CASE CheckApplied
  BY <1>0, <1>5, BeginGives DEF CheckApplied, CheckWhen, NeedsApplyCheck, roleVars
<1>6. CASE StartDelete \/ RetryDelete \/ CheckDeleted
  BY <1>0, <1>6, BeginGives
     DEF StartDelete, RetryDelete, BeginDelete, CheckDeleted, NeedsDelete, MayRetryDelete,
         NeedsDeleteCheck, roleVars
<1>7. CASE GetForDelete \/ ListForDelete \/ DetachForDelete \/ DeleteRole
  BY <1>0, <1>7
     DEF GetForDelete, ListForDelete, BeginDetaching, DetachForDelete, DeleteRole, DeleteOr,
         GoTo, roleVars
<1>8. CASE Record
  BY <1>0, <1>8, RecordGives DEF Outcome
<1>9. CASE Interrupt \/ CheckRefused \/ PermanentError
  BY <1>0, <1>9 DEF Interrupt, CheckRefused, PermanentError, roleVars
<1>10. CASE EditSpec \/ RequestDeletion
  BY <1>0, <1>10, UserGives
<1>11. CASE Outside \/ UNCHANGED vars
  BY <1>0, <1>11 DEF Outside, vars
<1>12. QED
  BY <1>1, <1>2, <1>3, <1>4, <1>5, <1>6, <1>7, <1>8, <1>9, <1>10, <1>11
     DEF Next, Reconcile, Apply, Delete

LEMMA HalfwayStep == Inv /\ [Next]_vars => Halfway'
<1> SUFFICES ASSUME Inv, [Next]_vars PROVE Halfway'
  OBVIOUS
<1>0. TypeOK /\ Halfway
  BY DEF Inv
<1> USE DEF ApplyCalls, DeleteCalls
<1>1. ASSUME pc' \notin {"Detach", "Attach", "applied"},
             job'.reconciled => pc' = "applyFailed"
      PROVE  Halfway'
  BY <1>1 DEF Halfway
<1>2. CASE RejectSpec \/ StartApply
  BY <1>1, <1>2, BeginGives DEF RejectSpec, StartApply
<1>3. CASE GetRole \/ CreateRole \/ UpdateTrust
  <2>1. /\ pc' \in {"CreateRole", "UpdateTrust", "ListAttached", "applyFailed"}
        /\ ~job'.reconciled
    BY <1>0, <1>3, TrustSteps DEF Halfway
  <2>2. QED
    BY <1>1, <2>1
<1>4. CASE ListAttached
  BY <1>1, <1>4, ListOne
<1>5. CASE Detach \/ Attach
  BY <1>1, <1>5, ChangeOne
<1>6. CASE CheckApplied \/ StartDelete \/ RetryDelete \/ CheckDeleted
  BY <1>1, <1>6, BeginGives
     DEF CheckApplied, CheckWhen, StartDelete, RetryDelete, BeginDelete, CheckDeleted
<1>7. CASE GetForDelete \/ ListForDelete \/ DetachForDelete \/ DeleteRole
  <2>1. /\ pc \in DeleteCalls /\ pc' \in DeleteCalls \cup {"deleteStarted", "failed"}
        /\ job'.reconciled = job.reconciled
    BY <1>0, <1>7 DEF GetForDelete, ListForDelete, BeginDetaching, DetachForDelete, DeleteRole,
                      DeleteOr, GoTo, TypeOK, Job
  <2>2. QED
    BY <1>0, <1>1, <2>1 DEF Halfway
<1>8. CASE Record \/ Interrupt
  BY <1>1, <1>8 DEF Record, Interrupt, NoJob
<1>9. CASE CheckRefused \/ PermanentError
  <2>1. /\ job'.reconciled = job.reconciled
        /\ \/ pc \in ApplyCalls /\ pc' = "applyFailed"
           \/ pc \in DeleteCalls \cup {"idle"} /\ pc' = "failed"
    BY <1>0, <1>9 DEF CheckRefused, PermanentError, Partial, TypeOK, Job
  <2>2. QED
    BY <1>0, <1>1, <2>1 DEF Halfway
<1>10. CASE UNCHANGED <<pc, job>>
  BY <1>0, <1>10 DEF Halfway, ToDetach, ToAttach
<1>11. QED
  BY <1>2, <1>3, <1>4, <1>5, <1>6, <1>7, <1>8, <1>9, <1>10
     DEF Next, Reconcile, Apply, Delete, EditSpec, RequestDeletion, Outside, vars

\* Outside a run that has listed the attachments nobody has meddled.
LEMMA NothingMeddled ==
  ASSUME Inv, pc \notin {"Detach", "Attach", "applied", "applyFailed"}
  PROVE  meddled = {}
BY DEF Inv, Halfway, BelievesRight

\* Others may spoil only what they are recorded to have touched.
LEMMA OutsideGives ==
  ASSUME Inv, Outside
  PROVE  /\ UNCHANGED <<pc, job>> /\ disturbed'
         /\ meddled' # {} => job.reconciled
         /\ job.reconciled => \A S : S \ meddled = attached \ meddled =>
                                      S \ meddled' = attached' \ meddled'
<1>1. /\ UNCHANGED <<pc, job>> /\ disturbed'
      /\ job.reconciled =>
           meddled' = meddled \cup (attached \ attached') \cup (attached' \ attached)
      /\ ~job.reconciled => meddled' = meddled
  BY DEF Outside
<1>2. meddled # {} => job.reconciled
  BY DEF Inv, BelievesRight
<1>3. QED
  BY <1>1, <1>2

LEMMA BelievesStep == Inv /\ [Next]_vars => BelievesRight'
<1> SUFFICES ASSUME Inv, [Next]_vars PROVE BelievesRight'
  OBVIOUS
<1>0. TypeOK /\ Halfway /\ BelievesRight
  BY DEF Inv
<1> USE DEF ApplyCalls, DeleteCalls
<1>1. ASSUME pc' \notin {"ListAttached", "Detach", "Attach", "applied"}, meddled' = {}
      PROVE  BelievesRight'
  BY <1>1 DEF BelievesRight
<1>2. CASE RejectSpec \/ StartApply
  BY <1>1, <1>2, BeginGives, NothingMeddled DEF RejectSpec, StartApply
<1>3. CASE GetRole \/ CreateRole \/ UpdateTrust
  <2>1. meddled' = {}
    BY <1>0, <1>3, TrustSteps, NothingMeddled
  <2>2. QED
    BY <1>0, <1>3, <2>1, TrustSteps DEF BelievesRight
<1>4. CASE ListAttached
  <2>1. meddled' = {}
    BY <1>4, ListOne, NothingMeddled
  <2>2. QED
    BY <1>0, <1>4, <2>1, ListOne DEF BelievesRight
<1>5. CASE Detach \/ Attach
  BY <1>0, <1>5, ChangeOne DEF BelievesRight
<1>6. CASE CheckApplied \/ StartDelete \/ RetryDelete \/ CheckDeleted
  BY <1>1, <1>6, BeginGives, NothingMeddled
     DEF CheckApplied, CheckWhen, StartDelete, RetryDelete, BeginDelete, CheckDeleted
<1>7. CASE GetForDelete \/ ListForDelete \/ DetachForDelete \/ DeleteRole
  <2>1. /\ pc \in DeleteCalls /\ pc' \in DeleteCalls \cup {"deleteStarted", "failed"}
        /\ meddled' = meddled
    BY <1>7 DEF GetForDelete, ListForDelete, BeginDetaching, DetachForDelete, DeleteRole,
                DeleteOr, GoTo
  <2>2. QED
    BY <1>1, <2>1, NothingMeddled
<1>8. CASE Record \/ Interrupt
  BY <1>1, <1>8 DEF Record, Interrupt
<1>9. CASE CheckRefused \/ PermanentError
  <2>1. /\ pc' \in {"applyFailed", "failed"}
        /\ job'.reconciled = job.reconciled /\ UNCHANGED <<disturbed, meddled>>
    BY <1>0, <1>9 DEF CheckRefused, PermanentError, Partial, TypeOK, Job
  <2>2. QED
    BY <1>0, <2>1 DEF BelievesRight
<1>10. CASE UNCHANGED <<trust, attached, pc, job, disturbed, meddled>>
  BY <1>0, <1>10 DEF BelievesRight
<1>11. CASE Outside
  BY <1>0, <1>11, OutsideGives DEF BelievesRight, Halfway
<1>12. QED
  BY <1>2, <1>3, <1>4, <1>5, <1>6, <1>7, <1>8, <1>9, <1>10, <1>11
     DEF Next, Reconcile, Apply, Delete, EditSpec, RequestDeletion, vars, roleVars

LEMMA StatusStep == Inv /\ [Next]_vars => StatusReflectsReality'
<1> SUFFICES ASSUME Inv, [Next]_vars PROVE StatusReflectsReality'
  OBVIOUS
<1>0. TypeOK /\ Halfway /\ BelievesRight /\ StatusReflectsReality
  BY DEF Inv
<1> USE DEF ApplyCalls, DeleteCalls
<1>1. ASSUME pc' \notin {"applied", "applyFailed"} \/ ~job'.reconciled
      PROVE  StatusReflectsReality'
  BY <1>1 DEF StatusReflectsReality
<1>2. CASE RejectSpec \/ StartApply
  BY <1>1, <1>2, BeginGives DEF RejectSpec, StartApply
<1>3. CASE GetRole \/ CreateRole \/ UpdateTrust
  BY <1>0, <1>1, <1>3, TrustSteps DEF Halfway
<1>4. CASE ListAttached
  BY <1>0, <1>4, ListOne DEF Halfway, StatusReflectsReality
<1>5. CASE Detach \/ Attach
  BY <1>0, <1>5, ChangeOne DEF Halfway, BelievesRight, StatusReflectsReality
<1>6. CASE CheckApplied \/ StartDelete \/ RetryDelete \/ CheckDeleted
  BY <1>1, <1>6, BeginGives
     DEF CheckApplied, CheckWhen, StartDelete, RetryDelete, BeginDelete, CheckDeleted
<1>7. CASE GetForDelete \/ ListForDelete \/ DetachForDelete \/ DeleteRole
  <2>1. pc' \in DeleteCalls \cup {"deleteStarted", "failed"}
    BY <1>7 DEF GetForDelete, ListForDelete, BeginDetaching, DetachForDelete, DeleteRole,
                DeleteOr, GoTo
  <2>2. QED
    BY <1>1, <2>1
<1>8. CASE Record \/ Interrupt \/ CheckRefused
  BY <1>1, <1>8 DEF Record, Interrupt, CheckRefused
\* Only an error of a detach or an attach comes after the listing.
<1>9. CASE PermanentError
  <2>1. CASE pc \in {"Detach", "Attach"}
    <3>1. job'.status.attached = job.actual /\ UNCHANGED <<attached, meddled>>
      BY <1>0, <1>9, <2>1 DEF PermanentError, Partial, TypeOK, Job, Status, roleVars
    <3>2. QED
      BY <1>0, <2>1, <3>1 DEF BelievesRight, StatusReflectsReality
  <2>2. CASE pc \in ApplyCalls \ {"Detach", "Attach"}
    <3>1. ~job'.reconciled
      BY <1>0, <1>9, <2>2 DEF PermanentError, Halfway
    <3>2. QED
      BY <1>1, <3>1
  <2>3. CASE pc \in DeleteCalls
    BY <1>1, <1>9, <2>3 DEF PermanentError
  <2>4. QED
    BY <1>9, <2>1, <2>2, <2>3 DEF PermanentError
<1>10. CASE UNCHANGED <<attached, pc, job, meddled>>
  BY <1>0, <1>10 DEF StatusReflectsReality
<1>11. CASE Outside
  BY <1>0, <1>11, OutsideGives DEF StatusReflectsReality
<1>12. QED
  BY <1>2, <1>3, <1>4, <1>5, <1>6, <1>7, <1>8, <1>9, <1>10, <1>11
     DEF Next, Reconcile, Apply, Delete, EditSpec, RequestDeletion, vars, roleVars

LEMMA ReadyStep == Inv /\ [Next]_vars => ReadyMeansInPlace'
<1> SUFFICES ASSUME Inv, [Next]_vars PROVE ReadyMeansInPlace'
  OBVIOUS
<1>0. TypeOK /\ HandlerFits /\ Halfway /\ BelievesRight /\ ReadyMeansInPlace
  BY DEF Inv
<1>a. obj.observed \in Nat /\ obj.generation \in Nat /\ job.generation \in Nat
  BY <1>0, Generations
<1> USE DEF ApplyCalls, DeleteCalls
\* Nothing is settled while an apply runs or once a deletion was requested.
<1>1. ASSUME obj' = obj, pc \in ApplyCalls \/ obj.deleting \/ obj.observed # obj.generation
      PROVE  ReadyMeansInPlace'
  BY <1>0, <1>1, <1>a DEF ReadyMeansInPlace, Settled, HandlerFits
<1>2. ASSUME UNCHANGED <<obj, trust, attached, disturbed>> PROVE ReadyMeansInPlace'
  BY <1>0, <1>2 DEF ReadyMeansInPlace, Settled
<1>3. CASE RejectSpec \/ StartApply
  BY <1>1, <1>3, BeginGives DEF RejectSpec, StartApply, NeedsApply
<1>4. CASE GetRole \/ CreateRole \/ UpdateTrust
  BY <1>0, <1>1, <1>4, TrustSteps
<1>5. CASE ListAttached
  BY <1>1, <1>5, ListOne
<1>6. CASE Detach \/ Attach
  BY <1>1, <1>6, ChangeOne
<1>7. CASE CheckApplied
  BY <1>2, <1>7, BeginGives DEF CheckApplied, CheckWhen, roleVars
<1>8. CASE StartDelete \/ RetryDelete \/ CheckDeleted
  BY <1>1, <1>8, BeginGives
     DEF StartDelete, RetryDelete, BeginDelete, CheckDeleted, NeedsDelete, MayRetryDelete,
         NeedsDeleteCheck
<1>9. CASE GetForDelete \/ ListForDelete \/ DetachForDelete \/ DeleteRole
  <2>1. obj' = obj /\ pc \in DeleteCalls
    BY <1>9 DEF GetForDelete, ListForDelete, BeginDetaching, DetachForDelete, DeleteRole,
                DeleteOr, GoTo
  <2>2. QED
    BY <1>0, <1>1, <2>1 DEF HandlerFits
<1>10. CASE Record
  <2>1. CASE pc = "applied"
    <3>1. job.generation = obj.generation => job.spec = obj.spec
      BY <1>0, <2>1 DEF HandlerFits
    <3>2. ~disturbed => /\ trust = job.spec.trust
                        /\ attached = job.spec.policies
                        /\ job.status.attached = attached
      BY <1>0, <2>1 DEF BelievesRight, Halfway
    <3>3. job.status = [arn |-> TRUE, attached |-> job.status.attached]
      BY <1>0, <2>1 DEF HandlerFits, TypeOK, Job, Status
    <3>4. QED
      BY <1>0, <1>10, <2>1, <3>1, <3>2, <3>3, RecordGives DEF ReadyMeansInPlace, Settled
  <2>2. CASE pc = "ready"
    BY <1>0, <1>10, <2>2, RecordGives DEF ReadyMeansInPlace, Settled, HandlerFits
  <2>3. CASE pc \notin {"applied", "ready"}
    BY <1>0, <1>10, <2>3, RecordGives DEF ReadyMeansInPlace, Settled, Outcome
  <2>4. QED
    BY <2>1, <2>2, <2>3
<1>11. CASE Interrupt \/ CheckRefused \/ PermanentError
  BY <1>2, <1>11 DEF Interrupt, CheckRefused, PermanentError, roleVars
<1>12. CASE EditSpec \/ RequestDeletion
  BY <1>0, <1>12, <1>a, UserGives DEF ReadyMeansInPlace, Settled, HandlerFits
<1>13. CASE Outside
  BY <1>13 DEF Outside, ReadyMeansInPlace
<1>14. CASE UNCHANGED vars
  BY <1>2, <1>14 DEF vars
<1>15. QED
  BY <1>3, <1>4, <1>5, <1>6, <1>7, <1>8, <1>9, <1>10, <1>11, <1>12, <1>13, <1>14
     DEF Next, Reconcile, Apply, Delete

LEMMA UnimpededStep == Inv /\ [Next]_vars => Unimpeded'
<1> SUFFICES ASSUME Inv, [Next]_vars PROVE Unimpeded'
  OBVIOUS
<1>0. TypeOK /\ Unimpeded /\ ReadyMeansInPlace
  BY DEF Inv
<1>a. job \in Job /\ faults \in Nat
  BY <1>0, RoleBoundsAssumption DEF TypeOK
<1>1. ASSUME pc' \notin {"ListForDelete", "DetachForDelete", "DeleteRole", "failed"}
      PROVE  Unimpeded'
  BY <1>1 DEF Unimpeded
<1>2. CASE RejectSpec \/ StartApply \/ StartDelete \/ RetryDelete \/ CheckDeleted
  BY <1>1, <1>2, BeginGives
     DEF RejectSpec, StartApply, StartDelete, RetryDelete, BeginDelete, CheckDeleted
<1>3. CASE GetRole \/ CreateRole \/ UpdateTrust
  <2>1. pc' \in {"CreateRole", "UpdateTrust", "ListAttached", "applyFailed"}
    BY <1>0, <1>3, TrustSteps
  <2>2. QED
    BY <1>1, <2>1
<1>4. CASE ListAttached
  BY <1>1, <1>4, ListOne
<1>5. CASE Detach \/ Attach
  BY <1>1, <1>5, ChangeOne
\* What was applied is still there to be found.
<1>6. CASE CheckApplied
  <2>1. CASE exists
    BY <1>1, <1>6, <2>1, BeginGives DEF CheckApplied, CheckWhen
  <2>2. CASE ~exists
    <3>1. obj.spec.trust # NoTrust
      BY <1>0, RoleDataAssumption DEF TypeOK, Component, RoleSpec
    <3>2. Settled /\ disturbed' = disturbed
      BY <1>6 DEF CheckApplied, CheckWhen, NeedsApplyCheck, Settled
    <3>3. disturbed
      BY <1>0, <2>2, <3>1, <3>2 DEF ReadyMeansInPlace, exists
    <3>4. QED
      BY <3>2, <3>3 DEF Unimpeded
  <2>3. QED
    BY <2>1, <2>2
<1>7. CASE GetForDelete
  BY <1>7 DEF GetForDelete, GoTo, Unimpeded, roleVars, exists
<1>8. CASE ListForDelete
  <2>1. pc = "ListForDelete" /\ UNCHANGED <<trust, attached, disturbed>>
    BY <1>8 DEF ListForDelete, BeginDetaching, roleVars
  <2>2. CASE exists
    BY <1>a, <1>8, <2>1, <2>2 DEF ListForDelete, BeginDetaching, GoTo, Unimpeded, Job
  <2>3. CASE ~exists
    BY <1>0, <2>1, <2>3 DEF Unimpeded
  <2>4. QED
    BY <2>2, <2>3
<1>9. CASE DetachForDelete
  <2>1. pc = "DetachForDelete" /\ UNCHANGED <<trust, disturbed>>
    BY <1>9 DEF DetachForDelete
  <2>2. CASE disturbed
    BY <2>1, <2>2 DEF Unimpeded
  <2>3. CASE ~disturbed
    <3>1. job.listed = attached
      BY <1>0, <2>1, <2>3 DEF Unimpeded
    <3>2. PICK p \in attached :
            /\ attached' = attached \ {p}
            /\ GoTo(IF attached = {p} THEN "DeleteRole" ELSE "DetachForDelete",
                    [job EXCEPT !.listed = @ \ {p}])
      BY <1>9, <3>1 DEF DetachForDelete
    <3>3. job'.listed = attached \ {p}
      BY <1>a, <3>1, <3>2 DEF GoTo, Job
    <3>4. QED
      BY <3>2, <3>3 DEF GoTo, Unimpeded
  <2>4. QED
    BY <2>2, <2>3
<1>10. CASE DeleteRole
  <2>1. pc = "DeleteRole" /\ UNCHANGED <<attached, disturbed>>
    BY <1>10 DEF DeleteRole, DeleteOr
  <2>2. CASE attached = {}
    BY <1>1, <1>10, <2>2 DEF DeleteRole, DeleteOr, GoTo
  <2>3. CASE attached # {}
    BY <1>0, <2>1, <2>3 DEF Unimpeded
  <2>4. QED
    BY <2>2, <2>3
<1>11. CASE Record \/ Interrupt
  BY <1>1, <1>11 DEF Record, Interrupt
<1>12. CASE PermanentError \/ CheckRefused
  <2>1. faults' > 0 /\ pc' \in {"applyFailed", "failed"}
    BY <1>a, <1>12 DEF PermanentError, CheckRefused
  <2>2. QED
    BY <2>1 DEF Unimpeded
<1>13. CASE EditSpec \/ RequestDeletion \/ UNCHANGED vars
  BY <1>0, <1>13 DEF EditSpec, RequestDeletion, vars, roleVars, Unimpeded, exists
<1>14. CASE Outside
  BY <1>14 DEF Outside, Unimpeded
<1>15. QED
  BY <1>2, <1>3, <1>4, <1>5, <1>6, <1>7, <1>8, <1>9, <1>10, <1>11, <1>12, <1>13, <1>14
     DEF Next, Reconcile, Apply, Delete

LEMMA InitInv == Init => Inv
<1> SUFFICES ASSUME Init PROVE Inv
  OBVIOUS
<1>1. TypeOK
  BY InitType
<1>2. /\ pc = "idle" /\ obj.phase = "Pending" /\ obj.observed = 0 /\ obj.generation = 1
  BY DEF Init, NewComponent
<1>3. /\ HandlerFits /\ Halfway /\ BelievesRight /\ Unimpeded
      /\ StatusReflectsReality /\ ReadyMeansInPlace
  BY <1>2 DEF Init, NoJob, HandlerFits, Halfway, BelievesRight, Unimpeded,
              StatusReflectsReality, ReadyMeansInPlace, Settled, ApplyCalls, DeleteCalls
<1>4. GoneStaysGone
  BY <1>2, RoleDataAssumption DEF Init, GoneStaysGone, exists
<1>5. QED
  BY <1>1, <1>3, <1>4 DEF Inv

LEMMA NextInv == Inv /\ [Next]_vars => Inv'
BY NextType, FitsStep, GoneStep, HalfwayStep, BelievesStep, UnimpededStep, StatusStep,
   ReadyStep DEF Inv

\* Nor does an attach break it that AWS refuses because there is no such policy.
LEMMA RefusedAttach ==
  ASSUME Inv, pc = "Attach", GoTo("applyFailed", Partial(job)),
         UNCHANGED <<trust, attached, disturbed>>
  PROVE  Inv'
<1>0. TypeOK /\ HandlerFits /\ GoneStaysGone /\ Halfway /\ BelievesRight /\ ReadyMeansInPlace
  BY DEF Inv
<1>1. /\ pc' = "applyFailed" /\ job' = Partial(job) /\ job \in Job
      /\ UNCHANGED <<obj, meddled, faults, outside>>
  BY <1>0 DEF GoTo, TypeOK
<1>2. /\ job'.spec = job.spec /\ job'.generation = job.generation
      /\ job'.reconciled = job.reconciled /\ job'.status.attached = job.actual
  BY <1>1 DEF Partial, Job, Status
<1>3. TypeOK'
  BY <1>0, <1>1, LocalsType DEF TypeOK, Outcome
<1>4. HandlerFits'
  BY <1>0, <1>1, <1>2 DEF HandlerFits, ApplyCalls, DeleteCalls
<1>5. GoneStaysGone' /\ Halfway' /\ Unimpeded'
  BY <1>0, <1>1 DEF GoneStaysGone, Halfway, Unimpeded, ApplyCalls, exists
<1>6. BelievesRight' /\ StatusReflectsReality'
  BY <1>0, <1>1, <1>2 DEF BelievesRight, StatusReflectsReality
<1>7. ReadyMeansInPlace'
  BY <1>0, <1>1 DEF ReadyMeansInPlace, Settled
<1>8. QED
  BY <1>3, <1>4, <1>5, <1>6, <1>7 DEF Inv

\* Inv is an inductive invariant of the provider.
THEOREM Invariance == Spec => []Inv
<1>1. QED
  BY InitInv, NextInv, PTL DEF Spec

\* Every variable keeps to its type, for every set of trust policies and policies
\* and all bounds.
THEOREM TypeCorrect == Spec => []TypeOK
<1>1. Inv => TypeOK
  BY DEF Inv
<1>2. QED
  BY <1>1, Invariance, PTL

\* A Component whose apply succeeded has the trust policy and exactly the
\* attachments of its spec, and lists them in its status, as long as nobody else
\* changes the role.
THEOREM ReadyIsInPlace == Spec => []ReadyMeansInPlace
<1>1. Inv => ReadyMeansInPlace
  BY DEF Inv
<1>2. QED
  BY <1>1, Invariance, PTL

\* What reconcilePolicyAttachments reports, however far it got and whatever others
\* did, is what is attached but for the policies that others meddled with.
THEOREM StatusIsReal == Spec => []StatusReflectsReality
<1>1. Inv => StatusReflectsReality
  BY DEF Inv
<1>2. QED
  BY <1>1, Invariance, PTL

\* A deletion that reported success has left no role behind.
THEOREM GoneIsGone == Spec => []NoRoleLeftBehind
<1>1. Inv => NoRoleLeftBehind
  BY DEF Inv, GoneStaysGone, NoRoleLeftBehind
<1>2. QED
  BY <1>1, Invariance, PTL

-----------------------------------------------------------------------------
(* The provider implements RolePromise. *)

LEMMA PromiseInit == Init => Promise!Init
<1> SUFFICES ASSUME Init PROVE Promise!Init
  OBVIOUS
<1>1. obj.spec \in RoleSpec /\ ~obj.deleting
  BY DEF Init, NewComponent
<1>2. trust # NoTrust \/ attached = {}
  BY InitInv DEF Inv, GoneStaysGone, exists
<1>3. QED
  BY <1>1, <1>2 DEF Init, Promise!Init, Promise!exists, ApplyCalls

LEMMA PromiseNext ==
  ASSUME Inv, [Next]_vars
  PROVE  [Promise!Next]_(Promise!vars)
<1>0. TypeOK /\ HandlerFits /\ GoneStaysGone /\ Halfway /\ BelievesRight
  BY DEF Inv
<1>a. obj \in Component(RoleSpec, Status, 1 .. MaxGeneration) /\ obj.deleting \in BOOLEAN
  BY <1>0 DEF TypeOK, Component
<1>b. pc \in ApplyCalls => job.spec \in RoleSpec /\ job.spec # NoTrust
  BY <1>0, RoleDataAssumption DEF HandlerFits
<1> USE DEF Promise!vars, Promise!Next, ApplyCalls, DeleteCalls, roleVars
<1>1. CASE RejectSpec
  BY <1>1, BeginGives DEF RejectSpec, Begin, GoTo
<1>2. CASE StartApply
  BY <1>2, <1>a, BeginGives DEF StartApply, NeedsApply, Begin, GoTo, Component, Promise!Claim
<1>3. CASE GetRole \/ CreateRole \/ UpdateTrust
  <2>1. outside' = outside
    BY <1>3 DEF GetRole, CreateRole, CreateWithTrust, UpdateTrust, UpdateTrustTo, GoTo
  <2>2. QED
    BY <1>0, <1>3, <1>b, <2>1, TrustSteps
       DEF Promise!Trust, Promise!EndClaim, Promise!Serves, GoneStaysGone
<1>4. CASE ListAttached
  <2>1. outside' = outside
    <3>1. CASE exists
      BY <1>0, <1>4, <3>1, LocalsType, OnwardGoes DEF ListAttached
    <3>2. CASE ~exists
      BY <1>4, <3>2 DEF ListAttached, GoTo
    <3>3. QED
      BY <3>1, <3>2
  <2>2. QED
    BY <1>4, <1>b, <2>1, ListOne DEF Promise!EndClaim
<1>5. CASE Detach
  <2>1. /\ pc = "Detach" /\ obj' = obj /\ trust' = trust /\ disturbed' = disturbed
        /\ job'.spec = job.spec
        /\ pc' \in {"Detach", "Attach", "applied", "applyFailed"}
    BY <1>5, ChangeOne DEF Detach
  <2>2. PICK p \in (job.listed \ job.spec.policies) \cap job.actual :
           \/ /\ p \in attached /\ attached' = attached \ {p}
              /\ Onward([job EXCEPT !.actual = @ \ {p}])
           \/ /\ p \notin attached /\ attached' = attached
              /\ GoTo("applyFailed", Partial(job))
    BY <1>5, DetachOne
  <2>3. outside' = outside
    BY <1>0, <2>2, LocalsType, OnwardGoes DEF GoTo
  <2>4. QED
    BY <1>b, <2>1, <2>2, <2>3 DEF Promise!Revoke, Promise!EndClaim, Promise!Serves
<1>6. CASE Attach
  <2>1. /\ pc = "Attach" /\ obj' = obj /\ trust' = trust /\ disturbed' = disturbed
        /\ job'.spec = job.spec
        /\ pc' \in {"Detach", "Attach", "applied", "applyFailed"}
    BY <1>6, ChangeOne DEF Attach
  <2>2. PICK p \in (job.spec.policies \ job.listed) \ job.actual :
           \/ /\ exists /\ attached' = attached \cup {p}
              /\ Onward([job EXCEPT !.actual = @ \cup {p}])
           \/ /\ ~exists /\ attached' = attached
              /\ GoTo("applyFailed", Partial(job))
    BY <1>6, AttachOne
  <2>3. outside' = outside
    BY <2>1, <2>2, AfterAttach, OnwardGoes DEF GoTo
  <2>4. disturbed \/ attached \subseteq job.spec.policies
    BY <1>0, <2>1 DEF BelievesRight, Halfway, ToDetach
  <2>5. CASE p \in attached
    BY <1>b, <2>1, <2>2, <2>3, <2>5 DEF Promise!EndClaim
  <2>6. CASE p \notin attached
    BY <1>b, <2>1, <2>2, <2>3, <2>4, <2>6 DEF Promise!Grant, Promise!EndClaim, Promise!Serves
  <2>7. QED
    BY <2>5, <2>6
<1>7. CASE CheckApplied \/ CheckDeleted
  BY <1>7 DEF CheckApplied, CheckWhen, CheckDeleted, Begin, GoTo
<1>8. CASE StartDelete \/ RetryDelete
  BY <1>8 DEF StartDelete, RetryDelete, BeginDelete, NeedsDelete, MayRetryDelete, Begin, GoTo,
              Promise!BeginRelease
<1>9. CASE GetForDelete \/ ListForDelete
  BY <1>9 DEF GetForDelete, ListForDelete, BeginDetaching, GoTo
<1>10. CASE DetachForDelete
  BY <1>0, <1>10 DEF DetachForDelete, GoTo, HandlerFits, Promise!RevokeAll
<1>11. CASE DeleteRole
  BY <1>0, <1>11 DEF DeleteRole, DeleteOr, GoTo, HandlerFits, Promise!Withdraw
<1>12. CASE Record
  BY <1>0, <1>12, RecordGives DEF Record, Outcome
<1>13. CASE Interrupt \/ PermanentError \/ CheckRefused
  BY <1>13, <1>b DEF Interrupt, PermanentError, CheckRefused, Partial, Promise!EndClaim
<1>14. CASE EditSpec
  <2>1. PICK s \in RoleSpec : obj' = Edited(obj, s)
    BY <1>14 DEF EditSpec
  <2>2. obj'.spec = s /\ obj'.deleting = obj.deleting
    BY <1>a, <2>1 DEF Edited, Component
  <2>3. QED
    BY <1>14, <2>2 DEF EditSpec, Promise!Want
<1>15. CASE RequestDeletion
  BY <1>a, <1>15 DEF RequestDeletion, DeletionRequested, Component, Promise!Release
<1>16. CASE Outside
  BY <1>16 DEF Outside, Promise!Interfere
<1>17. CASE UNCHANGED vars
  BY <1>17 DEF vars
<1>18. QED
  BY <1>1, <1>2, <1>3, <1>4, <1>5, <1>6, <1>7, <1>8, <1>9, <1>10, <1>11, <1>12, <1>13, <1>14,
     <1>15, <1>16, <1>17 DEF Next, Reconcile, Apply, Delete

\* A refused attach ends the apply.
LEMMA RefusedAttachEnds ==
  ASSUME Inv, pc = "Attach", GoTo("applyFailed", Partial(job)),
         UNCHANGED <<trust, attached, disturbed>>
  PROVE  Promise!EndClaim
<1>1. job.spec # NoTrust
  BY RoleDataAssumption DEF Inv, HandlerFits, ApplyCalls
<1>2. QED
  BY <1>1 DEF GoTo, ApplyCalls, Promise!EndClaim

\* Whatever interrupts or disturbs it, the provider changes trust and rights only
\* as RolePromise says.
THEOREM KeepsItsPromise == Spec => KeepsPromise
<1>1. Inv /\ [Next]_vars => [Promise!Next]_(Promise!vars)
  BY PromiseNext
<1>2. QED
  BY <1>1, PromiseInit, Invariance, PTL DEF Spec, KeepsPromise, Promise!Spec

=============================================================================
