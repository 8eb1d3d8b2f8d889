----------------------------- MODULE RdsProofs ------------------------------
(* Theorems about Rds, for every set of configurations and all bounds. *)
EXTENDS Rds, TLAPS

-----------------------------------------------------------------------------
(* Type correctness. *)

\* Field by field, what the type invariant says of the Component and the handler.
LEMMA Fields ==
  ASSUME TypeOK
  PROVE  /\ obj.phase \in Phase /\ obj.spec \in Specs /\ obj.deleting \in BOOLEAN
         /\ obj.generation \in 1 .. MaxGeneration /\ obj.observed \in 0 .. MaxGeneration
         /\ obj.status \in Status /\ obj.status.secretArn \in Creation
         /\ obj.status.endpoint \in BOOLEAN
         /\ job.spec \in Specs /\ job.generation \in 0 .. MaxGeneration
         /\ job.status \in Status /\ job.status.secretArn \in Creation
         /\ job.status.endpoint \in BOOLEAN
<1>1. obj \in Component(Specs, Status, 1 .. MaxGeneration) /\ job \in Job
  BY DEF TypeOK
<1>2. obj.observed \in (1 .. MaxGeneration) \cup {0} /\ MaxGeneration \in Nat
  BY <1>1, RdsAssumption DEF Component
<1>3. obj.observed \in 0 .. MaxGeneration
  BY <1>2
<1>4. QED
  BY <1>1, <1>3 DEF Component, Job, Status

LEMMA ConfigType ==
  ASSUME NEW s \in Specs
  PROVE  s.class \in Classes /\ Protection(s) \in BOOLEAN
BY RdsAssumption DEF RdsConfig, Protection

\* A handler that is called takes over the Component as it was persisted.
LEMMA CalledGives ==
  ASSUME TypeOK
  PROVE  /\ Called \in Job
         /\ Called.spec = obj.spec /\ Called.generation = obj.generation
         /\ Called.status = obj.status
BY Fields, RdsAssumption DEF Called, Job

\* updateStatusFromInstance touches the two fields of the status only, and keeps
\* the ARN when the response has none.
LEMMA UpdatedGives ==
  ASSUME TypeOK, NEW j \in Job
  PROVE  /\ Updated(j) \in Job
         /\ Updated(j).spec = j.spec /\ Updated(j).generation = j.generation
         /\ Updated(j).status.endpoint = endpoint
         /\ secret # 0 => Updated(j).status.secretArn = secret
         /\ secret = 0 => Updated(j).status.secretArn = j.status.secretArn
<1>1. secret \in Creation /\ endpoint \in BOOLEAN
  BY DEF TypeOK
<1>2. QED
  BY <1>1 DEF Updated, Job, Status

Calls == {"idle", "DeleteInstance"} \cup ApplyCalls \cup Outcome

\* A step of a handler that leaves the instance alone is well typed when its
\* local variables are.
LEMMA GoToType ==
  ASSUME TypeOK, NEW call \in Calls, NEW j \in Job, GoTo(call, j),
         UNCHANGED awsVars, disturbed' \in BOOLEAN
  PROVE  TypeOK'
BY DEF TypeOK, GoTo, Calls, awsVars

LEMMA InitType == Init => TypeOK
<1> SUFFICES ASSUME Init PROVE TypeOK
  OBVIOUS
<1> USE RdsAssumption
<1>1. 0 \in Creation /\ 1 \in Creation
  BY DEF Creation
<1>2. NoStatus \in Status
  BY <1>1 DEF NoStatus, Status
<1>3. /\ status \in InstanceStatus \cup {"none"}
      /\ class \in Classes /\ target \in Classes
      /\ secret \in Creation /\ creations \in Creation
  BY <1>1 DEF Init, NoInstance, InstanceStatus, Usable
<1>4. protected \in BOOLEAN /\ endpoint \in BOOLEAN /\ doomed \in BOOLEAN
  BY DEF Init, NoInstance
<1>5. obj \in Component(Specs, Status, 1 .. MaxGeneration) /\ job \in Job
  <2>1. PICK s \in Specs : /\ obj = NewComponent(s, NoStatus)
                           /\ job = [spec |-> s, generation |-> 0, status |-> NoStatus]
    BY DEF Init
  <2>2. 1 \in 1 .. MaxGeneration /\ 0 \in 0 .. MaxGeneration
    OBVIOUS
  <2>3. QED
    BY <1>2, <2>1, <2>2 DEF NewComponent, Component, Phase, Job
<1>6. /\ pc = "idle" /\ health = ""
      /\ faults \in 0 .. MaxFaults /\ events \in 0 .. MaxEvents
  <2>1. pc = "idle" /\ health = "" /\ faults = 0 /\ events = 0
    BY Zenon DEF Init
  <2>2. 0 \in 0 .. MaxFaults /\ 0 \in 0 .. MaxEvents
    OBVIOUS
  <2>3. QED
    BY <2>1, <2>2, Zenon
<1>7. disturbed \in BOOLEAN
  BY Zenon DEF Init
<1>8. QED
  BY <1>3, <1>4, <1>5, <1>6, <1>7 DEF TypeOK

\* What the reconciler records, by what the handler returned.
LEMMA RecordGives ==
  ASSUME TypeOK, Record
  PROVE  /\ obj' \in Component(Specs, Status, 1 .. MaxGeneration)
         /\ pc' = "idle" /\ job' = job
         /\ obj'.spec = obj.spec /\ obj'.generation = obj.generation
         /\ obj'.deleting = obj.deleting /\ obj'.status = job.status
         /\ obj'.observed = IF pc \in {"applied", "applyFailed"}
                              THEN job.generation ELSE obj.observed
         /\ obj'.phase = CASE pc = "applied"                   -> "Deploying"
                           [] pc \in {"applyFailed", "failed"} -> "Failed"
                           [] pc = "ready"                     -> "Ready"
                           [] pc = "waiting"                   -> obj.phase
                           [] pc = "deleteStarted"             -> "Terminating"
                           [] pc = "gone"                      -> "Gone"
<1>1. /\ obj \in Component(Specs, Status, 1 .. MaxGeneration)
      /\ job.status \in Status /\ job.generation \in (1 .. MaxGeneration) \cup {0}
  <2>1. job.generation \in 0 .. MaxGeneration /\ MaxGeneration \in Nat
    BY Fields, RdsAssumption
  <2>2. obj \in Component(Specs, Status, 1 .. MaxGeneration)
    BY DEF TypeOK
  <2>3. QED
    BY <2>1, <2>2, Fields
<1>2. pc' = "idle" /\ job' = job /\ obj' = Recorded
  BY DEF Record
<1>3. CASE pc \in {"applied", "applyFailed"}
  BY <1>1, <1>2, <1>3 DEF Recorded, Applied, ApplyFailed, Component, Phase
<1>4. CASE pc \in {"ready", "failed", "waiting"}
  BY <1>1, <1>2, <1>4 DEF Recorded, CheckedReady, Failed, Component, Phase
<1>5. CASE pc \in {"deleteStarted", "gone"}
  BY <1>1, <1>2, <1>5 DEF Recorded, DeleteStarted, CheckedGone, Component, Phase
<1>6. QED
  BY <1>2, <1>3, <1>4, <1>5 DEF Record, Outcome

\* What the user does to the Component.
LEMMA UserGives ==
  ASSUME TypeOK, EditSpec \/ RequestDeletion
  PROVE  /\ obj' \in Component(Specs, Status, 1 .. MaxGeneration)
         /\ obj'.phase = obj.phase /\ obj'.observed = obj.observed
         /\ obj'.status = obj.status
         /\ EditSpec => /\ obj'.generation = obj.generation + 1
                        /\ obj'.deleting = obj.deleting
         /\ RequestDeletion => /\ obj'.generation = obj.generation
                               /\ obj'.spec = obj.spec
                               /\ obj'.deleting
         /\ obj'.generation \in Nat /\ obj'.generation >= obj.generation
         /\ UNCHANGED <<awsVars, pc, job, health, modelVars>>
<1>1. obj \in Component(Specs, Status, 1 .. MaxGeneration)
  BY DEF TypeOK
<1>2. CASE EditSpec
  <2>1. PICK s \in Specs : obj' = Edited(obj, s)
    BY <1>2 DEF EditSpec
  <2>2. obj.generation + 1 \in 1 .. MaxGeneration /\ obj.generation \in Nat
    BY <1>1, <1>2, RdsAssumption DEF EditSpec, Component
  <2>3. /\ obj' \in Component(Specs, Status, 1 .. MaxGeneration)
        /\ obj'.phase = obj.phase /\ obj'.observed = obj.observed
        /\ obj'.status = obj.status /\ obj'.generation = obj.generation + 1
        /\ obj'.deleting = obj.deleting
    BY <1>1, <2>1, <2>2 DEF Edited, Component
  <2>4. ~RequestDeletion
    BY <2>2, <2>3, <1>1 DEF RequestDeletion, DeletionRequested, Component
  <2>5. QED
    BY <1>2, <2>2, <2>3, <2>4 DEF EditSpec
<1>3. CASE RequestDeletion
  <2>1. obj' = DeletionRequested(obj)
    BY <1>3 DEF RequestDeletion
  <2>2. /\ obj' \in Component(Specs, Status, 1 .. MaxGeneration)
        /\ obj'.phase = obj.phase /\ obj'.observed = obj.observed
        /\ obj'.status = obj.status /\ obj'.generation = obj.generation
        /\ obj'.spec = obj.spec /\ obj'.deleting
    BY <1>1, <2>1 DEF DeletionRequested, Component
  <2>3. obj.generation \in Nat /\ obj'.generation # obj.generation + 1
    BY <1>1, <2>2 DEF Component
  <2>4. ~EditSpec
    BY <2>3, <1>1 DEF EditSpec, Edited, Component
  <2>5. obj'.generation >= obj.generation
    BY <2>2, <2>3
  <2>6. QED
    BY <1>3, <2>2, <2>3, <2>4, <2>5 DEF RequestDeletion
<1>4. QED
  BY <1>2, <1>3

\* There are secrets enough: the creation that is due does not exceed Creation.
LEMMA RoomToCreate ==
  ASSUME TypeOK, HandlerFits, CreationsAreCounted, pc = "CreateInstance"
  PROVE  creations + 1 \in Creation /\ creations \in Nat
<1>1. /\ creations \in Nat /\ faults \in 0 .. MaxFaults
      /\ obj.observed \in Nat /\ job.generation \in 0 .. MaxGeneration
  <2>1. creations \in Creation /\ faults \in 0 .. MaxFaults
    BY DEF TypeOK
  <2>2. obj.observed \in 0 .. MaxGeneration /\ job.generation \in 0 .. MaxGeneration
    BY Fields
  <2>3. QED
    BY <2>1, <2>2, RdsAssumption DEF Creation
<1>2. obj.observed < job.generation /\ creations <= 1 + obj.observed + faults
  BY <1>1 DEF HandlerFits, ApplyCalls, CreationsAreCounted
<1>3. QED
  BY <1>1, <1>2, RdsAssumption DEF Creation

LEMMA NextType == TypeOK /\ HandlerFits /\ CreationsAreCounted /\ [Next]_vars => TypeOK'
<1> SUFFICES ASSUME TypeOK, HandlerFits, CreationsAreCounted, [Next]_vars
             PROVE  TypeOK'
  OBVIOUS
<1> USE DEF Calls
<1>1. /\ Called \in Job /\ Updated(Called) \in Job
      /\ job \in Job /\ Updated(job) \in Job
      /\ job.spec \in Specs
  BY CalledGives, UpdatedGives, Fields DEF TypeOK
<1>2. disturbed \in BOOLEAN
  BY DEF TypeOK
<1>3. CASE RejectSpec \/ StartApply \/ DescribeInstance
  BY <1>1, <1>2, <1>3, GoToType
     DEF RejectSpec, StartApply, DescribeInstance, ApplyCalls, Outcome
<1>4. CASE CreateInstance
  <2>1. creations + 1 \in Creation
    BY <1>4, RoomToCreate DEF CreateInstance
  <2>2. job.spec.class \in Classes /\ Protection(job.spec) \in BOOLEAN
    BY <1>1, ConfigType
  <2>3. [job EXCEPT !.status = [secretArn |-> creations + 1, endpoint |-> FALSE]] \in Job
    BY <1>1, <2>1 DEF Job, Status
  <2>4. CASE exists
    BY <1>1, <1>2, <1>4, <2>4, GoToType DEF CreateInstance, Outcome
  <2>5. CASE ~exists
    BY <1>4, <2>1, <2>2, <2>3, <2>5
       DEF CreateInstance, GoTo, TypeOK, Outcome, InstanceStatus, Changing
  <2>6. QED
    BY <2>4, <2>5
<1>5. CASE ModifyInstance
  <2>1. job.spec.class \in Classes /\ Protection(job.spec) \in BOOLEAN
    BY <1>1, ConfigType
  <2>2. /\ pc' \in Calls /\ job' \in Job /\ target' \in Classes /\ protected' \in BOOLEAN
        /\ UNCHANGED <<status, class, secret, endpoint, creations, doomed, disturbed,
                       obj, health, faults, events>>
    BY <1>1, <1>5, <2>1 DEF ModifyInstance, ModifyTo, GoTo, Outcome, TypeOK
  <2>3. QED
    BY <2>2 DEF TypeOK
<1>6. CASE CheckApplied \/ CheckDeleted
  <2>1. DeploymentOf(status) \in Outcome /\ DeletionOf(status) \in Outcome
    BY DEF DeploymentOf, DeletionOf, Outcome
  <2>2. QED
    BY <1>1, <1>2, <1>6, <2>1, GoToType DEF CheckApplied, CheckDeleted
<1>7. CASE CheckHealth
  BY <1>7 DEF CheckHealth, HealthOf, TypeOK, awsVars, modelVars
<1>8. CASE StartDelete \/ RetryDelete
  BY <1>1, <1>2, <1>8, GoToType DEF StartDelete, RetryDelete, BeginDelete
<1>9. CASE DeleteInstance
  <2>1. /\ pc' \in Calls /\ job' \in Job /\ status' \in InstanceStatus \cup {"none"}
        /\ doomed' \in BOOLEAN
        /\ UNCHANGED <<class, target, protected, secret, endpoint, creations, disturbed,
                       obj, health, faults, events>>
    BY <1>1, <1>9 DEF DeleteInstance, DeleteOr, GoTo, Outcome, TypeOK, InstanceStatus
  <2>2. QED
    BY <2>1 DEF TypeOK
<1>10. CASE Record
  <2>1. obj' \in Component(Specs, Status, 1 .. MaxGeneration) /\ pc' = "idle"
    BY <1>10, RecordGives
  <2>2. QED
    BY <1>10, <2>1 DEF Record, TypeOK, awsVars, modelVars
<1>11. CASE Interrupt \/ PermanentError \/ CheckRefused \/ HealthRefused
  <2>1. faults \in 0 .. MaxFaults /\ MaxFaults \in Nat /\ pc \in Calls
    BY RdsAssumption DEF TypeOK
  <2>2. faults < MaxFaults /\ faults' = faults + 1
    BY <1>11 DEF Interrupt, PermanentError, CheckRefused, HealthRefused
  <2>3. faults' \in 0 .. MaxFaults
    BY <2>1, <2>2
  <2>4. /\ pc' \in Calls /\ job' \in Job
        /\ health' = health \/ health' = "APIError"
        /\ UNCHANGED <<awsVars, obj, disturbed, events>>
    BY <1>1, <1>11, <2>1
       DEF Interrupt, PermanentError, CheckRefused, HealthRefused, Outcome
  <2>5. QED
    BY <2>3, <2>4 DEF TypeOK, awsVars
<1>12. CASE EditSpec \/ RequestDeletion
  BY <1>12, UserGives DEF TypeOK, awsVars, modelVars
<1>13. CASE ModificationStarts \/ AwsCompletes \/ AwsEvent \/ Restored \/ DeletedByOthers
  <2>1. status' \in InstanceStatus \cup {"none"}
    <3>1. CASE ModificationStarts \/ Restored \/ DeletedByOthers
      BY <3>1 DEF ModificationStarts, Restored, DeletedByOthers,
                  InstanceStatus, Changing, Transitional
    <3>2. CASE AwsCompletes
      BY <3>2 DEF AwsCompletes, InstanceStatus, Usable, Broken, Down
    <3>3. CASE AwsEvent
      BY <3>3 DEF AwsEvent, InstanceStatus
    <3>4. QED
      BY <1>13, <3>1, <3>2, <3>3
  <2>2. class' \in Classes /\ target' = target /\ creations' = creations
    BY <1>13 DEF ModificationStarts, AwsCompletes, AwsEvent, Restored, DeletedByOthers, TypeOK
  <2>3. /\ secret' \in Creation
        /\ protected' \in BOOLEAN /\ endpoint' \in BOOLEAN /\ doomed' \in BOOLEAN
    <3>1. secret' = secret \/ secret' = 0
      BY <1>13
         DEF ModificationStarts, AwsCompletes, AwsEvent, Restored, DeletedByOthers
    <3>2. secret \in Creation
      BY DEF TypeOK
    <3>3. protected \in BOOLEAN /\ endpoint \in BOOLEAN /\ doomed \in BOOLEAN
      BY DEF TypeOK
    <3>4. protected' \in BOOLEAN /\ endpoint' \in BOOLEAN /\ doomed' \in BOOLEAN
      BY <1>13, <3>3, Zenon
         DEF ModificationStarts, AwsCompletes, AwsEvent, Restored, DeletedByOthers
    <3>5. 0 \in Creation
      BY RdsAssumption DEF Creation
    <3>6. QED
      BY <3>1, <3>2, <3>4, <3>5
  <2>4. disturbed' \in BOOLEAN /\ events' \in 0 .. MaxEvents
    <3>1. disturbed' \in BOOLEAN
      BY <1>2, <1>13, Zenon
         DEF ModificationStarts, AwsCompletes, AwsEvent, Restored, DeletedByOthers
    <3>2. events \in 0 .. MaxEvents /\ MaxEvents \in Nat
      BY RdsAssumption DEF TypeOK
    <3>3. events' = events \/ (events < MaxEvents /\ events' = events + 1)
      BY <1>13
         DEF ModificationStarts, AwsCompletes, AwsEvent, Restored, DeletedByOthers
    <3>4. QED
      BY <3>1, <3>2, <3>3
  <2>5. UNCHANGED <<obj, pc, job, health, faults>>
    BY <1>13 DEF ModificationStarts, AwsCompletes, AwsEvent, Restored, DeletedByOthers, AwsOnly
  <2>6. QED
    BY <2>1, <2>2, <2>3, <2>4, <2>5 DEF TypeOK
<1>14. CASE UNCHANGED vars
  BY <1>14 DEF vars, awsVars, modelVars, TypeOK
<1>15. QED
  BY <1>3, <1>4, <1>5, <1>6, <1>7, <1>8, <1>9, <1>10, <1>11, <1>12, <1>13, <1>14
     DEF Next, Reconcile, Apply, Delete, Aws

-----------------------------------------------------------------------------
(* Each conjunct of the inductive invariant is kept by every step. *)

\* Called and Record change a handler's local variables and nothing else does so
\* but its calls; what is left to others leaves the handler alone.
LEMMA HandlerAlone ==
  ASSUME CheckHealth \/ HealthRefused \/ ModificationStarts \/ AwsCompletes
           \/ AwsEvent \/ Restored \/ DeletedByOthers \/ UNCHANGED vars
  PROVE  obj' = obj /\ pc' = pc /\ job' = job /\ creations' = creations
BY DEF CheckHealth, HealthRefused, ModificationStarts, AwsCompletes, AwsEvent, Restored,
       DeletedByOthers, AwsOnly, vars, awsVars

LEMMA FitsStep ==
  ASSUME TypeOK, HandlerFits, [Next]_vars
  PROVE  HandlerFits'
<1>1. /\ obj.observed \in Nat /\ obj.generation \in Nat /\ job.generation \in Nat
      /\ obj.phase \in Phase /\ obj.deleting \in BOOLEAN
  BY Fields
<1>2. /\ Called.spec = obj.spec /\ Called.generation = obj.generation
      /\ Updated(Called).spec = obj.spec /\ Updated(Called).generation = obj.generation
      /\ Updated(job).spec = job.spec /\ Updated(job).generation = job.generation
  <2>1. job \in Job /\ Called \in Job
    BY CalledGives DEF TypeOK
  <2>2. QED
    BY <2>1, CalledGives, UpdatedGives
<1>3. CASE RejectSpec \/ StartApply
  BY <1>1, <1>2, <1>3
     DEF RejectSpec, StartApply, GoTo, NeedsApply, HandlerFits, ApplyCalls
<1>4. CASE DescribeInstance
  BY <1>1, <1>4 DEF DescribeInstance, GoTo, HandlerFits, ApplyCalls
<1>5. CASE CreateInstance
  <2>1. /\ obj' = obj /\ pc = "CreateInstance" /\ pc' \in {"applied", "applyFailed"}
        /\ job'.spec = job.spec /\ job'.generation = job.generation
    BY <1>5 DEF CreateInstance, GoTo, TypeOK, Job
  <2>2. QED
    BY <1>1, <2>1 DEF HandlerFits, ApplyCalls
<1>6. CASE ModifyInstance
  <2>1. /\ obj' = obj /\ pc = "ModifyInstance" /\ pc' \in {"applied", "applyFailed"}
        /\ job'.spec = job.spec /\ job'.generation = job.generation
    BY <1>2, <1>6 DEF ModifyInstance, ModifyTo, GoTo
  <2>2. QED
    BY <1>1, <2>1 DEF HandlerFits, ApplyCalls
<1>7. CASE CheckApplied
  <2>1. /\ obj' = obj /\ pc' \in {"ready", "failed", "waiting"} /\ obj.phase = "Deploying"
        /\ job'.spec = obj.spec /\ job'.generation = obj.generation
    BY <1>2, <1>7 DEF CheckApplied, NeedsApplyCheck, GoTo, DeploymentOf
  <2>2. QED
    BY <1>1, <2>1 DEF HandlerFits, ApplyCalls
<1>8. CASE CheckDeleted
  <2>1. /\ obj' = obj /\ pc' \in {"gone", "waiting"} /\ obj.phase = "Terminating"
        /\ obj.deleting
        /\ job'.spec = obj.spec /\ job'.generation = obj.generation
    BY <1>2, <1>8 DEF CheckDeleted, NeedsDeleteCheck, GoTo, DeletionOf
  <2>2. QED
    BY <1>1, <2>1 DEF HandlerFits, ApplyCalls
<1>9. CASE StartDelete \/ RetryDelete
  BY <1>1, <1>2, <1>9
     DEF StartDelete, RetryDelete, BeginDelete, NeedsDelete, MayRetryDelete, GoTo,
         HandlerFits, ApplyCalls
<1>10. CASE DeleteInstance
  <2>1. /\ obj' = obj /\ pc = "DeleteInstance" /\ pc' \in {"deleteStarted", "failed"}
        /\ job'.spec = job.spec /\ job'.generation = job.generation
    BY <1>2, <1>10 DEF DeleteInstance, DeleteOr, GoTo
  <2>2. QED
    BY <1>1, <2>1 DEF HandlerFits, ApplyCalls
<1>11. CASE Record
  BY <1>1, <1>11, RecordGives DEF HandlerFits, ApplyCalls
<1>12. CASE Interrupt \/ PermanentError
  BY <1>1, <1>12 DEF Interrupt, PermanentError, HandlerFits, ApplyCalls
<1>13. CASE CheckRefused
  BY <1>1, <1>2, <1>13 DEF CheckRefused, HandlerFits, ApplyCalls
<1>14. CASE EditSpec \/ RequestDeletion
  <2>1. pc' = pc /\ job' = job
    BY <1>14 DEF EditSpec, RequestDeletion
  <2>2. /\ obj'.phase = obj.phase /\ obj'.observed = obj.observed
        /\ \/ obj'.generation = obj.generation + 1 /\ obj'.deleting = obj.deleting
           \/ /\ obj'.generation = obj.generation /\ obj'.spec = obj.spec
              /\ obj'.deleting
    BY <1>14, UserGives
  <2>3. QED
    BY <1>1, <2>1, <2>2 DEF HandlerFits, ApplyCalls
<1>15. CASE \/ CheckHealth \/ HealthRefused \/ ModificationStarts \/ AwsCompletes
            \/ AwsEvent \/ Restored \/ DeletedByOthers \/ UNCHANGED vars
  BY <1>15, HandlerAlone DEF HandlerFits
<1>16. QED
  BY <1>3, <1>4, <1>5, <1>6, <1>7, <1>8, <1>9, <1>10, <1>11, <1>12, <1>13, <1>14, <1>15
     DEF Next, Reconcile, Apply, Delete, Aws

LEMMA CountStep ==
  ASSUME TypeOK, HandlerFits, CreationsAreCounted, [Next]_vars
  PROVE  CreationsAreCounted'
<1>1. /\ obj.observed \in Nat /\ job.generation \in Nat /\ creations \in Nat /\ faults \in Nat
  <2>1. creations \in Creation /\ faults \in 0 .. MaxFaults
    BY DEF TypeOK
  <2>2. QED
    BY <2>1, Fields, RdsAssumption DEF Creation
<1>2. CASE CreateInstance
  <2>1. /\ obj' = obj /\ faults' = faults /\ pc = "CreateInstance"
        /\ \/ creations' = creations
           \/ creations' = creations + 1 /\ pc' = "applied"
    BY <1>2 DEF CreateInstance, GoTo, awsVars
  <2>2. QED
    BY <1>1, <2>1 DEF CreationsAreCounted
<1>3. CASE Record
  <2>1. /\ creations' = creations /\ faults' = faults /\ pc' = "idle"
        /\ obj'.observed = IF pc \in {"applied", "applyFailed"}
                             THEN job.generation ELSE obj.observed
    BY <1>3, RecordGives DEF Record, awsVars, modelVars
  <2>2. pc \in {"applied", "applyFailed"} => obj.observed < job.generation
    BY DEF HandlerFits
  <2>3. QED
    BY <1>1, <2>1, <2>2 DEF CreationsAreCounted
<1>4. CASE Interrupt \/ PermanentError \/ CheckRefused
  <2>1. /\ creations' = creations /\ faults' = faults + 1 /\ obj' = obj
    BY <1>4 DEF Interrupt, PermanentError, CheckRefused, awsVars
  <2>2. QED
    BY <1>1, <2>1 DEF CreationsAreCounted
<1>5. CASE HealthRefused
  BY <1>1, <1>5 DEF HealthRefused, awsVars, CreationsAreCounted
<1>6. CASE EditSpec \/ RequestDeletion
  <2>1. obj'.observed = obj.observed /\ UNCHANGED <<creations, faults, pc>>
    BY <1>6, UserGives DEF awsVars, modelVars
  <2>2. QED
    BY <1>1, <2>1 DEF CreationsAreCounted
<1>7. CASE \/ RejectSpec \/ StartApply \/ DescribeInstance \/ ModifyInstance \/ CheckApplied
           \/ StartDelete \/ RetryDelete \/ DeleteInstance \/ CheckDeleted
  <2>1. creations' = creations /\ faults' = faults /\ obj' = obj /\ pc # "applied"
    BY <1>7 DEF RejectSpec, StartApply, DescribeInstance, ModifyInstance, ModifyTo,
                CheckApplied, StartDelete, RetryDelete, BeginDelete, DeleteInstance, DeleteOr,
                CheckDeleted, GoTo, awsVars
  <2>2. QED
    BY <1>1, <2>1 DEF CreationsAreCounted
<1>8. CASE \/ CheckHealth \/ ModificationStarts \/ AwsCompletes
           \/ AwsEvent \/ Restored \/ DeletedByOthers \/ UNCHANGED vars
  <2>1. faults' = faults
    BY <1>8 DEF CheckHealth, ModificationStarts, AwsCompletes, AwsEvent, Restored,
                DeletedByOthers, AwsOnly, vars, modelVars
  <2>2. QED
    BY <1>8, <2>1, HandlerAlone DEF CreationsAreCounted
<1>9. QED
  BY <1>2, <1>3, <1>4, <1>5, <1>6, <1>7, <1>8 DEF Next, Reconcile, Apply, Delete, Aws

\* The life of the instance: once gone or failed it stays so, nobody but others
\* and a handler begins its deletion, and its secret and protection last.
LEMMA LifeGives ==
  ASSUME TypeOK,
         ModificationStarts \/ AwsCompletes \/ AwsEvent \/ Restored \/ DeletedByOthers
  PROVE  /\ obj' = obj /\ pc' = pc /\ job' = job /\ target' = target
         /\ protected' => protected
         /\ exists' => exists /\ protected' = protected /\ secret' = secret
         /\ endpoint /\ exists' => endpoint'
         /\ status' \in Usable /\ (status \in Usable => endpoint) => endpoint'
         /\ ~disturbed' =>
              /\ ~disturbed
              /\ status \notin {"none", "deleting"} => status' \notin {"none", "deleting"}
              /\ status \in {"none", "failed"} => status' = status
         /\ ~exists \/ doomed => ~exists' \/ doomed'
         /\ DoomFits => DoomFits'
<1> USE DEF exists, AwsOnly, DoomFits, Usable, Changing, Transitional, Broken, Down
<1>0. /\ protected \in BOOLEAN /\ endpoint \in BOOLEAN
      /\ doomed \in BOOLEAN /\ disturbed \in BOOLEAN
  BY DEF TypeOK
<1>1. CASE ModificationStarts
  BY <1>0, <1>1 DEF ModificationStarts
<1>2. CASE AwsCompletes
  BY <1>0, <1>2 DEF AwsCompletes
<1>3. CASE AwsEvent
  BY <1>0, <1>3 DEF AwsEvent
<1>4. CASE Restored
  BY <1>0, <1>4 DEF Restored
<1>5. CASE DeletedByOthers
  BY <1>0, <1>5 DEF DeletedByOthers
<1>6. QED
  BY <1>1, <1>2, <1>3, <1>4, <1>5

LEMMA WholeStep ==
  ASSUME TypeOK, HandlerFits, CreationsAreCounted, InstanceIsWhole, [Next]_vars
  PROVE  InstanceIsWhole'
<1>1. /\ Called.status = obj.status
      /\ secret = 0 => Updated(Called).status.secretArn = obj.status.secretArn
      /\ secret = 0 => Updated(job).status.secretArn = job.status.secretArn
  <2>1. job \in Job /\ Called \in Job
    BY CalledGives DEF TypeOK
  <2>2. QED
    BY <2>1, CalledGives, UpdatedGives
<1>2. CASE CreateInstance
  <2>1. CASE exists
    BY <1>2, <2>1 DEF CreateInstance, GoTo, awsVars, InstanceIsWhole, exists
  <2>2. CASE ~exists
    <3>1. status' = "creating" /\ secret' = creations + 1
      BY <1>2, <2>2 DEF CreateInstance
    <3>2. creations \in Nat
      BY <1>2, RoomToCreate DEF CreateInstance
    <3>3. QED
      BY <3>1, <3>2 DEF InstanceIsWhole, Usable
  <2>3. QED
    BY <2>1, <2>2
<1>3. CASE \/ RejectSpec \/ StartApply \/ DescribeInstance \/ ModifyInstance \/ CheckApplied
           \/ StartDelete \/ RetryDelete \/ CheckDeleted \/ CheckRefused
  <2>1. /\ obj' = obj /\ status' = status /\ secret' = secret /\ endpoint' = endpoint
        /\ \/ job'.status = job.status \/ job'.status = obj.status
           \/ secret = 0 => /\ job'.status.secretArn = job.status.secretArn
                               \/ job'.status.secretArn = obj.status.secretArn
    BY <1>1, <1>3
       DEF RejectSpec, StartApply, DescribeInstance, ModifyInstance, ModifyTo, CheckApplied,
           StartDelete, RetryDelete, BeginDelete, CheckDeleted, CheckRefused, GoTo, awsVars
  <2>2. QED
    BY <2>1 DEF InstanceIsWhole, exists
<1>4. CASE DeleteInstance
  <2>1. /\ obj' = obj /\ secret' = secret /\ endpoint' = endpoint
        /\ status' = status \/ (exists /\ status' = "deleting")
        /\ \/ job'.status = job.status
           \/ secret = 0 => job'.status.secretArn = job.status.secretArn
    BY <1>1, <1>4 DEF DeleteInstance, DeleteOr, GoTo, exists
  <2>2. QED
    BY <2>1 DEF InstanceIsWhole, exists, Usable
<1>5. CASE Record
  <2>1. obj'.status = job.status /\ job' = job /\ UNCHANGED <<status, secret, endpoint>>
    BY <1>5, RecordGives DEF Record, awsVars
  <2>2. QED
    BY <2>1 DEF InstanceIsWhole, exists
<1>6. CASE EditSpec \/ RequestDeletion
  <2>1. obj'.status = obj.status /\ job' = job /\ UNCHANGED <<status, secret, endpoint>>
    BY <1>6, UserGives DEF awsVars
  <2>2. QED
    BY <2>1 DEF InstanceIsWhole, exists
<1>7. CASE Interrupt \/ PermanentError \/ CheckHealth \/ HealthRefused \/ UNCHANGED vars
  BY <1>7 DEF Interrupt, PermanentError, CheckHealth, HealthRefused, vars, awsVars,
              InstanceIsWhole, exists
<1>8. CASE ModificationStarts \/ AwsCompletes \/ AwsEvent \/ Restored \/ DeletedByOthers
  BY <1>8, LifeGives DEF InstanceIsWhole
<1>9. QED
  BY <1>2, <1>3, <1>4, <1>5, <1>6, <1>7, <1>8 DEF Next, Reconcile, Apply, Delete, Aws

LEMMA UnprotectedStep ==
  ASSUME TypeOK, HandlerFits, Unprotected, [Next]_vars
  PROVE  Unprotected'
<1>1. /\ obj.observed \in Nat /\ obj.generation \in Nat /\ job.generation \in Nat
      /\ obj.phase \in Phase
  BY Fields
<1>2. pc \in ApplyCalls => obj.observed # obj.generation
  BY <1>1 DEF HandlerFits, ApplyCalls
<1>3. CASE CreateInstance \/ ModifyInstance
  <2>1. job'.spec = job.spec
    <3>1. job \in Job
      BY DEF TypeOK
    <3>2. Updated(job).spec = job.spec
      BY <3>1, UpdatedGives
    <3>3. QED
      BY <1>3, <3>1, <3>2 DEF CreateInstance, ModifyInstance, ModifyTo, GoTo, Job
  <2>2. /\ obj' = obj /\ pc \in ApplyCalls
        /\ pc' = "applied" => protected' = Protection(job.spec)
    BY <1>3 DEF CreateInstance, ModifyInstance, ModifyTo, GoTo, ApplyCalls
  <2>3. QED
    BY <1>2, <2>1, <2>2 DEF Unprotected
<1>4. CASE \/ RejectSpec \/ StartApply \/ DescribeInstance \/ CheckApplied
           \/ StartDelete \/ RetryDelete \/ DeleteInstance \/ CheckDeleted
  <2>1. obj' = obj /\ protected' = protected /\ pc' # "applied"
    BY <1>4 DEF RejectSpec, StartApply, DescribeInstance, CheckApplied, DeploymentOf,
                StartDelete, RetryDelete, BeginDelete, DeleteInstance, DeleteOr,
                CheckDeleted, DeletionOf, GoTo, awsVars
  <2>2. QED
    BY <2>1 DEF Unprotected
<1>5. CASE Record
  <2>1. /\ protected' = protected /\ pc' = "idle"
        /\ obj'.spec = obj.spec /\ obj'.generation = obj.generation
        /\ obj'.observed = IF pc \in {"applied", "applyFailed"}
                             THEN job.generation ELSE obj.observed
    BY <1>5, RecordGives DEF Record, awsVars
  <2>2. CASE pc = "applied"
    BY <2>1, <2>2 DEF Unprotected, HandlerFits
  <2>3. CASE pc = "ready" \/ pc = "waiting"
    <3>1. obj'.observed = obj.observed
      BY <2>1, <2>3
    <3>2. obj'.phase \in {"Deploying", "Ready"} => obj.phase \in {"Deploying", "Ready"}
      BY <1>5, <2>3, RecordGives DEF HandlerFits
    <3>3. QED
      BY <2>1, <3>1, <3>2 DEF Unprotected
  <2>4. CASE pc \in {"applyFailed", "failed", "deleteStarted", "gone"}
    <3>1. obj'.phase \notin {"Deploying", "Ready"}
      BY <1>5, <2>4, RecordGives
    <3>2. QED
      BY <2>1, <3>1 DEF Unprotected
  <2>5. QED
    BY <1>5, <2>2, <2>3, <2>4 DEF Record, Outcome
<1>6. CASE EditSpec \/ RequestDeletion
  <2>1. /\ pc' = pc /\ job' = job /\ protected' = protected
    BY <1>6, UserGives DEF awsVars
  <2>2. /\ obj'.phase = obj.phase /\ obj'.observed = obj.observed
        /\ \/ obj'.generation = obj.generation + 1
           \/ obj'.generation = obj.generation /\ obj'.spec = obj.spec
    BY <1>6, UserGives
  <2>3. QED
    BY <1>1, <2>1, <2>2 DEF Unprotected, HandlerFits
<1>7. CASE \/ Interrupt \/ PermanentError \/ CheckRefused
           \/ CheckHealth \/ HealthRefused \/ UNCHANGED vars
  <2>1. /\ obj' = obj /\ protected' = protected
        /\ pc' # "applied" \/ (pc' = pc /\ job' = job)
    BY <1>7 DEF Interrupt, PermanentError, CheckRefused, CheckHealth, HealthRefused, vars, awsVars
  <2>2. QED
    BY <2>1 DEF Unprotected
<1>8. CASE ModificationStarts \/ AwsCompletes \/ AwsEvent \/ Restored \/ DeletedByOthers
  BY <1>8, LifeGives DEF Unprotected
<1>9. QED
  BY <1>3, <1>4, <1>5, <1>6, <1>7, <1>8 DEF Next, Reconcile, Apply, Delete, Aws

\* What a step has to leave alone for what stands to stand on.
LEMMA StandsOn ==
  ASSUME ApplyStands, disturbed' = disturbed, obj' = obj,
         UNCHANGED <<status, target, protected, secret>>,
         pc' \notin {"applied", "ready", "waiting"} \/ (pc' = pc /\ job' = job)
  PROVE  ApplyStands'
BY DEF ApplyStands, Stands, Settled, Reachable

\* Nothing is claimed of a Component whose apply runs, or that is being deleted,
\* until the handler has its result.
LEMMA NothingClaimed ==
  ASSUME obj' = obj, obj.deleting \/ obj.observed # obj.generation,
         pc' \notin {"applied", "ready"}
  PROVE  ApplyStands'
BY DEF ApplyStands, Settled

LEMMA StandsStep ==
  ASSUME TypeOK, HandlerFits, InstanceIsWhole, ApplyStands, [Next]_vars
  PROVE  ApplyStands'
<1>1. /\ obj.observed \in Nat /\ obj.generation \in Nat /\ job.generation \in Nat
      /\ obj.phase \in Phase
  BY Fields
<1>2. /\ pc \in ApplyCalls \cup {"applied", "applyFailed"} => obj.observed # obj.generation
      /\ pc \in {"DeleteInstance", "deleteStarted", "gone"} => obj.deleting
  BY <1>1 DEF HandlerFits, ApplyCalls
<1>3. job \in Job /\ Called \in Job
  BY CalledGives DEF TypeOK
<1>4. CASE RejectSpec \/ StartApply \/ DescribeInstance
  BY <1>2, <1>4, NothingClaimed
     DEF RejectSpec, StartApply, DescribeInstance, NeedsApply, GoTo, ApplyCalls
<1>5. CASE CreateInstance
  <2>1. CASE exists
    BY <1>2, <1>5, <2>1, NothingClaimed DEF CreateInstance, GoTo, ApplyCalls
  <2>2. CASE ~exists
    <3>1. /\ status' = "creating" /\ target' = job.spec.class
          /\ protected' = Protection(job.spec) /\ secret' = creations + 1
          /\ obj' = obj /\ pc' = "applied" /\ pc \in ApplyCalls
          /\ job' = [job EXCEPT !.status = [secretArn |-> creations + 1, endpoint |-> FALSE]]
      BY <1>5, <2>2 DEF CreateInstance, GoTo, ApplyCalls
    <3>2. job'.spec = job.spec /\ job'.status.secretArn = secret'
      BY <1>3, <3>1 DEF Job
    <3>3. Stands(job.spec)'
      BY <3>1, <3>2 DEF Stands, Protection
    <3>4. QED
      BY <1>2, <3>1, <3>2, <3>3 DEF ApplyStands, Settled
  <2>3. QED
    BY <2>1, <2>2
<1>6. CASE ModifyInstance
  <2>1. pc \in ApplyCalls /\ obj' = obj
    BY <1>6 DEF ModifyInstance, ModifyTo, GoTo, ApplyCalls
  <2>2. CASE pc' = "applied"
    <3>1. /\ status \notin {"none", "creating", "deleting"} /\ target' = job.spec.class
          /\ protected' = Protection(job.spec) /\ job' = Updated(job)
          /\ status' = status /\ secret' = secret
      BY <1>6, <2>2 DEF ModifyInstance, ModifyTo, GoTo
    <3>2. job'.spec = job.spec
      BY <1>3, <3>1, UpdatedGives
    <3>3. job'.status.secretArn = secret
      BY <1>3, <3>1, UpdatedGives DEF InstanceIsWhole, exists
    <3>4. Stands(job.spec)'
      BY <3>1, <3>2 DEF Stands, Protection
    <3>5. QED
      BY <1>2, <2>1, <2>2, <3>1, <3>3, <3>4 DEF ApplyStands, Settled
  <2>3. CASE pc' # "applied"
    <3>1. pc' = "applyFailed"
      BY <1>6, <2>3 DEF ModifyInstance, ModifyTo, GoTo
    <3>2. QED
      BY <1>2, <2>1, <3>1, NothingClaimed
  <2>4. QED
    BY <2>2, <2>3
<1>7. CASE CheckApplied
  <2>1. /\ pc' = DeploymentOf(status) /\ obj' = obj /\ obj.phase = "Deploying"
        /\ UNCHANGED <<status, target, protected, secret, endpoint, disturbed>>
        /\ job' = IF exists THEN Updated(Called) ELSE Called
        /\ pc' # "applied" /\ Settled
    BY <1>7 DEF CheckApplied, NeedsApplyCheck, GoTo, awsVars, DeploymentOf, Settled
  <2>2. CASE disturbed
    BY <2>1, <2>2 DEF ApplyStands
  <2>3. CASE ~disturbed
    <3>1. Stands(obj.spec) /\ obj.status.secretArn = secret /\ exists
      BY <2>1, <2>3 DEF ApplyStands, Reachable, Stands, exists
    <3>2. job' = Updated(Called)
      BY <2>1, <3>1
    <3>3. job'.status.secretArn = secret /\ job'.status.endpoint = endpoint
      BY <1>3, <3>1, <3>2, CalledGives, UpdatedGives
    <3>4. pc' = "ready" => endpoint
      BY <2>1 DEF DeploymentOf, InstanceIsWhole
    <3>5. QED
      BY <2>1, <3>1, <3>3, <3>4 DEF ApplyStands, Stands, Settled, Reachable
  <2>4. QED
    BY <2>2, <2>3
<1>8. CASE CheckDeleted
  <2>1. obj' = obj /\ obj.deleting /\ pc' \in {"gone", "waiting"}
    BY <1>8 DEF CheckDeleted, NeedsDeleteCheck, GoTo, DeletionOf
  <2>2. QED
    BY <2>1, NothingClaimed
<1>9. CASE StartDelete \/ RetryDelete \/ DeleteInstance
  <2>1. obj' = obj /\ pc' \in {"DeleteInstance", "deleteStarted", "failed"}
    BY <1>9 DEF StartDelete, RetryDelete, BeginDelete, DeleteInstance, DeleteOr, GoTo
  <2>2. obj.deleting
    BY <1>2, <1>9 DEF StartDelete, RetryDelete, NeedsDelete, MayRetryDelete,
                      DeleteInstance, DeleteOr
  <2>3. QED
    BY <2>1, <2>2, NothingClaimed
<1>10. CASE Record
  <2>1. /\ UNCHANGED <<status, target, protected, secret, disturbed>> /\ pc' = "idle"
        /\ obj'.spec = obj.spec /\ obj'.generation = obj.generation
        /\ obj'.deleting = obj.deleting /\ obj'.status = job.status
        /\ obj'.observed = IF pc \in {"applied", "applyFailed"}
                             THEN job.generation ELSE obj.observed
    BY <1>10, RecordGives DEF Record, awsVars, modelVars
  <2>2. CASE pc = "applied"
    <3>1. obj'.phase = "Deploying"
      BY <1>10, <2>2, RecordGives
    <3>2. job.generation = obj.generation => job.spec = obj.spec
      BY <2>2 DEF HandlerFits
    <3>3. QED
      BY <2>1, <2>2, <3>1, <3>2 DEF ApplyStands, Stands, Settled, Reachable
  <2>3. CASE pc = "ready" \/ pc = "waiting"
    <3>1. /\ obj'.observed = obj.observed
          /\ Settled' => Settled
          /\ obj'.phase = "Ready" => pc = "ready"
      BY <1>10, <2>1, <2>3, RecordGives DEF Settled, HandlerFits
    <3>2. QED
      BY <2>1, <2>3, <3>1 DEF ApplyStands, Stands, Reachable
  <2>4. CASE pc \in {"applyFailed", "failed", "deleteStarted", "gone"}
    <3>1. obj'.phase \notin {"Deploying", "Ready"}
      BY <1>10, <2>4, RecordGives
    <3>2. QED
      BY <2>1, <3>1 DEF ApplyStands, Settled
  <2>5. QED
    BY <1>10, <2>2, <2>3, <2>4 DEF Record, Outcome
<1>11. CASE Interrupt \/ PermanentError \/ CheckRefused
  <2>1. /\ UNCHANGED <<status, target, protected, secret, disturbed>> /\ obj' = obj
        /\ pc' \in {"idle", "applyFailed", "failed"}
    BY <1>11 DEF Interrupt, PermanentError, CheckRefused, awsVars
  <2>2. QED
    BY <2>1, StandsOn
<1>12. CASE EditSpec \/ RequestDeletion
  <2>1. UNCHANGED <<status, target, protected, secret, disturbed, pc, job>>
    BY <1>12, UserGives DEF awsVars, modelVars
  <2>2. ~Settled'
    BY <1>1, <1>12, UserGives DEF Settled, HandlerFits
  <2>3. QED
    BY <2>1, <2>2 DEF ApplyStands, Stands
<1>13. CASE CheckHealth \/ HealthRefused \/ UNCHANGED vars
  <2>1. /\ UNCHANGED <<status, target, protected, secret, disturbed>> /\ obj' = obj
        /\ pc' = pc /\ job' = job
    BY <1>13 DEF CheckHealth, HealthRefused, vars, awsVars, modelVars
  <2>2. QED
    BY <2>1, StandsOn
<1>14. CASE ModificationStarts \/ AwsCompletes \/ AwsEvent \/ Restored \/ DeletedByOthers
  BY <1>14, LifeGives DEF ApplyStands, Stands, Settled, Reachable, exists
<1>15. QED
  BY <1>4, <1>5, <1>6, <1>7, <1>8, <1>9, <1>10, <1>11, <1>12, <1>13, <1>14
     DEF Next, Reconcile, Apply, Delete, Aws

LEMMA DoomStep ==
  ASSUME TypeOK, DoomFits, [Next]_vars
  PROVE  DoomFits'
<1> USE DEF DoomFits
<1>1. CASE CreateInstance
  BY <1>1 DEF CreateInstance, GoTo, awsVars, exists
<1>2. CASE DeleteInstance
  BY <1>2 DEF DeleteInstance, DeleteOr
<1>3. CASE ModificationStarts \/ AwsCompletes \/ AwsEvent \/ Restored \/ DeletedByOthers
  BY <1>3, LifeGives
<1>4. CASE UNCHANGED <<status, doomed>>
  BY <1>4
<1>5. QED
  BY <1>1, <1>2, <1>3, <1>4
     DEF Next, Reconcile, Apply, Delete, Aws, RejectSpec, StartApply, DescribeInstance,
         ModifyInstance, ModifyTo, CheckApplied, StartDelete, RetryDelete, BeginDelete,
         CheckDeleted, Record, Interrupt, PermanentError, CheckRefused, CheckHealth,
         HealthRefused, EditSpec, RequestDeletion, awsVars, vars

LEMMA DeletionStep ==
  ASSUME TypeOK, HandlerFits, DoomFits, DeletionStands, [Next]_vars
  PROVE  DeletionStands'
<1>1. obj.phase \in Phase
  BY Fields
<1> USE DEF exists
<1>2. CASE \/ RejectSpec \/ StartApply \/ DescribeInstance \/ CreateInstance
           \/ ModifyInstance
  <2>1. /\ obj' = obj /\ obj.phase \notin {"Terminating", "Gone"}
        /\ pc' \notin {"deleteStarted", "gone"}
    BY <1>2 DEF RejectSpec, StartApply, NeedsApply, DescribeInstance, CreateInstance,
                ModifyInstance, ModifyTo, GoTo, HandlerFits, ApplyCalls
  <2>2. QED
    BY <2>1 DEF DeletionStands
<1>3. CASE StartDelete \/ RetryDelete
  <2>1. /\ obj' = obj /\ obj.phase \notin {"Terminating", "Gone"} /\ pc' = "DeleteInstance"
    BY <1>3 DEF StartDelete, RetryDelete, NeedsDelete, MayRetryDelete, BeginDelete, GoTo
  <2>2. QED
    BY <2>1 DEF DeletionStands
<1>4. CASE DeleteInstance
  <2>1. /\ obj' = obj /\ obj.phase \notin {"Terminating", "Gone"}
        /\ pc' = "failed" \/ (pc' = "deleteStarted" /\ (status' = "none" \/ doomed'))
    BY <1>4 DEF DeleteInstance, DeleteOr, GoTo, HandlerFits, DoomFits
  <2>2. QED
    BY <2>1 DEF DeletionStands
<1>5. CASE CheckApplied
  <2>1. /\ obj' = obj /\ obj.phase = "Deploying" /\ pc' \notin {"deleteStarted", "gone"}
    BY <1>5 DEF CheckApplied, NeedsApplyCheck, DeploymentOf, GoTo
  <2>2. QED
    BY <2>1 DEF DeletionStands
<1>6. CASE CheckDeleted
  <2>1. /\ obj' = obj /\ obj.phase = "Terminating" /\ pc' \in {"waiting", "gone"}
        /\ pc' = "gone" => status \in {"none", "failed"}
        /\ UNCHANGED <<status, doomed, disturbed>>
    BY <1>6 DEF CheckDeleted, NeedsDeleteCheck, DeletionOf, GoTo, awsVars
  <2>2. QED
    BY <2>1 DEF DeletionStands
<1>7. CASE Record
  <2>1. /\ UNCHANGED <<status, doomed, disturbed>> /\ pc' = "idle"
        /\ obj'.phase = "Terminating" => pc = "deleteStarted" \/ obj.phase = "Terminating"
        /\ obj'.phase = "Gone" => pc = "gone" \/ obj.phase = "Gone"
    BY <1>7, RecordGives DEF Record, Outcome, awsVars, modelVars
  <2>2. QED
    BY <2>1 DEF DeletionStands, HandlerFits
<1>8. CASE EditSpec \/ RequestDeletion
  <2>1. /\ UNCHANGED <<status, doomed, disturbed>> /\ pc' = pc /\ obj'.phase = obj.phase
    BY <1>8, UserGives DEF awsVars, modelVars
  <2>2. QED
    BY <2>1 DEF DeletionStands
<1>9. CASE \/ Interrupt \/ PermanentError \/ CheckRefused
           \/ CheckHealth \/ HealthRefused \/ UNCHANGED vars
  <2>1. /\ UNCHANGED <<status, doomed, disturbed>> /\ obj' = obj
        /\ pc' = pc \/ pc' \in {"idle", "applyFailed", "failed"}
    BY <1>9 DEF Interrupt, PermanentError, CheckRefused, CheckHealth, HealthRefused, vars,
                awsVars, modelVars
  <2>2. QED
    BY <2>1 DEF DeletionStands
<1>10. CASE ModificationStarts \/ AwsCompletes \/ AwsEvent \/ Restored \/ DeletedByOthers
  BY <1>10, LifeGives DEF DeletionStands
<1>11. QED
  BY <1>2, <1>3, <1>4, <1>5, <1>6, <1>7, <1>8, <1>9, <1>10
     DEF Next, Reconcile, Apply, Delete, Aws

-----------------------------------------------------------------------------
(* The theorems. *)

LEMMA InitInv == Init => Inv
<1> SUFFICES ASSUME Init PROVE Inv
  OBVIOUS
<1>1. TypeOK
  BY InitType
<1>2. PICK s \in Specs : /\ obj = NewComponent(s, NoStatus)
                         /\ job = [spec |-> s, generation |-> 0, status |-> NoStatus]
  BY DEF Init
<1>3. /\ obj.phase = "Pending" /\ obj.observed = 0 /\ obj.generation = 1
      /\ obj.status.secretArn = 0 /\ job.status.secretArn = 0
  BY <1>2 DEF NewComponent, NoStatus
<1>4. pc = "idle" /\ faults = 0 /\ ~doomed /\ status # "deleting"
  BY DEF Init, NoInstance
<1>5. HandlerFits /\ ApplyStands /\ DoomFits /\ DeletionStands /\ Unprotected
  BY <1>3, <1>4 DEF HandlerFits, ApplyStands, DoomFits, DeletionStands, Unprotected,
                    Settled, ApplyCalls
<1>6. creations \in {0, 1}
  BY DEF Init, NoInstance
<1>7. CreationsAreCounted
  BY <1>3, <1>4, <1>6 DEF CreationsAreCounted
<1>8. status \in Usable => endpoint
  BY DEF Init, NoInstance, Usable
<1>9. QED
  BY <1>1, <1>3, <1>5, <1>7, <1>8 DEF Inv, InstanceIsWhole

\* Inv is an inductive invariant of the provider.
THEOREM Invariance == Spec => []Inv
<1>1. Inv /\ [Next]_vars => Inv'
  BY NextType, FitsStep, CountStep, WholeStep, UnprotectedStep, StandsStep, DoomStep,
     DeletionStep DEF Inv
<1>2. QED
  BY <1>1, InitInv, PTL DEF Spec

\* Every variable keeps to its type, for every set of configurations and all
\* bounds: there are never more secrets than applies and faults account for.
THEOREM TypeCorrect == Spec => []TypeOK
<1>1. Inv => TypeOK
  BY DEF Inv
<1>2. QED
  BY <1>1, Invariance, PTL

\* A Component whose apply succeeded has the instance of its spec, and its status
\* tells how to connect to it, until others delete the instance.
THEOREM ReadyIsDelivered == Spec => []ReadyMeansDelivered
<1>1. Inv => ReadyMeansDelivered
  BY DEF Inv, ReadyMeansDelivered, ApplyStands, Stands, AsRequested, exists
<1>2. QED
  BY <1>1, Invariance, PTL

\* A Component waits for the end of a deletion, or is gone, only if AWS accepted to
\* delete the instance; gone, it has none left, or one that AWS could not delete.
THEOREM GoneIsGone == Spec => []NoInstanceLeftBehind
<1>1. Inv => NoInstanceLeftBehind
  BY DEF Inv, NoInstanceLeftBehind, DeletionStands
<1>2. QED
  BY <1>1, Invariance, PTL

\* AWS refuses a deletion only when the spec that was applied asks for protection
\* or for a final snapshot.
THEOREM RefusalsAreAskedFor == Spec => RefusesOnlyAsAsked
<1>1. ASSUME Inv, [Next]_vars,
             pc = "DeleteInstance", pc' = "failed", faults' = faults,
             obj.phase \in {"Deploying", "Ready"},
             obj.observed = obj.generation, job.generation = obj.generation
      PROVE  Protection(job.spec) \/ ~boolValue(job.spec.skipFinalSnapshot)
  <2>1. TypeOK /\ HandlerFits /\ Unprotected
    BY <1>1 DEF Inv
  <2>2. job.spec = obj.spec /\ (protected => Protection(obj.spec))
    BY <1>1, <2>1 DEF HandlerFits, Unprotected
  <2>3. DeleteInstance \/ PermanentError
    BY <1>1 DEF Next, Reconcile, Apply, Delete, RejectSpec, StartApply, DescribeInstance,
         CreateInstance, ModifyInstance, ModifyTo, CheckApplied, StartDelete, RetryDelete,
         BeginDelete, CheckDeleted, Record, Outcome, CheckHealth, Interrupt, CheckRefused,
         HealthRefused, EditSpec, RequestDeletion, Aws, ModificationStarts, AwsCompletes,
         AwsEvent, Restored, DeletedByOthers, AwsOnly, vars, GoTo
  <2>4. ~PermanentError
    <3>1. faults \in 0 .. MaxFaults
      BY <2>1 DEF TypeOK
    <3>2. faults' # faults + 1
      BY <1>1, <3>1, RdsAssumption
    <3>3. QED
      BY <3>2 DEF PermanentError
  <2>5. protected \/ ~SnapshotSettingsAreValid(job.spec) \/ ~boolValue(job.spec.skipFinalSnapshot)
    BY <1>1, <2>3, <2>4 DEF DeleteInstance, DeleteOr, GoTo
  <2>6. QED
    BY <2>2, <2>5 DEF SnapshotSettingsAreValid
<1>2. Inv /\ [Next]_vars =>
        [/\ pc = "DeleteInstance" /\ pc' = "failed" /\ faults' = faults
         /\ obj.phase \in {"Deploying", "Ready"}
         /\ obj.observed = obj.generation /\ job.generation = obj.generation
         => Protection(job.spec) \/ ~boolValue(job.spec.skipFinalSnapshot)]_vars
  BY <1>1
<1>3. QED
  BY <1>2, Invariance, PTL DEF Spec, RefusesOnlyAsAsked

\* What the apply check calls deployed, the health check calls healthy.
THEOREM ChecksDoAgree == Spec => ChecksAgree
<1>1. ASSUME [Next]_vars, health' # health, DeploymentOf(status) = "ready"
      PROVE  health' \in {"Healthy", "APIError"}
  <2>1. CheckHealth \/ HealthRefused
    BY <1>1 DEF Next, Reconcile, Apply, Delete, RejectSpec, StartApply, DescribeInstance,
         CreateInstance, ModifyInstance, ModifyTo, CheckApplied, StartDelete, RetryDelete,
         BeginDelete, DeleteInstance, DeleteOr, CheckDeleted, Record, Interrupt, PermanentError,
         CheckRefused, EditSpec, RequestDeletion, Aws, ModificationStarts, AwsCompletes,
         AwsEvent, Restored, DeletedByOthers, AwsOnly, vars, GoTo
  <2>2. status \in Usable
    BY <1>1 DEF DeploymentOf
  <2>3. HealthOf(status) = "Healthy"
    BY <2>2 DEF HealthOf, Usable, Broken
  <2>4. QED
    BY <2>1, <2>3 DEF CheckHealth, HealthRefused
<1>2. [Next]_vars =>
        [health' # health /\ DeploymentOf(status) = "ready" =>
           health' \in {"Healthy", "APIError"}]_vars
  BY <1>1
<1>3. QED
  BY <1>2, PTL DEF Spec, ChecksAgree

=============================================================================
