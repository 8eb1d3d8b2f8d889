--------------------------------- MODULE Rds ---------------------------------
(***************************************************************************)
(* The rds provider (src/rds): the handlers of one Component that keeps a  *)
(* database instance, and the health check of a Component that is Ready.   *)
(* The instance has a life of its own: AWS takes it from status to status, *)
(* refuses calls in some of them and starts a modification some time after *)
(* it accepted it; others with access to the account may delete it.        *)
(***************************************************************************)
EXTENDS ComponentKit

CONSTANTS
  Classes,        \* instance classes, for all that a modification can change
  Specs,          \* the configurations the users choose from
  MaxGeneration,  \* BOUND on the edits of the spec
  MaxFaults,      \* BOUND on interruptions and refused calls
  MaxEvents       \* BOUND on what happens to a running instance

\* "nil": the field is left out.
Flag == {"nil", "true", "false"}

\* valid stands for what resolveSpec tests besides: ids, user, managed password.
RdsConfig ==
  [valid : BOOLEAN, class : Classes, deletionProtection : Flag,
   skipFinalSnapshot : Flag, snapshotNamed : BOOLEAN]

ASSUME RdsAssumption ==
  /\ Specs \subseteq RdsConfig
  /\ MaxGeneration \in Nat \ {0} /\ MaxFaults \in Nat /\ MaxEvents \in Nat

-----------------------------------------------------------------------------
(* Statuses of an instance, grouped as the handlers group them. *)

Usable ==
  {"available", "storage-optimization", "backing-up",
   "configuring-enhanced-monitoring", "configuring-iam-database-auth",
   "configuring-log-exports"}

Changing == {"creating", "modifying", "upgrading", "renaming", "resetting-master-credentials"}

Transitional == {"maintenance", "rebooting", "starting"}

Broken ==
  {"failed", "inaccessible-encryption-credentials", "incompatible-network",
   "incompatible-option-group", "incompatible-parameters",
   "incompatible-restore", "insufficient-capacity"}

Down == {"stopped", "stopping", "storage-full"}

InstanceStatus == Usable \cup Changing \cup Transitional \cup Broken \cup Down \cup {"deleting"}

\* Mutation: an instance that is down may come up again.
DeploymentWaits(s) ==
  CASE s = "none"               -> "failed"
    [] s \in Usable             -> "ready"
    [] s \in Broken             -> "failed"
    [] OTHER                    -> "waiting"

\* The answer of checkApplied to a status, "none" when there is no instance.
DeploymentOf(s) ==
  CASE s = "none"               -> "failed"
    [] s \in Usable             -> "ready"
    [] s \in Broken \cup Down   -> "failed"
    [] OTHER                    -> "waiting"

\* The answer of checkDeleted.
DeletionOf(s) == IF s \in {"none", "failed"} THEN "gone" ELSE "waiting"

\* Mutation: backing-up has been forgotten.
HealthForgetful(s) ==
  IF s \in {"available", "modifying"} THEN "Healthy" ELSE "UnknownStatus"

\* Mutation: what is not there has no known status.
HealthOfNothing(s) ==
  IF s \in Usable \cup {"modifying"} THEN "Healthy" ELSE "UnknownStatus"

\* The answer of checkHealth.
HealthOf(s) ==
  CASE s = "none"                                    -> "InstanceDeleted"
    [] s \in Usable \cup {"modifying"}               -> "Healthy"
    [] s = "storage-full"                            -> "StorageFull"
    [] s \in {"maintenance", "rebooting"}            -> "Maintenance"
    [] s \in {"stopped", "stopping", "starting"}     -> "Stopped"
    [] s \in Broken                                  -> "Failed"
    [] OTHER                                         -> "UnknownStatus"

-----------------------------------------------------------------------------

VARIABLES
  (* The instance in AWS. *)
  status,     \* "none" while there is none
  class,      \* the class in effect
  target,     \* the class asked for
  protected,  \* deletion protection is on
  secret,     \* the secret with its managed password, 0 if there is none; each
              \* instance created has one of its own
  endpoint,   \* it has an address: the first time it was usable gave it one
  creations,  \* instances created so far
  doomed,     \* AWS accepted to delete it, a history variable: tells an instance
              \* that could not be deleted from one that failed otherwise
  (* The cluster and the handler. *)
  obj, pc, job,
  health,     \* the last answer of checkHealth, "" before the first
  (* Bookkeeping of the model. *)
  disturbed,  \* someone else deleted the instance since the last apply or delete
  faults, events

awsVars == <<status, class, target, protected, secret, endpoint, creations, doomed>>
modelVars == <<disturbed, faults, events>>
vars == <<awsVars, obj, pc, job, health, modelVars>>

exists == status # "none"

\* At most one for each apply, and one before the first.
Creation == 0 .. MaxGeneration + MaxFaults + 1

\* MasterUserSecretArn, 0 for "", and whether Endpoint is one; the other fields
\* follow the instance like Endpoint.
Status == [secretArn : Creation, endpoint : BOOLEAN]
NoStatus == [secretArn |-> 0, endpoint |-> FALSE]

ApplyCalls == {"DescribeInstance", "CreateInstance", "ModifyInstance"}
Outcome == {"applied", "applyFailed", "ready", "failed", "waiting", "deleteStarted", "gone"}

Job == [spec : Specs, generation : 0 .. MaxGeneration, status : Status]

GoTo(call, j) ==
  /\ pc' = call
  /\ job' = j
  /\ UNCHANGED <<obj, health, faults, events>>

Called == [spec |-> obj.spec, generation |-> obj.generation, status |-> obj.status]

\* Mutation: the ARN that is known is not replaced.
UpdatedOnce(j) ==
  [j EXCEPT !.status.endpoint = endpoint,
            !.status.secretArn = IF @ = 0 THEN secret ELSE @]

\* updateStatusFromInstance: without an endpoint in the response there is none, a
\* secret ARN that is not in the response is kept.
Updated(j) ==
  [j EXCEPT !.status.endpoint = endpoint,
            !.status.secretArn = IF secret = 0 THEN @ ELSE secret]

\* applyDefaults: protected unless the user says otherwise.
Protection(s) == s.deletionProtection # "false"

NoInstance ==
  /\ status = "none" /\ protected = FALSE /\ secret = 0 /\ endpoint = FALSE
  /\ creations = 0
  /\ \E k \in Classes : class = k /\ target = k

Init ==
  \* The account may hold an instance of that name already.
  /\ \/ NoInstance
     \/ /\ status = "available" /\ protected \in BOOLEAN /\ secret \in {0, 1}
        /\ endpoint = TRUE /\ creations = 1
        /\ \E k \in Classes : class = k /\ target = k
  /\ \E s \in Specs : /\ obj = NewComponent(s, NoStatus)
                      /\ job = [spec |-> s, generation |-> 0, status |-> NoStatus]
  /\ doomed = FALSE
  /\ pc = "idle"
  /\ health = ""
  /\ disturbed = FALSE
  /\ faults = 0 /\ events = 0

-----------------------------------------------------------------------------
(* apply *)

RejectSpec ==
  /\ pc = "idle" /\ NeedsApply(obj)
  /\ ~obj.spec.valid
  /\ GoTo("applyFailed", Called)
  /\ UNCHANGED <<awsVars, disturbed>>

StartApply ==
  /\ pc = "idle" /\ NeedsApply(obj)
  /\ obj.spec.valid
  /\ GoTo("DescribeInstance", Called)
  /\ disturbed' = FALSE
  /\ UNCHANGED awsVars

DescribeInstance ==
  /\ pc = "DescribeInstance"
  /\ GoTo(IF exists THEN "ModifyInstance" ELSE "CreateInstance", job)
  /\ UNCHANGED <<awsVars, disturbed>>

\* DBInstanceAlreadyExists is not retryable.
CreateInstance ==
  /\ pc = "CreateInstance"
  /\ IF exists
       THEN GoTo("applyFailed", job) /\ UNCHANGED awsVars
       ELSE /\ status' = "creating"
            /\ class' = job.spec.class
            /\ target' = job.spec.class
            /\ protected' = Protection(job.spec)
            /\ secret' = creations + 1
            /\ creations' = creations + 1
            /\ GoTo("applied", [job EXCEPT !.status = [secretArn |-> creations + 1,
                                                      endpoint |-> FALSE]])
            /\ UNCHANGED <<endpoint, doomed>>
  /\ UNCHANGED disturbed

\* ModifyDBInstance.  AWS refuses it while the instance is being created or
\* deleted and accepts it when it is available; otherwise it depends.  The
\* class follows later (ModificationStarts), the protection at once.
ModifyTo(newClass, protection) ==
  /\ pc = "ModifyInstance"
  /\ \/ /\ status \notin {"none", "creating", "deleting"}
        /\ target' = newClass
        /\ protected' = protection
        /\ GoTo("applied", Updated(job))
     \/ /\ status # "available"
        /\ GoTo("applyFailed", job)
        /\ UNCHANGED <<target, protected>>
  /\ UNCHANGED <<status, class, secret, endpoint, creations, doomed, disturbed>>

\* Mutation: DeletionProtection is not part of the modification.
ModifyKeepsProtection == ModifyTo(job.spec.class, protected)

\* Mutation: what is asked for is what the instance has already.
ModifyToPresent == ModifyTo(class, Protection(job.spec))

ModifyInstance == ModifyTo(job.spec.class, Protection(job.spec))

-----------------------------------------------------------------------------
(* The checks, each with one DescribeDBInstances. *)

\* Mutation: the answer decides, the status stays as it was.
CheckAppliedBlind ==
  /\ pc = "idle" /\ NeedsApplyCheck(obj)
  /\ GoTo(DeploymentOf(status), Called)
  /\ UNCHANGED <<awsVars, disturbed>>

CheckApplied ==
  /\ pc = "idle" /\ NeedsApplyCheck(obj)
  /\ GoTo(DeploymentOf(status), IF exists THEN Updated(Called) ELSE Called)
  /\ UNCHANGED <<awsVars, disturbed>>

CheckDeleted ==
  /\ pc = "idle" /\ NeedsDeleteCheck(obj)
  /\ GoTo(DeletionOf(status), Called)
  /\ UNCHANGED <<awsVars, disturbed>>

\* Once a minute while the Component is Ready; changes the condition only.
CheckHealth ==
  /\ pc = "idle"
  /\ obj.phase = "Ready" /\ ~obj.deleting
  /\ health' = HealthOf(status)
  /\ UNCHANGED <<awsVars, obj, pc, job, modelVars>>

-----------------------------------------------------------------------------
(* delete: one DeleteDBInstance, with the spec as it is, unresolved. *)

BeginDelete ==
  /\ pc = "idle"
  /\ GoTo("DeleteInstance", Called)
  /\ disturbed' = FALSE
  /\ UNCHANGED awsVars

StartDelete == NeedsDelete(obj) /\ BeginDelete
RetryDelete == MayRetryDelete(obj) /\ BeginDelete

\* A field left out is false, whatever applyDefaults would make of it.
boolValue(flag) == flag = "true"

\* A final snapshot needs a name.
SnapshotSettingsAreValid(s) == boolValue(s.skipFinalSnapshot) \/ s.snapshotNamed

\* Gone, or being deleted already: done.  Refused for protection or a missing
\* snapshot name; and, where a snapshot is to be taken, possibly when the
\* instance is not available.
DeleteOr(onRefusal) ==
  /\ pc = "DeleteInstance"
  /\ \/ /\ status \in {"none", "deleting"}
        /\ GoTo("deleteStarted", job)
        /\ UNCHANGED <<status, doomed>>
     \/ /\ status \notin {"none", "deleting"}
        /\ ~protected /\ SnapshotSettingsAreValid(job.spec)
        /\ status' = "deleting" /\ doomed' = TRUE
        /\ GoTo("deleteStarted", Updated(job))
     \/ /\ status \notin {"none", "deleting"}
        /\ \/ protected \/ ~SnapshotSettingsAreValid(job.spec)
           \/ ~boolValue(job.spec.skipFinalSnapshot) /\ status # "available"
        /\ GoTo(onRefusal, job)
        /\ UNCHANGED <<status, doomed>>
  /\ UNCHANGED <<class, target, protected, secret, endpoint, creations, disturbed>>

\* Mutation: a refusal is taken for InvalidDBInstanceState, deleted already.
DeleteInstanceAnyway == DeleteOr("deleteStarted")

DeleteInstance == DeleteOr("failed")

-----------------------------------------------------------------------------
(* The reconciler records a result; or it never gets to. *)

Recorded ==
  CASE pc = "applied"       -> Applied(obj, job.generation, job.status)
    [] pc = "applyFailed"   -> ApplyFailed(obj, job.generation, job.status)
    [] pc = "ready"         -> CheckedReady(obj, job.status)
    [] pc = "failed"        -> Failed(obj, job.status)
    [] pc = "waiting"       -> [obj EXCEPT !.status = job.status]
    [] pc = "deleteStarted" -> DeleteStarted(obj, job.status)
    [] pc = "gone"          -> CheckedGone(obj, job.status)

Record ==
  /\ pc \in Outcome
  /\ obj' = Recorded
  /\ pc' = "idle"
  /\ UNCHANGED <<awsVars, job, health, modelVars>>

\* A retryable error, a lost response, a failed status update, a crash.
Interrupt ==
  /\ pc # "idle"
  /\ faults < MaxFaults
  /\ faults' = faults + 1
  /\ pc' = "idle"
  /\ UNCHANGED <<awsVars, obj, job, health, disturbed, events>>

\* A call refused for good: AccessDenied, a class that is not offered, ...
PermanentError ==
  /\ pc \in ApplyCalls \cup {"DeleteInstance"}
  /\ faults < MaxFaults
  /\ faults' = faults + 1
  /\ pc' = IF pc \in ApplyCalls THEN "applyFailed" ELSE "failed"
  /\ UNCHANGED <<awsVars, obj, job, health, disturbed, events>>

\* The same for the one call of a check.
CheckRefused ==
  /\ pc = "idle"
  /\ NeedsApplyCheck(obj) \/ NeedsDeleteCheck(obj)
  /\ faults < MaxFaults
  /\ faults' = faults + 1
  /\ pc' = "failed"
  /\ job' = Called
  /\ UNCHANGED <<awsVars, obj, health, disturbed, events>>

\* The same for the health check.
HealthRefused ==
  /\ pc = "idle"
  /\ obj.phase = "Ready" /\ ~obj.deleting
  /\ faults < MaxFaults
  /\ faults' = faults + 1
  /\ health' = "APIError"
  /\ UNCHANGED <<awsVars, obj, pc, job, disturbed, events>>

-----------------------------------------------------------------------------
(* The user.  The spec may be edited while the deletion is under way: a      *)
(* refused deletion may be retried with other settings.                      *)

EditSpec ==
  /\ obj.phase # "Gone"
  /\ obj.generation < MaxGeneration
  /\ \E s \in Specs \ {obj.spec} : obj' = Edited(obj, s)
  /\ UNCHANGED <<awsVars, pc, job, health, modelVars>>

RequestDeletion ==
  /\ ~obj.deleting
  /\ obj' = DeletionRequested(obj)
  /\ UNCHANGED <<awsVars, pc, job, health, modelVars>>

-----------------------------------------------------------------------------
(* AWS. *)

AwsOnly == UNCHANGED <<obj, pc, job, health, faults>>

\* An accepted modification begins when the instance is available.
ModificationStarts ==
  /\ status = "available" /\ class # target
  /\ status' = "modifying"
  /\ AwsOnly
  /\ UNCHANGED <<class, target, protected, secret, endpoint, creations, doomed, disturbed, events>>

\* What is under way comes to its end, good or bad.
AwsCompletes ==
  /\ \/ status = "creating"  /\ status' \in {"available", "backing-up"} \cup Broken
     \/ status = "modifying" /\ status' \in {"available", "storage-optimization"} \cup Broken
     \/ status \in (Changing \cup Transitional \cup Usable)
                     \ {"creating", "modifying", "available"}
        /\ status' = "available"
     \/ status = "stopping" /\ status' = "stopped"
     \/ status = "deleting" /\ status' \in {"none", "failed"}
  /\ class' = IF status = "modifying" /\ status' \notin Broken THEN target ELSE class
  /\ secret' = IF status' = "none" THEN 0 ELSE secret
  /\ protected' = (protected /\ status' # "none")
  /\ endpoint' = (status' \in Usable \/ (endpoint /\ status' # "none"))
  /\ doomed' = (doomed /\ status' # "none")
  /\ AwsOnly
  /\ UNCHANGED <<target, creations, disturbed, events>>

\* Something happens to a running instance: backups, maintenance, the operator
\* of the account.
AwsEvent ==
  /\ events < MaxEvents
  /\ events' = events + 1
  /\ status = "available"
  /\ status' \in (Usable \cup Transitional \cup Down \cup Changing)
                   \ {"available", "creating", "modifying", "starting", "stopped"}
  /\ AwsOnly
  /\ UNCHANGED <<class, target, protected, secret, endpoint, creations, doomed, disturbed>>

\* The operator brings an instance that is down up again.
Restored ==
  /\ \/ status = "stopped" /\ status' = "starting"
     \/ status = "storage-full" /\ status' = "modifying"
  /\ AwsOnly
  /\ UNCHANGED <<class, target, protected, secret, endpoint, creations, doomed, disturbed, events>>

\* Someone else deletes the instance.
DeletedByOthers ==
  /\ events < MaxEvents
  /\ events' = events + 1
  /\ status \notin {"none", "deleting"} /\ ~protected
  /\ status' = "deleting" /\ doomed' = TRUE
  /\ disturbed' = TRUE
  /\ AwsOnly
  /\ UNCHANGED <<class, target, protected, secret, endpoint, creations>>

-----------------------------------------------------------------------------

Apply ==
  \/ RejectSpec \/ StartApply
  \/ DescribeInstance \/ CreateInstance \/ ModifyInstance
  \/ CheckApplied

Delete == StartDelete \/ DeleteInstance \/ CheckDeleted

Reconcile == Apply \/ Delete \/ Record

Aws == ModificationStarts \/ AwsCompletes

Next ==
  \/ Reconcile \/ RetryDelete \/ CheckHealth
  \/ Interrupt \/ PermanentError \/ CheckRefused \/ HealthRefused
  \/ EditSpec \/ RequestDeletion
  \/ Aws \/ AwsEvent \/ Restored \/ DeletedByOthers

Spec == Init /\ [][Next]_vars

\* The work queue calls a handler that is due and a running one goes on; the
\* health check comes round; AWS finishes what it has begun.
Fairness == WF_vars(Reconcile) /\ WF_vars(CheckHealth) /\ WF_vars(Aws)

FairSpec == Spec /\ Fairness

-----------------------------------------------------------------------------
(* Properties *)

\* Every variable holds a value of its type.
TypeOK ==
  /\ status \in InstanceStatus \cup {"none"}
  /\ class \in Classes /\ target \in Classes
  /\ protected \in BOOLEAN /\ endpoint \in BOOLEAN /\ doomed \in BOOLEAN
  /\ secret \in Creation /\ creations \in Creation
  /\ obj \in Component(Specs, Status, 1 .. MaxGeneration)
  /\ pc \in {"idle", "DeleteInstance"} \cup ApplyCalls \cup Outcome
  /\ job \in Job
  /\ health \in {"", "Healthy", "APIError", "InstanceDeleted", "StorageFull", "Maintenance",
                 "Stopped", "Failed", "UnknownStatus"}
  /\ disturbed \in BOOLEAN
  /\ faults \in 0 .. MaxFaults
  /\ events \in 0 .. MaxEvents

Settled ==
  /\ obj.phase \in {"Deploying", "Ready"}
  /\ obj.observed = obj.generation
  /\ ~obj.deleting

AsRequested ==
  /\ exists
  /\ target = obj.spec.class
  /\ protected = Protection(obj.spec)

Reachable ==
  /\ obj.status.secretArn = secret
  /\ obj.phase = "Ready" => obj.status.endpoint

\* A Component whose apply succeeded has an instance that was asked to have the
\* class and the protection of its spec, and its status tells how to connect to
\* it: the secret ARN is that of the present instance's managed password, also
\* when the response that brought it first was lost or the instance took the
\* place of one that others deleted, and once Ready there is an address, which
\* AWS gives some time after the creation (applyAction, checkApplied,
\* updateStatusFromInstance).
ReadyMeansDelivered == Settled /\ ~disturbed => AsRequested /\ Reachable

\* A Component waits for the end of a deletion, or is gone, only if AWS accepted to
\* delete the instance: a refusal is never taken for a deletion under way, nor an
\* instance that failed before for one whose deletion failed.  Gone, it has no
\* instance left, or one that AWS tried to delete in vain: that one stays in the
\* account, on purpose (deleteAction; checkDeleted, operations.go:225-228).
NoInstanceLeftBehind ==
  /\ obj.phase \in {"Terminating", "Gone"} => ~exists \/ doomed
  /\ obj.phase = "Gone" /\ ~disturbed => status \in {"none", "failed"}

\* A deletion is refused by AWS only when the spec asks for protection or a final
\* snapshot, once that spec was applied: an edit that takes the protection off
\* does so, whatever the instance was doing meanwhile (modifyInstance's
\* ApplyImmediately, aws_rds.go:186-188).
RefusesOnlyAsAsked ==
  [][/\ pc = "DeleteInstance" /\ pc' = "failed" /\ faults' = faults
     /\ obj.phase \in {"Deploying", "Ready"}
     /\ obj.observed = obj.generation /\ job.generation = obj.generation
     => Protection(job.spec) \/ ~boolValue(job.spec.skipFinalSnapshot)]_vars

\* Ready is not taken back by the first health check: what the apply check calls
\* deployed, the health check calls healthy, unless it gets no answer
\* (checkApplied, checkHealth).
ChecksAgree ==
  [][health' # health /\ DeploymentOf(status) = "ready" =>
       health' \in {"Healthy", "APIError"}]_vars

\* The loss of the instance of a Ready Component is eventually reported, unless it
\* is edited or deleted (checkHealth).
LossIsReported ==
  obj.phase = "Ready" /\ ~exists ~>
    \/ health = "InstanceDeleted"
    \/ obj.phase # "Ready" \/ obj.deleting \/ exists

DeletionEnds ==
  obj.deleting ~> obj.phase \in {"Gone", "Failed"}

\* A Component may be Ready before AWS has begun the modification that was asked
\* for, since the instance is still available then; but then the modification
\* follows, unless the instance breaks, is down or is deleted, or the Component is
\* edited or deleted (checkApplied, modifyInstance's ApplyImmediately).
EffectFollows ==
  obj.phase = "Ready" /\ Settled ~>
    \/ class = obj.spec.class
    \/ status \in Broken \cup Down \cup {"none", "deleting"}
    \/ ~Settled \/ disturbed

EditsAreAnswered ==
  obj.observed # obj.generation ~>
    \/ obj.observed = obj.generation /\ obj.phase \in {"Ready", "Failed"}
    \/ obj.deleting

\* A requested deletion comes to an end, the Component is gone or it has failed;
\* an edit of the spec is eventually applied and out of AWS's hands, failed, or
\* overruled by a deletion (the handlers and the statuses that they wait in).
RequestsAreAnswered == DeletionEnds /\ EditsAreAnswered

-----------------------------------------------------------------------------
(* Why they hold: an invariant that every step preserves. *)

\* A running handler works on the spec of its generation; an apply is ahead of
\* what was observed and does not run once a deletion has begun; a check is run
\* in the phase that waits for it.
HandlerFits ==
  /\ obj.observed <= obj.generation
  /\ pc # "idle" =>
       /\ job.generation <= obj.generation
       /\ job.generation = obj.generation => job.spec = obj.spec
  /\ pc \in ApplyCalls \cup {"applied", "applyFailed"} => obj.observed < job.generation
  /\ pc \in ApplyCalls \cup {"applied", "applyFailed", "DeleteInstance", "deleteStarted"} =>
       obj.phase \notin {"Terminating", "Gone"}
  /\ pc \in {"DeleteInstance", "deleteStarted", "gone"} => obj.deleting
  /\ pc = "ready" => obj.phase = "Deploying"
  /\ pc = "waiting" => obj.phase \in {"Deploying", "Terminating"}
  /\ pc = "gone" => obj.phase = "Terminating"

\* Each creation costs an apply its success or a fault, so that there are
\* secrets enough in Creation to tell the instances apart.
CreationsAreCounted ==
  creations <= 1 + obj.observed + faults + (IF pc = "applied" THEN 1 ELSE 0)

\* A usable instance has an address; one without a secret was there before the
\* Component, so that no secret was ever heard of.
InstanceIsWhole ==
  /\ status \in Usable => endpoint
  /\ exists /\ secret = 0 => obj.status.secretArn = 0 /\ job.status.secretArn = 0

\* The protection that an apply took off stays off, whatever others do.
Unprotected ==
  /\ pc = "applied" => (protected => Protection(job.spec))
  /\ obj.phase \in {"Deploying", "Ready"} /\ obj.observed = obj.generation =>
       (protected => Protection(obj.spec))

\* There is an instance, nobody deletes it, and it was asked to be what s says.
Stands(s) ==
  /\ status \notin {"none", "deleting"}
  /\ target = s.class
  /\ protected = Protection(s)

\* What an apply has asked for stands from its last call through its recording
\* and the checks that follow, until someone else deletes the instance.
ApplyStands ==
  ~disturbed =>
    /\ pc = "applied" => Stands(job.spec) /\ job.status.secretArn = secret
    /\ Settled => Stands(obj.spec) /\ Reachable
    /\ Settled /\ pc \in {"ready", "waiting"} => job.status.secretArn = secret
    /\ pc = "ready" => job.status.endpoint

\* An accepted deletion only ever comes to its end, or to a failure of AWS.
DoomFits ==
  /\ doomed => status \in {"deleting", "failed"}
  /\ status = "deleting" => doomed

\* A handler, and the Component after it, believes in a deletion only if AWS
\* accepted one.
DeletionStands ==
  /\ pc = "deleteStarted" \/ obj.phase \in {"Terminating", "Gone"} => ~exists \/ doomed
  /\ ~disturbed /\ (pc = "gone" \/ obj.phase = "Gone") => status \in {"none", "failed"}

\* The inductive invariant behind ReadyMeansDelivered, NoInstanceLeftBehind and
\* RefusesOnlyAsAsked (applyAction, checkApplied, deleteAction, checkDeleted).
Inv ==
  /\ TypeOK
  /\ HandlerFits /\ CreationsAreCounted /\ InstanceIsWhole
  /\ Unprotected /\ ApplyStands /\ DoomFits /\ DeletionStands

=============================================================================
