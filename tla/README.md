# Verification of the AWS providers

The repository holds four providers for the componator framework. Each one turns
a `Component` object of a Kubernetes cluster into something in an AWS account: a
customer-managed IAM policy, an IAM role, a secret, a database instance. A
provider is four functions (apply, checkApplied, delete, checkDeleted) that the
framework's reconciler calls one at a time per Component, again and again, with
what was persisted before; everything else they know they have to read from AWS,
where others may change it at any time.

This directory holds TLA+ models of the providers, the TLC runs that check them
and the proofs that TLAPS checks.

## Inventory

| part | state it keeps | operations | what makes it hard |
| --- | --- | --- | --- |
| iam-policy (`src/iampolicy`) | `IamPolicyStatus` in the Component: ARN, id, name, current version; in AWS: up to five versions of a document, one of them the default | `applyAction` (list, create, or read, compare, prune, create a version), `checkApplied`, `deleteAction` (delete the versions, then the policy), `checkDeleted` | up to six calls per apply with state read before others act on it; a limit; a deletion in many steps; results that are never recorded |
| iam-role (`src/iamrole`) | `IamRoleStatus`: ARN, id, name, attached policies; in AWS: the trust policy and the set of attachments | `applyAction` (create, or update the trust policy, then `reconcilePolicyAttachments`), `checkApplied`, `deleteAction` (detach all, delete), `checkDeleted` | partial failures that have to be reported; the order of detaching and attaching; outsiders that attach and detach |
| rds (`src/rds`) | `RdsStatus`: instance status, ARN, endpoint, secret ARN; in AWS: an instance with a life cycle of some twenty-five statuses | `applyAction` (create or modify), `checkApplied`, `deleteAction`, `checkDeleted`, `checkHealth` | the instance moves on its own; calls that AWS refuses in some statuses; a deletion that is refused under the default settings |
| secret-push (`src/secretpush`) | `SecretPushStatus`: ARN, name, version, field count; in AWS: a secret | `applyAction` (generate, describe, create or update), `deleteAction`; no checks | passwords generated anew on every attempt; check-then-act on the secret's existence; retained secrets |
| manager (`src/cmd/main.go`, the four `register.go`) | the provider names it has controllers for; in the cluster: the lease of its leader election | flags, registration of the four providers under their names, leader election, start, stop | several managers in one cluster: replicas, prefixes, a lease that changes hands while handlers run |
| componentkit (dependency) | the Component: phase, spec, generation, observed generation, persisted status | decides which handler is due, records its result | recording may fail after the handler has acted |
| manifests, bundle, e2e tests | none | none | none |

The parts interact in three places. The reconciler calls the handlers and
persists their results; there is one call at a time per Component, which the
provider modules take for granted and `Managers` shows of the managers that a
cluster may run. Components may name the same AWS object: two Components of one
provider (`IamPolicy`, `SecretPush`), or a role of the iam-role provider that has
the policy of the iam-policy provider attached (`IamStack`). And managers share
the lease of their leader election (`Managers`). AWS's
SDK does not retry (`register.go:51-53` of each provider sets one attempt): a retryable error ends the handler's run and the next run starts over.

What makes each part correct:

- *iam-policy*: what is reported as applied is in force; an update never leaves a
  moment without a policy and never brings back an unwanted document; pruning
  spares the default and the younger versions; a deletion that was reported is
  one; deletions of one policy do not hinder each other.
- *iam-role*: what is reported as applied is in place, a partial failure reports
  what is attached, unwanted rights go before new ones come, no role is left.
- *rds*: an instance is ready only when it is usable, a retried creation is no
  failure, a deletion completes, health reports agree with the apply check.
- *secret-push*: an existing secret's passwords change only when the spec says so,
  no empty password is written, a retained secret stays.
- *role and policy together*: a role in place has its rights, the role can be
  deleted whatever the policy's Component does, and the policy after it.
- *manager*: replicas never run two handlers of one Component, every Component whose provider is deployed is seen to.

`PROJECT.json` lists the hazards one by one with their lines.

## Modules

| module | models |
| --- | --- |
| `ComponentKit` | the Component object and the reconciler's rules as pure operators (external: written from how the providers use the framework) |
| `IamPolicy` | `src/iampolicy`: any number of Components that name one policy |
| `PolicyPromise` | what the iam-policy provider promises the users of the policy, without calls, versions or status: the abstract specification |
| `MCIamPolicy` | model values, symmetry and the statement of a comment |
| `IamPolicyProofs` | the theorems about `IamPolicy`, its refinement of `PolicyPromise` among them |
| `IamRole` | `src/iamrole`: one Component, with outsiders in the account |
| `RolePromise` | what the iam-role provider promises the users of a role: the abstract specification |
| `MCIamRole` | values for its runs and the order of the plan |
| `IamRoleProofs` | the theorems about `IamRole`, its refinement of `RolePromise` among them |
| `IamStack` | `src/iampolicy` and `src/iamrole` side by side: instances of `IamPolicy` and `IamRole` that share the attachment |
| `MCIamStack` | values for its run |
| `IamStackProofs` | the theorems about `IamStack`, on top of the two before |
| `SecretPush` | `src/secretpush`: any number of Components that name one secret |
| `MCSecretPush` | values and symmetry |
| `SecretPushProofs` | the theorems about `SecretPush` |
| `Rds` | `src/rds`: one Component, its instance with a life of its own, the health check |
| `MCRds` | configurations and the statements of comments |
| `RdsProofs` | the theorems about `Rds` |
| `Managers` | `src/cmd/main.go` and the four `register.go`: any number of managers, their names, leader election, crashes, stops and restarts |
| `HandlerCalls` | what the provider modules assume of whoever calls the handlers of a Component: the abstract specification of `Managers` |
| `MCManagers` | deployments and Components for its run |
| `ManagersProofs` | the theorems about `Managers`, its refinement of `HandlerCalls` among them |

### How the models are built

A step is one call to AWS, from the request to the decision taken on the
response; between two calls anything else may happen. `pc[c]` names the call
that c's handler makes next (`"idle"`: no handler is running), and `job[c]` holds
the local variables that later steps read. When a handler returns, `pc[c]` is one
of the outcomes (`"applied"`, `"applyFailed"`, `"ready"`, `"failed"`,
`"deleteStarted"`, `"gone"`), and the step `Record` persists it with the operators of
`ComponentKit`. `Interrupt` stands for everything that ends a run without a
record: a retryable error, a response that was lost after the call took effect, a
status update that failed, a manager that died. `PermanentError` and `CheckRefused`
stand for a call that AWS refuses for a reason the model does not know
(AccessDenied, a malformed document). The user edits the spec (`EditSpec`, which
bumps the generation) and asks for the deletion at any time.

A document is a model value, and equality of documents is the equality of their
parsed JSON. What AWS returns is percent-encoded: `URLEncoded(d)` is not a document
the code can parse, and `jsonEquals`, given it, is false as it is in the code.

`IamPolicy` keeps, for AWS, the document of each version (`text`), the default
version, the last number handed out (`issued`) and whether some role has the
policy attached; version numbers start again at 1 when a policy is created anew.
`overtaken` is bookkeeping: the Components whose policy another one wrote since
their last apply or delete began. Properties of one Component are stated for
those that are not overtaken, and joint properties for all. `renewed` is
bookkeeping as well: the deletions for which a version was created since
`ListForDelete`, and which may therefore be refused (`DeletionsDoNotCollide`).

| code | steps of `IamPolicy` |
| --- | --- |
| `applyAction`, `resolveSpec` | `RejectSpec`, `StartApply` |
| `getPolicyByName` | `ListPolicies` |
| `createPolicy` | `CreatePolicy`, `CreatePolicyConflict` |
| `getCurrentPolicyDocument`, `createPolicyVersion` | `GetPolicy`, `GetPolicyVersion`, `CreateVersion`, `CreateVersionRefused` |
| `deleteOldestPolicyVersion` | `ListVersions`, `DeleteOldest` |
| `checkApplied` | `CheckApplied`, `CheckRefused` |
| `deleteAction` | `StartDelete`, `RetryDelete`, `GetForDelete` |
| `deletePolicyAllVersions` | `ListForDelete`, `DeleteOneVersion` |
| `deletePolicy` | `DeletePolicy` |
| `checkDeleted` | `CheckDeleted`, `CheckRefused` |

`IamRole` keeps the trust policy and the set of attached policies; `job.listed` is
the listing `reconcilePolicyAttachments` started from, `job.actual` its
`actuallyAttached`. An outsider may attach and detach policies and delete the bare
role (`Outside`); `disturbed` says that one did since the last run began. The next
policy to attach or detach is the least of the remaining ones, as the code sorts
them; a deletion takes them in the order of the listing, which is any order.

| code | steps of `IamRole` |
| --- | --- |
| `applyAction`, `resolveSpec` | `RejectSpec`, `StartApply` |
| `getRoleByName`, `createRole`, `updateTrustPolicy` | `GetRole`, `CreateRole`, `UpdateTrust` |
| `reconcilePolicyAttachments` | `ListAttached`, `Detach`, `Attach` (`Onward` between them) |
| `checkApplied`, `checkDeleted` | `CheckApplied`, `CheckDeleted`, `CheckRefused` |
| `deleteAction` | `StartDelete`, `RetryDelete`, `GetForDelete`, `ListForDelete`, `DetachForDelete`, `DeleteRole` |

`RolePromise` says what of all this a user of the role sees: trust and policies
change one at a time towards the spec of the running apply (its *claim*), nothing
is granted before everything unwanted is revoked, nothing wanted is revoked, and
the role goes, bare, only after its deletion was requested. `IamRole!KeepsPromise`
is the refinement; the claim is the spec of the handler that is between two calls
of an apply, and the calls of outsiders are the promise's `Interfere`.

Revoking before granting is the order of the code ("Detach removed policies first
(cleanup before adding)", `aws_iamrole_reconcile.go:75`). The provider's plan has
the opposite order: "Attach missing policies", then "Detach removed policies"
(`docs/plans/iam-role-handler.md:131-132`, and the example in lines 201-203 attaches
`policy-b` before it detaches `policy-d`). The two promise different things. In the code's order
the role never has the old rights and the new ones together, and for a while it
lacks some that it is to have; in the plan's it is the other way round. The models
follow the code, `RolePromise` states the code's promise, and the run `role_order`
shows the plan's (`AttachesFirst`) violated.

`meddled` is bookkeeping: the policies that others attached or detached since the
running apply listed what is attached. What the handler reports, after success and after
a failure, is what is attached up to these (`StatusReflectsReality`): the code
does not look again, and on all other policies a report is exact.

`IamStack` adds nothing to the handlers: `PolicyStep` is a step of `IamPolicy`, `RoleStep` one
of `IamRole`, with `attached` of the first standing for "the managed policy is in
`attached` of the second". What AWS adds is the dependency between the two: a
policy that does not exist cannot be attached (`AttachMissing`: NoSuchEntity, which
is not retryable, fails the apply with what is attached so far), and a policy that
is attached cannot be deleted (already in `IamPolicy`). Outsiders act on the role as in
`IamRole`; what is promised of a role is promised while it is not `disturbed`.

`SecretPush` keeps the ARN of the secret (0 while there is none; a secret created
anew has another ARN), its current version and what each field holds. All
passwords are one value, `Password`: two of them differ when the versions that
hold them do, and that is what `PasswordsStay` is about; `Empty` is the empty
string. `buildSecretData` is one step with the choice of the fields for which
`GetRandomPassword` fails (nothing is decided between the calls, and the secret is
not looked at yet). The provider registers no checks, so `Record` makes an
applied Component Ready and a deleted one Gone at once. `disturbed` are the
Components whose secret another one wrote or deleted, or whose spec was edited,
since their last apply or delete began.

| code | steps of `SecretPush` |
| --- | --- |
| `applyAction`, `resolveSpec`, `resolveEnumValue` | `RejectSpec` |
| `buildSecretData`, `getRandomPassword` | `BuildSecretData` (`Data`) |
| `findSecret` and the choice by `updatePolicy` | `FindSecret` |
| `createSecret`, `updateSecret` | `CreateSecret`, `UpdateSecret` |
| `deleteAction`, `deleteSecret` | `StartDelete`, `RetryDelete`, `DeleteSecret` |

`Rds` keeps the status of the instance by its name in the code, the class in
effect and the class asked for (the class stands for everything a modification
can change), deletion protection, whether it has an endpoint yet (it has one from
the first time it is usable), and which secret holds its managed password: each
instance that is created gets a secret of its own, numbered by `creations`, so
that an ARN kept from an earlier instance can be told from the right one. The
environment is AWS: `ModificationStarts` and `AwsCompletes` are what it does with
what it accepted, `AwsEvent` what befalls a running instance, `Restored` what an
operator does about one that is down, `DeletedByOthers` a deletion from outside. AWS
refuses a modification in states `creating` and
`deleting`, accepts it in `available`, and may do either in the others. `doomed` is
bookkeeping: AWS has accepted to delete this instance. A Component does not go, nor does
the provider wait for a deletion, while there is an instance that AWS was not told to
delete (`NoInstanceLeftBehind`). An instance whose deletion AWS began and did not finish
(status `failed`) does stay behind: the code says so, "Deletion failed, but don't
block cleanup" (`operations.go:226`). Three
operators translate the three switches over the statuses: `DeploymentOf`
(`checkApplied`), `DeletionOf` (`checkDeleted`) and `HealthOf` (`checkHealth`).

| code | steps of `Rds` |
| --- | --- |
| `applyAction`, `resolveSpec`, `applyDefaults` | `RejectSpec`, `StartApply` (`Protection`) |
| `getInstanceData` in `applyAction` | `DescribeInstance` |
| `createInstance`, `modifyInstance` | `CreateInstance`, `ModifyInstance` |
| `checkApplied`, `checkDeleted` | `CheckApplied`, `CheckDeleted`, `CheckRefused` |
| `checkHealth` | `CheckHealth`, `HealthRefused` |
| `deleteAction`, `deleteInstance` | `StartDelete`, `RetryDelete`, `DeleteInstance` (`boolValue`) |
| `updateStatusFromInstance`, `endpointAddress` | `Updated`, in each of the steps above that reads an instance |

`Managers` gives every manager the phases of `main()`: `"down"`, `"registering"` with
the providers that are left, `"electing"`, `"active"`, `"stopping"`. A provider name is
the base name or the pair of prefix and base name. A lease has a holder and an
age, the time since it was last renewed: the leader renews it, gives up when it
could not for `RenewDeadline` (`mgr.Start` returns an error, `os.Exit(1)`), and a candidate
takes it at the age of `LeaseDuration`, which client-go requires to be longer. A
handler is one number, `running[m][c]`: the generation of c that manager m is
working on. What a handler does is the provider modules' matter; a handler of a
process that ends is lost, as `Interrupt` says there.

| code | steps of `Managers` |
| --- | --- |
| flags, `ctrl.NewManager` | `Launch` (`Flags`, `LeaseOf`) |
| `buildProviderName`, `Register` of the four packages | `Register` (`NameFor`), `RegisterFails` |
| `mgr.Start` | `Start`, `Acquire`, `Renew`, `LoseLease` |
| the controllers the providers registered | `Call`, `Return` |
| `ctrl.SetupSignalHandler`, `LeaderElectionReleaseOnCancel` left off, the end of `main` | `Signal`, `Exit`, `Crash` |

`HandlerCalls` has one Component's generation, observed generation and running
call; `Managers!CallsHandlers` says that each well served Component's calls, whichever
manager makes them, are a behaviour of it. A Component is well served
(`WellServed`) when at least one manager is deployed for its provider name, all of
them are electing replicas in one namespace (or there is only one), and no manager
with another prefix contends for their lease. The last condition is not idle:
`LeaderElectionID` is a constant (`main.go:132`), so managers with different prefixes
that elect in one namespace contend for one lease, and while one of them leads,
the Components of the other wait. The text of the flag (`main.go:65-68`) recommends
prefixes for several instances in one cluster and says nothing of that; electing
instances need namespaces of their own.

## Runs

| run | checks | bounds |
| --- | --- | --- |
| `policy_one` | the inductive invariant, `ReadyMeansApplied`, `NoPolicyLeftBehind`, `PrunesOnlyTheOldest`, `RequestsAreAnswered`, `PolicyIsAccountedFor`, refinement of `PolicyPromise!FairSpec` | 1 Component, 2 good documents and a bad one, limit 3, 3 generations, 2 faults |
| `policy_two` | the inductive invariant, `SettledOnSomeonesSpec`, `RoomForNewVersion`, `DeletionsDoNotCollide`, refinement of `PolicyPromise!Spec` | 2 Components, 2 documents, limit 2, 2 generations each |
| `role_one` | the inductive invariant, `ReadyMeansInPlace`, `StatusReflectsReality`, `NoRoleLeftBehind`, `RequestsAreAnswered`, refinement of `RolePromise!Spec` | 3 policies, 2 trust policies (a spec without policies is refused), 2 generations, 1 fault, 1 outsider's call |
| `secret_two` | the inductive invariant, `ReadyMeansWritten`, `NoSecretLeftBehind`, `SecretIsAccountedFor`, `PasswordsStay`, `OthersSecretsStay` | 2 Components, 5 configurations (2 refused), 6 versions, 2 generations each, 1 fault |
| `rds_one` | the inductive invariant, `ReadyMeansDelivered`, `NoInstanceLeftBehind`, `ChecksAgree`, `RefusesOnlyAsAsked`, `RequestsAreAnswered`, `LossIsReported`, `EffectFollows` | 4 configurations (1 refused), all 25 statuses, 2 generations, 1 fault, 1 event |
| `stack` | `StackInPlace`, `RoleDeletionSucceeds`, `PolicyFollowsRole`, `RoleFollowsPolicy` | 1 policy with 2 documents and limit 2, 1 role with 2 policies, 1 edit of the role, no faults |
| `managers` | the inductive invariant, `OneHandler`, `CallsHandlers`, `ServesComponents` | 2 managers, 6 deployments, 2 Components of different provider names, 2 generations each, 2 faults |

Five more runs are expected to find a violation; each shows that a comment or a
document says something else than the code does.

| run | shows |
| --- | --- |
| `policy_unchanged` | an unchanged document makes a new version on every apply, since the encoded document is never equal to the plain one; at the limit this also deletes the oldest version |
| `role_order` | an apply detaches what is no longer wanted before it attaches what is new, so for a while the role lacks policies that it is to have; the plan of the provider has them attached first |
| `secret_empty` | when no password can be generated an empty one is written |
| `rds_repeat` | an apply that is repeated while the instance is being created fails for good |
| `rds_snapshot` | an instance that a Component has created without a snapshot name and without `skipFinalSnapshot`, and that is available and no longer protected, cannot be deleted: the deletion asks for a snapshot with an empty name |

Why the bounds are enough. The limit on versions matters when it is reached, and a
limit of 2 or 3 with an initial policy of any size up to it reaches it in the
first apply; with 3 there is a choice between two versions to prune. Three
generations give an edit during an apply and one after it. `MaxVersionId` is large
enough never to block `CreateVersion` in any of the runs (the number of applies is
bounded by generations and faults, and numbers are to spare). Two faults let
an interrupted run be followed by another interrupted or refused one. With two
Components of `IamPolicy` the state space is large, and `policy_two` has no faults;
the other Component's calls are interruption enough, and faults are in
`policy_one` (which has one Component: that pruning spares the default and the younger
versions when others write too is the theorem `PrunesTheOldest`). Three
policies give a role two detaches or two attaches in a row, so that a failure
falls between them. Two fields give a secret one static and one generated field.
`MaxWrites` counts the versions of a secret and never blocks a write: each apply
writes once, and applies are bounded by generations and faults. One event, what AWS
does on its own and what is done about it take an instance through every status. Faults of an outsider are bounded because an outsider that
never stops can starve any deletion.

In `stack` the interleavings of the two handlers are the point; faults, outsiders
and edits of the policy are left to the runs of the parts, and the model has
bounds for them (the theorems of `IamStackProofs` cover faults and outsiders;
with them TLC takes too long to check the liveness properties). In
`managers` a RenewDeadline of 1 and a LeaseDuration of 2 are the smallest numbers
that the assumption allows: one tick after which the leader must have gone, and
one more until somebody else may come. Two faults let a takeover be followed by another. The six
deployments are: replicas that elect, replicas that do not, one of each, and two
prefixes that elect in one namespace, elect in two, or do not elect.

No run checks for deadlock: when all Components are gone or have failed and no
edits are left, the system really stops.

### Fairness

`FairSpec` assumes weak fairness of `Reconcile(c)`, the steps the reconciler takes on
its own: a handler that is due is called again until it returns something else
(the work queue requeues), a handler that runs makes its next call, and a result
is eventually recorded. Nothing is assumed of the user, of faults, of outsiders,
or of another attempt after a failed deletion (`RetryDelete` is not part of
`Reconcile`). `Rds` assumes besides that the health check comes round (it is
registered with an interval of a minute, `register.go:73-74`) and that AWS
finishes what it has begun; nothing is assumed of events. An instance that was
stopped stays stopped for all the model knows, and the edit is answered
nevertheless, because the apply check calls it a failure. `EffectFollows` rests on the
same assumption: an available instance begins the modification it accepted.

`IamStack` has one work queue for each provider, and `Managers` assumes that the
kubelet starts a manager that has ended, that `main()` goes on, that time passes, that
a leader keeps trying to renew, and that work queues are served. It assumes
nothing of candidates beyond that: whichever of two replicas takes the lease, the
property holds. A call to AWS is taken to be over when its process is; one that
is still on the wire when a leader has lost its lease is assumed to be answered
within the difference of the two lease times.

## Proofs

Six modules of proofs, one per component and one for the composition. Nothing in
them depends on a bound: they hold for any sets of Components, documents, policies,
managers and configurations and any values of the bounds that satisfy the named
assumptions of the modules. The assumptions say what kind of value each constant
is (`DocsAssumption`, `RoleDataAssumption`, `SecretDataAssumption`, `RdsAssumption`,
`ManagersAssumption`, ...), that bounds are natural numbers, that a percent-encoded
document is not a document (`EncodingAssumption`, `RoleEncodingAssumption`: the reason why
the branch "document unchanged" is never taken, lemma `NeverEqual`), that the service
allows at least two versions (`LimitAssumption`; it allows five), that the value for
"no role" is neither a trust policy nor a spec, and that `RenewDeadline` is less than `LeaseDuration`
(`LeaseAssumption`; client-go refuses to start otherwise). `StackDataAssumption` and
`StackBoundsAssumption` are those of the two parts of `IamStack`.

Each component states an inductive invariant `Inv`, which its run checks as well (that
of `IamStack` was checked once, with an outsider's call and without the liveness
properties; it is too large to be checked every time). None
of the properties is inductive as it stands, for two reasons that recur. A
property speaks of what has been recorded, and the step that records a result can
only be known to be right if the result was right while it was waiting: so `Inv`
says the same of the outcome that is not recorded yet, and of each call before it
what the handler has achieved so far. And it has to be excluded that a run which
began earlier undoes a later result: so `Inv` ties a running handler to its
Component (`HandlersFit`, `HandlerFits`: an apply is ahead of the observed
generation, carries the spec of its generation, a deletion runs only for a
Component under deletion).

| module | theorems | what the invariant adds |
| --- | --- | --- |
| `IamPolicyProofs` | `TypeCorrect`, `Invariance`, `AppliedIsInForce`, `DeletedIsGone`, `RoomIsMade`, `SettlesOnSomeonesSpec`, `PrunesTheOldest`, `DeletionsGoTogether`, `PoliciesAreAccountedFor`, `KeepsThePromise` | `PolicyFits`: the default is the youngest version. `PruneFits`: what an apply is about to remove is still the oldest, or gone. `RemovalFits`: what is left of the listed versions is what the deletion has yet to remove. `Served`: some Component does not wait for another document |
| `IamRoleProofs` | `TypeCorrect`, `Invariance`, `ReadyIsInPlace`, `StatusIsReal`, `GoneIsGone`, `KeepsItsPromise` | `Halfway`: where `reconcilePolicyAttachments` is between detaching and attaching. `BelievesRight`: what the handler believes attached is attached, up to what others did since it looked. `Unimpeded`: a deletion finds what it expects, as long as nobody else interferes |
| `SecretPushProofs` | `TypeCorrect`, `Invariance`, `ReadyIsWritten`, `GoneIsGone`, `SecretsAreAccountedFor`, `PasswordsAreKept`, `OthersSecretsAreKept` | `ArnIsKept`: no ARN is handed out twice, and a handler that returns does not lose it |
| `RdsProofs` | `TypeCorrect`, `Invariance`, `ReadyIsDelivered`, `GoneIsGone`, `RefusalsAreAskedFor`, `ChecksDoAgree` | `Unprotected`: protection taken off stays off, whatever others do. `CreationsAreCounted`: each creation costs an apply's success or a fault, so there are secrets enough to tell instances apart. `DoomFits`, `DeletionStands`: a Component waits for a deletion, or goes, only if AWS accepted it or there is no instance |
| `ManagersProofs` | `TypeCorrect`, `Invariance`, `OneHandlerAtATime`, `ManagersCallHandlers` | `LeadersHold`: an elected manager that runs holds its lease and renewed it in time |
| `IamStackProofs` | `Invariance`, `StackIsInPlace`, `RoleCanBeDeleted`, `PromisesAreKept` | `AttachedIsThere`: what is attached exists |

Three of the results are refinements, initial state and step by step:
`KeepsThePromise` (`IamPolicy` implements `PolicyPromise`, any number of Components),
`KeepsItsPromise` (`IamRole` implements `RolePromise`) and `ManagersCallHandlers`
(`Managers` implements `HandlerCalls` for every well served Component).

The proof that a step keeps `Inv` is done in two parts where several Components
share an object: what the step does to its own Component (`OwnFit`, `OwnStands`,
`OwnDeletion`), one case per action, and what it does to everybody else
(`OthersUndisturbed`, `OthersStep`): whoever writes the object marks the others as
overtaken, and whoever does not leaves it alone. `PruneStep`, `RemovalStep` and `SomeoneServed` are about
the Components that *are* overtaken. They rest on lemmas about the policy
(`CreateGives`, `AddGives`, `RemoveGives`, `DeletePolicyGives`, `PolicyUntouched`: what each call makes of versions and
default) and about cardinalities (`OneMore`, `OneLess`).

`DeletionsGoTogether` is a result that needed bookkeeping in the model: a deletion lists
versions by number, and numbers start again at 1 when the policy is created anew, so that with three
Components a number on the list may come to mean a version that was made after
the listing. `renewed` tells these deletions apart: those for which a version
was created since they listed.

`IamStackProofs` repeats nothing of the two providers. Its steps are steps of
`IamPolicy` with one Component or of `IamRole`, so it instantiates the two proof
modules and uses their lemmas (`PolicyGoesOn`, `RoleGoesOn`); what it has to prove is
that the other provider's step leaves an invariant alone (`PolicyFrame`, `RoleFrame`), that
the one step that belongs to neither, `AttachMissing`, keeps it
(`MissingGoesOn`), and that the policy of an attachment cannot go away.

Only model-checked: the liveness properties, which are out of the prover's reach
(`RequestsAreAnswered` of `IamPolicy`, `IamRole` and `Rds`, the fairness of
`KeepsPromiseFairly`, `LossIsReported` and `EffectFollows` of `Rds`, `PolicyFollowsRole` and
`RoleFollowsPolicy` of `IamStack`, `ServesComponents` of `Managers`). Every safety property
of a passing run is proved.

## Not modelled

- The names: a change of `policyName`, `path`, `roleName`, `secretName` or
  `instanceID` after the first apply makes the provider work on another object and forget the first one.
- Attributes that are written at creation only (tags, description, session
  duration, keys, storage and network of an instance): there is no step that changes them, in the code or in the model.
- The second page of a role's attachments (`aws_iamrole.go:51`): a page holds 100 and
  AWS allows at most 20 managed policies on a role, so there is none. The
  policy's listing, where there may be one, has a constant for it (`OnFirstPage`); the
  runs have it true, and the theorems hold for both values. `getPolicyByName` reads one page and ignores `IsTruncated`
  (`aws_iampolicy.go:38`): a policy on a later page is taken for missing, `applyAction`
  goes on to "Policy doesn't exist - create it" (`operations.go:38`), and `CreatePolicy`
  fails for good with EntityAlreadyExists.
- Edits of an instance that `ModifyDBInstance` is not given (engine, storage type,
  network), or that remove an optional field, which is then left out of the
  request: they are applied without effect, and the model's `class` stands for what
  a modification does change.
- Port and zone in `RdsStatus`: they follow the endpoint.
- What becomes of an object whose creation was never recorded because of a fault, and
  whose Component is deleted next: `deleteAction` finds no ARN in the status and the
  policy (`iampolicy/operations.go:118`) or secret (`secretpush/operations.go:93`) stays in
  the account, against "Policies deleted cleanly, no orphaned resources"
  (`docs/plans/iam-policy-handler.md:282`). `PolicyIsAccountedFor` and
  `SecretIsAccountedFor` say that a fault is the only way to get there.
- The parameters of a generator: they are passed on to AWS.
- Eventual consistency of AWS: a call sees what earlier calls wrote.
- The manager's metrics, certificates, probes and logging; API server outages other
  than as a lost lease or a failed start; manifests and tests: no behaviour of
  their own.
- Two managers that serve one provider name without electing, or with leases in
  different namespaces: `register.go:29-30` forbids it, `Exclusive` and `WellServed` exclude it, and the
  provider modules do not cover two handlers of one Component at once.

## Plan

The order was: the provider with the most calls and shared state first
(`IamPolicy`, its abstract specification and its proofs), then `IamRole`,
`SecretPush` and `Rds`, then what connects them (`IamStack`, `Managers`, `RolePromise`,
`HandlerCalls`), then the proofs, in the order of the dependencies: the managers,
on which one call at a time per Component rests, the four providers, the stack.
What is left:

1. Abstract specifications of a secret and of an instance in the style of
   `PolicyPromise`, with their refinements and proofs.
2. Renaming: names as part of the spec, and what becomes of the object of the old
   name.
