----------------------------- MODULE SecretPush ------------------------------
(***************************************************************************)
(* The secret-push provider (src/secretpush): the handlers apply and       *)
(* delete of one or more Components that name the same secret of AWS       *)
(* Secrets Manager, one step per call to AWS.  The provider registers no   *)
(* checks: what a handler reports is final.                                *)
(***************************************************************************)
EXTENDS ComponentKit, FiniteSets

CONSTANTS
  Components,     \* the Components naming the secret
  Fields,         \* field names
  Values,         \* static values
  Generator,      \* a field whose value is to be generated
  Absent,         \* a field that is not in the secret
  Malformed,      \* a field with a value and a generator, or neither
  Password,       \* what GetRandomPassword returns; no two are the same, and
                  \* the version of the secret tells them apart
  Empty,          \* the empty string
  Specs,          \* the configurations the users choose from
  MaxWrites,      \* BOUND on the versions AWS hands out
  MaxGeneration,  \* BOUND on the edits of each spec
  MaxFaults       \* BOUND on interruptions and failing calls

UpdatePolicies   == {"", "IfNotExists", "AlwaysUpdate"}
DeletionPolicies == {"", "Delete", "Retain"}

SecretPushSpec ==
  [fields : [Fields -> Values \cup {Generator, Absent, Malformed}],
   update : UpdatePolicies \cup {"unknown"},
   deletion : DeletionPolicies \cup {"unknown"}]

ASSUME SecretDataAssumption ==
  /\ Specs \subseteq SecretPushSpec
  /\ {Generator, Absent, Malformed, Password, Empty} \cap Values = {}
  /\ Cardinality({Generator, Absent, Malformed, Password, Empty}) = 5

ASSUME SecretBoundsAssumption ==
  MaxWrites \in Nat \ {0} /\ MaxGeneration \in Nat \ {0} /\ MaxFaults \in Nat

\* resolveSpec accepts the configuration.
Resolves(s) ==
  /\ \E f \in Fields : s.fields[f] # Absent
  /\ \A f \in Fields : s.fields[f] # Malformed
  /\ s.update \in UpdatePolicies
  /\ s.deletion \in DeletionPolicies

\* resolveEnumValue makes "" the default, IfNotExists.
AlwaysUpdate(s) == s.update = "AlwaysUpdate"

Content == [Fields -> Values \cup {Absent, Password, Empty}]
NoContent == [f \in Fields |-> Absent]

Generated(s) == {f \in Fields : s.fields[f] = Generator}

\* Mutation: the generators are passed on.
DataUngenerated(s, failing) == [f \in Fields |-> s.fields[f]]

\* buildSecretData; GetRandomPassword fails for the fields in failing, and
\* getRandomPassword makes an empty password of that.
Data(s, failing) ==
  [f \in Fields |-> IF f \in failing THEN Empty
                    ELSE IF f \in Generated(s) THEN Password ELSE s.fields[f]]

VARIABLES
  (* The secret in AWS. *)
  arn,        \* 0 while there is none; a secret created anew has a new ARN
  version,    \* its current version
  content,    \* the fields of that version
  issued,     \* the last number handed out
  (* The cluster and the handlers. *)
  obj, pc, job,
  (* Bookkeeping of the model. *)
  disturbed,  \* Components whose secret another one wrote or deleted, or whose
              \* spec was edited, since their last apply or delete began
  faults

awsVars == <<arn, version, content, issued>>
vars == <<arn, version, content, issued, obj, pc, job, disturbed, faults>>

exists == arn # 0

Number == 0 .. MaxWrites

\* ARN and version id as persisted, 0 for ""; the other fields are constant.
Status == [arn : Number, version : Number]
NoStatus == [arn |-> 0, version |-> 0]

ApplyCalls == {"DescribeSecret", "CreateSecret", "UpdateSecret"}
Outcome == {"applied", "applyFailed", "failed", "deleteStarted"}

Job == [spec : Specs, generation : 0 .. MaxGeneration, data : Content, status : Status]

Idle(c) == pc[c] = "idle"

\* c's handler goes on to its next call, or returns, with the status s.
GoTo(c, call, s) ==
  /\ pc' = [pc EXCEPT ![c] = call]
  /\ job' = [job EXCEPT ![c].status = s]
  /\ UNCHANGED <<obj, faults>>

\* c's handler is called with the Component as persisted; data is what it
\* builds of it before its first call.
BeginWith(c, call, data) ==
  /\ pc' = [pc EXCEPT ![c] = call]
  /\ job' = [job EXCEPT ![c] = [spec |-> obj[c].spec, generation |-> obj[c].generation,
                                data |-> data, status |-> obj[c].status]]
  /\ UNCHANGED obj

Disturbs(c) == disturbed' = disturbed \cup (Components \ {c})

Init ==
  \* The account may hold a secret of that name already.
  /\ \/ arn = 0 /\ version = 0 /\ content = NoContent /\ issued = 0
     \/ /\ arn = 1 /\ version = 1 /\ issued = 1
        /\ content \in [Fields -> Values]
  /\ \E s \in [Components -> Specs] :
        /\ obj = [c \in Components |-> NewComponent(s[c], NoStatus)]
        /\ job = [c \in Components |-> [spec |-> s[c], generation |-> 0,
                                        data |-> NoContent, status |-> NoStatus]]
  /\ pc = [c \in Components |-> "idle"]
  /\ disturbed = {}
  /\ faults = 0

-----------------------------------------------------------------------------
(* apply *)

RejectSpec(c) ==
  /\ Idle(c) /\ NeedsApply(obj[c])
  /\ ~Resolves(obj[c].spec)
  /\ BeginWith(c, "applyFailed", NoContent)
  /\ UNCHANGED <<awsVars, disturbed, faults>>

\* The passwords are generated before the secret is looked up.
BuildSecretData(c) ==
  /\ Idle(c) /\ NeedsApply(obj[c])
  /\ Resolves(obj[c].spec)
  /\ \E failing \in SUBSET Generated(obj[c].spec) :
        /\ faults' = faults + (IF failing = {} THEN 0 ELSE 1)
        /\ faults' <= MaxFaults
        /\ BeginWith(c, "DescribeSecret", Data(obj[c].spec, failing))
  /\ disturbed' = disturbed \ {c}
  /\ UNCHANGED awsVars

\* findSecret, and where applyAction goes with an existing secret.
FindSecretOr(c, update) ==
  /\ pc[c] = "DescribeSecret"
  /\ \/ ~exists /\ GoTo(c, "CreateSecret", job[c].status)
     \/ exists /\ update /\ GoTo(c, "UpdateSecret", job[c].status)
     \/ exists /\ ~update /\ GoTo(c, "applied", [arn |-> arn, version |-> 0])
  /\ UNCHANGED <<awsVars, disturbed>>

\* Mutation: the two policies swapped.
FindSecretSwapped(c) == FindSecretOr(c, ~AlwaysUpdate(job[c].spec))

FindSecret(c) == FindSecretOr(c, AlwaysUpdate(job[c].spec))

\* The secret gets a new version, with what c's handler built; the handler returns s.
WriteAndReturn(c, newArn, s) ==
  /\ issued < MaxWrites
  /\ arn' = newArn
  /\ issued' = issued + 1
  /\ version' = issued + 1
  /\ content' = job[c].data
  /\ GoTo(c, "applied", s)
  /\ Disturbs(c)

Write(c, newArn) == WriteAndReturn(c, newArn, [arn |-> newArn, version |-> issued + 1])

Refused(c) ==
  /\ GoTo(c, "applyFailed", job[c].status)
  /\ UNCHANGED <<awsVars, disturbed>>

\* Mutation: a secret that has appeared meanwhile is updated.
CreateOrUpdate(c) ==
  /\ pc[c] = "CreateSecret"
  /\ Write(c, IF exists THEN arn ELSE issued + 1)

\* Mutation: the ARN of the new secret is left out of the status.
CreateSecretUnreported(c) ==
  /\ pc[c] = "CreateSecret"
  /\ IF exists THEN Refused(c)
     ELSE WriteAndReturn(c, issued + 1, [job[c].status EXCEPT !.version = issued + 1])

\* ResourceExistsException is not retryable.
CreateSecret(c) ==
  /\ pc[c] = "CreateSecret"
  /\ IF exists THEN Refused(c) ELSE Write(c, issued + 1)

\* ResourceNotFoundException is not retryable.
UpdateSecret(c) ==
  /\ pc[c] = "UpdateSecret"
  /\ IF exists THEN Write(c, arn) ELSE Refused(c)

-----------------------------------------------------------------------------
(* delete works on the spec as it is, unresolved. *)

BeginDeleteUnless(c, retain) ==
  /\ Idle(c)
  /\ BeginWith(c, IF obj[c].status.arn = 0 \/ retain THEN "deleteStarted" ELSE "DeleteSecret",
               NoContent)
  /\ disturbed' = disturbed \ {c}
  /\ UNCHANGED <<awsVars, faults>>

\* Mutation: an explicit Delete is needed.
BeginDeleteExplicitly(c) == BeginDeleteUnless(c, obj[c].spec.deletion # "Delete")

BeginDelete(c) == BeginDeleteUnless(c, obj[c].spec.deletion = "Retain")

StartDelete(c) == NeedsDelete(obj[c]) /\ BeginDelete(c)
RetryDelete(c) == MayRetryDelete(obj[c]) /\ BeginDelete(c)

\* DeleteSecret without a recovery window of the secret id; a secret that is not
\* there is as good as deleted.
DeleteById(c, id) ==
  /\ pc[c] = "DeleteSecret"
  /\ IF exists /\ arn = id
       THEN /\ arn' = 0 /\ version' = 0 /\ content' = NoContent
            /\ Disturbs(c)
       ELSE UNCHANGED <<arn, version, content, disturbed>>
  /\ GoTo(c, "deleteStarted", job[c].status)
  /\ UNCHANGED issued

\* Mutation: the secret is deleted by its name.
DeleteSecretByName(c) == DeleteById(c, arn)

DeleteSecret(c) == DeleteById(c, job[c].status.arn)

-----------------------------------------------------------------------------
(* The reconciler.  Without checks an apply or a delete that is recorded is  *)
(* complete.                                                                 *)

Recorded(c) ==
  CASE pc[c] = "applied" ->
         CheckedReady(Applied(obj[c], job[c].generation, job[c].status), job[c].status)
    [] pc[c] = "applyFailed"   -> ApplyFailed(obj[c], job[c].generation, job[c].status)
    [] pc[c] = "failed"        -> Failed(obj[c], job[c].status)
    [] pc[c] = "deleteStarted" -> CheckedGone(obj[c], job[c].status)

Record(c) ==
  /\ pc[c] \in Outcome
  /\ obj' = [obj EXCEPT ![c] = Recorded(c)]
  /\ pc' = [pc EXCEPT ![c] = "idle"]
  /\ UNCHANGED <<awsVars, job, disturbed, faults>>

\* A retryable error, a lost response, a failed status update, a crash.
Interrupt(c) ==
  /\ pc[c] # "idle"
  /\ faults < MaxFaults
  /\ faults' = faults + 1
  /\ pc' = [pc EXCEPT ![c] = "idle"]
  /\ UNCHANGED <<awsVars, obj, job, disturbed>>

\* A call refused for good: AccessDenied, a key that cannot be used, ...
PermanentError(c) ==
  /\ pc[c] \in ApplyCalls \cup {"DeleteSecret"}
  /\ faults < MaxFaults
  /\ faults' = faults + 1
  /\ pc' = [pc EXCEPT ![c] = IF pc[c] \in ApplyCalls THEN "applyFailed" ELSE "failed"]
  /\ UNCHANGED <<awsVars, obj, job, disturbed>>

-----------------------------------------------------------------------------
(* The environment.  The spec may be edited until the deletion is done: a    *)
(* deletion that failed may be retried with another deletion policy.         *)

EditSpec(c) ==
  /\ obj[c].phase # "Gone"
  /\ obj[c].generation < MaxGeneration
  /\ \E s \in Specs \ {obj[c].spec} : obj' = [obj EXCEPT ![c] = Edited(@, s)]
  /\ disturbed' = disturbed \cup {c}
  /\ UNCHANGED <<awsVars, pc, job, faults>>

RequestDeletion(c) ==
  /\ ~obj[c].deleting
  /\ obj' = [obj EXCEPT ![c] = DeletionRequested(@)]
  /\ UNCHANGED <<awsVars, pc, job, disturbed, faults>>

-----------------------------------------------------------------------------

Apply(c) ==
  \/ RejectSpec(c) \/ BuildSecretData(c)
  \/ FindSecret(c) \/ CreateSecret(c) \/ UpdateSecret(c)

Delete(c) == StartDelete(c) \/ DeleteSecret(c)

Reconcile(c) == Apply(c) \/ Delete(c) \/ Record(c)

Step(c) ==
  \/ Reconcile(c) \/ RetryDelete(c)
  \/ Interrupt(c) \/ PermanentError(c)
  \/ EditSpec(c) \/ RequestDeletion(c)

Next == \E c \in Components : Step(c)

Spec == Init /\ [][Next]_vars

-----------------------------------------------------------------------------
(* Properties *)

\* Every variable holds a value of its type.
TypeOK ==
  /\ arn \in Number /\ version \in Number /\ issued \in Number
  /\ content \in Content
  /\ obj \in [Components -> Component(Specs, Status, 1 .. MaxGeneration)]
  /\ pc \in [Components -> {"idle", "DeleteSecret"} \cup ApplyCalls \cup Outcome]
  /\ job \in [Components -> Job]
  /\ disturbed \subseteq Components
  /\ faults \in 0 .. MaxFaults

\* What content a spec asks for, whatever the passwords.
Fits(d, s) ==
  \A f \in Fields : IF s.fields[f] = Generator THEN d[f] \in {Password, Empty}
                    ELSE d[f] = s.fields[f]

\* The apply of the current spec is done and its result recorded.
Settled(c) ==
  /\ obj[c].phase = "Ready"
  /\ obj[c].observed = obj[c].generation
  /\ ~obj[c].deleting

\* A Component whose apply succeeded, and whom nobody disturbed, knows the ARN of
\* a secret that exists; under AlwaysUpdate, or when it wrote the secret, it also
\* names its current version, which holds what the spec asks for (applyAction).
ReadyMeansWritten ==
  \A c \in Components \ disturbed :
    Settled(c) =>
      /\ exists /\ obj[c].status.arn = arn
      /\ AlwaysUpdate(obj[c].spec) => obj[c].status.version # 0
      /\ obj[c].status.version # 0 => /\ obj[c].status.version = version
                                      /\ Fits(content, obj[c].spec)

\* The passwords of an existing secret change only on behalf of a Component that
\* asked for AlwaysUpdate; that a secret appears between the lookup and the
\* creation does not get it overwritten (applyAction, createSecret).
PasswordsStay ==
  [][exists /\ exists' /\ version' # version =>
       /\ arn' = arn
       /\ \E c \in Components : pc[c] # "idle" /\ AlwaysUpdate(job[c].spec)]_vars

\* A secret disappears only with a Component that is being deleted, that knows
\* this very secret and whose policy is not Retain; a secret created anew under
\* the name is not taken for the old one (deleteAction, deleteSecret).
OthersSecretsStay ==
  [][exists /\ ~exists' =>
       \E c \in Components : /\ obj[c].deleting /\ obj[c].status.arn = arn
                             /\ job[c].spec.deletion # "Retain"]_vars

\* A Component that is gone took the secret it knew with it, unless its policy is
\* Retain (deleteAction).
NoSecretLeftBehind ==
  \A c \in Components \ disturbed :
    /\ obj[c].phase = "Gone"
    /\ obj[c].status.arn # 0
    /\ obj[c].spec.deletion # "Retain"
    => arn # obj[c].status.arn

\* A secret with generated passwords is known to a Component, in its status or its
\* running handler, so that its deletion finds it; only a fault can lose it
\* (applyAction's status, deleteAction).
SecretIsAccountedFor ==
  exists /\ (\E f \in Fields : content[f] = Password) =>
    \/ faults > 0
    \/ \E c \in Components :
         \/ obj[c].status.arn = arn
         \/ ~Idle(c) /\ job[c].status.arn = arn

\* A field to be generated holds a password: when none could be generated the
\* apply fails (buildSecretData's error, operations.go:138).
NoEmptyPassword == \A f \in Fields : content[f] # Empty
-----------------------------------------------------------------------------
(* Why they hold: an invariant that every step preserves. *)

\* What a handler of c works with fits the Component: nobody else writes it, so
\* that spec and status are as persisted, or as an edit since then has left them.
HandlersFit(c) ==
  /\ obj[c].observed <= obj[c].generation
  /\ obj[c].phase = "Gone" => Idle(c)
  /\ pc[c] \in ApplyCalls \cup {"applied", "applyFailed"} =>
       /\ obj[c].observed < job[c].generation
       /\ job[c].generation <= obj[c].generation
       /\ job[c].generation = obj[c].generation => job[c].spec = obj[c].spec
  /\ pc[c] \in ApplyCalls => Fits(job[c].data, job[c].spec)
  /\ pc[c] = "UpdateSecret" => AlwaysUpdate(job[c].spec)
  /\ pc[c] \in {"DeleteSecret", "deleteStarted", "failed"} => obj[c].deleting
  /\ pc[c] = "DeleteSecret" => /\ job[c].status = obj[c].status
                               /\ job[c].spec.deletion # "Retain"

\* The status s names the secret, and the current version where an apply of the
\* spec wrote one.
Names(s, spec) ==
  /\ exists /\ s.arn = arn
  /\ AlwaysUpdate(spec) => s.version # 0
  /\ s.version # 0 => s.version = version /\ Fits(content, spec)

\* What an undisturbed apply has found or written stands, before and after its
\* result is recorded ...
ApplyStands(c) ==
  c \notin disturbed =>
    /\ pc[c] = "applied" => Names(job[c].status, job[c].spec)
    /\ Settled(c) => Names(obj[c].status, obj[c].spec)

\* ... and what an undisturbed delete has taken stays away.
DeleteStands(c) ==
  c \notin disturbed /\ obj[c].spec.deletion # "Retain" =>
    /\ pc[c] = "deleteStarted" /\ job[c].status.arn # 0 => arn # job[c].status.arn
    /\ obj[c].phase = "Gone" /\ obj[c].status.arn # 0 => arn # obj[c].status.arn

\* An ARN is never handed out twice, and a handler that returns does not take the
\* secret's ARN out of the status.
ArnIsKept(c) ==
  /\ obj[c].status.arn <= issued /\ job[c].status.arn <= issued
  /\ ~Idle(c) /\ exists /\ obj[c].status.arn = arn => job[c].status.arn = arn

\* The inductive invariant behind ReadyMeansWritten, NoSecretLeftBehind and
\* SecretIsAccountedFor (applyAction, deleteAction).
Inv ==
  /\ TypeOK
  /\ arn <= issued
  /\ \A c \in Components : HandlersFit(c) /\ ApplyStands(c) /\ DeleteStands(c) /\ ArnIsKept(c)
  /\ SecretIsAccountedFor

=============================================================================
