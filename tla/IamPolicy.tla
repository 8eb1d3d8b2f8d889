----------------------------- MODULE IamPolicy ------------------------------
(***************************************************************************)
(* The iam-policy provider (src/iampolicy): the handlers apply,            *)
(* checkApplied, delete and checkDeleted of one or more Components that    *)
(* name the same customer-managed IAM policy, with one step per call to    *)
(* AWS.  Between two calls anything may happen: the user edits the spec or *)
(* asks for the deletion, another Component's handler runs (providers with *)
(* different prefixes are separate managers), a role is attached to the    *)
(* policy, the handler is interrupted.                                     *)
(***************************************************************************)
EXTENDS ComponentKit, FiniteSets

CONSTANTS
  Components,                 \* the Components naming the policy
  Docs,                       \* policy documents, as the user writes them
  ValidDocs,                  \* those that resolveSpec accepts
  NoDoc,                      \* the text of a version that does not exist
  OnFirstPage,                \* ListPolicies' first page shows the policy
  MaxNumberOfPolicyVersions,  \* the limit of the service (5 in the source)
  MaxVersionId,               \* BOUND on the version numbers AWS hands out
  MaxGeneration,              \* BOUND on the edits of each spec
  MaxFaults                   \* BOUND on interruptions and refused calls

ASSUME DocsAssumption ==
  /\ ValidDocs \subseteq Docs
  /\ NoDoc \notin Docs

ASSUME ListingAssumption == OnFirstPage \in BOOLEAN

ASSUME LimitAssumption ==
  /\ MaxNumberOfPolicyVersions \in Nat /\ MaxNumberOfPolicyVersions >= 2
  /\ MaxVersionId \in Nat /\ MaxVersionId >= MaxNumberOfPolicyVersions
  /\ MaxGeneration \in Nat \ {0}
  /\ MaxFaults \in Nat

VersionId  == 1 .. MaxVersionId
Generation == 1 .. MaxGeneration

\* GetPolicyVersion answers with the document percent-encoded (RFC 3986), and
\* the provider never decodes it.
URLEncoded(d) == [urlEncoded |-> d]

ASSUME EncodingAssumption == \A d \in Docs : URLEncoded(d) \notin Docs

\* Semantic equality of two JSON texts; FALSE when either is not JSON.
jsonEquals(a, b) == a \in ValidDocs /\ b \in ValidDocs /\ a = b

VARIABLES
  (* The policy in AWS. *)
  text,        \* text[v]: the document of version v, NoDoc if there is none
  default,     \* the default version, 0 while there is no policy
  issued,      \* the last version number handed out
  attached,    \* some role or user has the policy attached
  (* The cluster. *)
  obj,         \* obj[c]: the Component object
  (* The handlers. *)
  pc,          \* pc[c]: the call c's handler makes next
  job,         \* job[c]: its local variables
  (* Bookkeeping of the model. *)
  overtaken,   \* Components whose policy another one wrote since their last
               \* apply or delete began
  renewed,     \* Components under deletion for which a version was created since
               \* they listed what to delete
  faults

awsVars == <<text, default, issued, attached>>
vars == <<text, default, issued, attached, obj, pc, job, overtaken, renewed, faults>>

-----------------------------------------------------------------------------
(* The policy in AWS. *)

versions == {v \in VersionId : text[v] # NoDoc}
exists == versions # {}
NonDefault == versions \ {default}

HasRoom == Cardinality(versions) < MaxNumberOfPolicyVersions

NoText == [v \in VersionId |-> NoDoc]

-----------------------------------------------------------------------------
(* Handlers.  The status is what the provider persists in the Component:   *)
(* whether the ARN is known (PolicyId and PolicyName are set with it) and  *)
(* the version it believes current, 0 for "".                              *)

Status == [arn : BOOLEAN, version : VersionId \cup {0}]
NoStatus == [arn |-> FALSE, version |-> 0]

ApplyCalls ==
  {"ListPolicies", "CreatePolicy", "GetPolicy", "GetPolicyVersion",
   "ListVersions", "DeleteOldest", "CreateVersion"}
DeleteCalls == {"GetForDelete", "ListForDelete", "DeleteVersions", "DeletePolicy"}

\* A handler that has its result and has yet to see it recorded.
Outcome == {"applied", "applyFailed", "ready", "failed", "deleteStarted", "gone"}

Job ==
  [doc : Docs \cup {NoDoc}, generation : Generation \cup {0},
   base : VersionId \cup {0}, victim : VersionId \cup {0},
   todo : SUBSET VersionId, status : Status]

NoJob == [doc |-> NoDoc, generation |-> 0, base |-> 0, victim |-> 0,
          todo |-> {}, status |-> NoStatus]

Idle(c) == pc[c] = "idle"

\* c's handler goes on to its next call, or returns with an outcome; its local
\* variables become j.
GoTo(c, call, j) ==
  /\ pc' = [pc EXCEPT ![c] = call]
  /\ job' = [job EXCEPT ![c] = j]
  /\ UNCHANGED <<obj, faults>>

\* What a handler knows when it is called: the Component, as persisted.
Called(c) == [NoJob EXCEPT !.doc = obj[c].spec,
                           !.generation = obj[c].generation,
                           !.status = obj[c].status]

Begin(c, call) == GoTo(c, call, Called(c))

\* Everybody else's picture of the policy is out of date.
Overtakes(c) == overtaken' = overtaken \cup (Components \ {c})

\* c's deletion has listed the versions it is going to remove.
Listed(c) == pc[c] \in {"DeleteVersions", "DeletePolicy"}

\* A new version is on none of these lists.
Renews == renewed' = renewed \cup {d \in Components : Listed(d)}

Init ==
  \* The account may hold a policy of that name already.
  /\ \E k \in 0 .. MaxNumberOfPolicyVersions, d \in ValidDocs :
        /\ text = [v \in VersionId |-> IF v <= k THEN d ELSE NoDoc]
        /\ default = k
        /\ issued = k
  /\ attached = FALSE
  /\ \E s \in [Components -> Docs] :
        obj = [c \in Components |-> NewComponent(s[c], NoStatus)]
  /\ pc = [c \in Components |-> "idle"]
  /\ job = [c \in Components |-> NoJob]
  /\ overtaken = {}
  /\ renewed = {}
  /\ faults = 0

-----------------------------------------------------------------------------
(* apply *)

\* The spec does not resolve: no call is made.
RejectSpec(c) ==
  /\ Idle(c) /\ NeedsApply(obj[c])
  /\ obj[c].spec \notin ValidDocs
  /\ Begin(c, "applyFailed")
  /\ UNCHANGED <<awsVars, overtaken, renewed>>

StartApply(c) ==
  /\ Idle(c) /\ NeedsApply(obj[c])
  /\ obj[c].spec \in ValidDocs
  /\ Begin(c, "ListPolicies")
  /\ overtaken' = overtaken \ {c}
  /\ UNCHANGED <<awsVars, renewed>>

\* getPolicyByName: one page of ListPolicies, searched for the name.
ListPolicies(c) ==
  /\ pc[c] = "ListPolicies"
  /\ IF exists /\ OnFirstPage
       THEN GoTo(c, "GetPolicy", [job[c] EXCEPT !.status.arn = TRUE])
       ELSE GoTo(c, "CreatePolicy", job[c])
  /\ UNCHANGED <<awsVars, overtaken, renewed>>

CreateWithText(c, d) ==
  /\ pc[c] = "CreatePolicy"
  /\ ~exists
  /\ text' = [text EXCEPT ![1] = d]
  /\ default' = 1
  /\ issued' = 1
  /\ GoTo(c, "applied", [job[c] EXCEPT !.status = [arn |-> TRUE, version |-> 1]])
  /\ Overtakes(c) /\ Renews
  /\ UNCHANGED attached

\* Mutation: the status returned is the one from before.
CreatePolicyUnreported(c) ==
  /\ pc[c] = "CreatePolicy"
  /\ ~exists
  /\ text' = [text EXCEPT ![1] = job[c].doc]
  /\ default' = 1
  /\ issued' = 1
  /\ GoTo(c, "applied", job[c])
  /\ Overtakes(c) /\ Renews
  /\ UNCHANGED attached

\* Mutation: the document is encoded on its way out.
CreatePolicyEncoded(c) == CreateWithText(c, URLEncoded(job[c].doc))

CreatePolicy(c) == CreateWithText(c, job[c].doc)

\* EntityAlreadyExists is not retryable.
CreatePolicyConflict(c) ==
  /\ pc[c] = "CreatePolicy"
  /\ exists
  /\ GoTo(c, "applyFailed", job[c])
  /\ UNCHANGED <<awsVars, overtaken, renewed>>

\* getCurrentPolicyDocument, first half: the default version.
GetPolicy(c) ==
  /\ pc[c] = "GetPolicy"
  /\ IF exists
       THEN GoTo(c, "GetPolicyVersion", [job[c] EXCEPT !.base = default])
       ELSE GoTo(c, "applyFailed", job[c])
  /\ UNCHANGED <<awsVars, overtaken, renewed>>

\* Second half: its document, and the comparison with the desired one; another
\* document leads to the call ifChanged.
CompareDocument(c, ifChanged) ==
  /\ pc[c] = "GetPolicyVersion"
  /\ IF job[c].base \notin versions
       THEN GoTo(c, "applyFailed", job[c])
     ELSE IF jsonEquals(URLEncoded(text[job[c].base]), job[c].doc)
       THEN GoTo(c, "applied", [job[c] EXCEPT !.status.version = job[c].base])
       ELSE GoTo(c, ifChanged, job[c])
  /\ UNCHANGED <<awsVars, overtaken, renewed>>

\* Mutation: read again until the document is the desired one.
GetPolicyVersionAgain(c) == CompareDocument(c, "GetPolicy")

GetPolicyVersion(c) == CompareDocument(c, "ListVersions")

\* Mutation: off by one.
AtLimitOffByOne == Cardinality(versions) > MaxNumberOfPolicyVersions

AtLimit == Cardinality(versions) >= MaxNumberOfPolicyVersions

\* Mutation: the comparison of the dates the other way round.
IsYoungest(v) == \A w \in NonDefault : v >= w

\* Version numbers grow with the creation date.
IsOldest(v) == \A w \in NonDefault : v <= w

\* deleteOldestPolicyVersion: at the limit, the oldest version that is not the
\* default has to go.
ListVersions(c) ==
  /\ pc[c] = "ListVersions"
  /\ \/ ~exists /\ GoTo(c, "applyFailed", job[c])
     \/ /\ exists
        /\ ~(AtLimit /\ NonDefault # {})
        /\ GoTo(c, "CreateVersion", job[c])
     \/ /\ AtLimit
        /\ \E v \in NonDefault :
             IsOldest(v) /\ GoTo(c, "DeleteOldest", [job[c] EXCEPT !.victim = v])
  /\ UNCHANGED <<awsVars, overtaken, renewed>>

\* Mutation: at the limit, the policy is deleted and created anew.
DeleteOldestReplaces(c) ==
  /\ pc[c] = "DeleteOldest"
  /\ text' = NoText /\ default' = 0 /\ issued' = 0
  /\ GoTo(c, "CreatePolicy", job[c])
  /\ Overtakes(c)
  /\ UNCHANGED <<attached, renewed>>

\* NoSuchEntity and DeleteConflict (a default version) both fail the apply.
DeleteOldest(c) ==
  /\ pc[c] = "DeleteOldest"
  /\ IF job[c].victim \in NonDefault
       THEN /\ text' = [text EXCEPT ![job[c].victim] = NoDoc]
            /\ GoTo(c, "CreateVersion", job[c])
            /\ Overtakes(c)
       ELSE /\ GoTo(c, "applyFailed", job[c])
            /\ UNCHANGED <<text, overtaken>>
  /\ UNCHANGED <<default, issued, attached, renewed>>

\* CreatePolicyVersion, after which newDefault is the default and reported the
\* version in the handler's status.
NewVersion(c, newDefault, reported) ==
  /\ pc[c] = "CreateVersion"
  /\ exists /\ HasRoom
  /\ issued < MaxVersionId
  /\ text' = [text EXCEPT ![issued + 1] = job[c].doc]
  /\ default' = newDefault
  /\ issued' = issued + 1
  /\ GoTo(c, "applied", [job[c] EXCEPT !.status.version = reported])
  /\ Overtakes(c) /\ Renews
  /\ UNCHANGED attached

\* Mutation: without SetAsDefault.
CreateVersionNotDefault(c) == NewVersion(c, default, issued + 1)

\* Mutation: CurrentVersionId keeps the version that was read.
CreateVersionStaleStatus(c) == NewVersion(c, issued + 1, job[c].base)

CreateVersion(c) == NewVersion(c, issued + 1, issued + 1)

\* NoSuchEntity or LimitExceeded, neither retryable.
CreateVersionRefused(c) ==
  /\ pc[c] = "CreateVersion"
  /\ ~exists \/ ~HasRoom
  /\ GoTo(c, "applyFailed", job[c])
  /\ UNCHANGED <<awsVars, overtaken, renewed>>

-----------------------------------------------------------------------------
(* checkApplied: one GetPolicy; an empty ARN is still in progress. *)

CheckApplied(c) ==
  /\ Idle(c) /\ NeedsApplyCheck(obj[c])
  /\ obj[c].status.arn
  /\ Begin(c, IF exists THEN "ready" ELSE "failed")
  /\ UNCHANGED <<awsVars, overtaken, renewed>>

-----------------------------------------------------------------------------
(* delete *)

\* Without an ARN in the status there is nothing to delete.
BeginDelete(c) ==
  /\ Idle(c)
  /\ Begin(c, IF obj[c].status.arn THEN "GetForDelete" ELSE "deleteStarted")
  /\ overtaken' = overtaken \ {c}
  /\ UNCHANGED <<awsVars, renewed>>

StartDelete(c) == NeedsDelete(obj[c]) /\ BeginDelete(c)
RetryDelete(c) == MayRetryDelete(obj[c]) /\ BeginDelete(c)

GetForDelete(c) ==
  /\ pc[c] = "GetForDelete"
  /\ GoTo(c, IF exists THEN "ListForDelete" ELSE "deleteStarted", job[c])
  /\ UNCHANGED <<awsVars, overtaken, renewed>>

\* Mutation: the versions are left to DeletePolicy.
ListForDeleteNone(c) ==
  /\ pc[c] = "ListForDelete"
  /\ GoTo(c, "DeletePolicy", job[c])
  /\ UNCHANGED <<awsVars, overtaken, renewed>>

\* deletePolicyAllVersions: what is listed here, all but the default version, is
\* deleted one by one.
ListForDelete(c) ==
  /\ pc[c] = "ListForDelete"
  /\ GoTo(c, IF NonDefault = {} THEN "DeletePolicy" ELSE "DeleteVersions",
          [job[c] EXCEPT !.todo = NonDefault])
  /\ renewed' = renewed \ {c}
  /\ UNCHANGED <<awsVars, overtaken>>

\* One DeletePolicyVersion, refused for the versions in refused; one already
\* gone is passed over.
DeleteListed(c, refused) ==
  /\ pc[c] = "DeleteVersions"
  /\ \E v \in job[c].todo :
       IF v \in refused
         THEN /\ GoTo(c, "failed", job[c])
              /\ UNCHANGED <<text, overtaken>>
         ELSE /\ text' = [text EXCEPT ![v] = NoDoc]
              /\ IF v \in versions THEN Overtakes(c) ELSE UNCHANGED overtaken
              /\ GoTo(c, IF job[c].todo = {v} THEN "DeletePolicy" ELSE "DeleteVersions",
                      [job[c] EXCEPT !.todo = @ \ {v}])
  /\ UNCHANGED <<default, issued, attached, renewed>>

\* Mutation: NoSuchEntity is an error like any other.
DeleteOneVersionStrict(c) == DeleteListed(c, VersionId \ NonDefault)

\* DeleteConflict: what has become the default cannot be deleted.
DeleteOneVersion(c) == DeleteListed(c, {default})

\* DeletePolicy; onConflict is the outcome of DeleteConflict, while the policy is
\* attached or versions remain.
DeleteOr(c, onConflict) ==
  /\ pc[c] = "DeletePolicy"
  /\ IF exists /\ (attached \/ NonDefault # {})
       THEN /\ GoTo(c, onConflict, job[c])
            /\ UNCHANGED <<text, default, issued, overtaken>>
       ELSE /\ text' = NoText
            /\ default' = 0
            /\ issued' = 0
            /\ IF exists THEN Overtakes(c) ELSE UNCHANGED overtaken
            /\ GoTo(c, "deleteStarted", job[c])
  /\ UNCHANGED <<attached, renewed>>

\* Mutation: a conflict is taken for a success.
DeletePolicyAnyway(c) == DeleteOr(c, "deleteStarted")

DeletePolicy(c) == DeleteOr(c, "failed")

-----------------------------------------------------------------------------
(* checkDeleted: one GetPolicy; while the policy exists, in progress. *)

CheckGone(c, done) ==
  /\ Idle(c) /\ NeedsDeleteCheck(obj[c])
  /\ done
  /\ Begin(c, "gone")
  /\ UNCHANGED <<awsVars, overtaken, renewed>>

\* Mutation: the empty ARN is looked up as well.
CheckDeletedAlwaysLooks(c) == CheckGone(c, ~exists)

CheckDeleted(c) == CheckGone(c, ~obj[c].status.arn \/ ~exists)

-----------------------------------------------------------------------------
(* The reconciler records a result; or it never gets to. *)

Recorded(c) ==
  CASE pc[c] = "applied"       -> Applied(obj[c], job[c].generation, job[c].status)
    [] pc[c] = "applyFailed"   -> ApplyFailed(obj[c], job[c].generation, job[c].status)
    [] pc[c] = "ready"         -> CheckedReady(obj[c], job[c].status)
    [] pc[c] = "failed"        -> Failed(obj[c], job[c].status)
    [] pc[c] = "deleteStarted" -> DeleteStarted(obj[c], job[c].status)
    [] pc[c] = "gone"          -> CheckedGone(obj[c], job[c].status)

Record(c) ==
  /\ pc[c] \in Outcome
  /\ obj' = [obj EXCEPT ![c] = Recorded(c)]
  /\ pc' = [pc EXCEPT ![c] = "idle"]
  /\ job' = [job EXCEPT ![c] = NoJob]
  /\ UNCHANGED <<awsVars, overtaken, renewed, faults>>

\* A retryable error before a call took effect, its response lost after it
\* did, a status update that failed, a manager that died: the run is over and
\* nothing of it is recorded.
Interrupt(c) ==
  /\ pc[c] # "idle"
  /\ faults < MaxFaults
  /\ faults' = faults + 1
  /\ pc' = [pc EXCEPT ![c] = "idle"]
  /\ job' = [job EXCEPT ![c] = NoJob]
  /\ UNCHANGED <<awsVars, obj, overtaken, renewed>>

\* A call refused for good: AccessDenied, MalformedPolicyDocument, ...
PermanentError(c) ==
  /\ pc[c] \in ApplyCalls \cup DeleteCalls
  /\ faults < MaxFaults
  /\ faults' = faults + 1
  /\ pc' = [pc EXCEPT ![c] = IF pc[c] \in ApplyCalls THEN "applyFailed" ELSE "failed"]
  /\ UNCHANGED <<awsVars, obj, job, overtaken, renewed>>

\* The same for the one call of a check.
CheckRefused(c) ==
  /\ Idle(c) /\ obj[c].status.arn
  /\ NeedsApplyCheck(obj[c]) \/ NeedsDeleteCheck(obj[c])
  /\ faults < MaxFaults
  /\ faults' = faults + 1
  /\ pc' = [pc EXCEPT ![c] = "failed"]
  /\ job' = [job EXCEPT ![c].status = obj[c].status]
  /\ UNCHANGED <<awsVars, obj, overtaken, renewed>>

-----------------------------------------------------------------------------
(* The environment. *)

EditSpec(c) ==
  /\ ~obj[c].deleting
  /\ obj[c].generation < MaxGeneration
  /\ \E d \in Docs \ {obj[c].spec} : obj' = [obj EXCEPT ![c] = Edited(@, d)]
  /\ UNCHANGED <<awsVars, pc, job, overtaken, renewed, faults>>

RequestDeletion(c) ==
  /\ ~obj[c].deleting
  /\ obj' = [obj EXCEPT ![c] = DeletionRequested(@)]
  /\ UNCHANGED <<awsVars, pc, job, overtaken, renewed, faults>>

\* Someone attaches the policy to a role, or detaches it.
Attach ==
  /\ exists /\ ~attached
  /\ attached' = TRUE
  /\ UNCHANGED <<text, default, issued, obj, pc, job, overtaken, renewed, faults>>

Detach ==
  /\ attached
  /\ attached' = FALSE
  /\ UNCHANGED <<text, default, issued, obj, pc, job, overtaken, renewed, faults>>

-----------------------------------------------------------------------------

Apply(c) ==
  \/ RejectSpec(c) \/ StartApply(c)
  \/ ListPolicies(c)
  \/ CreatePolicy(c) \/ CreatePolicyConflict(c)
  \/ GetPolicy(c) \/ GetPolicyVersion(c)
  \/ ListVersions(c) \/ DeleteOldest(c)
  \/ CreateVersion(c) \/ CreateVersionRefused(c)
  \/ CheckApplied(c)

Delete(c) ==
  \/ StartDelete(c)
  \/ GetForDelete(c)
  \/ ListForDelete(c) \/ DeleteOneVersion(c)
  \/ DeletePolicy(c)
  \/ CheckDeleted(c)

\* What the reconciler does on its own accord.
Reconcile(c) == Apply(c) \/ Delete(c) \/ Record(c)

Step(c) ==
  \/ Reconcile(c) \/ RetryDelete(c)
  \/ Interrupt(c) \/ PermanentError(c) \/ CheckRefused(c)
  \/ EditSpec(c) \/ RequestDeletion(c)

Next == (\E c \in Components : Step(c)) \/ Attach \/ Detach

Spec == Init /\ [][Next]_vars

\* The work queue calls a handler that is due again and again, and a handler
\* that is running makes its next call.
FairSpec == Spec /\ \A c \in Components : WF_vars(Reconcile(c))

-----------------------------------------------------------------------------
(* Properties *)

\* Every variable holds a value of its type: the versions and documents of the
\* policy, the Component objects, the handlers' positions and local variables.
TypeOK ==
  /\ text \in [VersionId -> Docs \cup {NoDoc}]
  /\ default \in VersionId \cup {0}
  /\ issued \in VersionId \cup {0}
  /\ attached \in BOOLEAN
  /\ obj \in [Components -> Component(Docs, Status, Generation)]
  /\ pc \in [Components -> {"idle"} \cup ApplyCalls \cup DeleteCalls \cup Outcome]
  /\ job \in [Components -> Job]
  /\ overtaken \subseteq Components
  /\ renewed \subseteq Components
  /\ faults \in 0 .. MaxFaults

\* The apply of the current spec is done and its result recorded.
Settled(c) ==
  /\ obj[c].phase \in {"Deploying", "Ready"}
  /\ obj[c].observed = obj[c].generation
  /\ ~obj[c].deleting

DocInForce == IF exists THEN text[default] ELSE NoDoc

\* A Component whose apply succeeded, and whom nobody overtook, has exactly its
\* document in force and names the right version in its status, whatever
\* interrupted attempts and edits came before (applyAction, checkApplied).
ReadyMeansApplied ==
  \A c \in Components \ overtaken :
    Settled(c) => /\ DocInForce = obj[c].spec
                  /\ obj[c].status = [arn |-> TRUE, version |-> default]

\* When several Components name one policy and all their applies are done, the
\* document in force is one of theirs: none of them, deciding on what it read
\* earlier, brought back a document nobody wants any more.
SettledOnSomeonesSpec ==
  Components # {} /\ (\A c \in Components : Settled(c)) =>
    \E c \in Components : DocInForce = obj[c].spec

\* deleteOldestPolicyVersion does its job: a handler that nobody overtook finds
\* the policy there, and room for one more version, when it creates one.
RoomForNewVersion ==
  \A c \in Components \ overtaken :
    pc[c] = "CreateVersion" =>
      exists /\ Cardinality(versions) < MaxNumberOfPolicyVersions

\* A Component whose delete reported success has no policy left behind, unless
\* another Component wrote it since or this one never learned the ARN.
NoPolicyLeftBehind ==
  \A c \in Components \ overtaken :
    /\ obj[c].phase \in {"Terminating", "Gone"}
    /\ obj[c].status.arn
    => ~exists

\* A policy that came into being on behalf of a Component is known to one, in its
\* status or its running handler, so that its deletion will find it; only a fault
\* can lose it (applyAction's status, deleteAction).
KnownToSomeone ==
  \/ faults > 0
  \/ \E c \in Components : obj[c].status.arn \/ (~Idle(c) /\ job[c].status.arn)

PolicyIsAccountedFor == [](~exists => [](exists => KnownToSomeone))

\* Two deletions of one policy do not get into each other's way: a call of a
\* deletion fails for a fault, an attachment or a version created since its
\* listing, never for what another deletion has removed
\* (deletePolicyAllVersions, deletePolicy).
DeletionsDoNotCollide ==
  [][\A c \in Components :
       Listed(c) /\ pc'[c] = "failed"
         => attached \/ c \in renewed \/ faults' > faults]_vars

\* An apply removes a version only to make room, and then the oldest one that
\* is not in force: the younger ones stay for a rollback.
PrunesOnlyTheOldest ==
  [][\A v \in VersionId :
       v \in versions /\ v \notin versions' /\ (\A c \in Components : ~obj[c].deleting)
         => /\ Cardinality(versions) = MaxNumberOfPolicyVersions
            /\ v # default
            /\ \A w \in NonDefault : v <= w]_vars

DeletionEnds ==
  \A c \in Components :
    obj[c].deleting ~> obj[c].phase \in {"Gone", "Failed"}

EditsAreAnswered ==
  \A c \in Components :
    obj[c].observed # obj[c].generation ~>
      \/ obj[c].observed = obj[c].generation /\ obj[c].phase \in {"Ready", "Failed"}
      \/ obj[c].deleting

\* A requested deletion comes to an end, the Component is gone or it has failed;
\* an edit of the spec is eventually applied, failed, or overruled by a deletion
\* (the four handlers and what they make the reconciler wait for).
RequestsAreAnswered == DeletionEnds /\ EditsAreAnswered

-----------------------------------------------------------------------------
(* Why they hold: an invariant that every step preserves. *)

\* The youngest version is the default, a policy has one, and there are no more
\* versions than the service allows.
PolicyFits ==
  /\ default = issued
  /\ issued # 0 => issued \in versions
  /\ \A v \in versions : v <= issued
  /\ Cardinality(versions) <= MaxNumberOfPolicyVersions

\* A running apply is ahead of what was observed, works on the spec of its
\* generation and knows the ARN of what it updates; only a Component being deleted
\* runs delete; a check brings back the status it was given; no handler forgets
\* the ARN, and none runs in a phase that does not call it.
HandlersFit(c) ==
  /\ obj[c].observed <= obj[c].generation
  /\ pc[c] \in ApplyCalls \cup {"applied", "applyFailed"} =>
       /\ obj[c].observed < job[c].generation
       /\ job[c].generation <= obj[c].generation
       /\ job[c].generation = obj[c].generation => job[c].doc = obj[c].spec
  /\ pc[c] \in ApplyCalls \cup {"applied"} => job[c].doc \in ValidDocs
  /\ pc[c] \in ApplyCalls \ {"ListPolicies", "CreatePolicy"} => job[c].status.arn = TRUE
  /\ pc[c] \in DeleteCalls \cup {"deleteStarted", "gone"} => obj[c].deleting
  /\ pc[c] = "ready" => /\ obj[c].phase = "Deploying"
                        /\ job[c].status = obj[c].status
  /\ pc[c] = "gone" => /\ obj[c].phase = "Terminating"
                       /\ job[c].status = obj[c].status
  /\ pc[c] \in ApplyCalls \cup DeleteCalls \cup {"applied", "applyFailed", "deleteStarted"} =>
       obj[c].phase \notin {"Terminating", "Gone"}
  /\ pc[c] # "idle" /\ obj[c].status.arn => job[c].status.arn

\* Document d is in force, and status st says so.
InForce(d, st) ==
  /\ exists
  /\ text[default] = d
  /\ st = [arn |-> TRUE, version |-> default]

\* What an apply has done stands, from its last call through its recording,
\* until another Component interferes; so does the room it has made.
ApplyStands(c) ==
  c \notin overtaken =>
    /\ pc[c] = "applied" => InForce(job[c].doc, job[c].status)
    /\ Settled(c) => InForce(obj[c].spec, obj[c].status)
    /\ pc[c] = "CreateVersion" => exists /\ HasRoom

\* So does what a deletion has done.
DeletionStands(c) ==
  c \notin overtaken =>
    /\ pc[c] = "deleteStarted" /\ job[c].status.arn => ~exists
    /\ obj[c].phase \in {"Terminating", "Gone"} /\ obj[c].status.arn => ~exists

\* Overtaken or not: while no deletion was requested, what an apply is about to
\* remove is gone already, or still the oldest of as many as there may be.
PruneFits(c) ==
  pc[c] = "DeleteOldest" /\ (\A d \in Components : ~obj[d].deleting) =>
    /\ job[c].victim < default
    /\ job[c].victim \in versions => AtLimit /\ IsOldest(job[c].victim)

\* What is left of the versions that a deletion listed is what it has yet to
\* remove, whoever removed the others.
RemovalFits(c) ==
  Listed(c) /\ c \notin renewed =>
    /\ NonDefault \subseteq job[c].todo
    /\ default \notin job[c].todo
    /\ pc[c] = "DeletePolicy" => job[c].todo = {}

\* c does not wait for another document to come into force.
Served(c) ==
  /\ Settled(c) => DocInForce = obj[c].spec
  /\ pc[c] = "applied" => DocInForce = job[c].doc

\* The inductive invariant behind ReadyMeansApplied, NoPolicyLeftBehind,
\* RoomForNewVersion, PrunesOnlyTheOldest, DeletionsDoNotCollide and
\* SettledOnSomeonesSpec (applyAction's status and document, from the last call of
\* an apply to the recording and after, deleteOldestPolicyVersion, deleteAction).
Inv ==
  /\ TypeOK
  /\ PolicyFits
  /\ \A c \in Components :
       /\ HandlersFit(c) /\ ApplyStands(c) /\ DeletionStands(c)
       /\ PruneFits(c) /\ RemovalFits(c)
  /\ Components # {} => \E c \in Components : Served(c)

-----------------------------------------------------------------------------
(* What a user of the policy sees of all this. *)

Promise == INSTANCE PolicyPromise WITH
  wanted   <- [c \in Components |-> obj[c].spec],
  released <- [c \in Components |-> obj[c].deleting],
  claimed  <- [c \in Components |-> IF pc[c] \in ApplyCalls THEN job[c].doc ELSE NoDoc],
  inForce  <- DocInForce

\* The provider keeps the promise: no update without a policy in between, no
\* document in force that no Component asked for, no policy withdrawn without
\* a deletion (applyAction, deleteAction).
KeepsPromise == Promise!Spec

\* And every apply that begins, ends.
KeepsPromiseFairly == Promise!FairSpec

=============================================================================
