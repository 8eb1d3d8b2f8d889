--------------------------- MODULE SecretPushProofs ---------------------------
(* Theorems about SecretPush, for every number of Components, fields, values,  *)
(* writes, edits and faults.                                                   *)
EXTENDS SecretPush, TLAPS

-----------------------------------------------------------------------------
(* Type correctness. *)

Calls == {"idle", "DeleteSecret"} \cup ApplyCalls \cup Outcome

\* A spec that resolves has a value or a generator for every field it names.
LEMMA DataType ==
  ASSUME NEW s \in Specs, Resolves(s), NEW failing \in SUBSET Generated(s)
  PROVE  Data(s, failing) \in Content /\ Fits(Data(s, failing), s)
<1>1. s.fields \in [Fields -> Values \cup {Generator, Absent, Malformed}]
  BY SecretDataAssumption DEF SecretPushSpec
<1>2. \A f \in Fields : s.fields[f] # Malformed
  BY DEF Resolves
<1>3. QED
  BY <1>1, <1>2 DEF Data, Content, Generated, Fits

\* A step of a handler is well typed when what it writes is.
LEMMA GoToType ==
  ASSUME TypeOK, NEW c \in Components, NEW call \in Calls, NEW s \in Status, GoTo(c, call, s),
         arn' \in Number, version' \in Number, issued' \in Number, content' \in Content,
         disturbed' \subseteq Components
  PROVE  TypeOK'
<1>1. job' \in [Components -> Job]
  BY DEF TypeOK, GoTo, Job
<1>2. QED
  BY <1>1 DEF TypeOK, GoTo, Calls

LEMMA BeginType ==
  ASSUME TypeOK, NEW c \in Components, NEW call \in Calls, NEW data \in Content,
         BeginWith(c, call, data), UNCHANGED awsVars,
         disturbed' \subseteq Components, faults' \in 0 .. MaxFaults
  PROVE  TypeOK'
<1>1. /\ obj[c].spec \in Specs /\ obj[c].status \in Status
      /\ obj[c].generation \in 0 .. MaxGeneration
  BY SecretBoundsAssumption DEF TypeOK, Component
<1>2. job' \in [Components -> Job]
  BY <1>1 DEF TypeOK, BeginWith, Job
<1>3. QED
  BY <1>2 DEF TypeOK, BeginWith, Calls, awsVars

LEMMA InitType == Init => TypeOK
<1> SUFFICES ASSUME Init PROVE TypeOK
  OBVIOUS
<1> USE SecretBoundsAssumption
<1>1. NoContent \in Content /\ [Fields -> Values] \subseteq Content
  BY DEF NoContent, Content
<1>2. NoStatus \in Status /\ 0 \in Number /\ 1 \in Number
  BY DEF NoStatus, Status, Number
<1>3. arn \in Number /\ version \in Number /\ issued \in Number /\ content \in Content
  BY <1>1, <1>2 DEF Init
<1>4. obj \in [Components -> Component(Specs, Status, 1 .. MaxGeneration)]
  BY <1>2 DEF Init, NewComponent, Component, Phase
<1>5. job \in [Components -> Job]
  BY <1>1, <1>2 DEF Init, Job
<1>6. QED
  BY <1>3, <1>4, <1>5 DEF Init, TypeOK

LEMMA NextType == TypeOK /\ [Next]_vars => TypeOK'
<1> SUFFICES ASSUME TypeOK, [Next]_vars PROVE TypeOK'
  OBVIOUS
<1> USE SecretBoundsAssumption DEF awsVars
<1>1. NoContent \in Content /\ 0 \in Number
  BY DEF NoContent, Content, Number
<1>2. /\ arn \in Number /\ version \in Number /\ issued \in Number
      /\ content \in Content /\ disturbed \subseteq Components
      /\ faults \in 0 .. MaxFaults
  BY DEF TypeOK
<1>3. \A c \in Components :
        /\ job[c] \in Job /\ job[c].data \in Content /\ job[c].status \in Status
        /\ obj[c] \in Component(Specs, Status, 1 .. MaxGeneration)
  BY DEF TypeOK, Job
<1>4. ASSUME NEW c \in Components, RejectSpec(c) PROVE TypeOK'
  BY <1>1, <1>2, <1>4, BeginType DEF RejectSpec, Calls, Outcome
<1>5. ASSUME NEW c \in Components, BuildSecretData(c) PROVE TypeOK'
  <2>1. PICK failing \in SUBSET Generated(obj[c].spec) :
          BuildSecretData(c)!3!(failing)
    BY <1>5 DEF BuildSecretData
  <2>2. Data(obj[c].spec, failing) \in Content
    BY <1>3, <1>5, DataType DEF BuildSecretData, Component
  <2>3. faults' \in 0 .. MaxFaults
    BY <1>2, <2>1
  <2>4. QED
    BY <1>2, <1>5, <2>1, <2>2, <2>3, BeginType DEF BuildSecretData, Calls, ApplyCalls
<1>6. ASSUME NEW c \in Components, FindSecret(c) PROVE TypeOK'
  <2>1. [arn |-> arn, version |-> 0] \in Status
    BY <1>1, <1>2 DEF Status
  <2>2. QED
    BY <1>2, <1>3, <1>6, <2>1, GoToType
       DEF FindSecret, FindSecretOr, Calls, ApplyCalls, Outcome
<1>7. ASSUME NEW c \in Components, NEW newArn \in Number, Write(c, newArn) PROVE TypeOK'
  <2>1. issued + 1 \in Number
    BY <1>2, <1>7 DEF Write, WriteAndReturn, Number
  <2>2. [arn |-> newArn, version |-> issued + 1] \in Status
    BY <2>1 DEF Status
  <2>3. QED
    BY <1>2, <1>3, <1>7, <2>1, <2>2, GoToType
       DEF Write, WriteAndReturn, Disturbs, Calls, Outcome
<1>8. ASSUME NEW c \in Components, Refused(c) PROVE TypeOK'
  BY <1>2, <1>3, <1>8, GoToType DEF Refused, Calls, Outcome
<1>9. ASSUME NEW c \in Components, CreateSecret(c) PROVE TypeOK'
  <2>1. CASE Write(c, issued + 1)
    <3>1. issued + 1 \in Number
      BY <1>2, <2>1 DEF Write, WriteAndReturn, Number
    <3>2. QED
      BY <1>7, <2>1, <3>1
  <2>2. QED
    BY <1>8, <1>9, <2>1 DEF CreateSecret
<1>10. ASSUME NEW c \in Components, UpdateSecret(c) PROVE TypeOK'
  BY <1>2, <1>7, <1>8, <1>10 DEF UpdateSecret
<1>11. ASSUME NEW c \in Components, StartDelete(c) \/ RetryDelete(c) PROVE TypeOK'
  BY <1>1, <1>2, <1>11, BeginType
     DEF StartDelete, RetryDelete, BeginDelete, BeginDeleteUnless, Calls, Outcome
<1>12. ASSUME NEW c \in Components, DeleteSecret(c) PROVE TypeOK'
  BY <1>1, <1>2, <1>3, <1>12, GoToType
     DEF DeleteSecret, DeleteById, Disturbs, Calls, Outcome
<1>13. ASSUME NEW c \in Components, Record(c) PROVE TypeOK'
  <2>1. job[c].generation \in (1 .. MaxGeneration) \cup {0}
    BY <1>3 DEF Job
  <2>2. Recorded(c) \in Component(Specs, Status, 1 .. MaxGeneration)
    <3>1. CASE pc[c] = "applied"
      BY <1>3, <2>1, <3>1 DEF Recorded, Applied, CheckedReady, Component, Phase
    <3>2. CASE pc[c] = "applyFailed"
      BY <1>3, <2>1, <3>2 DEF Recorded, ApplyFailed, Component, Phase
    <3>3. CASE pc[c] \in {"failed", "deleteStarted"}
      BY <1>3, <3>3 DEF Recorded, Failed, CheckedGone, Component, Phase
    <3>4. QED
      BY <1>13, <3>1, <3>2, <3>3 DEF Record, Outcome
  <2>3. QED
    BY <1>13, <2>2 DEF Record, TypeOK
<1>14. ASSUME NEW c \in Components, Interrupt(c) \/ PermanentError(c) PROVE TypeOK'
  BY <1>14 DEF Interrupt, PermanentError, TypeOK, Outcome
<1>15. ASSUME NEW c \in Components, EditSpec(c) PROVE TypeOK'
  <2>1. PICK s \in Specs : obj' = [obj EXCEPT ![c] = Edited(obj[c], s)]
    BY <1>15 DEF EditSpec
  <2>2. Edited(obj[c], s) \in Component(Specs, Status, 1 .. MaxGeneration)
    <3>1. obj[c].generation + 1 \in 1 .. MaxGeneration
      BY <1>3, <1>15 DEF EditSpec, Component
    <3>2. QED
      BY <1>3, <3>1 DEF Edited, Component
  <2>3. QED
    BY <1>15, <2>1, <2>2 DEF EditSpec, TypeOK
<1>16. ASSUME NEW c \in Components, RequestDeletion(c) PROVE TypeOK'
  BY <1>16 DEF RequestDeletion, DeletionRequested, TypeOK, Component
<1>17. CASE UNCHANGED vars
  BY <1>17 DEF vars, TypeOK
<1>18. QED
  BY <1>4, <1>5, <1>6, <1>9, <1>10, <1>11, <1>12, <1>13, <1>14, <1>15, <1>16, <1>17
     DEF Next, Step, Reconcile, Apply, Delete

\* Every variable keeps to its type, for every number of Components, fields,
\* values, writes, edits and faults.
THEOREM TypeCorrect == Spec => []TypeOK
<1>1. QED
  BY InitType, NextType, PTL DEF Spec
-----------------------------------------------------------------------------
(* Who changes what. *)

\* A step of d leaves the other Components and their handlers alone, and whoever
\* it does not disturb still finds the secret as it was.
LEMMA OthersUndisturbed ==
  ASSUME TypeOK, NEW d \in Components, Step(d), NEW c \in Components \ {d}
  PROVE  /\ obj'[c] = obj[c] /\ pc'[c] = pc[c] /\ job'[c] = job[c]
         /\ c \notin disturbed' =>
              /\ c \notin disturbed
              /\ arn' = arn /\ version' = version /\ content' = content
<1> USE DEF TypeOK, awsVars, GoTo, BeginWith, Disturbs
<1>1. CASE RejectSpec(d) \/ BuildSecretData(d) \/ FindSecret(d)
  BY <1>1 DEF RejectSpec, BuildSecretData, FindSecret, FindSecretOr
<1>2. CASE CreateSecret(d) \/ UpdateSecret(d)
  BY <1>2 DEF CreateSecret, UpdateSecret, Write, WriteAndReturn, Refused
<1>3. CASE StartDelete(d) \/ RetryDelete(d)
  BY <1>3 DEF StartDelete, RetryDelete, BeginDelete, BeginDeleteUnless
<1>4. CASE DeleteSecret(d)
  BY <1>4 DEF DeleteSecret, DeleteById
<1>5. CASE Record(d) \/ Interrupt(d) \/ PermanentError(d)
  BY <1>5 DEF Record, Interrupt, PermanentError
<1>6. CASE EditSpec(d) \/ RequestDeletion(d)
  BY <1>6 DEF EditSpec, RequestDeletion
<1>7. QED
  BY <1>1, <1>2, <1>3, <1>4, <1>5, <1>6 DEF Step, Reconcile, Apply, Delete

\* Numbers are only ever handed out, and the ARN stays, goes or is a new one.
LEMMA Numbers ==
  ASSUME TypeOK, arn <= issued, NEW d \in Components, Step(d)
  PROVE  /\ issued \in Nat /\ issued' \in Nat /\ issued <= issued'
         /\ arn' \in {0, arn} \/ (arn' = issued' /\ arn' > issued)
         /\ arn' <= issued'
<1> USE DEF awsVars
<1>1. arn \in Nat /\ issued \in Nat
  BY SecretBoundsAssumption DEF TypeOK, Number
<1>2. CASE UNCHANGED <<arn, issued>>
  BY <1>1, <1>2
<1>3. CASE CreateSecret(d) \/ UpdateSecret(d)
  BY <1>1, <1>3 DEF CreateSecret, UpdateSecret, Write, WriteAndReturn, Refused
<1>4. CASE DeleteSecret(d)
  BY <1>1, <1>4 DEF DeleteSecret, DeleteById
<1>5. QED
  BY <1>2, <1>3, <1>4
     DEF Step, Reconcile, Apply, Delete, RejectSpec, BuildSecretData, FindSecret, FindSecretOr,
         StartDelete, RetryDelete, BeginDelete, BeginDeleteUnless, Record, Interrupt,
         PermanentError, EditSpec, RequestDeletion

-----------------------------------------------------------------------------
(* Every handler keeps the invariant of its own Component. *)

\* The types of c's object and handler.
LEMMA OwnTypes ==
  ASSUME TypeOK, NEW c \in Components
  PROVE  /\ obj \in [Components -> Component(Specs, Status, 1 .. MaxGeneration)]
         /\ pc \in [Components -> Calls]
         /\ job \in [Components -> Job]
         /\ obj[c].observed \in Nat /\ obj[c].generation \in Nat /\ obj[c].generation > 0
         /\ job[c].generation \in Nat
         /\ obj[c].deleting \in BOOLEAN
<1>1. /\ obj \in [Components -> Component(Specs, Status, 1 .. MaxGeneration)]
      /\ pc \in [Components -> Calls]
      /\ job \in [Components -> Job]
  BY DEF TypeOK, Calls
<1>2. obj[c] \in Component(Specs, Status, 1 .. MaxGeneration) /\ job[c] \in Job
  BY <1>1
<1>3. QED
  BY <1>1, <1>2, SecretBoundsAssumption DEF Component, Job

\* What c's object and handler are after a step of c, by the kind of step.
LEMMA OwnStep ==
  ASSUME TypeOK, NEW c \in Components
  PROVE  /\ \A call, s : GoTo(c, call, s) =>
              /\ obj' = obj /\ pc'[c] = call /\ job'[c].status = s
              /\ job'[c].spec = job[c].spec /\ job'[c].generation = job[c].generation
              /\ job'[c].data = job[c].data
         /\ \A call, data : BeginWith(c, call, data) =>
              /\ obj' = obj /\ pc'[c] = call
              /\ job'[c].spec = obj[c].spec /\ job'[c].generation = obj[c].generation
              /\ job'[c].data = data /\ job'[c].status = obj[c].status
<1>1. job[c] \in Job
  BY DEF TypeOK
<1>2. QED
  BY <1>1 DEF TypeOK, GoTo, BeginWith, Job

LEMMA OwnFits ==
  ASSUME TypeOK, NEW c \in Components, HandlersFit(c), Step(c)
  PROVE  HandlersFit(c)'
<1>a. /\ obj[c].observed \in Nat /\ obj[c].generation \in Nat /\ job[c].generation \in Nat
      /\ obj \in [Components -> Component(Specs, Status, 1 .. MaxGeneration)]
      /\ pc \in [Components -> Calls] /\ job \in [Components -> Job]
  BY OwnTypes
<1> USE DEF HandlersFit, Idle, ApplyCalls
<1>1. CASE RejectSpec(c)
  BY <1>1, <1>a, OwnStep DEF RejectSpec, NeedsApply
<1>2. CASE BuildSecretData(c)
  <2>1. PICK failing \in SUBSET Generated(obj[c].spec) :
          BeginWith(c, "DescribeSecret", Data(obj[c].spec, failing))
    BY <1>2 DEF BuildSecretData
  <2>2. Fits(Data(obj[c].spec, failing), obj[c].spec)
    BY <1>a, <1>2, DataType DEF BuildSecretData, Component
  <2>3. QED
    BY <1>2, <1>a, <2>1, <2>2, OwnStep DEF BuildSecretData, NeedsApply
<1>3. CASE FindSecret(c)
  BY <1>3, <1>a, OwnStep DEF FindSecret, FindSecretOr
<1>4. CASE CreateSecret(c) \/ UpdateSecret(c)
  BY <1>4, <1>a, OwnStep DEF CreateSecret, UpdateSecret, Write, WriteAndReturn, Refused
<1>5. CASE StartDelete(c) \/ RetryDelete(c)
  BY <1>5, <1>a, OwnStep
     DEF StartDelete, RetryDelete, BeginDelete, BeginDeleteUnless, NeedsDelete, MayRetryDelete
<1>6. CASE DeleteSecret(c)
  BY <1>6, <1>a, OwnStep DEF DeleteSecret, DeleteById
<1>7. CASE Record(c)
  <2>1. pc'[c] = "idle" /\ obj'[c] = Recorded(c) /\ pc[c] \in Outcome
    BY <1>7, <1>a DEF Record
  <2>2. obj'[c].observed <= obj'[c].generation
    BY <1>a, <2>1
       DEF Outcome, Recorded, Applied, CheckedReady, ApplyFailed, Failed, CheckedGone, Component
  <2>3. QED
    BY <2>1, <2>2
<1>8. CASE Interrupt(c) \/ PermanentError(c)
  BY <1>8, <1>a DEF Interrupt, PermanentError
<1>9. CASE EditSpec(c)
  BY <1>9, <1>a DEF EditSpec, Edited
<1>10. CASE RequestDeletion(c)
  BY <1>10, <1>a DEF RequestDeletion, DeletionRequested
<1>11. QED
  BY <1>1, <1>2, <1>3, <1>4, <1>5, <1>6, <1>7, <1>8, <1>9, <1>10
     DEF Step, Reconcile, Apply, Delete

\* While its apply runs, or once it is being deleted, a Component is not settled.
LEMMA NotSettled ==
  ASSUME NEW c \in Components, obj'[c] = obj[c], pc'[c] # "applied",
         obj[c].deleting \/ obj[c].observed # obj[c].generation
  PROVE  ApplyStands(c)'
BY DEF ApplyStands, Settled

\* What stands is untouched by a step that leaves the secret and the Component alone.
LEMMA StillStands ==
  ASSUME NEW c \in Components, ApplyStands(c), obj'[c] = obj[c],
         (pc'[c] = pc[c] /\ job'[c] = job[c]) \/ pc'[c] # "applied",
         c \notin disturbed' =>
           /\ c \notin disturbed
           /\ arn' = arn /\ version' = version /\ content' = content
  PROVE  ApplyStands(c)'
BY DEF ApplyStands, Settled, Names, exists, Fits

LEMMA OwnStands ==
  ASSUME TypeOK, NEW c \in Components, HandlersFit(c), ApplyStands(c), Step(c)
  PROVE  ApplyStands(c)'
<1>a. /\ obj[c].observed \in Nat /\ obj[c].generation \in Nat /\ job[c].generation \in Nat
      /\ obj \in [Components -> Component(Specs, Status, 1 .. MaxGeneration)]
      /\ pc \in [Components -> Calls] /\ job \in [Components -> Job]
  BY OwnTypes
<1>b. /\ pc[c] \in ApplyCalls \cup {"applied", "applyFailed"} =>
           obj[c].observed # obj[c].generation
      /\ pc[c] \in {"DeleteSecret", "deleteStarted", "failed"} => obj[c].deleting
  BY <1>a DEF HandlersFit
<1> USE DEF awsVars
<1>1. CASE RejectSpec(c) \/ BuildSecretData(c)
  BY <1>1, <1>a, OwnStep, NotSettled DEF RejectSpec, BuildSecretData, NeedsApply
<1>2. CASE FindSecret(c)
  <2>1. obj' = obj /\ pc[c] \in ApplyCalls /\ job'[c].spec = job[c].spec
    BY <1>2, OwnStep DEF FindSecret, FindSecretOr, ApplyCalls
  <2>2. CASE pc'[c] = "applied"
    <3>1. /\ exists /\ ~AlwaysUpdate(job[c].spec)
          /\ job'[c].status = [arn |-> arn, version |-> 0] /\ arn' = arn
      BY <1>2, <2>2, OwnStep DEF FindSecret, FindSecretOr
    <3>2. Names(job[c].status, job[c].spec)'
      BY <2>1, <3>1 DEF Names, exists, AlwaysUpdate
    <3>3. QED
      BY <1>b, <2>1, <3>2 DEF ApplyStands, Settled
  <2>3. QED
    BY <1>b, <2>1, <2>2, NotSettled
<1>3. ASSUME NEW newArn, newArn # 0, Write(c, newArn), pc[c] \in ApplyCalls
      PROVE  ApplyStands(c)'
  <2>1. /\ obj' = obj /\ job'[c].spec = job[c].spec
        /\ job'[c].status = [arn |-> newArn, version |-> issued + 1]
    BY <1>3, OwnStep DEF Write, WriteAndReturn
  <2>2. /\ arn' = newArn /\ version' = issued + 1 /\ content' = job[c].data
        /\ issued + 1 # 0
    BY <1>3, SecretBoundsAssumption DEF Write, WriteAndReturn, TypeOK, Number
  <2>3. Fits(job[c].data, job[c].spec)
    BY <1>3 DEF HandlersFit
  <2>4. Names(job[c].status, job[c].spec)'
    BY <1>3, <2>1, <2>2, <2>3 DEF Names, exists, Fits
  <2>5. QED
    BY <1>3, <1>b, <2>1, <2>4 DEF ApplyStands, Settled
<1>4. CASE CreateSecret(c) \/ UpdateSecret(c)
  <2>1. pc[c] \in ApplyCalls /\ issued + 1 # 0
    BY <1>4, SecretBoundsAssumption DEF CreateSecret, UpdateSecret, ApplyCalls, TypeOK, Number
  <2>2. CASE Refused(c)
    BY <1>b, <2>1, <2>2, OwnStep, NotSettled DEF Refused
  <2>3. CASE Write(c, issued + 1)
    BY <1>3, <2>1, <2>3
  <2>4. CASE exists /\ Write(c, arn)
    BY <1>3, <2>1, <2>4 DEF exists
  <2>5. QED
    BY <1>4, <2>2, <2>3, <2>4 DEF CreateSecret, UpdateSecret
<1>5. CASE StartDelete(c) \/ RetryDelete(c)
  BY <1>5, <1>a, OwnStep, NotSettled
     DEF StartDelete, RetryDelete, BeginDelete, BeginDeleteUnless, NeedsDelete, MayRetryDelete
<1>6. CASE DeleteSecret(c)
  BY <1>6, <1>b, OwnStep, NotSettled DEF DeleteSecret, DeleteById
<1>7. CASE Record(c)
  <2>1. /\ pc'[c] = "idle" /\ obj'[c] = Recorded(c) /\ pc[c] \in Outcome
        /\ arn' = arn /\ version' = version /\ content' = content
        /\ disturbed' = disturbed
    BY <1>7, <1>a DEF Record
  <2>2. CASE pc[c] = "applied"
    <3>1. /\ obj'[c].observed = job[c].generation /\ obj'[c].status = job[c].status
          /\ obj'[c].generation = obj[c].generation /\ obj'[c].spec = obj[c].spec
      BY <1>a, <2>1, <2>2 DEF Recorded, Applied, CheckedReady, Component
    <3>2. job[c].generation = obj[c].generation => job[c].spec = obj[c].spec
      BY <2>2 DEF HandlersFit
    <3>3. QED
      BY <2>1, <2>2, <3>1, <3>2 DEF ApplyStands, Settled, Names, exists, Fits
  <2>3. CASE pc[c] # "applied"
    <3>1. obj'[c].phase # "Ready"
      BY <1>a, <2>1, <2>3 DEF Outcome, Recorded, ApplyFailed, Failed, CheckedGone, Component
    <3>2. QED
      BY <2>1, <3>1 DEF ApplyStands, Settled
  <2>4. QED
    BY <2>2, <2>3
<1>8. CASE Interrupt(c) \/ PermanentError(c)
  BY <1>8, <1>a, StillStands DEF Interrupt, PermanentError
<1>9. CASE EditSpec(c)
  BY <1>9 DEF EditSpec, ApplyStands
<1>10. CASE RequestDeletion(c)
  <2>1. /\ obj'[c].deleting /\ pc' = pc /\ job' = job /\ disturbed' = disturbed
        /\ arn' = arn /\ version' = version /\ content' = content
    BY <1>10, <1>a DEF RequestDeletion, DeletionRequested, Component
  <2>2. QED
    BY <2>1 DEF ApplyStands, Settled, Names, exists, Fits
<1>11. QED
  BY <1>1, <1>2, <1>4, <1>5, <1>6, <1>7, <1>8, <1>9, <1>10
     DEF Step, Reconcile, Apply, Delete

LEMMA OwnDeletes ==
  ASSUME TypeOK, NEW c \in Components, HandlersFit(c), DeleteStands(c), Step(c)
  PROVE  DeleteStands(c)'
<1>a. /\ obj \in [Components -> Component(Specs, Status, 1 .. MaxGeneration)]
      /\ pc \in [Components -> Calls] /\ job \in [Components -> Job]
  BY OwnTypes
<1>b. obj[c].phase = "Gone" => pc[c] = "idle"
  BY DEF HandlersFit, Idle
<1> USE DEF awsVars
\* Neither a Component that goes on, nor one that is not gone yet, has anything to keep.
<1>1. ASSUME obj'[c] = obj[c], obj[c].phase # "Gone", pc'[c] # "deleteStarted"
      PROVE  DeleteStands(c)'
  BY <1>1 DEF DeleteStands
<1>2. CASE RejectSpec(c) \/ BuildSecretData(c)
  BY <1>1, <1>2, OwnStep DEF RejectSpec, BuildSecretData, NeedsApply
<1>3. CASE FindSecret(c) \/ CreateSecret(c) \/ UpdateSecret(c)
  BY <1>1, <1>3, <1>b, OwnStep
     DEF FindSecret, FindSecretOr, CreateSecret, UpdateSecret, Write, WriteAndReturn, Refused
<1>4. CASE StartDelete(c) \/ RetryDelete(c)
  <2>1. obj' = obj /\ obj[c].phase # "Gone" /\ job'[c].status = obj[c].status
    BY <1>4, OwnStep
       DEF StartDelete, RetryDelete, BeginDelete, BeginDeleteUnless, NeedsDelete, MayRetryDelete
  <2>2. pc'[c] = "deleteStarted" => obj[c].status.arn = 0 \/ obj[c].spec.deletion = "Retain"
    BY <1>4, OwnStep DEF StartDelete, RetryDelete, BeginDelete, BeginDeleteUnless
  <2>3. QED
    BY <2>1, <2>2 DEF DeleteStands
<1>5. CASE DeleteSecret(c)
  <2>1. /\ obj' = obj /\ obj[c].phase # "Gone" /\ job'[c].status = job[c].status
        /\ arn' = 0 \/ arn' # job[c].status.arn
    BY <1>5, <1>b, OwnStep DEF DeleteSecret, DeleteById, exists
  <2>2. QED
    BY <2>1 DEF DeleteStands
<1>6. CASE Record(c)
  <2>1. /\ pc'[c] = "idle" /\ obj'[c] = Recorded(c) /\ pc[c] \in Outcome
        /\ arn' = arn /\ disturbed' = disturbed
    BY <1>6, <1>a DEF Record
  <2>2. CASE pc[c] = "deleteStarted"
    <3>1. obj'[c].spec = obj[c].spec /\ obj'[c].status = job[c].status
      BY <1>a, <2>1, <2>2 DEF Recorded, CheckedGone, Component
    <3>2. QED
      BY <2>1, <2>2, <3>1 DEF DeleteStands
  <2>3. CASE pc[c] # "deleteStarted"
    <3>1. obj'[c].phase # "Gone"
      BY <1>a, <2>1, <2>3
         DEF Outcome, Recorded, Applied, CheckedReady, ApplyFailed, Failed, Component
    <3>2. QED
      BY <2>1, <3>1 DEF DeleteStands
  <2>4. QED
    BY <2>2, <2>3
<1>7. CASE Interrupt(c) \/ PermanentError(c)
  BY <1>a, <1>b, <1>1, <1>7 DEF Interrupt, PermanentError, ApplyCalls
<1>8. CASE EditSpec(c)
  BY <1>8 DEF EditSpec, DeleteStands
<1>9. CASE RequestDeletion(c)
  <2>1. /\ obj'[c].phase = obj[c].phase /\ obj'[c].status = obj[c].status
        /\ obj'[c].spec = obj[c].spec
        /\ UNCHANGED <<arn, pc, job, disturbed>>
    BY <1>9, <1>a DEF RequestDeletion, DeletionRequested, Component
  <2>2. QED
    BY <2>1 DEF DeleteStands
<1>10. QED
  BY <1>2, <1>3, <1>4, <1>5, <1>6, <1>7, <1>8, <1>9 DEF Step, Reconcile, Apply, Delete

\* A Component knows the secret, in its status or in its running handler.
Knows(c) == obj[c].status.arn = arn \/ (~Idle(c) /\ job[c].status.arn = arn)

\* A step of a Component's own handler that leaves the secret alone and is no
\* fault neither mistakes its ARN nor forgets it.
LEMMA OwnArn ==
  ASSUME TypeOK, arn <= issued, NEW c \in Components, ArnIsKept(c), Step(c)
  PROVE  /\ ArnIsKept(c)'
         /\ exists' /\ faults' = faults =>
              \/ arn' = arn /\ content' = content /\ (Knows(c) => Knows(c)')
              \/ Knows(c)'
<1>a. /\ obj \in [Components -> Component(Specs, Status, 1 .. MaxGeneration)]
      /\ pc \in [Components -> Calls] /\ job \in [Components -> Job]
      /\ faults \in Nat
  BY OwnTypes, SecretBoundsAssumption DEF TypeOK
<1>b. /\ arn \in Nat /\ issued \in Nat
      /\ obj[c].status.arn \in Nat /\ job[c].status.arn \in Nat
  BY <1>a, SecretBoundsAssumption DEF TypeOK, Component, Job, Status, Number
<1> USE DEF ArnIsKept, Knows, Idle, awsVars
<1>1. CASE RejectSpec(c) \/ BuildSecretData(c) \/ StartDelete(c) \/ RetryDelete(c)
  <2>1. /\ obj' = obj /\ job'[c].status = obj[c].status /\ pc[c] = "idle"
        /\ arn' = arn /\ issued' = issued /\ content' = content
    BY <1>1, OwnStep
       DEF RejectSpec, BuildSecretData, StartDelete, RetryDelete, BeginDelete, BeginDeleteUnless
  <2>2. QED
    BY <1>b, <2>1
<1>2. CASE FindSecret(c)
  <2>1. UNCHANGED <<arn, issued, content>> /\ pc[c] # "idle"
    BY <1>2 DEF FindSecret, FindSecretOr
  <2>2. CASE \E call \in ApplyCalls : GoTo(c, call, job[c].status)
    <3>1. obj' = obj /\ pc'[c] # "idle" /\ job'[c].status = job[c].status
      BY <2>2, OwnStep DEF ApplyCalls
    <3>2. QED
      BY <1>b, <2>1, <3>1 DEF exists
  <2>3. CASE GoTo(c, "applied", [arn |-> arn, version |-> 0])
    <3>1. obj' = obj /\ pc'[c] = "applied" /\ job'[c].status = [arn |-> arn, version |-> 0]
      BY <2>3, OwnStep
    <3>2. QED
      BY <1>b, <2>1, <3>1
  <2>4. QED
    BY <1>2, <2>2, <2>3 DEF FindSecret, FindSecretOr, ApplyCalls
<1>3. ASSUME NEW newArn, newArn \in {arn, issued + 1}, Write(c, newArn)
      PROVE  ArnIsKept(c)' /\ Knows(c)'
  <2>1. /\ obj' = obj /\ arn' = newArn /\ issued' = issued + 1
        /\ pc'[c] = "applied" /\ job'[c].status.arn = newArn
    BY <1>3, OwnStep DEF Write, WriteAndReturn
  <2>2. QED
    BY <1>3, <1>b, <2>1
<1>4. CASE Refused(c) /\ pc[c] # "idle"
  <2>1. /\ obj' = obj /\ arn' = arn /\ issued' = issued /\ content' = content
        /\ pc'[c] # "idle" /\ job'[c].status = job[c].status
    BY <1>4, OwnStep DEF Refused
  <2>2. QED
    BY <1>4, <1>b, <2>1 DEF exists
<1>5. CASE CreateSecret(c) \/ UpdateSecret(c)
  BY <1>3, <1>4, <1>5 DEF CreateSecret, UpdateSecret
<1>6. CASE DeleteSecret(c)
  <2>1. /\ obj' = obj /\ issued' = issued /\ pc[c] # "idle" /\ pc'[c] # "idle"
        /\ job'[c].status = job[c].status
        /\ (arn' = arn /\ content' = content) \/ arn' = 0
    BY <1>6, OwnStep DEF DeleteSecret, DeleteById
  <2>2. QED
    BY <1>b, <2>1 DEF exists
<1>7. CASE Record(c)
  <2>1. /\ pc'[c] = "idle" /\ pc[c] # "idle" /\ obj'[c] = Recorded(c) /\ pc[c] \in Outcome
        /\ UNCHANGED <<arn, content, issued, job>>
    BY <1>7, <1>a DEF Record, Outcome
  <2>2. obj'[c].status = job[c].status
    BY <1>a, <2>1
       DEF Outcome, Recorded, Applied, CheckedReady, ApplyFailed, Failed, CheckedGone, Component
  <2>3. QED
    BY <1>b, <2>1, <2>2 DEF exists
<1>8. CASE Interrupt(c) \/ PermanentError(c)
  <2>1. /\ faults' # faults /\ UNCHANGED <<arn, issued, obj, job>>
        /\ pc'[c] # "idle" => pc[c] # "idle"
    BY <1>a, <1>8 DEF Interrupt, PermanentError, ApplyCalls
  <2>2. QED
    BY <2>1 DEF exists
<1>9. CASE EditSpec(c) \/ RequestDeletion(c)
  <2>1. UNCHANGED <<arn, issued, content, pc, job>>
    BY <1>9 DEF EditSpec, RequestDeletion
  <2>2. obj'[c].status = obj[c].status
    <3>1. obj[c] \in Component(Specs, Status, 1 .. MaxGeneration)
      BY <1>a
    <3>2. CASE EditSpec(c)
      <4>1. PICK s \in Specs : obj'[c] = Edited(obj[c], s)
        BY <1>a, <3>2 DEF EditSpec
      <4>2. QED
        BY <3>1, <4>1 DEF Edited, Component
    <3>3. CASE RequestDeletion(c)
      BY <1>a, <3>1, <3>3 DEF RequestDeletion, DeletionRequested, Component
    <3>4. QED
      BY <1>9, <3>2, <3>3
  <2>3. QED
    BY <2>1, <2>2 DEF exists
<1>10. QED
  BY <1>1, <1>2, <1>5, <1>6, <1>7, <1>8, <1>9 DEF Step, Reconcile, Apply, Delete

-----------------------------------------------------------------------------
(* The invariant. *)

LEMMA InitInv == Init => Inv
<1> SUFFICES ASSUME Init PROVE Inv
  OBVIOUS
<1>1. TypeOK
  BY InitType
<1>2. arn <= issued /\ issued >= 0
  BY DEF Init
<1>3. ASSUME NEW c \in Components
      PROVE  HandlersFit(c) /\ ApplyStands(c) /\ DeleteStands(c) /\ ArnIsKept(c)
  <2>1. /\ pc[c] = "idle" /\ obj[c].phase = "Pending"
        /\ obj[c].observed = 0 /\ obj[c].generation = 1
        /\ obj[c].status.arn = 0 /\ job[c].status.arn = 0
    BY DEF Init, NewComponent, NoStatus
  <2>2. QED
    BY <1>2, <2>1
       DEF HandlersFit, ApplyStands, DeleteStands, ArnIsKept, Settled, ApplyCalls, Idle
<1>4. SecretIsAccountedFor
  BY SecretDataAssumption DEF Init, SecretIsAccountedFor, exists
<1>5. QED
  BY <1>1, <1>2, <1>3, <1>4 DEF Inv

\* A step of another Component keeps the invariant of c, unless it disturbs c.
LEMMA OthersStep ==
  ASSUME TypeOK, arn <= issued, NEW d \in Components, Step(d), NEW c \in Components \ {d},
         HandlersFit(c), ApplyStands(c), DeleteStands(c), ArnIsKept(c)
  PROVE  /\ HandlersFit(c)' /\ ApplyStands(c)' /\ DeleteStands(c)' /\ ArnIsKept(c)'
         /\ arn' = arn /\ Knows(c) => Knows(c)'
<1>1. /\ obj'[c] = obj[c] /\ pc'[c] = pc[c] /\ job'[c] = job[c]
      /\ c \notin disturbed' =>
           /\ c \notin disturbed
           /\ arn' = arn /\ version' = version /\ content' = content
  BY OthersUndisturbed
<1>2. HandlersFit(c)'
  BY <1>1 DEF HandlersFit, Idle, Fits
<1>3. ApplyStands(c)'
  BY <1>1, StillStands
<1>4. DeleteStands(c)'
  BY <1>1 DEF DeleteStands
<1>5. /\ issued \in Nat /\ issued' \in Nat /\ issued <= issued'
      /\ arn' \in {0, arn} \/ arn' > issued
  BY Numbers
<1>6. obj[c].status.arn \in Nat /\ job[c].status.arn \in Nat /\ arn \in Nat
  BY SecretBoundsAssumption DEF TypeOK, Component, Job, Status, Number
<1>7. ArnIsKept(c)'
  <2>1. obj[c].status.arn <= issued' /\ job[c].status.arn <= issued'
    BY <1>5, <1>6 DEF ArnIsKept
  <2>2. ~Idle(c) /\ arn' # 0 /\ obj[c].status.arn = arn' => job[c].status.arn = arn'
    BY <1>5, <1>6 DEF ArnIsKept, exists
  <2>3. QED
    BY <1>1, <2>1, <2>2 DEF ArnIsKept, Idle, exists
<1>8. QED
  BY <1>1, <1>2, <1>3, <1>4, <1>7 DEF Knows, Idle

LEMMA AccountedStep ==
  ASSUME Inv, NEW d \in Components, Step(d)
  PROVE  SecretIsAccountedFor'
<1>1. TypeOK /\ TypeOK' /\ arn <= issued
  BY NextType DEF Inv, Next
<1>2. faults \in Nat /\ faults' \in Nat
  BY <1>1, SecretBoundsAssumption DEF TypeOK
<1>3. faults' = faults \/ faults' > 0
  BY <1>2
     DEF Step, Reconcile, Apply, Delete, RejectSpec, BuildSecretData, FindSecret, FindSecretOr,
         CreateSecret, UpdateSecret, Write, WriteAndReturn, Refused, StartDelete, RetryDelete,
         BeginDelete, BeginDeleteUnless, DeleteSecret, DeleteById, Record, Interrupt,
         PermanentError, EditSpec, RequestDeletion, GoTo
<1>4. SUFFICES ASSUME exists', \E f \in Fields : content'[f] = Password,
                      faults' = faults, ~(faults > 0)
               PROVE  \E c \in Components : Knows(c)'
  BY <1>2, <1>3 DEF SecretIsAccountedFor, Knows
<1>5. \/ arn' = arn /\ content' = content /\ (Knows(d) => Knows(d)')
      \/ Knows(d)'
  BY <1>1, <1>4, OwnArn DEF Inv
<1>6. CASE arn' = arn /\ content' = content /\ (Knows(d) => Knows(d)')
  <2>1. PICK c \in Components : Knows(c)
    BY <1>4, <1>6 DEF Inv, SecretIsAccountedFor, Knows, exists
  <2>2. CASE c = d
    BY <1>6, <2>1, <2>2
  <2>3. CASE c # d
    BY <1>1, <1>6, <2>1, <2>3, OthersStep DEF Inv
  <2>4. QED
    BY <2>2, <2>3
<1>7. QED
  BY <1>5, <1>6

LEMMA NextInv == Inv /\ [Next]_vars => Inv'
<1> SUFFICES ASSUME Inv, [Next]_vars PROVE Inv'
  OBVIOUS
<1>1. TypeOK /\ TypeOK'
  BY NextType DEF Inv
<1>2. CASE UNCHANGED vars
  BY <1>1, <1>2
     DEF Inv, vars, HandlersFit, ApplyStands, DeleteStands, ArnIsKept, Settled, Names, Fits,
         exists, Idle, SecretIsAccountedFor
<1>3. ASSUME NEW d \in Components, Step(d) PROVE Inv'
  <2>1. ASSUME NEW c \in Components
        PROVE  HandlersFit(c)' /\ ApplyStands(c)' /\ DeleteStands(c)' /\ ArnIsKept(c)'
    <3>1. CASE c = d
      BY <1>1, <1>3, <3>1, OwnFits, OwnStands, OwnDeletes, OwnArn DEF Inv
    <3>2. CASE c # d
      BY <1>1, <1>3, <3>2, OthersStep DEF Inv
    <3>3. QED
      BY <3>1, <3>2
  <2>2. arn' <= issued'
    BY <1>1, <1>3, Numbers DEF Inv
  <2>3. SecretIsAccountedFor'
    BY <1>3, AccountedStep
  <2>4. QED
    BY <1>1, <2>1, <2>2, <2>3 DEF Inv
<1>4. QED
  BY <1>2, <1>3 DEF Next

\* Inv is an inductive invariant of the provider.
THEOREM Invariance == Spec => []Inv
<1>1. QED
  BY InitInv, NextInv, PTL DEF Spec

\* What a Component reports as applied is in the secret, for every number of
\* Components, fields, values, writes, edits and faults.
THEOREM ReadyIsWritten == Spec => []ReadyMeansWritten
<1>1. Inv => ReadyMeansWritten
  BY DEF Inv, ReadyMeansWritten, ApplyStands, Names
<1>2. QED
  BY <1>1, Invariance, PTL

\* A Component that is gone took its secret with it, unless its policy is Retain.
THEOREM GoneIsGone == Spec => []NoSecretLeftBehind
<1>1. Inv => NoSecretLeftBehind
  BY DEF Inv, NoSecretLeftBehind, DeleteStands
<1>2. QED
  BY <1>1, Invariance, PTL

\* Without a fault, a secret with generated passwords is known to some Component.
THEOREM SecretsAreAccountedFor == Spec => []SecretIsAccountedFor
<1>1. Inv => SecretIsAccountedFor
  BY DEF Inv
<1>2. QED
  BY <1>1, Invariance, PTL

\* Nobody's passwords change unasked.
THEOREM PasswordsAreKept == Spec => PasswordsStay
<1>1. ASSUME Inv, [Next]_vars, exists, exists', version' # version
      PROVE  /\ arn' = arn
             /\ \E c \in Components : pc[c] # "idle" /\ AlwaysUpdate(job[c].spec)
  <2>1. PICK c \in Components : Step(c)
    BY <1>1 DEF Next, vars
  <2>2. UpdateSecret(c) /\ Write(c, arn)
    BY <1>1, <2>1
       DEF Step, Reconcile, Apply, Delete, RejectSpec, BuildSecretData, FindSecret,
           FindSecretOr, CreateSecret, UpdateSecret, Refused, StartDelete, RetryDelete,
           BeginDelete, BeginDeleteUnless, DeleteSecret, DeleteById, Record, Interrupt,
           PermanentError, EditSpec, RequestDeletion, awsVars, exists
  <2>3. QED
    BY <1>1, <2>2 DEF Inv, HandlersFit, UpdateSecret, Write, WriteAndReturn
<1>2. Inv /\ [Next]_vars =>
        [exists /\ exists' /\ version' # version =>
           /\ arn' = arn
           /\ \E c \in Components : pc[c] # "idle" /\ AlwaysUpdate(job[c].spec)]_vars
  BY <1>1
<1>3. QED
  BY <1>2, Invariance, PTL DEF Spec, PasswordsStay

\* A deletion takes no secret but the one its Component knows, and none that is to
\* be retained.
THEOREM OthersSecretsAreKept == Spec => OthersSecretsStay
<1>1. ASSUME Inv, [Next]_vars, exists, ~exists'
      PROVE  \E c \in Components : /\ obj[c].deleting /\ obj[c].status.arn = arn
                                   /\ job[c].spec.deletion # "Retain"
  <2>1. PICK c \in Components : Step(c)
    BY <1>1 DEF Next, vars, exists
  <2>2. issued + 1 # 0
    BY <1>1, SecretBoundsAssumption DEF Inv, TypeOK, Number
  <2>3. DeleteSecret(c) /\ arn = job[c].status.arn
    BY <1>1, <2>1, <2>2
       DEF Step, Reconcile, Apply, Delete, RejectSpec, BuildSecretData, FindSecret,
           FindSecretOr, CreateSecret, UpdateSecret, Write, WriteAndReturn, Refused,
           StartDelete, RetryDelete, BeginDelete, BeginDeleteUnless, DeleteSecret, DeleteById,
           Record, Interrupt, PermanentError, EditSpec, RequestDeletion, awsVars, exists
  <2>4. QED
    BY <1>1, <2>3 DEF Inv, HandlersFit, DeleteSecret, DeleteById
<1>2. Inv /\ [Next]_vars =>
        [exists /\ ~exists' =>
           \E c \in Components : /\ obj[c].deleting /\ obj[c].status.arn = arn
                                 /\ job[c].spec.deletion # "Retain"]_vars
  BY <1>1
<1>3. QED
  BY <1>2, Invariance, PTL DEF Spec, OthersSecretsStay

=============================================================================
