-------------------------- MODULE IamPolicyProofs ---------------------------
(* Theorems about IamPolicy, for every value of its constants. *)
EXTENDS IamPolicy, FiniteSetTheorems, TLAPS

-----------------------------------------------------------------------------
(* Type correctness. *)

\* The facts about the sets of the type invariant that every step needs.
LEMMA StatusType ==
  /\ NoStatus \in Status
  /\ NoJob \in Job
BY DEF NoStatus, Status, NoJob, Job

\* A step of a handler is well typed when what it writes is.
LEMMA GoToType ==
  ASSUME TypeOK, NEW c \in Components, NEW call, NEW j, GoTo(c, call, j),
         call \in ApplyCalls \cup DeleteCalls \cup Outcome, j \in Job,
         text' \in [VersionId -> Docs \cup {NoDoc}],
         default' \in VersionId \cup {0}, issued' \in VersionId \cup {0},
         attached' = attached, overtaken' \subseteq Components,
         renewed' \subseteq Components
  PROVE  TypeOK'
BY DEF TypeOK, GoTo

LEMMA CalledType ==
  ASSUME TypeOK, NEW c \in Components
  PROVE  Called(c) \in Job
BY StatusType DEF TypeOK, Called, Component, Job, NoJob

\* What the handlers assign to their local variables.
LEMMA LocalsType ==
  ASSUME NEW j \in Job, NEW v \in VersionId \cup {0}, NEW S \in SUBSET VersionId
  PROVE  /\ [j EXCEPT !.base = v] \in Job
         /\ [j EXCEPT !.victim = v] \in Job
         /\ [j EXCEPT !.todo = S] \in Job
         /\ [j EXCEPT !.status.arn = TRUE] \in Job
         /\ [j EXCEPT !.status.version = v] \in Job
         /\ [j EXCEPT !.status = [arn |-> TRUE, version |-> v]] \in Job
<1>1. [j EXCEPT !.base = v] \in Job /\ [j EXCEPT !.victim = v] \in Job
  BY DEF Job
<1>2. [j EXCEPT !.todo = S] \in Job
  BY DEF Job
<1>3. [j EXCEPT !.status.arn = TRUE] \in Job
  BY DEF Job, Status
<1>4. [j EXCEPT !.status.version = v] \in Job
  BY DEF Job, Status
<1>5. [j EXCEPT !.status = [arn |-> TRUE, version |-> v]] \in Job
  BY DEF Job, Status
<1>6. QED
  BY <1>1, <1>2, <1>3, <1>4, <1>5

LEMMA InitType == Init => TypeOK
<1> SUFFICES ASSUME Init PROVE TypeOK
  OBVIOUS
<1> USE LimitAssumption, DocsAssumption
<1>1. /\ text \in [VersionId -> Docs \cup {NoDoc}]
      /\ default \in VersionId \cup {0}
      /\ issued \in VersionId \cup {0}
  BY DEF Init, VersionId
<1>2. obj \in [Components -> Component(Docs, Status, Generation)]
  BY StatusType DEF Init, NewComponent, Component, Phase, Generation
<1>3. attached \in BOOLEAN
  BY Zenon DEF Init
<1>4. /\ pc \in [Components -> {"idle"} \cup ApplyCalls \cup DeleteCalls \cup Outcome]
      /\ job \in [Components -> Job]
      /\ overtaken \subseteq Components /\ renewed \subseteq Components
      /\ faults \in 0 .. MaxFaults
  BY StatusType DEF Init
<1>5. QED
  BY <1>1, <1>2, <1>3, <1>4 DEF TypeOK

LEMMA NextType == TypeOK /\ [Next]_vars => TypeOK'
<1> SUFFICES ASSUME TypeOK, [Next]_vars PROVE TypeOK'
  OBVIOUS
<1> USE LimitAssumption, DocsAssumption
<1>1. \A c \in Components : job[c] \in Job /\ Called(c) \in Job
  BY CalledType DEF TypeOK
<1>2. /\ text \in [VersionId -> Docs \cup {NoDoc}]
      /\ overtaken \subseteq Components /\ renewed \subseteq Components
  BY DEF TypeOK
<1>3. default \in VersionId \cup {0} /\ issued \in VersionId \cup {0}
  BY DEF TypeOK
<1>4. ASSUME NEW c \in Components, RejectSpec(c) PROVE TypeOK'
  BY <1>4, <1>1, <1>2, <1>3, GoToType DEF RejectSpec, awsVars, ApplyCalls, Outcome, Begin
<1>5. ASSUME NEW c \in Components, StartApply(c) PROVE TypeOK'
  BY <1>5, <1>1, <1>2, <1>3, GoToType DEF StartApply, awsVars, ApplyCalls, Outcome, Begin
<1>6. ASSUME NEW c \in Components, ListPolicies(c) PROVE TypeOK'
  BY <1>6, <1>1, <1>2, <1>3, GoToType, LocalsType DEF ListPolicies, awsVars, ApplyCalls, Outcome
<1>7. ASSUME NEW c \in Components, CreatePolicy(c) PROVE TypeOK'
  <2>1. 1 \in VersionId
    BY DEF VersionId
  <2>2. job[c].doc \in Docs \cup {NoDoc}
    BY <1>1 DEF Job
  <2>3. [job[c] EXCEPT !.status = [arn |-> TRUE, version |-> 1]] \in Job
    BY <1>1, <2>1, LocalsType
  <2>4. QED
    BY <1>7, <1>1, <1>2, <2>1, <2>2, <2>3, GoToType DEF CreatePolicy, CreateWithText, Overtakes, Renews, Outcome
<1>8. ASSUME NEW c \in Components, CreatePolicyConflict(c) PROVE TypeOK'
  BY <1>8, <1>1, <1>2, <1>3, GoToType DEF CreatePolicyConflict, awsVars, ApplyCalls, Outcome
<1>9. ASSUME NEW c \in Components, GetPolicy(c) PROVE TypeOK'
  BY <1>9, <1>1, <1>2, <1>3, GoToType, LocalsType DEF GetPolicy, awsVars, ApplyCalls, Outcome
<1>10. ASSUME NEW c \in Components, GetPolicyVersion(c) PROVE TypeOK'
  <2>1. [job[c] EXCEPT !.status.version = job[c].base] \in Job
    <3>1. job[c].base \in VersionId \cup {0}
      BY <1>1 DEF Job
    <3>2. QED
      BY <1>1, <3>1, LocalsType
  <2>2. QED
    BY <1>10, <1>1, <1>2, <1>3, <2>1, GoToType DEF GetPolicyVersion, CompareDocument, awsVars, ApplyCalls, Outcome
<1>11. ASSUME NEW c \in Components, ListVersions(c) PROVE TypeOK'
  BY <1>11, <1>1, <1>2, <1>3, GoToType, LocalsType DEF ListVersions, awsVars, ApplyCalls, Outcome, NonDefault, versions
<1>12. ASSUME NEW c \in Components, DeleteOldest(c) PROVE TypeOK'
  <2>1. text' \in [VersionId -> Docs \cup {NoDoc}]
    BY <1>12, <1>2 DEF DeleteOldest
  <2>2. QED
    BY <1>12, <1>1, <1>2, <1>3, <2>1, GoToType DEF DeleteOldest, Overtakes, ApplyCalls, Outcome
<1>13. ASSUME NEW c \in Components, CreateVersion(c) PROVE TypeOK'
  <2>1. issued + 1 \in VersionId
    BY <1>13, <1>3 DEF CreateVersion, NewVersion, VersionId
  <2>2. job[c].doc \in Docs \cup {NoDoc}
    BY <1>1 DEF Job
  <2>3. [job[c] EXCEPT !.status.version = issued + 1] \in Job
    BY <1>1, <2>1, LocalsType
  <2>4. QED
    BY <1>13, <1>1, <1>2, <2>1, <2>2, <2>3, GoToType DEF CreateVersion, NewVersion, Overtakes, Renews, Outcome
<1>14. ASSUME NEW c \in Components, CreateVersionRefused(c) PROVE TypeOK'
  BY <1>14, <1>1, <1>2, <1>3, GoToType DEF CreateVersionRefused, awsVars, ApplyCalls, Outcome
<1>15. ASSUME NEW c \in Components, CheckApplied(c) PROVE TypeOK'
  BY <1>15, <1>1, <1>2, <1>3, GoToType DEF CheckApplied, awsVars, ApplyCalls, Outcome, Begin
<1>16. ASSUME NEW c \in Components, StartDelete(c) PROVE TypeOK'
  BY <1>16, <1>1, <1>2, <1>3, GoToType DEF StartDelete, awsVars, DeleteCalls, Outcome, BeginDelete, Begin
<1>17. ASSUME NEW c \in Components, RetryDelete(c) PROVE TypeOK'
  BY <1>17, <1>1, <1>2, <1>3, GoToType DEF RetryDelete, awsVars, DeleteCalls, Outcome, BeginDelete, Begin
<1>18. ASSUME NEW c \in Components, GetForDelete(c) PROVE TypeOK'
  BY <1>18, <1>1, <1>2, <1>3, GoToType DEF GetForDelete, awsVars, DeleteCalls, Outcome
<1>19. ASSUME NEW c \in Components, ListForDelete(c) PROVE TypeOK'
  <2>1. [job[c] EXCEPT !.todo = NonDefault] \in Job
    <3>1. NonDefault \in SUBSET VersionId /\ default \in VersionId \cup {0}
      BY DEF NonDefault, versions, TypeOK
    <3>2. QED
      BY <1>1, <3>1, LocalsType
  <2>2. QED
    BY <1>19, <1>1, <1>2, <1>3, <2>1, GoToType DEF ListForDelete, awsVars, DeleteCalls
<1>20. ASSUME NEW c \in Components, DeleteOneVersion(c) PROVE TypeOK'
  <2>1. PICK v \in job[c].todo : DeleteListed(c, {default})!2!(v)
    BY <1>20 DEF DeleteOneVersion, DeleteListed
  <2>2. job[c].todo \in SUBSET VersionId
    BY <1>1 DEF Job
  <2>3. [job[c] EXCEPT !.todo = @ \ {v}] \in Job
    BY <1>1, <2>2, LocalsType
  <2>4. text' \in [VersionId -> Docs \cup {NoDoc}] /\ overtaken' \subseteq Components
    BY <1>2, <2>1 DEF Overtakes
  <2>5. QED
    BY <1>20, <1>1, <1>2, <1>3, <2>1, <2>3, <2>4, GoToType DEF DeleteOneVersion, DeleteListed, DeleteCalls, Outcome
<1>21. ASSUME NEW c \in Components, DeletePolicy(c) PROVE TypeOK'
  <2>1. NoText \in [VersionId -> Docs \cup {NoDoc}]
    BY DEF NoText
  <2>2. QED
    BY <1>21, <1>1, <1>2, <1>3, <2>1, GoToType DEF DeletePolicy, DeleteOr, Overtakes, Outcome
<1>22. ASSUME NEW c \in Components, CheckDeleted(c) PROVE TypeOK'
  BY <1>22, <1>1, <1>2, <1>3, GoToType DEF CheckDeleted, CheckGone, awsVars, ApplyCalls, Outcome, Begin
<1>23. ASSUME NEW c \in Components, Record(c) PROVE TypeOK'
  <2>1. obj[c] \in Component(Docs, Status, Generation)
    BY DEF TypeOK
  <2>2. job[c].status \in Status /\ job[c].generation \in Generation \cup {0}
    BY <1>1 DEF Job
  <2>3. Recorded(c) \in Component(Docs, Status, Generation)
    <3>1. CASE pc[c] \in {"applied", "applyFailed"}
      BY <2>1, <2>2, <3>1 DEF Recorded, Applied, ApplyFailed, Component, Phase
    <3>2. CASE pc[c] \in {"ready", "failed"}
      BY <2>1, <2>2, <3>2 DEF Recorded, CheckedReady, Failed, Component, Phase
    <3>3. CASE pc[c] \in {"deleteStarted", "gone"}
      BY <2>1, <2>2, <3>3 DEF Recorded, DeleteStarted, CheckedGone, Component, Phase
    <3>4. QED
      BY <1>23, <3>1, <3>2, <3>3 DEF Record, Outcome
  <2>4. QED
    BY <1>23, <2>3, StatusType DEF Record, TypeOK, awsVars
<1>24. ASSUME NEW c \in Components, Interrupt(c) PROVE TypeOK'
  BY <1>24, StatusType DEF Interrupt, TypeOK, awsVars
<1>25. ASSUME NEW c \in Components, PermanentError(c) PROVE TypeOK'
  BY <1>25 DEF PermanentError, TypeOK, awsVars, Outcome
<1>26. ASSUME NEW c \in Components, CheckRefused(c) PROVE TypeOK'
  <2>1. [job[c] EXCEPT !.status = obj[c].status] \in Job
    BY <1>1 DEF TypeOK, Component, Job
  <2>2. QED
    BY <1>26, <2>1 DEF CheckRefused, TypeOK, awsVars, Outcome
<1>27. ASSUME NEW c \in Components, EditSpec(c) PROVE TypeOK'
  <2>1. PICK d \in Docs : obj' = [obj EXCEPT ![c] = Edited(obj[c], d)]
    BY <1>27 DEF EditSpec
  <2>2. Edited(obj[c], d) \in Component(Docs, Status, Generation)
    <3>1. obj[c] \in Component(Docs, Status, Generation)
      BY DEF TypeOK
    <3>2. obj[c].generation + 1 \in Generation
      BY <1>27, <3>1 DEF EditSpec, Component, Generation
    <3>3. QED
      BY <3>1, <3>2 DEF Edited, Component
  <2>3. QED
    BY <1>27, <2>1, <2>2 DEF EditSpec, TypeOK, awsVars
<1>28. ASSUME NEW c \in Components, RequestDeletion(c) PROVE TypeOK'
  BY <1>28 DEF RequestDeletion, DeletionRequested, TypeOK, awsVars, Component
<1>29. CASE Attach
  BY <1>29 DEF Attach, TypeOK
<1>30. CASE Detach
  BY <1>30 DEF Detach, TypeOK
<1>31. CASE UNCHANGED vars
  BY <1>31 DEF vars, TypeOK
<1>32. QED
  BY <1>4, <1>5, <1>6, <1>7, <1>8, <1>9, <1>10, <1>11, <1>12, <1>13, <1>14,
     <1>15, <1>16, <1>17, <1>18, <1>19, <1>20, <1>21, <1>22, <1>23,
     <1>24, <1>25, <1>26, <1>27, <1>28, <1>29, <1>30, <1>31
     DEF Next, Step, Reconcile, Apply, Delete

\* Every variable keeps to its type, for every number of Components, documents,
\* versions and edits.
THEOREM TypeCorrect == Spec => []TypeOK
<1>1. QED
  BY InitType, NextType, PTL DEF Spec

-----------------------------------------------------------------------------
(* The policy in AWS. *)

LEMMA FiniteVersions ==
  ASSUME NEW S \in SUBSET VersionId
  PROVE  IsFiniteSet(S) /\ Cardinality(S) \in Nat
<1>1. IsFiniteSet(VersionId)
  BY LimitAssumption, FS_Interval DEF VersionId
<1>2. IsFiniteSet(S)
  BY <1>1, FS_Subset
<1>3. QED
  BY <1>2, FS_CardinalityType

LEMMA OneMore ==
  ASSUME NEW S \in SUBSET VersionId, NEW v
  PROVE  Cardinality(S \cup {v}) <= Cardinality(S) + 1
<1>1. IsFiniteSet(S) /\ Cardinality(S) \in Nat
  BY FiniteVersions
<1>2. Cardinality(S \cup {v}) = IF v \in S THEN Cardinality(S) ELSE Cardinality(S) + 1
  BY <1>1, FS_AddElement
<1>3. QED
  BY <1>1, <1>2

LEMMA OneLess ==
  ASSUME NEW S \in SUBSET VersionId, NEW v
  PROVE  /\ Cardinality(S \ {v}) <= Cardinality(S)
         /\ v \in S => Cardinality(S \ {v}) < Cardinality(S)
<1>1. IsFiniteSet(S) /\ Cardinality(S) \in Nat
  BY FiniteVersions
<1>2. Cardinality(S \ {v}) = IF v \in S THEN Cardinality(S) - 1 ELSE Cardinality(S)
  BY <1>1, FS_RemoveElement
<1>3. QED
  BY <1>1, <1>2

LEMMA NoTextNoVersions ==
  ASSUME text' = NoText
  PROVE  versions' = {} /\ ~exists'
BY DEF NoText, versions, exists

LEMMA PolicyFacts ==
  ASSUME TypeOK, PolicyFits
  PROVE  /\ versions \in SUBSET VersionId /\ NonDefault \in SUBSET versions
         /\ default \in Nat /\ issued = default
         /\ \A v \in versions : v \in Nat /\ v >= 1 /\ v <= default
         /\ exists => default \in versions
         /\ ~exists => default = 0
         /\ default \notin NonDefault
<1>1. default \in Nat /\ issued = default /\ versions \in SUBSET VersionId
  BY LimitAssumption DEF TypeOK, PolicyFits, VersionId, versions
<1>2. \A v \in versions : v \in Nat /\ v >= 1 /\ v <= default
  BY <1>1, LimitAssumption DEF PolicyFits, VersionId
<1>3. exists => default \in versions
  BY <1>1, <1>2 DEF PolicyFits, exists
<1>4. ~exists => default = 0
  BY <1>1 DEF PolicyFits, exists
<1>5. QED
  BY <1>1, <1>2, <1>3, <1>4 DEF NonDefault

\* An apply has a document to write.
LEMMA DocToWrite ==
  ASSUME TypeOK, NEW c \in Components, HandlersFit(c), pc[c] \in ApplyCalls
  PROVE  job[c].doc \in Docs /\ job[c].doc # NoDoc
BY DocsAssumption DEF HandlersFit

\* The steps that change the policy, and what they make of it.
LEMMA CreateGives ==
  ASSUME TypeOK, NEW c \in Components, HandlersFit(c), CreatePolicy(c)
  PROVE  /\ ~exists /\ exists'
         /\ versions' = {1} /\ default' = 1 /\ issued' = 1
         /\ text'[1] = job[c].doc
<1>1. job[c].doc # NoDoc
  BY DocToWrite DEF CreatePolicy, CreateWithText, ApplyCalls
<1>2. 1 \in VersionId
  BY LimitAssumption DEF VersionId
<1>3. text \in [VersionId -> Docs \cup {NoDoc}] /\ text' = [text EXCEPT ![1] = job[c].doc]
  BY DEF TypeOK, CreatePolicy, CreateWithText
<1>4. ~exists /\ default' = 1 /\ issued' = 1
  BY DEF CreatePolicy, CreateWithText
<1>5. \A v \in VersionId : text[v] = NoDoc
  BY <1>4 DEF exists, versions
<1>6. versions' = {1}
  BY <1>1, <1>2, <1>3, <1>5 DEF versions
<1>7. QED
  BY <1>2, <1>3, <1>4, <1>6 DEF exists

LEMMA AddGives ==
  ASSUME TypeOK, NEW c \in Components, HandlersFit(c), CreateVersion(c)
  PROVE  /\ exists /\ exists' /\ HasRoom /\ issued + 1 \in VersionId
         /\ versions' = versions \cup {issued + 1}
         /\ default' = issued + 1 /\ issued' = issued + 1
         /\ text'[issued + 1] = job[c].doc
<1>1. job[c].doc # NoDoc
  BY DocToWrite DEF CreateVersion, NewVersion, ApplyCalls
<1>2. issued + 1 \in VersionId
  BY LimitAssumption DEF CreateVersion, NewVersion, VersionId, TypeOK
<1>3. text \in [VersionId -> Docs \cup {NoDoc}]
  BY DEF TypeOK
<1>4. /\ exists /\ HasRoom
      /\ text' = [text EXCEPT ![issued + 1] = job[c].doc]
      /\ default' = issued + 1 /\ issued' = issued + 1
  BY DEF CreateVersion, NewVersion
<1>5. versions' = versions \cup {issued + 1}
  BY <1>1, <1>2, <1>3, <1>4 DEF versions
<1>6. exists'
  BY <1>5 DEF exists
<1>7. QED
  BY <1>2, <1>3, <1>4, <1>5, <1>6

\* DeletePolicyVersion, whoever calls it, leaves the default version alone.
LEMMA RemoveGives ==
  ASSUME TypeOK, PolicyFits, NEW c \in Components, DeleteOldest(c) \/ DeleteOneVersion(c)
  PROVE  /\ UNCHANGED <<default, issued>>
         /\ \/ text' = text
            \/ \E v \in VersionId \ {default} :
                 /\ text' = [text EXCEPT ![v] = NoDoc]
                 /\ versions' = versions \ {v}
                 /\ DeleteOldest(c) => v = job[c].victim /\ v \in NonDefault
                 /\ c \notin overtaken' => c \notin overtaken
<1>1. text \in [VersionId -> Docs \cup {NoDoc}]
  BY DEF TypeOK
<1>2. ASSUME NEW v \in VersionId, text' = [text EXCEPT ![v] = NoDoc]
      PROVE  versions' = versions \ {v}
  BY <1>1, <1>2 DEF versions
<1>3. c \notin overtaken' => c \notin overtaken
  BY DEF DeleteOldest, DeleteOneVersion, DeleteListed, Overtakes
<1>4. CASE DeleteOldest(c)
  <2>1. CASE job[c].victim \in NonDefault
    <3>1. job[c].victim \in VersionId \ {default}
      BY <2>1 DEF NonDefault, versions
    <3>2. text' = [text EXCEPT ![job[c].victim] = NoDoc]
      BY <1>4, <2>1 DEF DeleteOldest
    <3>3. versions' = versions \ {job[c].victim}
      BY <1>2, <3>1, <3>2
    <3>4. UNCHANGED <<default, issued>>
      BY <1>4 DEF DeleteOldest
    <3>5. QED
      BY <1>3, <2>1, <3>1, <3>2, <3>3, <3>4
  <2>2. CASE job[c].victim \notin NonDefault
    BY <1>4, <2>2 DEF DeleteOldest
  <2>3. QED
    BY <2>1, <2>2
<1>5. CASE DeleteOneVersion(c)
  <2>1. UNCHANGED <<default, issued>> /\ pc[c] = "DeleteVersions"
    BY <1>5 DEF DeleteOneVersion, DeleteListed
  <2>2. PICK v \in job[c].todo :
          \/ v = default /\ text' = text
          \/ v # default /\ text' = [text EXCEPT ![v] = NoDoc]
    BY <1>5 DEF DeleteOneVersion, DeleteListed
  <2>3. v \in VersionId
    BY DEF TypeOK, Job
  <2>4. ~DeleteOldest(c)
    BY <2>1 DEF DeleteOldest
  <2>5. QED
    BY <1>2, <1>3, <2>1, <2>2, <2>3, <2>4
<1>6. QED
  BY <1>4, <1>5

LEMMA DeletePolicyGives ==
  ASSUME TypeOK, PolicyFits, NEW c \in Components, DeletePolicy(c)
  PROVE  \/ UNCHANGED <<text, default, issued>>
         \/ versions' = {} /\ ~exists' /\ default' = 0 /\ issued' = 0
BY NoTextNoVersions DEF DeletePolicy, DeleteOr

\* All other steps leave the policy alone.
LEMMA PolicyUntouched ==
  ASSUME NEW c \in Components, Step(c),
         ~CreatePolicy(c), ~CreateVersion(c), ~DeleteOldest(c),
         ~DeleteOneVersion(c), ~DeletePolicy(c)
  PROVE  UNCHANGED <<text, default, issued>>
BY DEF Step, Reconcile, Apply, Delete, RejectSpec, StartApply, ListPolicies,
       CreatePolicyConflict, GetPolicy, GetPolicyVersion, CompareDocument, ListVersions,
       CreateVersionRefused, CheckApplied, StartDelete, RetryDelete, BeginDelete,
       GetForDelete, ListForDelete, CheckDeleted, CheckGone, Record, Interrupt,
       PermanentError, CheckRefused, EditSpec, RequestDeletion, awsVars

LEMMA PolicyFitsStep ==
  ASSUME TypeOK, PolicyFits, NEW c \in Components, HandlersFit(c), Step(c)
  PROVE  PolicyFits'
<1>1. /\ versions \in SUBSET VersionId /\ default \in Nat /\ issued = default
      /\ \A v \in versions : v \in Nat /\ v <= default
  BY PolicyFacts
<1>2. Cardinality(versions) \in Nat
  BY <1>1, FiniteVersions
<1>3. CASE UNCHANGED <<text, default, issued>>
  BY <1>3 DEF PolicyFits, versions
<1>4. CASE CreatePolicy(c)
  <2>1. versions' = {1} /\ default' = 1 /\ issued' = 1
    BY <1>4, CreateGives
  <2>2. Cardinality({1}) = 1
    BY FS_Singleton
  <2>3. QED
    BY <2>1, <2>2, LimitAssumption DEF PolicyFits
<1>5. CASE CreateVersion(c)
  <2>1. /\ versions' = versions \cup {issued + 1} /\ HasRoom
        /\ default' = issued + 1 /\ issued' = issued + 1
    BY <1>5, AddGives
  <2>2. /\ Cardinality(versions \cup {issued + 1}) <= Cardinality(versions) + 1
        /\ Cardinality(versions \cup {issued + 1}) \in Nat
    BY <1>1, <1>5, AddGives, OneMore, FiniteVersions
  <2>3. Cardinality(versions') <= MaxNumberOfPolicyVersions
    BY <1>2, <2>1, <2>2, LimitAssumption DEF HasRoom
  <2>4. QED
    BY <1>1, <2>1, <2>3 DEF PolicyFits
<1>6. CASE DeleteOldest(c) \/ DeleteOneVersion(c)
  <2>1. CASE text' = text
    BY <1>3, <1>6, <2>1, RemoveGives
  <2>2. CASE text' # text
    <3>1. PICK v \in VersionId \ {default} : versions' = versions \ {v}
      BY <1>6, <2>2, RemoveGives
    <3>2. default' = default /\ issued' = issued
      BY <1>6, RemoveGives
    <3>3. /\ Cardinality(versions \ {v}) <= Cardinality(versions)
          /\ Cardinality(versions \ {v}) \in Nat
      BY <1>1, OneLess, FiniteVersions
    <3>4. QED
      BY <1>1, <1>2, <3>1, <3>2, <3>3, LimitAssumption DEF PolicyFits
  <2>3. QED
    BY <2>1, <2>2
<1>7. CASE DeletePolicy(c)
  <2>1. Cardinality({}) = 0
    BY FS_EmptySet
  <2>2. QED
    BY <1>3, <1>7, <2>1, DeletePolicyGives, LimitAssumption DEF PolicyFits
<1>8. QED
  BY <1>3, <1>4, <1>5, <1>6, <1>7, PolicyUntouched

-----------------------------------------------------------------------------
(* What an apply has done stands. *)

\* A step of d leaves the other Components and their handlers alone, and
\* whoever it does not overtake still finds what was in force, if anything was.
LEMMA OthersUndisturbed ==
  ASSUME TypeOK, NEW d \in Components, Step(d), NEW c \in Components \ {d}
  PROVE  /\ obj'[c] = obj[c] /\ pc'[c] = pc[c] /\ job'[c] = job[c]
         /\ c \notin overtaken' =>
              /\ c \notin overtaken
              /\ (text' = text /\ default' = default) \/ (~exists /\ ~exists')
<1> USE DEF TypeOK, awsVars, Begin, GoTo, Overtakes
<1>1. CASE RejectSpec(d)
  BY <1>1 DEF RejectSpec
<1>2. CASE StartApply(d)
  BY <1>2 DEF StartApply
<1>3. CASE ListPolicies(d)
  BY <1>3 DEF ListPolicies
<1>4. CASE CreatePolicy(d)
  BY <1>4 DEF CreatePolicy, CreateWithText
<1>5. CASE CreatePolicyConflict(d)
  BY <1>5 DEF CreatePolicyConflict
<1>6. CASE GetPolicy(d)
  BY <1>6 DEF GetPolicy
<1>7. CASE GetPolicyVersion(d)
  BY <1>7 DEF GetPolicyVersion, CompareDocument
<1>8. CASE ListVersions(d)
  BY <1>8 DEF ListVersions
<1>9. CASE DeleteOldest(d)
  BY <1>9 DEF DeleteOldest
<1>10. CASE CreateVersion(d)
  BY <1>10 DEF CreateVersion, NewVersion
<1>11. CASE CreateVersionRefused(d)
  BY <1>11 DEF CreateVersionRefused
<1>12. CASE CheckApplied(d)
  BY <1>12 DEF CheckApplied
<1>13. CASE StartDelete(d)
  BY <1>13 DEF StartDelete, BeginDelete
<1>14. CASE RetryDelete(d)
  BY <1>14 DEF RetryDelete, BeginDelete
<1>15. CASE GetForDelete(d)
  BY <1>15 DEF GetForDelete
<1>16. CASE ListForDelete(d)
  BY <1>16 DEF ListForDelete
<1>17. CASE DeleteOneVersion(d)
  BY <1>17 DEF DeleteOneVersion, DeleteListed, versions
<1>18. CASE DeletePolicy(d)
  <2>1. (text' = text /\ default' = default) \/ ~exists'
    BY <1>18, NoTextNoVersions DEF DeletePolicy, DeleteOr
  <2>2. QED
    BY <1>18, <2>1 DEF DeletePolicy, DeleteOr
<1>19. CASE CheckDeleted(d)
  BY <1>19 DEF CheckDeleted, CheckGone
<1>20. CASE Record(d)
  BY <1>20 DEF Record
<1>21. CASE Interrupt(d)
  BY <1>21 DEF Interrupt
<1>22. CASE PermanentError(d)
  BY <1>22 DEF PermanentError
<1>23. CASE CheckRefused(d)
  BY <1>23 DEF CheckRefused
<1>24. CASE EditSpec(d)
  BY <1>24 DEF EditSpec
<1>25. CASE RequestDeletion(d)
  BY <1>25 DEF RequestDeletion
<1>26. QED
  BY <1>1, <1>2, <1>3, <1>4, <1>5, <1>6, <1>7, <1>8, <1>9, <1>10, <1>11,
     <1>12, <1>13, <1>14, <1>15, <1>16, <1>17, <1>18, <1>19, <1>20,
     <1>21, <1>22, <1>23, <1>24, <1>25
     DEF Step, Reconcile, Apply, Delete

\* An apply that goes on, or ends, on the document and generation it began with.
LEMMA GoesOn ==
  ASSUME TypeOK, NEW c \in Components, HandlersFit(c), pc[c] \in ApplyCalls,
         NEW call \in ApplyCalls \cup {"applied", "applyFailed"}, NEW j,
         GoTo(c, call, j), j.doc = job[c].doc, j.generation = job[c].generation,
         j.status.arn = TRUE \/ j.status = job[c].status,
         call \in ApplyCalls \ {"ListPolicies", "CreatePolicy"} => j.status.arn = TRUE
  PROVE  HandlersFit(c)'
<1>1. /\ obj' = obj
      /\ pc'[c] = call /\ job'[c] = j
  BY DEF TypeOK, GoTo
<1>2. QED
  BY <1>1 DEF HandlersFit, ApplyCalls, DeleteCalls

\* Every handler keeps HandlersFit of its own Component.
LEMMA OwnFit ==
  ASSUME TypeOK, NEW c \in Components, HandlersFit(c), Step(c)
  PROVE  HandlersFit(c)'
<1>a. /\ obj \in [Components -> Component(Docs, Status, Generation)]
      /\ pc \in [Components -> {"idle"} \cup ApplyCalls \cup DeleteCalls \cup Outcome]
      /\ job \in [Components -> Job]
  BY DEF TypeOK
<1>b. /\ obj[c].observed \in Nat /\ obj[c].generation \in Nat
      /\ job[c].generation \in Nat
  BY <1>a, LimitAssumption DEF Component, Job, Generation
<1> USE DEF HandlersFit, ApplyCalls, DeleteCalls, Begin, GoTo
<1>1. CASE RejectSpec(c)
  BY <1>1, <1>a, <1>b DEF RejectSpec, NeedsApply, Called, NoJob
<1>2. CASE StartApply(c)
  BY <1>2, <1>a, <1>b DEF StartApply, NeedsApply, Called, NoJob
<1>3. CASE ListPolicies(c)
  <2>1. pc[c] \in ApplyCalls /\ job[c] \in Job
    BY <1>3, <1>a DEF ListPolicies
  <2>2. CASE GoTo(c, "GetPolicy", [job[c] EXCEPT !.status.arn = TRUE])
    <3> DEFINE j == [job[c] EXCEPT !.status.arn = TRUE]
    <3>1. /\ j.doc = job[c].doc /\ j.generation = job[c].generation
          /\ j.status.arn = TRUE
      BY <1>3, <2>1 DEF ListPolicies, HandlersFit, ApplyCalls, Job, Status
    <3>2. GoTo(c, "GetPolicy", j)
      BY <2>2
    <3> HIDE DEF j
    <3>3. QED
      BY <2>1, <3>1, <3>2, GoesOn
  <2>3. CASE GoTo(c, "CreatePolicy", job[c])
    BY <1>3, <2>1, <2>3, GoesOn DEF ListPolicies, HandlersFit, ApplyCalls
  <2>4. QED
    BY <1>3, <2>2, <2>3 DEF ListPolicies
<1>4. CASE CreatePolicy(c)
  BY <1>4, <1>a, <1>b DEF CreatePolicy, CreateWithText
<1>5. CASE CreatePolicyConflict(c)
  BY <1>5, <1>a, <1>b DEF CreatePolicyConflict
<1>6. CASE GetPolicy(c)
  <2>1. pc[c] \in ApplyCalls /\ job[c] \in Job
    BY <1>6, <1>a DEF GetPolicy
  <2>2. CASE GoTo(c, "GetPolicyVersion", [job[c] EXCEPT !.base = default])
    <3> DEFINE j == [job[c] EXCEPT !.base = default]
    <3>1. /\ j.doc = job[c].doc /\ j.generation = job[c].generation
          /\ j.status.arn = TRUE
      BY <1>6, <2>1 DEF GetPolicy, HandlersFit, ApplyCalls, Job, Status
    <3>2. GoTo(c, "GetPolicyVersion", j)
      BY <2>2
    <3> HIDE DEF j
    <3>3. QED
      BY <2>1, <3>1, <3>2, GoesOn
  <2>3. CASE GoTo(c, "applyFailed", job[c])
    BY <1>6, <2>1, <2>3, GoesOn DEF GetPolicy, HandlersFit, ApplyCalls
  <2>4. QED
    BY <1>6, <2>2, <2>3 DEF GetPolicy
<1>7. CASE GetPolicyVersion(c)
  <2>1. pc[c] \in ApplyCalls /\ job[c] \in Job
    BY <1>7, <1>a DEF GetPolicyVersion, CompareDocument
  <2>2. CASE GoTo(c, "applyFailed", job[c])
    BY <1>7, <2>1, <2>2, GoesOn DEF GetPolicyVersion, CompareDocument, HandlersFit, ApplyCalls
  <2>3. CASE GoTo(c, "applied", [job[c] EXCEPT !.status.version = job[c].base])
    <3> DEFINE j == [job[c] EXCEPT !.status.version = job[c].base]
    <3>1. /\ j.doc = job[c].doc /\ j.generation = job[c].generation
          /\ j.status.arn = TRUE
      BY <1>7, <2>1 DEF GetPolicyVersion, CompareDocument, HandlersFit, ApplyCalls, Job, Status
    <3>2. GoTo(c, "applied", j)
      BY <2>3
    <3> HIDE DEF j
    <3>3. QED
      BY <2>1, <3>1, <3>2, GoesOn
  <2>4. CASE GoTo(c, "ListVersions", job[c])
    BY <1>7, <2>1, <2>4, GoesOn DEF GetPolicyVersion, CompareDocument, HandlersFit, ApplyCalls
  <2>5. QED
    BY <1>7, <2>2, <2>3, <2>4 DEF GetPolicyVersion, CompareDocument
<1>8. CASE ListVersions(c)
  <2>1. pc[c] \in ApplyCalls /\ job[c] \in Job
    BY <1>8, <1>a DEF ListVersions
  <2>2. CASE GoTo(c, "applyFailed", job[c]) \/ GoTo(c, "CreateVersion", job[c])
    <3>1. job[c].status.arn = TRUE
      BY <1>8 DEF ListVersions, HandlersFit, ApplyCalls
    <3>2. CASE GoTo(c, "applyFailed", job[c])
      BY <2>1, <3>1, <3>2, GoesOn
    <3>3. CASE GoTo(c, "CreateVersion", job[c])
      BY <2>1, <3>1, <3>3, GoesOn DEF ApplyCalls
    <3>4. QED
      BY <2>2, <3>2, <3>3
  <2>3. ASSUME NEW v \in NonDefault, GoTo(c, "DeleteOldest", [job[c] EXCEPT !.victim = v])
        PROVE  HandlersFit(c)'
    <3> DEFINE j == [job[c] EXCEPT !.victim = v]
    <3>1. /\ j.doc = job[c].doc /\ j.generation = job[c].generation
          /\ j.status.arn = TRUE
      BY <1>8, <2>1 DEF ListVersions, HandlersFit, ApplyCalls, Job, Status
    <3>2. GoTo(c, "DeleteOldest", j)
      BY <2>3
    <3> HIDE DEF j
    <3>3. QED
      BY <2>1, <3>1, <3>2, GoesOn
  <2>4. QED
    BY <1>8, <2>2, <2>3 DEF ListVersions
<1>9. CASE DeleteOldest(c)
  BY <1>9, <1>a, <1>b DEF DeleteOldest
<1>10. CASE CreateVersion(c)
  BY <1>10, <1>a, <1>b DEF CreateVersion, NewVersion
<1>11. CASE CreateVersionRefused(c)
  BY <1>11, <1>a, <1>b DEF CreateVersionRefused
<1>12. CASE CheckApplied(c)
  BY <1>12, <1>a, <1>b DEF CheckApplied, NeedsApplyCheck, Called, NoJob
<1>13. CASE StartDelete(c)
  BY <1>13, <1>a, <1>b DEF StartDelete, BeginDelete, NeedsDelete, Called, NoJob
<1>14. CASE RetryDelete(c)
  BY <1>14, <1>a, <1>b DEF RetryDelete, BeginDelete, MayRetryDelete, Called, NoJob
<1>15. CASE GetForDelete(c)
  BY <1>15, <1>a, <1>b DEF GetForDelete
<1>16. CASE ListForDelete(c)
  BY <1>16, <1>a, <1>b DEF ListForDelete
<1>17. CASE DeleteOneVersion(c)
  <2>1. /\ obj' = obj /\ pc[c] = "DeleteVersions"
        /\ pc'[c] \in {"failed", "DeleteVersions", "DeletePolicy"}
        /\ job'[c].status = job[c].status
    BY <1>17, <1>a DEF DeleteOneVersion, DeleteListed, Job
  <2>2. QED
    BY <2>1, <1>b
<1>18. CASE DeletePolicy(c)
  BY <1>18, <1>a, <1>b DEF DeletePolicy, DeleteOr
<1>19. CASE CheckDeleted(c)
  BY <1>19, <1>a, <1>b DEF CheckDeleted, CheckGone, NeedsDeleteCheck, Called, NoJob
<1>20. CASE Record(c)
  <2>1. /\ pc'[c] = "idle" /\ obj'[c] = Recorded(c)
        /\ pc[c] \in Outcome
    BY <1>20, <1>a DEF Record
  <2>2. obj'[c].observed <= obj'[c].generation
    <3>1. CASE pc[c] \in {"applied", "applyFailed"}
      BY <2>1, <3>1, <1>a, <1>b DEF Recorded, Applied, ApplyFailed, Component
    <3>2. CASE pc[c] \in {"ready", "failed"}
      BY <2>1, <3>2, <1>a, <1>b DEF Recorded, CheckedReady, Failed, Component
    <3>3. CASE pc[c] \in {"deleteStarted", "gone"}
      BY <2>1, <3>3, <1>a, <1>b DEF Recorded, DeleteStarted, CheckedGone, Component
    <3>4. QED
      BY <2>1, <3>1, <3>2, <3>3 DEF Outcome
  <2>3. QED
    BY <2>1, <2>2
<1>21. CASE Interrupt(c)
  BY <1>21, <1>a, <1>b DEF Interrupt
<1>22. CASE PermanentError(c)
  BY <1>22, <1>a, <1>b DEF PermanentError
<1>23. CASE CheckRefused(c)
  BY <1>23, <1>a, <1>b DEF CheckRefused
<1>24. CASE EditSpec(c)
  BY <1>24, <1>a, <1>b DEF EditSpec, Edited
<1>25. CASE RequestDeletion(c)
  BY <1>25, <1>a, <1>b DEF RequestDeletion, DeletionRequested
<1>26. QED
  BY <1>1, <1>2, <1>3, <1>4, <1>5, <1>6, <1>7, <1>8, <1>9, <1>10, <1>11,
     <1>12, <1>13, <1>14, <1>15, <1>16, <1>17, <1>18, <1>19, <1>20,
     <1>21, <1>22, <1>23, <1>24, <1>25
     DEF Step, Reconcile, Apply, Delete

\* Documents come back percent-encoded, so that none ever equals the desired one.
LEMMA NeverEqual ==
  ASSUME NEW d \in Docs, NEW e
  PROVE  ~jsonEquals(URLEncoded(d), e)
BY EncodingAssumption, DocsAssumption DEF jsonEquals

\* deleteOldestPolicyVersion finds room or makes it.
LEMMA RoomIfLone ==
  ASSUME TypeOK, PolicyFits, ~(AtLimit /\ NonDefault # {})
  PROVE  HasRoom
<1>1. versions \in SUBSET VersionId
  BY PolicyFacts
<1>2. Cardinality(versions) \in Nat
  BY <1>1, FiniteVersions
<1>3. CASE NonDefault = {}
  <2>1. versions \in SUBSET {default}
    BY <1>3 DEF NonDefault
  <2>2. IsFiniteSet({default}) /\ Cardinality({default}) = 1
    BY FS_Singleton
  <2>3. Cardinality(versions) <= 1
    BY <2>1, <2>2, FS_Subset
  <2>4. QED
    BY <1>2, <2>3, LimitAssumption DEF HasRoom
<1>4. CASE ~AtLimit
  BY <1>2, <1>4, LimitAssumption DEF AtLimit, HasRoom
<1>5. QED
  BY <1>3, <1>4

LEMMA RoomAfterRemoval ==
  ASSUME TypeOK, PolicyFits, NEW c \in Components, DeleteOldest(c),
         job[c].victim \in NonDefault
  PROVE  exists' /\ HasRoom'
<1> DEFINE v == job[c].victim
<1>1. /\ versions \in SUBSET VersionId /\ v \in versions /\ v # default
      /\ default \in versions
  BY PolicyFacts DEF NonDefault, exists
<1>2. versions' = versions \ {v}
  <2>1. text \in [VersionId -> Docs \cup {NoDoc}] /\ text' = [text EXCEPT ![v] = NoDoc]
    BY DEF TypeOK, DeleteOldest
  <2>2. QED
    BY <1>1, <2>1 DEF versions
<1> HIDE DEF v
<1>3. exists'
  BY <1>1, <1>2 DEF exists
<1>4. /\ Cardinality(versions \ {v}) < Cardinality(versions)
      /\ Cardinality(versions) \in Nat /\ Cardinality(versions \ {v}) \in Nat
  BY <1>1, OneLess, FiniteVersions
<1>5. HasRoom'
  BY <1>2, <1>4, LimitAssumption DEF HasRoom, PolicyFits
<1>6. QED
  BY <1>3, <1>5

\* While its apply runs, or once it is being deleted, a Component is not settled.
LEMMA NotSettled ==
  ASSUME NEW c \in Components, obj'[c] = obj[c], pc'[c] \notin {"applied", "CreateVersion"},
         obj[c].deleting \/ obj[c].observed # obj[c].generation
  PROVE  ApplyStands(c)'
BY DEF ApplyStands, Settled

\* What stands is untouched by a step that leaves the policy, the Component and
\* an apply's result alone.
LEMMA NothingToDo ==
  ASSUME NEW c \in Components, ApplyStands(c),
         obj'[c] = obj[c], text' = text, default' = default,
         pc'[c] \notin {"applied", "CreateVersion"}, c \notin overtaken' => c \notin overtaken
  PROVE  ApplyStands(c)'
BY DEF ApplyStands, Settled, InForce, exists, versions, HasRoom

\* Every handler keeps ApplyStands of its own Component.
LEMMA OwnStands ==
  ASSUME TypeOK, PolicyFits, NEW c \in Components, HandlersFit(c), ApplyStands(c), Step(c)
  PROVE  ApplyStands(c)'
<1> USE DocsAssumption
<1>a. /\ obj \in [Components -> Component(Docs, Status, Generation)]
      /\ pc \in [Components -> {"idle"} \cup ApplyCalls \cup DeleteCalls \cup Outcome]
      /\ job \in [Components -> Job]
      /\ text \in [VersionId -> Docs \cup {NoDoc}]
  BY DEF TypeOK
<1>b. /\ obj[c].observed \in Nat /\ obj[c].generation \in Nat
      /\ job[c].generation \in Nat
  BY <1>a, LimitAssumption DEF Component, Job, Generation
<1>c. /\ pc[c] \in ApplyCalls => obj[c].observed # obj[c].generation
      /\ pc[c] \in {"applied", "applyFailed"} => obj[c].observed # obj[c].generation
      /\ pc[c] \in DeleteCalls => obj[c].deleting
  BY <1>b DEF HandlersFit
<1>1. CASE RejectSpec(c)
  BY <1>1, <1>a, <1>c, NotSettled DEF RejectSpec, GoTo, NeedsApply, Begin
<1>2. CASE StartApply(c)
  BY <1>2, <1>a, <1>c, NotSettled DEF StartApply, GoTo, NeedsApply, Begin
<1>3. CASE ListPolicies(c)
  BY <1>3, <1>a, <1>c, NotSettled DEF ListPolicies, GoTo, ApplyCalls
<1>4. CASE CreatePolicy(c)
  <2>1. job[c].doc \in Docs /\ pc[c] \in ApplyCalls
    BY <1>4 DEF CreatePolicy, CreateWithText, HandlersFit, ApplyCalls
  <2>2. 1 \in VersionId
    BY LimitAssumption DEF VersionId
  <2>3. /\ text'[1] = job[c].doc /\ default' = 1
        /\ obj' = obj /\ pc'[c] = "applied"
        /\ job'[c] = [job[c] EXCEPT !.status = [arn |-> TRUE, version |-> 1]]
    BY <1>4, <1>a, <2>2 DEF CreatePolicy, CreateWithText, GoTo
  <2>4. job'[c].doc = job[c].doc /\ job'[c].status = [arn |-> TRUE, version |-> 1]
    BY <2>3, <1>a DEF Job
  <2>5. InForce(job[c].doc, [arn |-> TRUE, version |-> 1])'
    BY <2>1, <2>2, <2>3, <2>4 DEF InForce, exists, versions
  <2>6. QED
    BY <1>c, <2>1, <2>3, <2>4, <2>5 DEF ApplyStands, Settled, InForce
<1>5. CASE CreatePolicyConflict(c)
  BY <1>5, <1>a, <1>c, NotSettled DEF CreatePolicyConflict, GoTo, ApplyCalls
<1>6. CASE GetPolicy(c)
  BY <1>6, <1>a, <1>c, NotSettled DEF GetPolicy, GoTo, ApplyCalls
<1>7. CASE GetPolicyVersion(c)
  <2>1. ~jsonEquals(URLEncoded(text[job[c].base]), job[c].doc) \/ job[c].base \notin versions
    BY <1>a, NeverEqual DEF versions
  <2>2. QED
    BY <1>7, <2>1, <1>a, <1>c, NotSettled DEF GetPolicyVersion, CompareDocument, GoTo, ApplyCalls
<1>8. CASE ListVersions(c)
  <2>1. obj' = obj /\ pc[c] = "ListVersions" /\ text' = text /\ default' = default
    BY <1>8 DEF ListVersions, GoTo, awsVars
  <2>2. CASE pc'[c] = "CreateVersion"
    <3>1. exists /\ ~(AtLimit /\ NonDefault # {})
      BY <1>8, <1>a, <2>2 DEF ListVersions, GoTo
    <3>2. exists' /\ HasRoom'
      BY <2>1, <3>1, RoomIfLone DEF exists, versions, HasRoom
    <3>3. QED
      BY <1>c, <2>1, <2>2, <3>2 DEF ApplyStands, Settled, ApplyCalls
  <2>3. CASE pc'[c] # "CreateVersion"
    <3>1. pc'[c] \in {"applyFailed", "DeleteOldest"}
      BY <1>8, <1>a, <2>3 DEF ListVersions, GoTo
    <3>2. QED
      BY <1>c, <2>1, <3>1, NotSettled DEF ApplyCalls
  <2>4. QED
    BY <2>2, <2>3
<1>9. CASE DeleteOldest(c)
  <2>1. obj' = obj /\ pc[c] = "DeleteOldest"
    BY <1>9 DEF DeleteOldest, GoTo
  <2>2. CASE job[c].victim \in NonDefault
    <3>1. /\ pc'[c] = "CreateVersion"
          /\ text' = [text EXCEPT ![job[c].victim] = NoDoc]
      BY <1>9, <1>a, <2>2 DEF DeleteOldest, GoTo
    <3>2. exists' /\ HasRoom'
      BY <1>9, <2>2, RoomAfterRemoval
    <3>3. QED
      BY <1>c, <2>1, <3>1, <3>2 DEF ApplyStands, Settled, ApplyCalls
  <2>3. CASE job[c].victim \notin NonDefault
    <3>1. pc'[c] = "applyFailed"
      BY <1>9, <1>a, <2>3 DEF DeleteOldest, GoTo
    <3>2. QED
      BY <1>c, <2>1, <3>1, NotSettled DEF ApplyCalls
  <2>4. QED
    BY <2>2, <2>3
<1>10. CASE CreateVersion(c)
  <2> DEFINE v == issued + 1
  <2>1. job[c].doc \in Docs /\ pc[c] \in ApplyCalls /\ job[c].status.arn = TRUE
    BY <1>10 DEF CreateVersion, NewVersion, HandlersFit, ApplyCalls
  <2>2. v \in VersionId
    BY <1>10, LimitAssumption DEF CreateVersion, NewVersion, VersionId, TypeOK
  <2>3. /\ text'[v] = job[c].doc /\ default' = v
        /\ obj' = obj /\ pc'[c] = "applied"
        /\ job'[c] = [job[c] EXCEPT !.status.version = v]
    BY <1>10, <1>a, <2>2 DEF CreateVersion, NewVersion, GoTo
  <2> HIDE DEF v
  <2>4. job'[c].doc = job[c].doc /\ job'[c].status = [arn |-> TRUE, version |-> v]
    BY <2>1, <2>3, <1>a DEF Job, Status
  <2>5. exists' /\ text'[default'] = job[c].doc
    BY <2>1, <2>2, <2>3 DEF exists, versions
  <2>6. QED
    BY <1>c, <2>1, <2>3, <2>4, <2>5 DEF ApplyStands, Settled, InForce
<1>11. CASE CreateVersionRefused(c)
  BY <1>11, <1>a, <1>c, NotSettled DEF CreateVersionRefused, GoTo, ApplyCalls
<1>12. CASE CheckApplied(c)
  BY <1>12, <1>a, NothingToDo DEF CheckApplied, Begin, GoTo, awsVars
<1>13. CASE StartDelete(c)
  BY <1>13, <1>a, <1>c, NotSettled DEF StartDelete, GoTo, NeedsDelete, BeginDelete, Begin
<1>14. CASE RetryDelete(c)
  BY <1>14, <1>a, <1>c, NotSettled DEF RetryDelete, GoTo, MayRetryDelete, BeginDelete, Begin
<1>15. CASE GetForDelete(c)
  BY <1>15, <1>a, <1>c, NotSettled DEF GetForDelete, GoTo, DeleteCalls
<1>16. CASE ListForDelete(c)
  BY <1>16, <1>a, <1>c, NotSettled DEF ListForDelete, GoTo, DeleteCalls
<1>17. CASE DeleteOneVersion(c)
  BY <1>17, <1>a, <1>c, NotSettled DEF DeleteOneVersion, DeleteListed, GoTo, DeleteCalls
<1>18. CASE DeletePolicy(c)
  BY <1>18, <1>a, <1>c, NotSettled DEF DeletePolicy, DeleteOr, GoTo, DeleteCalls
<1>19. CASE CheckDeleted(c)
  BY <1>19, <1>a, <1>c, NotSettled DEF CheckDeleted, CheckGone, GoTo, NeedsDeleteCheck, Begin
<1>20. CASE Record(c)
  <2>1. /\ pc'[c] = "idle" /\ obj'[c] = Recorded(c) /\ pc[c] \in Outcome
        /\ text' = text /\ default' = default /\ overtaken' = overtaken
    BY <1>20, <1>a DEF Record, awsVars
  <2>2. CASE pc[c] = "applied"
    <3>1. /\ obj'[c].observed = job[c].generation /\ obj'[c].status = job[c].status
          /\ obj'[c].generation = obj[c].generation /\ obj'[c].spec = obj[c].spec
      BY <1>a, <2>1, <2>2 DEF Recorded, Applied, Component
    <3>2. job[c].generation = obj[c].generation => job[c].doc = obj[c].spec
      BY <2>2 DEF HandlersFit
    <3>3. QED
      BY <2>1, <2>2, <3>1, <3>2 DEF ApplyStands, Settled, InForce, exists, versions, HasRoom
  <2>3. CASE pc[c] = "ready"
    <3>1. /\ obj'[c].observed = obj[c].observed /\ obj'[c].status = obj[c].status
          /\ obj'[c].generation = obj[c].generation /\ obj'[c].spec = obj[c].spec
          /\ obj'[c].deleting = obj[c].deleting /\ obj[c].phase = "Deploying"
      BY <1>a, <2>1, <2>3 DEF Recorded, CheckedReady, Component, HandlersFit
    <3>2. QED
      BY <2>1, <2>3, <3>1 DEF ApplyStands, Settled, InForce, exists, versions, HasRoom
  <2>4. CASE pc[c] \in {"applyFailed", "failed"}
    <3>1. obj'[c].phase = "Failed"
      BY <1>a, <2>1, <2>4 DEF Recorded, ApplyFailed, Failed, Component
    <3>2. QED
      BY <2>1, <3>1 DEF ApplyStands, Settled
  <2>5. CASE pc[c] \in {"deleteStarted", "gone"}
    <3>1. obj'[c].phase \in {"Terminating", "Gone"}
      BY <1>a, <2>1, <2>5 DEF Recorded, DeleteStarted, CheckedGone, Component
    <3>2. QED
      BY <2>1, <3>1 DEF ApplyStands, Settled
  <2>6. QED
    BY <2>1, <2>2, <2>3, <2>4, <2>5 DEF Outcome
<1>21. CASE Interrupt(c)
  BY <1>21, <1>a, NothingToDo DEF Interrupt, awsVars
<1>22. CASE PermanentError(c)
  BY <1>22, <1>a, NothingToDo DEF PermanentError, awsVars
<1>23. CASE CheckRefused(c)
  BY <1>23, <1>a, NothingToDo DEF CheckRefused, awsVars
<1>24. CASE EditSpec(c)
  <2>1. /\ obj'[c].observed # obj'[c].generation
        /\ text' = text /\ default' = default /\ overtaken' = overtaken
        /\ pc' = pc /\ job' = job
    BY <1>24, <1>a, <1>b DEF EditSpec, Edited, HandlersFit, awsVars, Component
  <2>2. QED
    BY <2>1 DEF ApplyStands, Settled, InForce, exists, versions, HasRoom
<1>25. CASE RequestDeletion(c)
  <2>1. /\ obj'[c].deleting
        /\ text' = text /\ default' = default /\ overtaken' = overtaken
        /\ pc' = pc /\ job' = job
    BY <1>25, <1>a DEF RequestDeletion, DeletionRequested, awsVars, Component
  <2>2. QED
    BY <2>1 DEF ApplyStands, Settled, InForce, exists, versions, HasRoom
<1>26. QED
  BY <1>1, <1>2, <1>3, <1>4, <1>5, <1>6, <1>7, <1>8, <1>9, <1>10, <1>11,
     <1>12, <1>13, <1>14, <1>15, <1>16, <1>17, <1>18, <1>19, <1>20,
     <1>21, <1>22, <1>23, <1>24, <1>25
     DEF Step, Reconcile, Apply, Delete

-----------------------------------------------------------------------------
(* What a deletion has done stands. *)

\* A step of c's own, unless it finishes a deletion or records one.
LEMMA NoDeletionDone ==
  ASSUME NEW c \in Components, obj'[c].phase \notin {"Terminating", "Gone"},
         pc'[c] # "deleteStarted"
  PROVE  DeletionStands(c)'
BY DEF DeletionStands

LEMMA OwnDeletion ==
  ASSUME TypeOK, PolicyFits, NEW c \in Components, HandlersFit(c), DeletionStands(c), Step(c)
  PROVE  DeletionStands(c)'
<1>a. /\ obj \in [Components -> Component(Docs, Status, Generation)]
      /\ pc \in [Components -> {"idle"} \cup ApplyCalls \cup DeleteCalls \cup Outcome]
      /\ job \in [Components -> Job]
  BY DEF TypeOK
<1>b. pc[c] \in ApplyCalls \cup DeleteCalls => obj[c].phase \notin {"Terminating", "Gone"}
  BY DEF HandlersFit
<1> USE DEF GoTo, Begin
<1>1. CASE RejectSpec(c) \/ StartApply(c)
  BY <1>1, <1>a, NoDeletionDone DEF RejectSpec, StartApply, NeedsApply
<1>2. CASE \/ ListPolicies(c) \/ CreatePolicy(c) \/ CreatePolicyConflict(c) \/ GetPolicy(c)
           \/ GetPolicyVersion(c)
  BY <1>2, <1>a, <1>b, NoDeletionDone
     DEF ListPolicies, CreatePolicy, CreateWithText, CreatePolicyConflict, GetPolicy,
         GetPolicyVersion, CompareDocument, ApplyCalls
<1>3. CASE ListVersions(c) \/ DeleteOldest(c) \/ CreateVersion(c) \/ CreateVersionRefused(c)
  BY <1>3, <1>a, <1>b, NoDeletionDone
     DEF ListVersions, DeleteOldest, CreateVersion, NewVersion, CreateVersionRefused, ApplyCalls
<1>4. CASE CheckApplied(c)
  BY <1>4, <1>a, NoDeletionDone DEF CheckApplied, NeedsApplyCheck
<1>5. CASE StartDelete(c) \/ RetryDelete(c)
  <2>1. /\ obj' = obj /\ obj[c].phase \notin {"Terminating", "Gone"}
        /\ pc'[c] = IF obj[c].status.arn THEN "GetForDelete" ELSE "deleteStarted"
        /\ job'[c].status = obj[c].status
    BY <1>5, <1>a DEF StartDelete, RetryDelete, NeedsDelete, MayRetryDelete, BeginDelete,
                      Called, NoJob
  <2>2. QED
    BY <2>1 DEF DeletionStands
<1>6. CASE GetForDelete(c)
  <2>1. /\ obj' = obj /\ text' = text /\ pc[c] \in DeleteCalls
        /\ pc'[c] = IF exists THEN "ListForDelete" ELSE "deleteStarted"
    BY <1>6, <1>a DEF GetForDelete, DeleteCalls, awsVars
  <2>2. QED
    BY <1>b, <2>1 DEF DeletionStands, exists, versions
<1>7. CASE ListForDelete(c) \/ DeleteOneVersion(c)
  <2>1. /\ obj' = obj /\ pc[c] \in DeleteCalls
        /\ pc'[c] \in {"DeletePolicy", "DeleteVersions", "failed"}
    BY <1>7, <1>a DEF ListForDelete, DeleteOneVersion, DeleteListed, DeleteCalls
  <2>2. QED
    BY <1>b, <2>1, NoDeletionDone
<1>8. CASE DeletePolicy(c)
  <2>1. /\ obj' = obj /\ pc[c] \in DeleteCalls
        /\ pc'[c] = "failed" \/ (pc'[c] = "deleteStarted" /\ ~exists')
    BY <1>8, <1>a, NoTextNoVersions DEF DeletePolicy, DeleteOr, DeleteCalls
  <2>2. QED
    BY <1>b, <2>1 DEF DeletionStands
<1>9. CASE CheckDeleted(c)
  <2>1. /\ obj' = obj /\ text' = text /\ overtaken' = overtaken /\ pc'[c] = "gone"
    BY <1>9, <1>a DEF CheckDeleted, CheckGone, awsVars
  <2>2. QED
    BY <2>1 DEF DeletionStands, exists, versions
<1>10. CASE Record(c)
  <2>1. /\ pc'[c] = "idle" /\ obj'[c] = Recorded(c) /\ pc[c] \in Outcome
        /\ text' = text /\ overtaken' = overtaken
    BY <1>10, <1>a DEF Record, awsVars
  <2>2. CASE pc[c] = "deleteStarted"
    <3>1. obj'[c].status = job[c].status
      BY <1>a, <2>1, <2>2 DEF Recorded, DeleteStarted, Component
    <3>2. QED
      BY <2>1, <2>2, <3>1 DEF DeletionStands, exists, versions
  <2>3. CASE pc[c] = "gone"
    <3>1. /\ obj'[c].status = obj[c].status /\ obj[c].phase = "Terminating"
      BY <1>a, <2>1, <2>3 DEF Recorded, CheckedGone, Component, HandlersFit
    <3>2. QED
      BY <2>1, <3>1 DEF DeletionStands, exists, versions
  <2>4. CASE pc[c] \in {"applied", "applyFailed", "ready", "failed"}
    <3>1. obj'[c].phase \in {"Deploying", "Ready", "Failed"}
      BY <1>a, <2>1, <2>4
         DEF Recorded, Applied, ApplyFailed, CheckedReady, Failed, Component
    <3>2. QED
      BY <2>1, <3>1, NoDeletionDone
  <2>5. QED
    BY <2>1, <2>2, <2>3, <2>4 DEF Outcome
<1>11. CASE Interrupt(c) \/ PermanentError(c) \/ CheckRefused(c)
  <2>1. /\ obj' = obj /\ text' = text /\ overtaken' = overtaken
        /\ pc'[c] \in {"idle", "applyFailed", "failed"}
    BY <1>11, <1>a DEF Interrupt, PermanentError, CheckRefused, awsVars
  <2>2. QED
    BY <2>1 DEF DeletionStands, exists, versions
<1>12. CASE EditSpec(c) \/ RequestDeletion(c)
  <2>1. /\ obj'[c].phase = obj[c].phase /\ obj'[c].status = obj[c].status
        /\ UNCHANGED <<text, pc, job, overtaken>>
    <3>1. obj[c] \in Component(Docs, Status, Generation)
      BY <1>a
    <3>2. UNCHANGED <<text, pc, job, overtaken>>
      BY <1>12 DEF EditSpec, RequestDeletion, awsVars
    <3>3. CASE EditSpec(c)
      <4>1. PICK d \in Docs : obj' = [obj EXCEPT ![c] = Edited(obj[c], d)]
        BY <3>3 DEF EditSpec
      <4>2. QED
        BY <1>a, <3>1, <3>2, <4>1 DEF Edited, Component
    <3>4. CASE RequestDeletion(c)
      BY <1>a, <3>1, <3>2, <3>4 DEF RequestDeletion, DeletionRequested, Component
    <3>5. QED
      BY <1>12, <3>3, <3>4
  <2>2. QED
    BY <2>1 DEF DeletionStands, exists, versions
<1>13. QED
  BY <1>1, <1>2, <1>3, <1>4, <1>5, <1>6, <1>7, <1>8, <1>9, <1>10, <1>11, <1>12
     DEF Step, Reconcile, Apply, Delete

-----------------------------------------------------------------------------
(* What an apply is about to remove. *)

\* A deletion once requested stays requested, and only such a Component deletes.
LEMMA DeletingStays ==
  ASSUME TypeOK, NEW d \in Components, Step(d), NEW c \in Components, obj[c].deleting
  PROVE  obj'[c].deleting
<1>a. /\ obj \in [Components -> Component(Docs, Status, Generation)]
      /\ obj[d] \in Component(Docs, Status, Generation)
  BY DEF TypeOK
<1>1. CASE Record(d)
  <2>1. /\ obj' = [obj EXCEPT ![d] = Recorded(d)] /\ pc[d] \in Outcome
    BY <1>1 DEF Record
  <2>2. Recorded(d).deleting = obj[d].deleting
    <3>1. CASE pc[d] \in {"applied", "applyFailed", "ready"}
      BY <1>a, <3>1 DEF Recorded, Applied, ApplyFailed, CheckedReady, Component
    <3>2. CASE pc[d] \in {"failed", "deleteStarted", "gone"}
      BY <1>a, <3>2 DEF Recorded, Failed, DeleteStarted, CheckedGone, Component
    <3>3. QED
      BY <2>1, <3>1, <3>2 DEF Outcome
  <2>3. QED
    BY <1>a, <2>1, <2>2
<1>2. CASE EditSpec(d) \/ RequestDeletion(d)
  BY <1>2, <1>a DEF EditSpec, RequestDeletion, Edited, DeletionRequested, Component
<1>3. CASE ~Record(d) /\ ~EditSpec(d) /\ ~RequestDeletion(d)
  <2>1. obj' = obj
    BY <1>3 DEF Step, Reconcile, Apply, Delete, RejectSpec, StartApply, ListPolicies,
         CreatePolicy, CreateWithText, CreatePolicyConflict, GetPolicy, GetPolicyVersion,
         CompareDocument, ListVersions, DeleteOldest, CreateVersion, NewVersion,
         CreateVersionRefused, CheckApplied, StartDelete, RetryDelete, BeginDelete,
         GetForDelete, ListForDelete, DeleteOneVersion, DeleteListed, DeletePolicy, DeleteOr,
         CheckDeleted, CheckGone, Interrupt, PermanentError, CheckRefused, Begin, GoTo
  <2>2. QED
    BY <2>1
<1>4. QED
  BY <1>1, <1>2, <1>3

\* Where PruneFits begins, and what every other step leaves of it.
LEMMA PruneBegins ==
  ASSUME TypeOK, PolicyFits, NEW c \in Components, ListVersions(c)
  PROVE  PruneFits(c)'
<1>1. /\ text' = text /\ default' = default
      /\ pc \in [Components -> {"idle"} \cup ApplyCalls \cup DeleteCalls \cup Outcome]
      /\ job \in [Components -> Job]
  BY DEF ListVersions, awsVars, TypeOK
<1>2. SUFFICES ASSUME pc'[c] = "DeleteOldest"
               PROVE  PruneFits(c)'
  BY DEF PruneFits
<1>3. PICK v \in NonDefault : /\ AtLimit /\ IsOldest(v)
                              /\ job' = [job EXCEPT ![c] = [job[c] EXCEPT !.victim = v]]
  BY <1>1, <1>2 DEF ListVersions, GoTo
<1>4. job'[c].victim = v
  BY <1>1, <1>3 DEF Job
<1>5. v < default
  BY <1>3, PolicyFacts DEF NonDefault
<1>6. AtLimit' /\ IsOldest(v)'
  BY <1>1, <1>3 DEF AtLimit, IsOldest, NonDefault, versions
<1>7. QED
  BY <1>1, <1>4, <1>5, <1>6 DEF PruneFits

\* The calls after which c's handler may be about to remove a version.
LEMMA PruneWaits ==
  ASSUME TypeOK, NEW d \in Components, Step(d), NEW c \in Components,
         pc'[c] = "DeleteOldest", ~(c = d /\ ListVersions(c))
  PROVE  /\ pc[c] = "DeleteOldest" /\ job'[c] = job[c]
         /\ c = d => UNCHANGED <<text, default, issued>>
<1>a. /\ pc \in [Components -> {"idle"} \cup ApplyCalls \cup DeleteCalls \cup Outcome]
      /\ job \in [Components -> Job]
  BY DEF TypeOK
<1>1. CASE c # d
  BY <1>1, OthersUndisturbed
<1>2. CASE c = d
  <2>1. EditSpec(c) \/ RequestDeletion(c)
    BY <1>a, <1>2 DEF Step, Reconcile, Apply, Delete, RejectSpec, StartApply, ListPolicies,
         CreatePolicy, CreateWithText, CreatePolicyConflict, GetPolicy, GetPolicyVersion,
         CompareDocument, DeleteOldest, CreateVersion, NewVersion,
         CreateVersionRefused, CheckApplied, StartDelete, RetryDelete, BeginDelete,
         GetForDelete, ListForDelete, DeleteOneVersion, DeleteListed, DeletePolicy, DeleteOr,
         CheckDeleted, CheckGone, Record, Interrupt, PermanentError, CheckRefused, Begin, GoTo
  <2>2. QED
    BY <2>1 DEF EditSpec, RequestDeletion, awsVars
<1>3. QED
  BY <1>1, <1>2

LEMMA PruneStep ==
  ASSUME TypeOK, PolicyFits, NEW d \in Components, HandlersFit(d), PruneFits(d), Step(d),
         NEW c \in Components, PruneFits(c)
  PROVE  PruneFits(c)'
<1>1. CASE c = d /\ ListVersions(c)
  BY <1>1, PruneBegins
<1>2. CASE ~(c = d /\ ListVersions(c))
  <2> SUFFICES ASSUME pc'[c] = "DeleteOldest", \A e \in Components : ~obj'[e].deleting
               PROVE  /\ job'[c].victim < default'
                      /\ job'[c].victim \in versions' =>
                           AtLimit' /\ \A w \in NonDefault' : job'[c].victim <= w
    BY DEF PruneFits, IsOldest
  <2> DEFINE v == job[c].victim
  <2>1. /\ pc[c] = "DeleteOldest" /\ job'[c] = job[c]
        /\ c = d => UNCHANGED <<text, default, issued>>
    BY <1>2, PruneWaits
  <2>2. \A e \in Components : ~obj[e].deleting
    BY DeletingStays
  <2>3. /\ v < default
        /\ v \in versions => AtLimit /\ IsOldest(v)
    BY <2>1, <2>2 DEF PruneFits
  <2>4. /\ versions \in SUBSET VersionId /\ default \in Nat /\ issued = default
        /\ \A w \in versions : w \in Nat
        /\ ~exists => default = 0
    BY PolicyFacts
  <2>5. v \in Nat
    BY LimitAssumption DEF TypeOK, Job, VersionId
  <2>6. exists
    BY <2>3, <2>4, <2>5
  <2>7. job'[c].victim = v
    BY <2>1
  <2> HIDE DEF v
  <2>8. CASE UNCHANGED <<text, default, issued>>
    BY <2>3, <2>7, <2>8 DEF AtLimit, IsOldest, NonDefault, versions
  <2>9. CASE CreateVersion(d)
    <3>1. /\ versions' = versions \cup {issued + 1} /\ default' = issued + 1 /\ HasRoom
      BY <2>9, AddGives
    <3>2. Cardinality(versions) \in Nat
      BY <2>4, FiniteVersions
    <3>3. v \notin versions
      BY <2>3, <3>1, <3>2, LimitAssumption DEF AtLimit, HasRoom
    <3>4. QED
      BY <2>3, <2>4, <2>5, <2>7, <3>1, <3>3
  <2>10. CASE DeleteOldest(d) /\ text' # text
    <3>1. PICK w \in VersionId \ {default} :
            versions' = versions \ {w} /\ w = job[d].victim /\ w \in NonDefault
      BY <2>10, RemoveGives
    <3>2. default' = default
      BY <2>10, RemoveGives
    <3>3. pc[d] = "DeleteOldest"
      BY <2>10 DEF DeleteOldest
    <3>4. w \in versions /\ IsOldest(w)
      BY <2>2, <3>1, <3>3 DEF PruneFits, NonDefault
    <3>5. v \in versions => v = w
      <4>1. SUFFICES ASSUME v \in versions PROVE v = w
        OBVIOUS
      <4>2. v \in NonDefault
        BY <2>3, <2>4, <4>1 DEF NonDefault
      <4>3. v <= w /\ w <= v
        BY <2>3, <3>1, <3>4, <4>1, <4>2 DEF IsOldest
      <4>4. QED
        BY <2>4, <3>4, <4>1, <4>3
    <3>6. QED
      BY <2>3, <2>7, <3>1, <3>2, <3>5
  <2>11. CASE DeleteOldest(d) /\ text' = text
    BY <2>8, <2>11, RemoveGives
  <2>12. ~CreatePolicy(d)
    BY <2>6, CreateGives
  <2>13. ~DeleteOneVersion(d) /\ ~DeletePolicy(d)
    BY <2>2 DEF DeleteOneVersion, DeleteListed, DeletePolicy, DeleteOr, HandlersFit, DeleteCalls
  <2>14. QED
    BY <2>8, <2>9, <2>10, <2>11, <2>12, <2>13, PolicyUntouched
<1>3. QED
  BY <1>1, <1>2

-----------------------------------------------------------------------------
(* What a deletion has listed. *)

\* Without a new version, what is not the default only gets less.
LEMMA OnlyFewer ==
  ASSUME TypeOK, PolicyFits, NEW d \in Components, Step(d),
         ~CreatePolicy(d), ~CreateVersion(d)
  PROVE  NonDefault' \subseteq NonDefault /\ default' \in {default, 0}
<1>1. CASE UNCHANGED <<text, default, issued>>
  BY <1>1 DEF NonDefault, versions
<1>2. CASE DeleteOldest(d) \/ DeleteOneVersion(d)
  <2>1. default' = default /\ (text' = text \/ versions' \subseteq versions)
    BY <1>2, RemoveGives
  <2>2. versions' \subseteq versions
    BY <2>1 DEF versions
  <2>3. QED
    BY <2>1, <2>2 DEF NonDefault
<1>3. CASE DeletePolicy(d)
  <2>1. CASE versions' = {} /\ default' = 0
    BY <2>1 DEF NonDefault
  <2>2. QED
    BY <1>1, <1>3, <2>1, DeletePolicyGives
<1>4. QED
  BY <1>1, <1>2, <1>3, PolicyUntouched

\* And a new version is noted against every deletion that has listed.
LEMMA NotRenewed ==
  ASSUME TypeOK, NEW d \in Components, Step(d), NEW c \in Components, Listed(c),
         c \notin renewed'
  PROVE  c \notin renewed /\ ~CreatePolicy(d) /\ ~CreateVersion(d)
<1>1. ~CreatePolicy(d) /\ ~CreateVersion(d)
  <2>1. CreatePolicy(d) \/ CreateVersion(d) => Renews
    BY DEF CreatePolicy, CreateWithText, CreateVersion, NewVersion
  <2>2. ~Renews
    BY DEF Renews
  <2>3. QED
    BY <2>1, <2>2
<1>2. CASE ListForDelete(d)
  <2>1. renewed' = renewed \ {d} /\ ~Listed(d)
    BY <1>2 DEF ListForDelete, Listed
  <2>2. c # d
    BY <2>1
  <2>3. c \notin renewed
    BY <2>1, <2>2
  <2>4. QED
    BY <1>1, <2>3
<1>3. CASE ~ListForDelete(d)
  <2>1. renewed' = renewed
    BY <1>1, <1>3 DEF Step, Reconcile, Apply, Delete, RejectSpec, StartApply, ListPolicies,
         CreatePolicyConflict, GetPolicy, GetPolicyVersion,
         CompareDocument, ListVersions, DeleteOldest,
         CreateVersionRefused, CheckApplied, StartDelete, RetryDelete, BeginDelete,
         GetForDelete, DeleteOneVersion, DeleteListed, DeletePolicy, DeleteOr,
         CheckDeleted, CheckGone, Record, Interrupt, PermanentError, CheckRefused,
         EditSpec, RequestDeletion
  <2>2. QED
    BY <1>1, <2>1
<1>4. QED
  BY <1>2, <1>3

\* The calls after which c's handler has a list.
LEMMA ListWaits ==
  ASSUME TypeOK, NEW d \in Components, Step(d), NEW c \in Components, Listed(c)',
         ~(c = d /\ (ListForDelete(c) \/ DeleteOneVersion(c)))
  PROVE  pc'[c] = pc[c] /\ job'[c] = job[c]
<1>a. /\ pc \in [Components -> {"idle"} \cup ApplyCalls \cup DeleteCalls \cup Outcome]
      /\ job \in [Components -> Job]
  BY DEF TypeOK
<1>1. CASE c # d
  BY <1>1, OthersUndisturbed
<1>2. CASE c = d
  <2>1. EditSpec(c) \/ RequestDeletion(c)
    BY <1>a, <1>2 DEF Listed, Step, Reconcile, Apply, Delete, RejectSpec, StartApply,
         ListPolicies, CreatePolicy, CreateWithText, CreatePolicyConflict, GetPolicy,
         GetPolicyVersion, CompareDocument, ListVersions, DeleteOldest, CreateVersion,
         NewVersion, CreateVersionRefused, CheckApplied, StartDelete, RetryDelete,
         BeginDelete, GetForDelete, DeletePolicy, DeleteOr,
         CheckDeleted, CheckGone, Record, Interrupt, PermanentError, CheckRefused, Begin, GoTo
  <2>2. QED
    BY <2>1 DEF EditSpec, RequestDeletion
<1>3. QED
  BY <1>1, <1>2

LEMMA RemovalStep ==
  ASSUME TypeOK, PolicyFits, NEW d \in Components, Step(d),
         NEW c \in Components, RemovalFits(c)
  PROVE  RemovalFits(c)'
<1>a. /\ pc \in [Components -> {"idle"} \cup ApplyCalls \cup DeleteCalls \cup Outcome]
      /\ job \in [Components -> Job]
  BY DEF TypeOK
<1>b. job[c].todo \subseteq VersionId /\ 0 \notin VersionId
  BY <1>a, LimitAssumption DEF Job, VersionId
<1>1. SUFFICES ASSUME Listed(c)', c \notin renewed'
               PROVE  /\ NonDefault' \subseteq job'[c].todo
                      /\ default' \notin job'[c].todo
                      /\ pc'[c] = "DeletePolicy" => job'[c].todo = {}
  BY DEF RemovalFits
<1>2. CASE c = d /\ ListForDelete(c)
  <2>1. /\ text' = text /\ default' = default
        /\ pc'[c] = "DeletePolicy" => NonDefault = {}
        /\ job'[c] = [job[c] EXCEPT !.todo = NonDefault]
    BY <1>2, <1>a DEF ListForDelete, GoTo, awsVars
  <2>2. job'[c].todo = NonDefault
    BY <1>a, <2>1 DEF Job
  <2>3. NonDefault' = NonDefault /\ default \notin NonDefault
    BY <2>1 DEF NonDefault, versions
  <2>4. QED
    BY <2>1, <2>2, <2>3
<1>3. CASE c = d /\ DeleteOneVersion(c)
  <2>1. Listed(c)
    BY <1>3 DEF DeleteOneVersion, DeleteListed, Listed
  <2>2. c \notin renewed
    BY <1>1, <2>1, NotRenewed
  <2>3. NonDefault \subseteq job[c].todo /\ default \notin job[c].todo
    BY <2>1, <2>2 DEF RemovalFits
  <2>4. default' = default
    BY <1>3 DEF DeleteOneVersion, DeleteListed
  <2>5. PICK v \in job[c].todo :
          /\ text' = [text EXCEPT ![v] = NoDoc]
          /\ pc' = [pc EXCEPT ![c] = IF job[c].todo = {v} THEN "DeletePolicy" ELSE "DeleteVersions"]
          /\ job' = [job EXCEPT ![c] = [job[c] EXCEPT !.todo = job[c].todo \ {v}]]
    BY <1>3, <2>3 DEF DeleteOneVersion, DeleteListed, GoTo
  <2>6. job'[c].todo = job[c].todo \ {v}
    <3>1. job'[c] = [job[c] EXCEPT !.todo = job[c].todo \ {v}]
      BY <1>a, <2>5
    <3>2. QED
      BY <1>a, <3>1 DEF Job
  <2>7. NonDefault' \subseteq NonDefault \ {v}
    <3>1. text \in [VersionId -> Docs \cup {NoDoc}]
      BY DEF TypeOK
    <3>2. versions' \subseteq versions \ {v}
      BY <1>b, <2>5, <3>1 DEF versions
    <3>3. QED
      BY <2>4, <3>2 DEF NonDefault
  <2>8. pc'[c] = "DeletePolicy" => job[c].todo = {v}
    BY <1>a, <2>5
  <2>9. QED
    BY <2>3, <2>4, <2>6, <2>7, <2>8
<1>4. CASE ~(c = d /\ (ListForDelete(c) \/ DeleteOneVersion(c)))
  <2>1. pc'[c] = pc[c] /\ job'[c] = job[c]
    BY <1>1, <1>4, ListWaits
  <2>2. Listed(c)
    BY <1>1, <2>1 DEF Listed
  <2>3. c \notin renewed /\ ~CreatePolicy(d) /\ ~CreateVersion(d)
    BY <1>1, <2>2, NotRenewed
  <2>4. NonDefault' \subseteq NonDefault /\ default' \in {default, 0}
    BY <2>3, OnlyFewer
  <2>5. /\ NonDefault \subseteq job[c].todo /\ default \notin job[c].todo
        /\ pc[c] = "DeletePolicy" => job[c].todo = {}
    BY <2>2, <2>3 DEF RemovalFits
  <2>6. QED
    BY <1>b, <2>1, <2>4, <2>5
<1>5. QED
  BY <1>2, <1>3, <1>4

-----------------------------------------------------------------------------
(* Somebody's document is in force. *)

\* A step that changes the document in force does so for the Component that
\* makes it.
LEMMA DocumentChanges ==
  ASSUME TypeOK, PolicyFits, NEW d \in Components, HandlersFit(d), Step(d),
         ~CreatePolicy(d), ~CreateVersion(d), ~DeletePolicy(d)
  PROVE  DocInForce' = DocInForce
<1>1. CASE UNCHANGED <<text, default, issued>>
  BY <1>1 DEF DocInForce, exists, versions
<1>2. CASE (DeleteOldest(d) \/ DeleteOneVersion(d)) /\ text' # text
  <2>1. PICK v \in VersionId \ {default} :
          text' = [text EXCEPT ![v] = NoDoc] /\ versions' = versions \ {v}
    BY <1>2, RemoveGives
  <2>2. default' = default /\ (exists => default \in versions)
    BY <1>2, RemoveGives, PolicyFacts
  <2>3. exists' = exists
    BY <2>1, <2>2 DEF exists
  <2>4. exists => text'[default'] = text[default]
    BY <2>1, <2>2 DEF TypeOK, versions
  <2>5. QED
    BY <2>3, <2>4 DEF DocInForce
<1>3. CASE (DeleteOldest(d) \/ DeleteOneVersion(d)) /\ text' = text
  BY <1>1, <1>3, RemoveGives
<1>4. QED
  BY <1>1, <1>2, <1>3, PolicyUntouched

\* A Component is served while its apply runs, or once it is being deleted.
LEMMA NotWaiting ==
  ASSUME NEW c \in Components, obj'[c] = obj[c], pc'[c] # "applied",
         obj[c].deleting \/ obj[c].observed # obj[c].generation
  PROVE  Served(c)'
BY DEF Served, Settled

\* Whoever changes the document in force is served.
LEMMA WriterIsServed ==
  ASSUME TypeOK, NEW c \in Components, HandlersFit(c),
         CreatePolicy(c) \/ CreateVersion(c) \/ DeletePolicy(c)
  PROVE  Served(c)'
<1>a. /\ pc \in [Components -> {"idle"} \cup ApplyCalls \cup DeleteCalls \cup Outcome]
      /\ job \in [Components -> Job]
      /\ obj[c].observed \in Nat /\ obj[c].generation \in Nat /\ job[c].generation \in Nat
  BY LimitAssumption DEF TypeOK, Component, Job, Generation
<1>1. CASE CreatePolicy(c) \/ CreateVersion(c)
  <2>1. /\ obj' = obj /\ pc'[c] = "applied" /\ pc[c] \in ApplyCalls
        /\ job'[c].doc = job[c].doc
    BY <1>1, <1>a DEF CreatePolicy, CreateWithText, CreateVersion, NewVersion, GoTo,
                      ApplyCalls, Job
  <2>2. obj[c].observed # obj[c].generation
    BY <1>a, <2>1 DEF HandlersFit
  <2>3. DocInForce' = job[c].doc
    BY <1>1, CreateGives, AddGives DEF DocInForce
  <2>4. QED
    BY <2>1, <2>2, <2>3 DEF Served, Settled
<1>2. CASE DeletePolicy(c)
  <2>1. /\ obj' = obj /\ pc'[c] # "applied" /\ pc[c] \in DeleteCalls
    BY <1>2, <1>a DEF DeletePolicy, DeleteOr, GoTo, DeleteCalls
  <2>2. QED
    BY <2>1, NotWaiting DEF HandlersFit
<1>3. QED
  BY <1>1, <1>2

\* c's own steps, but for those that change the document, keep it served.
LEMMA OwnServed ==
  ASSUME TypeOK, NEW c \in Components, HandlersFit(c), Served(c), Step(c),
         DocInForce' = DocInForce
  PROVE  Served(c)'
<1> USE DocsAssumption
<1>a. /\ obj \in [Components -> Component(Docs, Status, Generation)]
      /\ pc \in [Components -> {"idle"} \cup ApplyCalls \cup DeleteCalls \cup Outcome]
      /\ job \in [Components -> Job]
      /\ text \in [VersionId -> Docs \cup {NoDoc}]
  BY DEF TypeOK
<1>b. /\ obj[c].observed \in Nat /\ obj[c].generation \in Nat
      /\ job[c].generation \in Nat
  BY <1>a, LimitAssumption DEF Component, Job, Generation
<1>1. CASE Record(c)
  <2>1. /\ pc'[c] = "idle" /\ obj'[c] = Recorded(c) /\ pc[c] \in Outcome
    BY <1>1, <1>a DEF Record
  <2>2. CASE pc[c] = "applied"
    <3>1. /\ obj'[c].observed = job[c].generation
          /\ obj'[c].generation = obj[c].generation /\ obj'[c].spec = obj[c].spec
      BY <1>a, <2>1, <2>2 DEF Recorded, Applied, Component
    <3>2. job[c].generation = obj[c].generation => job[c].doc = obj[c].spec
      BY <2>2 DEF HandlersFit
    <3>3. QED
      BY <2>1, <2>2, <3>1, <3>2 DEF Served, Settled
  <2>3. CASE pc[c] = "ready"
    <3>1. /\ obj'[c].observed = obj[c].observed
          /\ obj'[c].generation = obj[c].generation /\ obj'[c].spec = obj[c].spec
          /\ obj'[c].deleting = obj[c].deleting /\ obj[c].phase = "Deploying"
      BY <1>a, <2>1, <2>3 DEF Recorded, CheckedReady, Component, HandlersFit
    <3>2. QED
      BY <2>1, <3>1 DEF Served, Settled
  <2>4. CASE pc[c] \in {"applyFailed", "failed", "deleteStarted", "gone"}
    <3>1. obj'[c].phase \in {"Failed", "Terminating", "Gone"}
      BY <1>a, <2>1, <2>4
         DEF Recorded, ApplyFailed, Failed, DeleteStarted, CheckedGone, Component
    <3>2. QED
      BY <2>1, <3>1 DEF Served, Settled
  <2>5. QED
    BY <2>1, <2>2, <2>3, <2>4 DEF Outcome
<1>2. CASE EditSpec(c) \/ RequestDeletion(c)
  <2>1. /\ obj'[c].observed # obj'[c].generation \/ obj'[c].deleting
        /\ pc' = pc /\ job' = job
    <3>1. CASE EditSpec(c)
      BY <3>1, <1>a, <1>b DEF EditSpec, Edited, HandlersFit, Component
    <3>2. CASE RequestDeletion(c)
      BY <3>2, <1>a DEF RequestDeletion, DeletionRequested, Component
    <3>3. QED
      BY <1>2, <3>1, <3>2
  <2>2. QED
    BY <2>1 DEF Served, Settled
<1>3. CASE CreatePolicy(c) \/ CreateVersion(c) \/ DeletePolicy(c)
  BY <1>3, WriterIsServed
<1>4. CASE GetPolicyVersion(c)
  <2>1. ~jsonEquals(URLEncoded(text[job[c].base]), job[c].doc) \/ job[c].base \notin versions
    BY <1>a, NeverEqual DEF versions
  <2>2. obj' = obj /\ pc'[c] # "applied"
    BY <1>4, <1>a, <2>1 DEF GetPolicyVersion, CompareDocument, GoTo
  <2>3. QED
    BY <2>2 DEF Served, Settled
<1>5. CASE /\ ~Record(c) /\ ~EditSpec(c) /\ ~RequestDeletion(c) /\ ~CreatePolicy(c)
           /\ ~CreateVersion(c) /\ ~DeletePolicy(c) /\ ~GetPolicyVersion(c)
  <2>1. obj' = obj /\ pc'[c] # "applied"
    BY <1>5, <1>a DEF Step, Reconcile, Apply, Delete, RejectSpec, StartApply, ListPolicies,
         CreatePolicyConflict, GetPolicy, ListVersions, DeleteOldest,
         CreateVersionRefused, CheckApplied, StartDelete, RetryDelete, BeginDelete,
         GetForDelete, ListForDelete, DeleteOneVersion, DeleteListed,
         CheckDeleted, CheckGone, Interrupt, PermanentError, CheckRefused, Begin, GoTo
  <2>2. QED
    BY <2>1 DEF Served, Settled
<1>6. QED
  BY <1>1, <1>2, <1>3, <1>4, <1>5

LEMMA SomeoneServed ==
  ASSUME TypeOK, PolicyFits, \A c \in Components : HandlersFit(c),
         NEW d \in Components, Step(d), NEW c \in Components, Served(c)
  PROVE  Served(c)' \/ Served(d)'
<1>1. CASE CreatePolicy(d) \/ CreateVersion(d) \/ DeletePolicy(d)
  BY <1>1, WriterIsServed
<1>2. CASE ~CreatePolicy(d) /\ ~CreateVersion(d) /\ ~DeletePolicy(d)
  <2>1. DocInForce' = DocInForce
    BY <1>2, DocumentChanges
  <2>2. CASE c = d
    BY <2>1, <2>2, OwnServed
  <2>3. CASE c # d
    <3>1. obj'[c] = obj[c] /\ pc'[c] = pc[c] /\ job'[c] = job[c]
      BY <2>3, OthersUndisturbed
    <3>2. QED
      BY <2>1, <3>1 DEF Served, Settled
  <2>4. QED
    BY <2>2, <2>3
<1>3. QED
  BY <1>1, <1>2

-----------------------------------------------------------------------------
(* The inductive invariant. *)

LEMMA InitInv == Init => Inv
<1> SUFFICES ASSUME Init PROVE Inv
  OBVIOUS
<1> USE LimitAssumption, DocsAssumption
<1>1. TypeOK
  BY InitType
<1>2. PICK k \in 0 .. MaxNumberOfPolicyVersions, d \in ValidDocs :
        /\ text = [v \in VersionId |-> IF v <= k THEN d ELSE NoDoc]
        /\ default = k
        /\ issued = k
  BY DEF Init
<1>3. versions = 1 .. k
  <2>1. d # NoDoc
    OBVIOUS
  <2>2. versions = {v \in VersionId : v <= k}
    BY <1>2, <2>1 DEF versions
  <2>3. QED
    BY <2>2 DEF VersionId
<1>4. Cardinality(1 .. k) = k
  BY FS_Interval
<1>5. PolicyFits
  BY <1>2, <1>3, <1>4 DEF PolicyFits
<1>6. ASSUME NEW c \in Components
      PROVE  /\ HandlersFit(c) /\ ApplyStands(c) /\ DeletionStands(c)
             /\ PruneFits(c) /\ RemovalFits(c) /\ Served(c)
  <2>1. /\ pc[c] = "idle" /\ obj[c].phase = "Pending"
        /\ obj[c].observed = 0 /\ obj[c].generation = 1
    BY DEF Init, NewComponent
  <2>2. QED
    BY <2>1 DEF HandlersFit, ApplyStands, DeletionStands, PruneFits, RemovalFits, Listed,
                Served, Settled, ApplyCalls, DeleteCalls
<1>7. QED
  BY <1>1, <1>5, <1>6 DEF Inv

\* Nobody's attachment changes what stands.
LEMMA QuietStep ==
  ASSUME Inv, Attach \/ Detach \/ UNCHANGED vars
  PROVE  Inv'
<1>1. /\ text' = text /\ default' = default /\ issued' = issued /\ obj' = obj
      /\ pc' = pc /\ job' = job /\ overtaken' = overtaken /\ renewed' = renewed
  BY DEF Attach, Detach, vars
<1>2. TypeOK'
  BY NextType DEF Inv, Next
<1>3. PolicyFits'
  BY <1>1 DEF Inv, PolicyFits, versions
<1>4. ASSUME NEW c \in Components
      PROVE  /\ HandlersFit(c)' /\ ApplyStands(c)' /\ DeletionStands(c)'
             /\ PruneFits(c)' /\ RemovalFits(c)'
             /\ Served(c) => Served(c)'
  <2>1. /\ HandlersFit(c) /\ ApplyStands(c) /\ DeletionStands(c)
        /\ PruneFits(c) /\ RemovalFits(c)
    BY DEF Inv
  <2>2. HandlersFit(c)' /\ ApplyStands(c)' /\ DeletionStands(c)'
    BY <1>1, <2>1 DEF HandlersFit, ApplyStands, DeletionStands, Settled, InForce, exists,
                      versions, HasRoom
  <2>3. PruneFits(c)'
    BY <1>1, <2>1 DEF PruneFits, AtLimit, IsOldest, NonDefault, versions
  <2>4. Served(c) => Served(c)'
    BY <1>1 DEF Served, Settled, DocInForce, exists, versions
  <2>5. RemovalFits(c)'
    BY <1>1, <2>1 DEF RemovalFits, Listed, NonDefault, versions
  <2>6. QED
    BY <2>2, <2>3, <2>4, <2>5
<1>5. QED
  BY <1>2, <1>3, <1>4 DEF Inv

\* Nor does a step of another Component, unless it overtakes.
LEMMA OthersStep ==
  ASSUME TypeOK, NEW d \in Components, Step(d), NEW c \in Components \ {d},
         HandlersFit(c), ApplyStands(c), DeletionStands(c)
  PROVE  HandlersFit(c)' /\ ApplyStands(c)' /\ DeletionStands(c)'
<1>1. /\ obj'[c] = obj[c] /\ pc'[c] = pc[c] /\ job'[c] = job[c]
      /\ c \notin overtaken' =>
           /\ c \notin overtaken
           /\ (text' = text /\ default' = default) \/ (~exists /\ ~exists')
  BY OthersUndisturbed
<1>2. HandlersFit(c)'
  BY <1>1 DEF HandlersFit
<1>3. ApplyStands(c)'
  BY <1>1 DEF ApplyStands, Settled, InForce, exists, versions, HasRoom
<1>4. DeletionStands(c)'
  BY <1>1 DEF DeletionStands, exists, versions
<1>5. QED
  BY <1>2, <1>3, <1>4

LEMMA NextInv == Inv /\ [Next]_vars => Inv'
<1> SUFFICES ASSUME Inv, [Next]_vars PROVE Inv'
  OBVIOUS
<1>1. CASE Attach \/ Detach \/ UNCHANGED vars
  BY <1>1, QuietStep
<1>2. ASSUME NEW d \in Components, Step(d) PROVE Inv'
  <2>1. TypeOK /\ TypeOK' /\ PolicyFits /\ HandlersFit(d)
    BY NextType DEF Inv
  <2>2. PolicyFits'
    BY <1>2, <2>1, PolicyFitsStep
  <2>3. ASSUME NEW c \in Components
        PROVE  /\ HandlersFit(c)' /\ ApplyStands(c)' /\ DeletionStands(c)'
               /\ PruneFits(c)' /\ RemovalFits(c)'
    <3>1. /\ HandlersFit(c) /\ ApplyStands(c) /\ DeletionStands(c)
          /\ PruneFits(c) /\ RemovalFits(c) /\ PruneFits(d)
      BY DEF Inv
    <3>2. PruneFits(c)' /\ RemovalFits(c)'
      BY <1>2, <2>1, <3>1, PruneStep, RemovalStep
    <3>3. CASE c = d
      BY <1>2, <2>1, <3>1, <3>2, <3>3, OwnFit, OwnStands, OwnDeletion
    <3>4. CASE c # d
      BY <1>2, <2>1, <3>1, <3>2, <3>4, OthersStep
    <3>5. QED
      BY <3>3, <3>4
  <2>4. \E c \in Components : Served(c)'
    <3>1. PICK c \in Components : Served(c)
      BY <1>2 DEF Inv
    <3>2. \A e \in Components : HandlersFit(e)
      BY DEF Inv
    <3>3. QED
      BY <1>2, <2>1, <3>1, <3>2, SomeoneServed
  <2>5. QED
    BY <2>1, <2>2, <2>3, <2>4 DEF Inv
<1>3. QED
  BY <1>1, <1>2 DEF Next

\* Inv is an inductive invariant of the provider.
THEOREM Invariance == Spec => []Inv
<1>1. QED
  BY InitInv, NextInv, PTL DEF Spec

-----------------------------------------------------------------------------
(* The theorems. *)

\* A Component whose apply succeeded, and whom no other Component overtook, has
\* its document in force under the version its status names, for every number of
\* Components, documents, versions, edits and interruptions.
THEOREM AppliedIsInForce == Spec => []ReadyMeansApplied
<1>1. Inv => ReadyMeansApplied
  BY DEF Inv, ReadyMeansApplied, ApplyStands, InForce, DocInForce
<1>2. QED
  BY <1>1, Invariance, PTL

\* A Component that has deleted the policy it knew has left none behind, until
\* another one writes it again.
THEOREM DeletedIsGone == Spec => []NoPolicyLeftBehind
<1>1. Inv => NoPolicyLeftBehind
  BY DEF Inv, NoPolicyLeftBehind, DeletionStands
<1>2. QED
  BY <1>1, Invariance, PTL

\* An apply that was not overtaken creates its version with room for it, whatever
\* the limit of the service.
THEOREM RoomIsMade == Spec => []RoomForNewVersion
<1>1. Inv => RoomForNewVersion
  BY DEF Inv, RoomForNewVersion, ApplyStands, HasRoom
<1>2. QED
  BY <1>1, Invariance, PTL

\* However many Components contend for one policy, once all their applies are
\* done the document in force is the one that some of them wants.
THEOREM SettlesOnSomeonesSpec == Spec => []SettledOnSomeonesSpec
<1>1. Inv => SettledOnSomeonesSpec
  BY DEF Inv, SettledOnSomeonesSpec, Served
<1>2. QED
  BY <1>1, Invariance, PTL

\* As long as nobody asks for a deletion, a version goes only at the limit, and
\* it is the oldest that is not in force, also when several Components prune.
THEOREM PrunesTheOldest == Spec => PrunesOnlyTheOldest
<1> DEFINE Pruned ==
      \A v \in VersionId :
        v \in versions /\ v \notin versions' /\ (\A c \in Components : ~obj[c].deleting)
          => /\ Cardinality(versions) = MaxNumberOfPolicyVersions
             /\ v # default
             /\ \A w \in NonDefault : v <= w
<1>1. ASSUME Inv, [Next]_vars, NEW v \in VersionId, v \in versions, v \notin versions',
             \A c \in Components : ~obj[c].deleting
      PROVE  /\ Cardinality(versions) = MaxNumberOfPolicyVersions
             /\ v # default
             /\ \A w \in NonDefault : v <= w
  <2>1. text' # text
    BY <1>1 DEF versions
  <2>2. PICK d \in Components : Step(d)
    BY <1>1, <2>1 DEF Next, Attach, Detach, vars
  <2>3. TypeOK /\ PolicyFits /\ HandlersFit(d) /\ PruneFits(d)
    BY <1>1 DEF Inv
  <2>4. DeleteOldest(d)
    <3>1. ~DeleteOneVersion(d) /\ ~DeletePolicy(d)
      BY <1>1, <2>3
         DEF DeleteOneVersion, DeleteListed, DeletePolicy, DeleteOr, HandlersFit, DeleteCalls
    <3>2. ~CreateVersion(d)
      BY <1>1, <2>3, AddGives
    <3>3. ~CreatePolicy(d)
      BY <1>1, <2>3, CreateGives DEF exists
    <3>4. QED
      BY <2>1, <2>2, <3>1, <3>2, <3>3, PolicyUntouched
  <2>5. PICK w \in VersionId \ {default} :
          versions' = versions \ {w} /\ w = job[d].victim /\ w \in NonDefault
    BY <2>1, <2>3, <2>4, RemoveGives
  <2>6. v = w
    BY <1>1, <2>5
  <2>7. AtLimit /\ IsOldest(v)
    BY <1>1, <2>3, <2>4, <2>5, <2>6 DEF PruneFits, DeleteOldest
  <2>8. Cardinality(versions) \in Nat
    BY <2>3, PolicyFacts, FiniteVersions
  <2>9. Cardinality(versions) = MaxNumberOfPolicyVersions
    BY <2>3, <2>7, <2>8, LimitAssumption DEF AtLimit, PolicyFits
  <2>10. QED
    BY <2>5, <2>6, <2>7, <2>9 DEF IsOldest
<1>2. Inv /\ [Next]_vars => [Pruned]_vars
  BY <1>1
<1>3. QED
  BY <1>2, Invariance, PTL DEF Spec, PrunesOnlyTheOldest

\* Two deletions of one policy do not fail each other, however many there are and
\* however their calls interleave: what has removed a listed version before is
\* taken for success, and a deletion that goes on to DeletePolicy finds nothing
\* but the default version.
THEOREM DeletionsGoTogether == Spec => DeletionsDoNotCollide
<1> DEFINE Apart ==
      \A c \in Components :
        Listed(c) /\ pc'[c] = "failed"
          => attached \/ c \in renewed \/ faults' > faults
<1>1. ASSUME Inv, [Next]_vars, NEW c \in Components, Listed(c), pc'[c] = "failed",
             ~attached, c \notin renewed
      PROVE  faults' > faults
  <2>a. /\ pc \in [Components -> {"idle"} \cup ApplyCalls \cup DeleteCalls \cup Outcome]
        /\ job \in [Components -> Job]
        /\ faults \in Nat
    BY <1>1, LimitAssumption DEF Inv, TypeOK
  <2>1. pc'[c] # pc[c]
    BY <1>1 DEF Listed
  <2>2. PICK d \in Components : Step(d)
    BY <1>1, <2>1 DEF Next, Attach, Detach, vars
  <2>3. d = c
    BY <1>1, <2>1, <2>2, OthersUndisturbed DEF Inv
  <2>4. /\ NonDefault \subseteq job[c].todo /\ default \notin job[c].todo
        /\ pc[c] = "DeletePolicy" => job[c].todo = {}
    BY <1>1 DEF Inv, RemovalFits
  <2>5. ~DeleteOneVersion(c)
    BY <1>1, <2>4, <2>a DEF DeleteOneVersion, DeleteListed, GoTo
  <2>6. ~DeletePolicy(c)
    BY <1>1, <2>4, <2>a DEF DeletePolicy, DeleteOr, GoTo
  <2>7. PermanentError(c)
    BY <1>1, <2>1, <2>2, <2>3, <2>5, <2>6, <2>a
       DEF Listed, Step, Reconcile, Apply, Delete, RejectSpec, StartApply,
         ListPolicies, CreatePolicy, CreateWithText, CreatePolicyConflict, GetPolicy,
         GetPolicyVersion, CompareDocument, ListVersions, DeleteOldest, CreateVersion,
         NewVersion, CreateVersionRefused, CheckApplied, StartDelete, RetryDelete,
         BeginDelete, GetForDelete, ListForDelete,
         CheckDeleted, CheckGone, Record, Interrupt, CheckRefused,
         EditSpec, RequestDeletion, Begin, GoTo, Idle, Outcome
  <2>8. QED
    BY <2>7, <2>a DEF PermanentError
<1>2. Inv /\ [Next]_vars => [Apart]_vars
  BY <1>1
<1>3. QED
  BY <1>2, Invariance, PTL DEF Spec, DeletionsDoNotCollide

\* What a Component, or its running handler, knows of the ARN.
Knows(c) == obj[c].status.arn \/ (~Idle(c) /\ job[c].status.arn)

\* It is not forgotten without a fault.
LEMMA KnowsStill ==
  ASSUME TypeOK, NEW c \in Components, HandlersFit(c), Step(c), Knows(c), faults' = faults
  PROVE  Knows(c)'
<1>a. /\ obj \in [Components -> Component(Docs, Status, Generation)]
      /\ pc \in [Components -> {"idle"} \cup ApplyCalls \cup DeleteCalls \cup Outcome]
      /\ job \in [Components -> Job]
      /\ faults \in 0 .. MaxFaults
  BY DEF TypeOK
<1>b. pc[c] # "idle" => job[c].status.arn
  BY DEF HandlersFit, Knows, Idle
<1>c. faults # faults + 1
  BY <1>a, LimitAssumption
<1> USE DEF Knows, Idle
<1>1. CASE Record(c)
  <2>1. obj'[c] = Recorded(c) /\ pc[c] \in Outcome
    BY <1>1, <1>a DEF Record
  <2>2. pc[c] # "idle"
    BY <2>1 DEF Outcome
  <2>3. obj'[c].status = job[c].status
    <3>1. CASE pc[c] \in {"applied", "applyFailed", "ready"}
      BY <1>a, <2>1, <3>1 DEF Recorded, Applied, ApplyFailed, CheckedReady, Component
    <3>2. CASE pc[c] \in {"failed", "deleteStarted", "gone"}
      BY <1>a, <2>1, <3>2 DEF Recorded, Failed, DeleteStarted, CheckedGone, Component
    <3>3. QED
      BY <2>1, <3>1, <3>2 DEF Outcome
  <2>4. QED
    BY <1>b, <2>2, <2>3
<1>2. CASE EditSpec(c)
  <2>1. PICK d \in Docs : obj' = [obj EXCEPT ![c] = Edited(obj[c], d)]
    BY <1>2 DEF EditSpec
  <2>2. obj'[c].status = obj[c].status /\ pc' = pc /\ job' = job
    BY <1>2, <1>a, <2>1 DEF EditSpec, Edited, Component
  <2>3. QED
    BY <2>2
<1>3. CASE RequestDeletion(c)
  <2>1. obj'[c].status = obj[c].status /\ pc' = pc /\ job' = job
    BY <1>3, <1>a DEF RequestDeletion, DeletionRequested, Component
  <2>2. QED
    BY <2>1
<1>4. CASE \/ RejectSpec(c) \/ StartApply(c) \/ CheckApplied(c) \/ StartDelete(c)
           \/ RetryDelete(c) \/ CheckDeleted(c)
  <2>1. obj' = obj /\ pc[c] = "idle"
    BY <1>4 DEF RejectSpec, StartApply, CheckApplied, StartDelete, RetryDelete, BeginDelete,
                CheckDeleted, CheckGone, Begin, GoTo
  <2>2. QED
    BY <2>1
<1>5. CASE ListPolicies(c) \/ CreatePolicy(c) \/ GetPolicyVersion(c) \/ CreateVersion(c)
  <2>1. /\ obj' = obj /\ pc[c] # "idle" /\ pc'[c] # "idle"
        /\ job'[c].status.arn = TRUE \/ job'[c].status.arn = job[c].status.arn
    BY <1>5, <1>a DEF ListPolicies, CreatePolicy, CreateWithText, GetPolicyVersion,
                CompareDocument, CreateVersion, NewVersion, GoTo, Job, Status
  <2>2. QED
    BY <1>b, <2>1
<1>6. CASE \/ CreatePolicyConflict(c) \/ GetPolicy(c) \/ ListVersions(c) \/ DeleteOldest(c)
           \/ CreateVersionRefused(c)
  <2>1. /\ obj' = obj /\ pc[c] # "idle" /\ pc'[c] # "idle"
        /\ job'[c].status = job[c].status
    BY <1>6, <1>a DEF CreatePolicyConflict, GetPolicy, ListVersions, DeleteOldest,
                CreateVersionRefused, GoTo, Job
  <2>2. QED
    BY <1>b, <2>1
<1>7. CASE GetForDelete(c) \/ DeletePolicy(c)
  <2>1. /\ obj' = obj /\ pc[c] # "idle" /\ pc'[c] # "idle"
        /\ job'[c] = job[c]
    BY <1>7, <1>a DEF GetForDelete, DeletePolicy, DeleteOr, GoTo
  <2>2. QED
    BY <1>b, <2>1
<1>10. CASE ListForDelete(c)
  <2>1. /\ obj' = obj /\ pc[c] # "idle" /\ pc'[c] # "idle"
        /\ job'[c] = [job[c] EXCEPT !.todo = NonDefault]
    BY <1>10, <1>a DEF ListForDelete, GoTo
  <2>2. job'[c].status = job[c].status
    BY <1>a, <2>1 DEF Job
  <2>3. QED
    BY <1>b, <2>1, <2>2
<1>11. CASE DeleteOneVersion(c)
  <2>1. PICK v : /\ obj' = obj /\ pc[c] # "idle" /\ pc'[c] # "idle"
                 /\ job'[c] \in {job[c], [job[c] EXCEPT !.todo = @ \ {v}]}
    BY <1>11, <1>a DEF DeleteOneVersion, DeleteListed, GoTo
  <2>2. job'[c].status = job[c].status
    BY <1>a, <2>1 DEF Job
  <2>3. QED
    BY <1>b, <2>1, <2>2
<1>8. CASE Interrupt(c) \/ PermanentError(c) \/ CheckRefused(c)
  BY <1>8, <1>c DEF Interrupt, PermanentError, CheckRefused
<1>9. QED
  BY <1>1, <1>2, <1>3, <1>4, <1>5, <1>6, <1>7, <1>8, <1>10, <1>11
     DEF Step, Reconcile, Apply, Delete

LEMMA FaultsGrow ==
  ASSUME TypeOK, NEW d \in Components, Step(d)
  PROVE  faults' = faults \/ faults' > 0
<1>1. faults \in Nat
  BY LimitAssumption DEF TypeOK
<1>2. faults' = faults \/ faults' = faults + 1
  BY DEF Step, Reconcile, Apply, Delete, RejectSpec, StartApply, ListPolicies,
         CreatePolicy, CreateWithText, CreatePolicyConflict, GetPolicy, GetPolicyVersion,
         CompareDocument, ListVersions, DeleteOldest, CreateVersion, NewVersion,
         CreateVersionRefused, CheckApplied, StartDelete, RetryDelete, BeginDelete,
         GetForDelete, ListForDelete, DeleteOneVersion, DeleteListed, DeletePolicy, DeleteOr,
         CheckDeleted, CheckGone, Record, Interrupt, PermanentError, CheckRefused,
         EditSpec, RequestDeletion, Begin, GoTo
<1>3. QED
  BY <1>1, <1>2

\* From the creation on, a policy made for a Component is known to one.
LEMMA StillAccountedFor ==
  Inv /\ (exists => KnownToSomeone) /\ [Next]_vars => (exists => KnownToSomeone)'
<1> SUFFICES ASSUME Inv, exists => KnownToSomeone, [Next]_vars, exists'
             PROVE  KnownToSomeone'
  OBVIOUS
<1>1. CASE Attach \/ Detach \/ UNCHANGED vars
  BY <1>1 DEF Attach, Detach, vars, exists, versions, KnownToSomeone, Idle
<1>2. ASSUME NEW d \in Components, Step(d) PROVE KnownToSomeone'
  <2>1. TypeOK /\ PolicyFits /\ \A c \in Components : HandlersFit(c)
    BY DEF Inv
  <2>2. CASE faults' > 0
    BY <2>2 DEF KnownToSomeone
  <2>3. CASE faults' = faults /\ ~(faults > 0)
    <3>1. CASE exists
      <4>1. PICK c \in Components : Knows(c)
        BY <2>3, <3>1 DEF KnownToSomeone, Knows
      <4>2. CASE c = d
        <5>1. Knows(c)'
          BY <1>2, <2>1, <2>3, <4>1, <4>2, KnowsStill
        <5>2. QED
          BY <5>1 DEF KnownToSomeone, Knows
      <4>3. CASE c # d
        <5>1. obj'[c] = obj[c] /\ pc'[c] = pc[c] /\ job'[c] = job[c]
          BY <1>2, <2>1, <4>3, OthersUndisturbed
        <5>2. QED
          BY <4>1, <5>1 DEF KnownToSomeone, Knows, Idle
      <4>4. QED
        BY <4>2, <4>3
    <3>2. CASE ~exists
      <4>1. CreatePolicy(d)
        <5>1. ~CreateVersion(d)
          BY <2>1, <3>2, AddGives
        <5>2. ~DeleteOldest(d)
          BY <2>1, <3>2, RemoveGives DEF exists, versions
        <5>3. ~DeleteOneVersion(d)
          BY <2>1, <3>2, RemoveGives DEF exists, versions
        <5>4. ~DeletePolicy(d)
          BY <2>1, <3>2, DeletePolicyGives DEF exists, versions
        <5>5. QED
          BY <1>2, <3>2, <5>1, <5>2, <5>3, <5>4, PolicyUntouched DEF exists, versions
      <4>2. pc'[d] = "applied" /\ job'[d].status.arn = TRUE
        BY <2>1, <4>1 DEF CreatePolicy, CreateWithText, GoTo, TypeOK, Job
      <4>3. QED
        BY <4>2 DEF KnownToSomeone, Idle
    <3>3. QED
      BY <3>1, <3>2
  <2>4. QED
    BY <1>2, <2>1, <2>2, <2>3, FaultsGrow
<1>3. QED
  BY <1>1, <1>2 DEF Next

\* A policy that did not exist and then does is known to some Component ever
\* after, in its status or its running handler, unless a fault intervened.
THEOREM PoliciesAreAccountedFor == Spec => PolicyIsAccountedFor
<1>1. Inv /\ (exists => KnownToSomeone) /\ [Next]_vars => (exists => KnownToSomeone)'
  BY StillAccountedFor
<1>2. QED
  BY <1>1, Invariance, PTL DEF Spec, PolicyIsAccountedFor

\* AWS holds an attachment against the policy's deletion.
LEMMA AttachedStays ==
  ASSUME TypeOK, PolicyFits, NEW d \in Components, HandlersFit(d), Step(d), attached, exists
  PROVE  exists'
<1>1. CASE CreatePolicy(d)
  BY <1>1, CreateGives
<1>2. CASE CreateVersion(d)
  BY <1>2, AddGives
<1>3. CASE UNCHANGED <<text, default, issued>>
  BY <1>3 DEF exists, versions
<1>4. CASE DeleteOldest(d) \/ DeleteOneVersion(d)
  <2>1. CASE text' = text
    BY <1>3, <1>4, <2>1, RemoveGives
  <2>2. CASE text' # text
    <3>1. PICK v \in VersionId \ {default} : versions' = versions \ {v}
      BY <1>4, <2>2, RemoveGives
    <3>2. default \in versions
      BY PolicyFacts
    <3>3. QED
      BY <3>1, <3>2 DEF exists
  <2>3. QED
    BY <2>1, <2>2
<1>5. CASE DeletePolicy(d)
  BY <1>3, <1>5 DEF DeletePolicy, DeleteOr
<1>6. QED
  BY <1>1, <1>2, <1>3, <1>4, <1>5, PolicyUntouched

-----------------------------------------------------------------------------
(* What a user of the policy sees. *)

LEMMA InitPromise == Init => Promise!Init
<1> SUFFICES ASSUME Init PROVE Promise!Init
  OBVIOUS
<1>1. PICK k \in 0 .. MaxNumberOfPolicyVersions, d \in ValidDocs :
        /\ text = [v \in VersionId |-> IF v <= k THEN d ELSE NoDoc]
        /\ default = k
  BY DEF Init
<1>2. DocInForce \in ValidDocs \cup {NoDoc}
  <2>1. CASE exists
    <3>1. k \in VersionId
      BY <1>1, <2>1, LimitAssumption DEF exists, versions, VersionId
    <3>2. QED
      BY <1>1, <2>1, <3>1, LimitAssumption DEF DocInForce
  <2>2. CASE ~exists
    BY <2>2 DEF DocInForce
  <2>3. QED
    BY <2>1, <2>2
<1>3. PICK s \in [Components -> Docs] :
        obj = [c \in Components |-> NewComponent(s[c], NoStatus)]
  BY DEF Init
<1>4. [c \in Components |-> obj[c].spec] \in [Components -> Docs]
  BY <1>3 DEF NewComponent
<1>5. [c \in Components |-> obj[c].deleting] = [c \in Components |-> FALSE]
  BY <1>3 DEF NewComponent
<1>6. [c \in Components |-> IF pc[c] \in ApplyCalls THEN job[c].doc ELSE NoDoc]
        = [c \in Components |-> NoDoc]
  BY DEF Init, ApplyCalls
<1>7. QED
  BY <1>2, <1>4, <1>5, <1>6 DEF Promise!Init
\* The state of PolicyPromise, as IamPolicy's variables give it.
Wanted == [c \in Components |-> obj[c].spec]
Released == [c \in Components |-> obj[c].deleting]
ClaimOf(c) == IF pc[c] \in ApplyCalls THEN job[c].doc ELSE NoDoc
Claimed == [c \in Components |-> ClaimOf(c)]

\* A step of d's changes nobody else's wish or claim.
LEMMA OwnWishes ==
  ASSUME TypeOK, NEW d \in Components, Step(d)
  PROVE  /\ Wanted' = [Wanted EXCEPT ![d] = obj'[d].spec]
         /\ Released' = [Released EXCEPT ![d] = obj'[d].deleting]
         /\ Claimed' = [Claimed EXCEPT ![d] = ClaimOf(d)']
<1>1. ASSUME NEW c \in Components \ {d}
      PROVE  obj'[c] = obj[c] /\ ClaimOf(c)' = ClaimOf(c)
  BY OthersUndisturbed DEF ClaimOf
<1>2. Wanted' = [Wanted EXCEPT ![d] = obj'[d].spec]
  BY <1>1 DEF Wanted
<1>3. Released' = [Released EXCEPT ![d] = obj'[d].deleting]
  BY <1>1 DEF Released
<1>4. Claimed' = [Claimed EXCEPT ![d] = ClaimOf(d)']
  BY <1>1 DEF Claimed
<1>5. QED
  BY <1>2, <1>3, <1>4

\* Only the user changes a wish, and only a handler that starts makes a claim.
LEMMA NoNewClaim ==
  ASSUME TypeOK, NEW d \in Components, Step(d),
         ~EditSpec(d), ~RequestDeletion(d), ~StartApply(d)
  PROVE  /\ obj'[d].spec = obj[d].spec /\ obj'[d].deleting = obj[d].deleting
         /\ ClaimOf(d)' \in {ClaimOf(d), NoDoc}
<1>a. /\ obj \in [Components -> Component(Docs, Status, Generation)]
      /\ pc \in [Components -> {"idle"} \cup ApplyCalls \cup DeleteCalls \cup Outcome]
      /\ job \in [Components -> Job]
  BY DEF TypeOK
<1>1. CASE Record(d)
  <2>1. obj'[d] = Recorded(d) /\ pc[d] \in Outcome /\ pc'[d] = "idle"
    BY <1>1, <1>a DEF Record
  <2>2. obj'[d].spec = obj[d].spec /\ obj'[d].deleting = obj[d].deleting
    <3>1. CASE pc[d] \in {"applied", "applyFailed", "ready"}
      BY <1>a, <2>1, <3>1 DEF Recorded, Applied, ApplyFailed, CheckedReady, Component
    <3>2. CASE pc[d] \in {"failed", "deleteStarted", "gone"}
      BY <1>a, <2>1, <3>2 DEF Recorded, Failed, DeleteStarted, CheckedGone, Component
    <3>3. QED
      BY <2>1, <3>1, <3>2 DEF Outcome
  <2>3. QED
    BY <2>1, <2>2 DEF ClaimOf, ApplyCalls
<1>2. CASE RejectSpec(d) \/ CheckApplied(d) \/ StartDelete(d) \/ RetryDelete(d) \/ CheckDeleted(d)
  <2>1. obj' = obj /\ pc'[d] \notin ApplyCalls
    BY <1>2, <1>a DEF RejectSpec, CheckApplied, StartDelete, RetryDelete, BeginDelete,
                      CheckDeleted, CheckGone, Begin, GoTo, ApplyCalls
  <2>2. QED
    BY <2>1 DEF ClaimOf
<1>3. CASE GetForDelete(d) \/ ListForDelete(d) \/ DeleteOneVersion(d) \/ DeletePolicy(d)
  <2>1. obj' = obj /\ pc'[d] \notin ApplyCalls
    BY <1>3, <1>a DEF GetForDelete, ListForDelete, DeleteOneVersion, DeleteListed,
                      DeletePolicy, DeleteOr, GoTo, ApplyCalls
  <2>2. QED
    BY <2>1 DEF ClaimOf
<1>4. CASE \/ ListPolicies(d) \/ CreatePolicy(d) \/ CreatePolicyConflict(d) \/ GetPolicy(d)
           \/ GetPolicyVersion(d)
  <2>1. obj' = obj /\ pc[d] \in ApplyCalls /\ job'[d].doc = job[d].doc
    BY <1>4, <1>a DEF ListPolicies, CreatePolicy, CreateWithText, CreatePolicyConflict,
                      GetPolicy, GetPolicyVersion, CompareDocument, GoTo, ApplyCalls, Job
  <2>2. QED
    BY <2>1 DEF ClaimOf
<1>5. CASE ListVersions(d) \/ DeleteOldest(d) \/ CreateVersion(d) \/ CreateVersionRefused(d)
  <2>1. obj' = obj /\ pc[d] \in ApplyCalls /\ job'[d].doc = job[d].doc
    BY <1>5, <1>a DEF ListVersions, DeleteOldest, CreateVersion, NewVersion,
                      CreateVersionRefused, GoTo, ApplyCalls, Job
  <2>2. QED
    BY <2>1 DEF ClaimOf
<1>6. CASE Interrupt(d) \/ PermanentError(d) \/ CheckRefused(d)
  <2>1. obj' = obj /\ pc'[d] \notin ApplyCalls
    BY <1>6, <1>a DEF Interrupt, PermanentError, CheckRefused, ApplyCalls
  <2>2. QED
    BY <2>1 DEF ClaimOf
<1>7. QED
  BY <1>1, <1>2, <1>3, <1>4, <1>5, <1>6 DEF Step, Reconcile, Apply, Delete

LEMMA PromiseStep ==
  ASSUME TypeOK, PolicyFits, NEW d \in Components, HandlersFit(d), Step(d)
  PROVE  [Promise!Next]_(Promise!vars)
<1>a. /\ obj \in [Components -> Component(Docs, Status, Generation)]
      /\ pc \in [Components -> {"idle"} \cup ApplyCalls \cup DeleteCalls \cup Outcome]
      /\ job \in [Components -> Job]
      /\ DOMAIN Wanted = Components /\ Wanted[d] = obj[d].spec
      /\ DOMAIN Released = Components /\ Released[d] = obj[d].deleting
      /\ DOMAIN Claimed = Components /\ Claimed[d] = ClaimOf(d)
  BY DEF TypeOK, Wanted, Released, Claimed
<1>b. /\ Wanted = [Wanted EXCEPT ![d] = obj[d].spec]
      /\ Released = [Released EXCEPT ![d] = obj[d].deleting]
      /\ Claimed = [Claimed EXCEPT ![d] = ClaimOf(d)]
  BY DEF Wanted, Released, Claimed
<1>c. /\ Wanted' = [Wanted EXCEPT ![d] = obj'[d].spec]
      /\ Released' = [Released EXCEPT ![d] = obj'[d].deleting]
      /\ Claimed' = [Claimed EXCEPT ![d] = ClaimOf(d)']
  BY OwnWishes
<1>1. CASE EditSpec(d) \/ RequestDeletion(d)
  <2>1. ~obj[d].deleting /\ pc' = pc /\ job' = job /\ UNCHANGED <<text, default, issued>>
    BY <1>1 DEF EditSpec, RequestDeletion, awsVars
  <2>2. ClaimOf(d)' = ClaimOf(d) /\ DocInForce' = DocInForce
    BY <2>1 DEF ClaimOf, DocInForce, exists, versions
  <2>3. CASE EditSpec(d)
    <3>1. PICK e \in Docs : obj' = [obj EXCEPT ![d] = Edited(obj[d], e)]
      BY <2>3 DEF EditSpec
    <3>2. obj'[d].spec = e /\ obj'[d].deleting = obj[d].deleting
      BY <1>a, <3>1 DEF Edited, Component
    <3>3. Promise!Want(d)
      BY <1>a, <1>b, <1>c, <2>1, <2>2, <3>2 DEF Promise!Want, Wanted, Released, Claimed, ClaimOf
    <3>4. QED
      BY <3>3 DEF Promise!Next
  <2>4. CASE RequestDeletion(d)
    <3>1. obj'[d].spec = obj[d].spec /\ obj'[d].deleting = TRUE
      BY <1>a, <2>4 DEF RequestDeletion, DeletionRequested, Component
    <3>2. Promise!Release(d)
      BY <1>a, <1>b, <1>c, <2>1, <2>2, <3>1
         DEF Promise!Release, Wanted, Released, Claimed, ClaimOf
    <3>3. QED
      BY <3>2 DEF Promise!Next
  <2>5. QED
    BY <1>1, <2>3, <2>4
<1>2. CASE StartApply(d)
  <2>1. /\ obj' = obj /\ UNCHANGED <<text, default, issued>>
        /\ ~obj[d].deleting /\ obj[d].spec \in ValidDocs
        /\ pc[d] = "idle" /\ pc'[d] = "ListPolicies" /\ job'[d] = Called(d)
    BY <1>2, <1>a DEF StartApply, Idle, NeedsApply, Begin, GoTo, awsVars, Component
  <2>2. job'[d].doc = obj[d].spec
    BY <2>1 DEF Called, NoJob
  <2>3. ClaimOf(d) = NoDoc /\ ClaimOf(d)' = obj[d].spec /\ DocInForce' = DocInForce
    BY <2>1, <2>2 DEF ClaimOf, ApplyCalls, DocInForce, exists, versions
  <2>4. Promise!Claim(d)
    BY <1>a, <1>b, <1>c, <2>1, <2>3 DEF Promise!Claim, Wanted, Released, Claimed, ClaimOf
  <2>5. QED
    BY <2>4 DEF Promise!Next
<1>3. CASE ~EditSpec(d) /\ ~RequestDeletion(d) /\ ~StartApply(d)
  <2>1. Wanted' = Wanted /\ Released' = Released /\ ClaimOf(d)' \in {ClaimOf(d), NoDoc}
    BY <1>3, <1>b, <1>c, NoNewClaim
  <2>2. CASE CreatePolicy(d) \/ CreateVersion(d)
    <3>1. pc[d] \in ApplyCalls /\ pc'[d] = "applied"
      BY <2>2, <1>a DEF CreatePolicy, CreateWithText, CreateVersion, NewVersion, GoTo, ApplyCalls
    <3>2. ClaimOf(d) = job[d].doc /\ ClaimOf(d) # NoDoc /\ ClaimOf(d)' = NoDoc
      BY <3>1, DocToWrite DEF ClaimOf, ApplyCalls
    <3>3. DocInForce' = job[d].doc
      BY <2>2, CreateGives, AddGives DEF DocInForce
    <3>4. Promise!Enforce(d)
      BY <1>a, <1>c, <2>1, <3>2, <3>3 DEF Promise!Enforce, Wanted, Released, Claimed, ClaimOf
    <3>5. QED
      BY <3>4 DEF Promise!Next, Promise!EndClaim
  <2>3. CASE DeletePolicy(d)
    <3>1. pc[d] = "DeletePolicy" /\ pc'[d] \in {"failed", "deleteStarted"}
      BY <2>3, <1>a DEF DeletePolicy, DeleteOr, GoTo
    <3>2. ClaimOf(d) = NoDoc /\ ClaimOf(d)' = NoDoc
      BY <3>1 DEF ClaimOf, ApplyCalls
    <3>3. Released[d]
      BY <1>a, <3>1 DEF HandlersFit, DeleteCalls
    <3>4. Claimed' = Claimed
      BY <1>b, <1>c, <3>2
    <3>5. DocInForce' \in {DocInForce, NoDoc}
      BY <2>3, DeletePolicyGives DEF DocInForce, exists, versions
    <3>6. CASE DocInForce' = DocInForce
      BY <2>1, <3>4, <3>6 DEF Promise!vars, Wanted, Released, Claimed, ClaimOf
    <3>7. CASE DocInForce' = NoDoc
      <4>1. Promise!Withdraw(d)
        BY <1>a, <2>1, <3>2, <3>3, <3>4, <3>7
           DEF Promise!Withdraw, Wanted, Released, Claimed, ClaimOf
      <4>2. QED
        BY <4>1 DEF Promise!Next
    <3>8. QED
      BY <3>5, <3>6, <3>7
  <2>4. CASE ~CreatePolicy(d) /\ ~CreateVersion(d) /\ ~DeletePolicy(d)
    <3>1. DocInForce' = DocInForce
      BY <2>4, DocumentChanges
    <3>2. CASE ClaimOf(d)' = ClaimOf(d)
      <4>1. Claimed' = Claimed
        BY <1>b, <1>c, <3>2
      <4>2. QED
        BY <2>1, <3>1, <4>1 DEF Promise!vars, Wanted, Released, Claimed, ClaimOf
    <3>3. CASE ClaimOf(d)' = NoDoc /\ ClaimOf(d) # NoDoc
      <4>1. Promise!Abandon(d)
        BY <1>a, <1>c, <2>1, <3>1, <3>3 DEF Promise!Abandon, Wanted, Released, Claimed, ClaimOf
      <4>2. QED
        BY <4>1 DEF Promise!Next, Promise!EndClaim
    <3>4. QED
      BY <2>1, <3>2, <3>3
  <2>5. QED
    BY <2>2, <2>3, <2>4
<1>4. QED
  BY <1>1, <1>2, <1>3

LEMMA PromiseNext == Inv /\ [Next]_vars => [Promise!Next]_(Promise!vars)
<1> SUFFICES ASSUME Inv, [Next]_vars PROVE [Promise!Next]_(Promise!vars)
  OBVIOUS
<1>1. CASE Attach \/ Detach \/ UNCHANGED vars
  BY <1>1 DEF Attach, Detach, vars, Promise!vars, DocInForce, exists, versions
<1>2. ASSUME NEW d \in Components, Step(d) PROVE [Promise!Next]_(Promise!vars)
  BY <1>2, PromiseStep DEF Inv
<1>3. QED
  BY <1>1, <1>2 DEF Next

\* However many Components share the policy, and whatever interrupts their
\* handlers, they change it only as PolicyPromise says.
THEOREM KeepsThePromise == Spec => KeepsPromise
<1>1. Inv /\ [Next]_vars => [Promise!Next]_(Promise!vars)
  BY PromiseNext
<1>2. QED
  BY <1>1, InitPromise, Invariance, PTL DEF Spec, KeepsPromise, Promise!Spec


=============================================================================
