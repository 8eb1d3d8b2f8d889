---------------------------- MODULE ManagersProofs ----------------------------
(* Theorems about Managers, for every number of managers, leases, Components, *)
(* ways of deploying them and lengths of the two lease times.                  *)
EXTENDS Managers, FiniteSetTheorems, SequenceTheorems, TLAPS

-----------------------------------------------------------------------------
(* The operators of the module. *)

\* What is left to register is the rest of the list.
Rest(i) == SubSeq(Providers, i + 1, Len(Providers))

LEMMA ProvidersType ==
  /\ Providers \in Seq({Providers[i] : i \in 1 .. 4})
  /\ Len(Providers) = 4 /\ DOMAIN Providers = 1 .. 4
<1>1. Len(Providers) = 4 /\ DOMAIN Providers = 1 .. 4
  BY DEF Providers
<1>2. Providers = [i \in 1 .. 4 |-> Providers[i]]
  BY DEF Providers
<1>3. QED
  BY <1>1, <1>2

LEMMA RestStartsAndEnds == Rest(0) = Providers /\ Rest(4) = <<>>
<1>1. Rest(0) = Providers
  BY ProvidersType, SubSeqFull DEF Rest
<1>2. Rest(4) = <<>>
  BY ProvidersType, SubSeqEmpty DEF Rest
<1>3. QED
  BY <1>1, <1>2

\* The next provider to register is one of the list, and then the rest is left.
LEMMA RestGoesOn ==
  ASSUME NEW i \in 0 .. 4, Rest(i) # <<>>
  PROVE  /\ i + 1 \in DOMAIN Providers
         /\ Head(Rest(i)) = Providers[i + 1]
         /\ Tail(Rest(i)) = Rest(i + 1)
<1>1. i # 4
  BY RestStartsAndEnds
<1>2. i + 1 \in 1 .. 4 /\ 4 \in i + 1 .. 4
  BY <1>1
<1>3. QED
  BY <1>2, ProvidersType, HeadTailOfSubSeq DEF Rest

-----------------------------------------------------------------------------
(* Type correctness. *)

\* All names a provider may be registered under.
Names == {RegisteredName(buildProviderName(p, Providers[i]), Providers[i]) :
            p \in Prefixes, i \in DOMAIN Providers}

\* TypeOK with the two types of names folded.
LEMMA TypeParts ==
  /\ TypeOK <=>
       /\ flags \in [Managers -> Flags]
       /\ phase \in [Managers -> {"down", "registering", "electing", "active", "stopping"}]
       /\ left \in [Managers -> {Rest(i) : i \in 0 .. 4}]
       /\ claimed \in [Managers -> SUBSET Names]
       /\ lease \in [Namespaces -> [holder : Managers \cup {Nobody}, age : 0 .. LeaseDuration]]
       /\ running \in [Managers -> [Components -> 0 .. MaxGeneration]]
       /\ generation \in [Components -> 1 .. MaxGeneration]
       /\ observed \in [Components -> 0 .. MaxGeneration]
       /\ faults \in 0 .. MaxFaults
  /\ TypeOK' <=>
       /\ flags' \in [Managers -> Flags]
       /\ phase' \in [Managers -> {"down", "registering", "electing", "active", "stopping"}]
       /\ left' \in [Managers -> {Rest(i) : i \in 0 .. 4}]
       /\ claimed' \in [Managers -> SUBSET Names]
       /\ lease' \in [Namespaces -> [holder : Managers \cup {Nobody}, age : 0 .. LeaseDuration]]
       /\ running' \in [Managers -> [Components -> 0 .. MaxGeneration]]
       /\ generation' \in [Components -> 1 .. MaxGeneration]
       /\ observed' \in [Components -> 0 .. MaxGeneration]
       /\ faults' \in 0 .. MaxFaults
BY ProvidersType DEF TypeOK, Names, Rest

LEMMA FlagsType ==
  ASSUME TypeOK, NEW m \in Managers
  PROVE  /\ LeaseOf(m) \in Namespaces
         /\ flags[m].elect \in BOOLEAN /\ flags[m].prefix \in Prefixes
         /\ lease[LeaseOf(m)] \in [holder : Managers \cup {Nobody}, age : 0 .. LeaseDuration]
         /\ lease[LeaseOf(m)].age \in Nat
<1>1. /\ LeaseOf(m) \in Namespaces
      /\ flags[m].elect \in BOOLEAN /\ flags[m].prefix \in Prefixes
  BY TypeParts DEF Flags, LeaseOf
<1>2. QED
  BY <1>1, TypeParts, LeaseAssumption

LEMMA InitType == Init => TypeOK
<1> SUFFICES ASSUME Init PROVE TypeOK
  OBVIOUS
<1> USE ManagersAssumption, LeaseAssumption, BoundsAssumption
<1>1. <<>> \in {Rest(i) : i \in 0 .. 4}
  BY RestStartsAndEnds
<1>2. flags \in [Managers -> Flags]
  BY DEF Init
<1>3. lease \in [Namespaces -> [holder : Managers \cup {Nobody}, age : 0 .. LeaseDuration]]
  BY DEF Init
<1>4. running \in [Managers -> [Components -> 0 .. MaxGeneration]]
  BY DEF Init, NotRunning
<1>5. QED
  BY <1>1, <1>2, <1>3, <1>4, TypeParts DEF Init

\* A process that ends leaves nothing behind but its lease.
LEMMA EndsType ==
  ASSUME TypeOK, NEW m \in Managers, Ends(m), lease' = lease, faults' \in 0 .. MaxFaults
  PROVE  TypeOK'
<1> USE TypeParts, BoundsAssumption
<1>1. left' \in [Managers -> {Rest(i) : i \in 0 .. 4}]
  BY RestStartsAndEnds DEF Ends
<1>2. running' \in [Managers -> [Components -> 0 .. MaxGeneration]]
  BY DEF Ends, NotRunning
<1>3. QED
  BY <1>1, <1>2 DEF Ends, objectVars

\* Setting the age of a lease leaves it a lease.
LEMMA SetAge ==
  ASSUME NEW S, NEW T, NEW f \in [S -> T], NEW n \in S, NEW age,
         [f[n] EXCEPT !.age = age] \in T
  PROVE  [f EXCEPT ![n].age = age] \in [S -> T]
OBVIOUS

LEMMA SetLeaseAge ==
  ASSUME NEW Lease, Lease = [holder : Managers \cup {Nobody}, age : 0 .. LeaseDuration],
         lease \in [Namespaces -> Lease],
         NEW n \in Namespaces, NEW age \in 0 .. LeaseDuration
  PROVE  [lease EXCEPT ![n].age = age] \in [Namespaces -> Lease]
<1>1. lease[n] \in Lease
  OBVIOUS
<1>2. [lease[n] EXCEPT !.age = age] \in Lease
  BY <1>1
<1>3. QED
  BY ONLY <1>2, lease \in [Namespaces -> Lease], n \in Namespaces, SetAge

LEMMA NextType == TypeOK /\ [Next]_vars => TypeOK'
<1> SUFFICES ASSUME TypeOK, [Next]_vars PROVE TypeOK'
  OBVIOUS
<1> USE TypeParts, LeaseAssumption, BoundsAssumption DEF processVars, objectVars
<1>1. ASSUME NEW m \in Managers, Launch(m) PROVE TypeOK'
  <2>1. left' \in [Managers -> {Rest(i) : i \in 0 .. 4}]
    BY <1>1, RestStartsAndEnds DEF Launch
  <2>2. QED
    BY <1>1, <2>1 DEF Launch
<1>2. ASSUME NEW m \in Managers, Register(m) PROVE TypeOK'
  <2>1. PICK i \in 0 .. 4 : left[m] = Rest(i)
    OBVIOUS
  <2>2. /\ i + 1 \in DOMAIN Providers
        /\ Head(left[m]) = Providers[i + 1]
        /\ Tail(left[m]) = Rest(i + 1)
    BY <1>2, <2>1, RestGoesOn DEF Register
  <2>3. left' \in [Managers -> {Rest(j) : j \in 0 .. 4}]
    BY <1>2, <2>2, ProvidersType DEF Register
  <2>4. NameFor(m, Head(left[m])) \in Names
    <3>1. flags[m].prefix \in Prefixes
      BY FlagsType
    <3>2. QED
      BY <2>2, <3>1 DEF NameFor, Names
  <2>5. QED
    BY <1>2, <2>3, <2>4 DEF Register
<1>3. ASSUME NEW m \in Managers, RegisterFails(m) \/ LoseLease(m) \/ Crash(m) \/ Exit(m)
      PROVE  TypeOK'
  <2>1. Ends(m) /\ lease' = lease /\ faults' \in 0 .. MaxFaults
    BY <1>3 DEF RegisterFails, LoseLease, Crash, Exit, Fault
  <2>2. QED
    BY <2>1, EndsType
<1>4. ASSUME NEW m \in Managers, Start(m) PROVE TypeOK'
  BY <1>4 DEF Start
<1>5. ASSUME NEW m \in Managers, Acquire(m) PROVE TypeOK'
  BY <1>5, FlagsType DEF Acquire, Take
<1>6. ASSUME NEW m \in Managers, Renew(m) PROVE TypeOK'
  <2>1. LeaseOf(m) \in Namespaces
    BY FlagsType
  <2>2. PICK n \in Namespaces, age \in 0 .. LeaseDuration : n = LeaseOf(m) /\ age = 0
    BY <2>1
  <2>3. lease' = [lease EXCEPT ![n].age = age]
    BY <1>6, <2>2 DEF Renew
  <2>4. lease \in [Namespaces -> [holder : Managers \cup {Nobody}, age : 0 .. LeaseDuration]]
    OBVIOUS
  <2> HIDE TypeParts, LeaseAssumption, BoundsAssumption
  <2>5. lease' \in [Namespaces -> [holder : Managers \cup {Nobody}, age : 0 .. LeaseDuration]]
    BY <2>3, <2>4, SetLeaseAge
  <2>6. QED
    BY <1>6, <2>5, TypeParts DEF Renew
<1>7. ASSUME NEW n \in Namespaces, Tick(n) PROVE TypeOK'
  <2>1. lease[n].age \in 0 .. LeaseDuration /\ lease[n].age <= LeaseDuration - 1
    BY <1>7 DEF Tick
  <2>2. PICK age \in 0 .. LeaseDuration : age = lease[n].age + 1
    BY <2>1
  <2>3. lease' = [lease EXCEPT ![n].age = age]
    BY <1>7, <2>2 DEF Tick
  <2>4. lease \in [Namespaces -> [holder : Managers \cup {Nobody}, age : 0 .. LeaseDuration]]
    OBVIOUS
  <2> HIDE TypeParts, LeaseAssumption, BoundsAssumption
  <2>5. lease' \in [Namespaces -> [holder : Managers \cup {Nobody}, age : 0 .. LeaseDuration]]
    BY <2>3, <2>4, SetLeaseAge
  <2>6. QED
    BY <1>7, <2>5, TypeParts DEF Tick
<1>8. ASSUME NEW m \in Managers, NEW c \in Components, Call(m, c) PROVE TypeOK'
  BY <1>8 DEF Call
<1>9. ASSUME NEW m \in Managers, NEW c \in Components, Return(m, c) PROVE TypeOK'
  BY <1>9 DEF Return
<1>10. ASSUME NEW m \in Managers, Signal(m) PROVE TypeOK'
  BY <1>10 DEF Signal, Fault
<1>11. ASSUME NEW c \in Components, Edit(c) PROVE TypeOK'
  BY <1>11 DEF Edit
<1>12. CASE UNCHANGED vars
  BY <1>12 DEF vars
<1>13. QED
  BY <1>1, <1>2, <1>3, <1>4, <1>5, <1>6, <1>7, <1>8, <1>9, <1>10, <1>11, <1>12
     DEF Next, Process

\* Every variable keeps to its type, for every number of managers, leases,
\* Components, edits and faults.
THEOREM TypeCorrect == Spec => []TypeOK
<1>1. QED
  BY InitType, NextType, PTL DEF Spec

-----------------------------------------------------------------------------
(* Who may call handlers. *)

LEMMA InitInv == Init => Inv
<1>1. Init => LeadersHold /\ ControllersFit /\ HandlersHaveControllers
  BY DEF Init, LeadersHold, ControllersFit, HandlersHaveControllers, Alive, NotRunning
<1>2. QED
  BY <1>1, InitType DEF Inv

\* A manager keeps the flags it was started with.
LEMMA FlagsStay ==
  ASSUME [Next]_vars
  PROVE  /\ flags' = flags
         /\ \A m \in Managers : LeaseOf(m)' = LeaseOf(m)
         /\ \A m \in Managers : \A base : NameFor(m, base)' = NameFor(m, base)
<1>1. flags' = flags
  BY DEF Next, Process, Launch, Register, RegisterFails, Ends, Start, Acquire, Take, Renew,
         LoseLease, Tick, Call, Return, Crash, Signal, Exit, Edit, vars
<1>2. QED
  BY <1>1 DEF LeaseOf, NameFor

\* Nobody takes a lease from a manager whose process still runs: its age has
\* not reached LeaseDuration.
LEMMA NobodyIsRobbed ==
  ASSUME TypeOK, LeadersHold, NEW m \in Managers, Acquire(m),
         NEW k \in Managers, Alive(k), flags[k].elect
  PROVE  LeaseOf(k) # LeaseOf(m)
<1>1. lease[LeaseOf(k)].holder = k /\ lease[LeaseOf(k)].age <= RenewDeadline
  BY DEF LeadersHold
<1>2. SUFFICES ASSUME LeaseOf(k) = LeaseOf(m) PROVE FALSE
  OBVIOUS
<1>3. lease[LeaseOf(m)].age \in Nat
  BY FlagsType
<1>4. QED
  BY <1>1, <1>2, <1>3, LeaseAssumption, ManagersAssumption DEF Acquire, Take

\* Time waits for a leader that has to give up.
LEMMA TimeWaits ==
  ASSUME TypeOK, LeadersHold, NEW k \in Managers, Alive(k), flags[k].elect,
         Tick(LeaseOf(k))
  PROVE  lease[LeaseOf(k)].age + 1 <= RenewDeadline
<1>1. lease[LeaseOf(k)].holder = k /\ lease[LeaseOf(k)].age <= RenewDeadline
  BY DEF LeadersHold
<1>2. lease[LeaseOf(k)].age \in Nat
  BY FlagsType
<1>3. lease[LeaseOf(k)].age # RenewDeadline
  BY <1>1 DEF Tick, Leads
<1>4. QED
  BY <1>1, <1>2, <1>3, LeaseAssumption

LEMMA LeadersStep == Inv /\ [Next]_vars => LeadersHold'
<1> SUFFICES ASSUME Inv, [Next]_vars, NEW k \in Managers, Alive(k)', flags'[k].elect
             PROVE  /\ lease'[LeaseOf(k)'].holder = k
                    /\ lease'[LeaseOf(k)'].age <= RenewDeadline
  BY DEF LeadersHold
<1>0. TypeOK /\ LeadersHold
  BY DEF Inv
<1>1. flags[k].elect /\ LeaseOf(k)' = LeaseOf(k)
  BY FlagsStay
<1>2. /\ LeaseOf(k) \in Namespaces /\ lease[LeaseOf(k)].age \in Nat
      /\ phase \in [Managers -> {"down", "registering", "electing", "active", "stopping"}]
      /\ lease \in [Namespaces -> [holder : Managers \cup {Nobody}, age : 0 .. LeaseDuration]]
  BY <1>0, FlagsType, TypeParts
<1>3. Alive(k) => lease[LeaseOf(k)].holder = k /\ lease[LeaseOf(k)].age <= RenewDeadline
  BY <1>0, <1>1 DEF LeadersHold
<1>4. SUFFICES /\ lease'[LeaseOf(k)].holder = k
               /\ lease'[LeaseOf(k)].age <= RenewDeadline
  BY <1>1
<1> USE DEF Alive, processVars, objectVars
<1>5. CASE lease' = lease /\ Alive(k)
  BY <1>3, <1>5
<1>6. ASSUME NEW m \in Managers, Launch(m) \/ Register(m) \/ Start(m)
      PROVE  lease' = lease /\ Alive(k)
  BY <1>1, <1>2, <1>6 DEF Launch, Register, Start
<1>7. ASSUME NEW m \in Managers, RegisterFails(m) \/ LoseLease(m) \/ Crash(m) \/ Exit(m)
      PROVE  lease' = lease /\ Alive(k)
  BY <1>2, <1>7 DEF RegisterFails, LoseLease, Crash, Exit, Ends
<1>8. ASSUME NEW m \in Managers, Acquire(m)
      PROVE  lease'[LeaseOf(k)].holder = k /\ lease'[LeaseOf(k)].age <= RenewDeadline
  <2>1. CASE k = m
    BY <1>2, <1>8, <2>1, LeaseAssumption DEF Acquire, Take
  <2>2. CASE k # m
    <3>1. Alive(k)
      BY <1>2, <1>8, <2>2 DEF Acquire, Take
    <3>2. LeaseOf(k) # LeaseOf(m)
      BY <1>0, <1>1, <1>8, <3>1, NobodyIsRobbed
    <3>3. QED
      BY <1>2, <1>3, <1>8, <3>1, <3>2 DEF Acquire, Take
  <2>3. QED
    BY <2>1, <2>2
<1>9. ASSUME NEW m \in Managers, Renew(m)
      PROVE  lease'[LeaseOf(k)].holder = k /\ lease'[LeaseOf(k)].age <= RenewDeadline
  <2>1. Alive(k)
    BY <1>9 DEF Renew
  <2>2. lease'[LeaseOf(k)].holder = lease[LeaseOf(k)].holder
    BY <1>2, <1>9 DEF Renew
  <2>3. lease'[LeaseOf(k)].age \in {0, lease[LeaseOf(k)].age}
    BY <1>2, <1>9 DEF Renew
  <2>4. QED
    BY <1>2, <1>3, <2>1, <2>2, <2>3, LeaseAssumption
<1>10. ASSUME NEW n \in Namespaces, Tick(n)
       PROVE  lease'[LeaseOf(k)].holder = k /\ lease'[LeaseOf(k)].age <= RenewDeadline
  <2>1. Alive(k)
    BY <1>10 DEF Tick
  <2>2. CASE n = LeaseOf(k)
    BY <1>0, <1>1, <1>2, <1>3, <1>10, <2>1, <2>2, TimeWaits DEF Tick
  <2>3. CASE n # LeaseOf(k)
    BY <1>2, <1>3, <1>10, <2>1, <2>3 DEF Tick
  <2>4. QED
    BY <2>2, <2>3
<1>11. ASSUME NEW m \in Managers, NEW c \in Components, Call(m, c) \/ Return(m, c)
       PROVE  lease' = lease /\ Alive(k)
  BY <1>11 DEF Call, Return
<1>12. ASSUME NEW m \in Managers, Signal(m) PROVE lease' = lease /\ Alive(k)
  BY <1>2, <1>12 DEF Signal
<1>13. ASSUME NEW c \in Components, Edit(c) PROVE lease' = lease /\ Alive(k)
  BY <1>13 DEF Edit
<1>14. CASE UNCHANGED vars
  BY <1>5, <1>14 DEF vars
<1>15. QED
  BY <1>5, <1>6, <1>7, <1>8, <1>9, <1>10, <1>11, <1>12, <1>13, <1>14 DEF Next, Process

LEMMA ControllersStep == Inv /\ [Next]_vars => ControllersFit'
<1> SUFFICES ASSUME Inv, [Next]_vars, NEW k \in Managers
             PROVE  claimed'[k] \subseteq {NameFor(k, Providers[i])' : i \in DOMAIN Providers}
  BY DEF ControllersFit
<1> DEFINE own == {NameFor(k, Providers[i]) : i \in DOMAIN Providers}
<1>1. claimed[k] \subseteq own
  BY DEF Inv, ControllersFit
<1>2. SUFFICES claimed'[k] \subseteq own
  BY FlagsStay
<1>3. TypeOK /\ left \in [Managers -> {Rest(i) : i \in 0 .. 4}] /\ claimed \in [Managers -> SUBSET Names]
  BY TypeParts DEF Inv
<1>4. ASSUME NEW m \in Managers, Register(m) PROVE claimed'[k] \subseteq own
  <2>1. PICK i \in 0 .. 4 : left[m] = Rest(i)
    BY <1>3
  <2>2. i + 1 \in DOMAIN Providers /\ Head(left[m]) = Providers[i + 1]
    BY <1>4, <2>1, RestGoesOn DEF Register
  <2>3. NameFor(k, Head(left[m])) \in own
    BY <2>2
  <2> HIDE DEF own
  <2>4. QED
    BY <1>1, <1>3, <1>4, <2>3 DEF Register
<1> HIDE DEF own
<1>5. ASSUME NEW m \in Managers, Ends(m) PROVE claimed'[k] \subseteq own
  BY <1>1, <1>3, <1>5 DEF Ends
<1>6. CASE claimed' = claimed
  BY <1>1, <1>6
<1>7. QED
  BY <1>4, <1>5, <1>6
     DEF Next, Process, Launch, RegisterFails, Start, Acquire, Take, Renew, LoseLease,
         Tick, Call, Return, Crash, Signal, Exit, Edit, vars, processVars

LEMMA HandlersStep == Inv /\ [Next]_vars => HandlersHaveControllers'
<1> SUFFICES ASSUME Inv, [Next]_vars, NEW k \in Managers, NEW d \in Components,
                    running'[k][d] # 0
             PROVE  Alive(k)' /\ Provider[d] \in claimed'[k]
  BY DEF HandlersHaveControllers
<1>0. /\ phase \in [Managers -> {"down", "registering", "electing", "active", "stopping"}]
      /\ claimed \in [Managers -> SUBSET Names]
      /\ running \in [Managers -> [Components -> 0 .. MaxGeneration]]
  BY TypeParts DEF Inv
<1>1. running[k][d] # 0 => Alive(k) /\ Provider[d] \in claimed[k]
  BY DEF Inv, HandlersHaveControllers
<1> USE DEF Alive, processVars
<1>2. ASSUME NEW m \in Managers, Launch(m) \/ Register(m) \/ Start(m) \/ Acquire(m)
      PROVE  Alive(k)' /\ Provider[d] \in claimed'[k]
  BY <1>0, <1>1, <1>2 DEF Launch, Register, Start, Acquire, Take
<1>3. ASSUME NEW m \in Managers, Ends(m) PROVE Alive(k)' /\ Provider[d] \in claimed'[k]
  BY <1>0, <1>1, <1>3 DEF Ends, NotRunning
<1>4. ASSUME NEW m \in Managers, NEW c \in Components, Call(m, c) \/ Return(m, c)
      PROVE  Alive(k)' /\ Provider[d] \in claimed'[k]
  BY <1>0, <1>1, <1>4 DEF Call, Return
<1>5. ASSUME NEW m \in Managers, Signal(m) PROVE Alive(k)' /\ Provider[d] \in claimed'[k]
  BY <1>0, <1>1, <1>5 DEF Signal
<1>6. CASE UNCHANGED processVars
  BY <1>1, <1>6
<1>7. QED
  BY <1>2, <1>3, <1>4, <1>5, <1>6
     DEF Next, Process, RegisterFails, Renew, LoseLease, Tick, Crash, Exit, Edit, vars

LEMMA NextInv == Inv /\ [Next]_vars => Inv'
BY NextType, LeadersStep, ControllersStep, HandlersStep DEF Inv

\* Inv is an inductive invariant of the managers.
THEOREM Invariance == Spec => []Inv
<1>1. QED
  BY InitInv, NextInv, PTL DEF Spec
-----------------------------------------------------------------------------
(* One handler at a time. *)

\* Whoever runs a handler of c was deployed to serve c.
LEMMA ServersRun ==
  ASSUME Inv, NEW m \in Managers, NEW c \in Components, Alive(m),
         Provider[c] \in claimed[m]
  PROVE  m \in Servers(c)
BY DEF Inv, ControllersFit, Servers, ServesName

\* Of two managers that elect under one lease, one is alive.
LEMMA OneIsAlive ==
  ASSUME Inv, NEW m \in Managers, NEW k \in Managers, Alive(m), Alive(k), Rivals(m, k)
  PROVE  m = k
BY DEF Inv, LeadersHold, Rivals

\* So, among the servers of c, has one a handler running or a controller to call it.
LEMMA OneServes ==
  ASSUME Inv, NEW c \in Components, Exclusive(c),
         NEW m \in Managers, NEW k \in Managers,
         Alive(m) /\ Provider[c] \in claimed[m],
         running[k][c] # 0
  PROVE  k = m
<1>1. Alive(k) /\ Provider[c] \in claimed[k]
  BY DEF Inv, HandlersHaveControllers
<1>2. m \in Servers(c) /\ k \in Servers(c)
  BY <1>1, ServersRun
<1>3. QED
  BY <1>1, <1>2, OneIsAlive DEF Exclusive

\* No two managers run a handler of one Component at once where its managers
\* elect a leader, for every number of them, every deployment and all lease times.
THEOREM OneHandlerAtATime == Spec => []OneHandler
<1>1. ASSUME Inv, NEW c \in Components, Exclusive(c)
      PROVE  Cardinality({m \in Managers : running[m][c] # 0}) <= 1
  <2> DEFINE R == {m \in Managers : running[m][c] # 0}
  <2>1. \A m, k \in R : m = k
    BY <1>1, OneServes DEF Inv, HandlersHaveControllers
  <2>2. R = {} \/ \E m \in R : R = {m}
    BY <2>1
  <2> HIDE DEF R
  <2>3. Cardinality(R) <= 1
    <3>1. CASE R = {}
      BY <3>1, FS_EmptySet
    <3>2. CASE \E m \in R : R = {m}
      <4>1. Cardinality(R) = 1
        BY <3>2, FS_Singleton
      <4>2. QED
        BY <4>1
    <3>3. QED
      BY <2>2, <3>1, <3>2
  <2>4. QED
    BY <2>3 DEF R
<1>2. Inv => OneHandler
  BY <1>1 DEF OneHandler
<1>3. QED
  BY <1>2, Invariance, PTL

-----------------------------------------------------------------------------
(* The managers implement HandlerCalls. *)

\* The generation that one of the managers works on, when no other does.
LEMMA MaxIs ==
  ASSUME NEW r, NEW c \in Components, NEW m \in Managers,
         r \in [Managers -> [Components -> Nat]],
         \A k \in Managers : r[k][c] # 0 => k = m
  PROVE  Max({r[k][c] : k \in Managers}) = r[m][c]
<1> DEFINE S == {r[k][c] : k \in Managers}
           g == r[m][c]
<1>1. g \in S /\ S \subseteq Nat /\ \A y \in S : y = g \/ y = 0
  OBVIOUS
<1> HIDE DEF S, g
<1>2. \A y \in S : g >= y
  BY <1>1
<1>3. Max(S) \in S /\ Max(S) >= g
  BY <1>1, <1>2 DEF Max
<1>4. Max(S) = g
  <2>1. Max(S) \in Nat /\ g \in Nat /\ (Max(S) = g \/ Max(S) = 0)
    BY <1>1, <1>3
  <2>2. QED
    BY <1>3, <2>1
<1>5. QED
  BY <1>4 DEF S, g

\* The managers of a well served Component are rivals.
LEMMA WellServedIsExclusive ==
  ASSUME NEW c \in Components, WellServed(c)
  PROVE  Exclusive(c) /\ \E m \in Managers : m \in Servers(c)
BY DEF WellServed, Exclusive, Servers

\* What HandlerCalls sees of a well served Component.
Handling(c) == Max({running[m][c] : m \in Managers})

LEMMA HandlingIs ==
  ASSUME Inv, NEW c \in Components, WellServed(c)
  PROVE  /\ \A m \in Managers : running[m][c] # 0 => Handling(c) = running[m][c]
         /\ (\A m \in Managers : running[m][c] = 0) => Handling(c) = 0
<1>1. running \in [Managers -> [Components -> Nat]]
  BY TypeParts, BoundsAssumption DEF Inv
<1>2. \A m, k \in Managers : running[m][c] # 0 /\ running[k][c] # 0 => k = m
  BY WellServedIsExclusive, OneServes DEF Inv, HandlersHaveControllers
<1>3. \E m \in Managers : TRUE
  BY WellServedIsExclusive
<1>4. QED
  BY <1>1, <1>2, <1>3, MaxIs DEF Handling

LEMMA WellServedStays ==
  ASSUME [Next]_vars, NEW c \in Components
  PROVE  WellServed(c)' <=> WellServed(c)
<1>1. /\ flags' = flags
      /\ \A m, n \in Managers : Rivals(m, n)' <=> Rivals(m, n)
      /\ Servers(c)' = Servers(c)
  BY FlagsStay DEF Rivals, Servers, ServesName
<1>2. QED
  BY <1>1 DEF WellServed, Servers

\* The steps that touch neither c's handlers nor its object.
LEMMA HandlingStays ==
  ASSUME NEW c \in Components, \A m \in Managers : running'[m][c] = running[m][c]
  PROVE  Handling(c)' = Handling(c)
<1>1. {running'[m][c] : m \in Managers} = {running[m][c] : m \in Managers}
  OBVIOUS
<1>2. QED
  BY <1>1 DEF Handling

\* What a step of the managers does to a well served Component.
LEMMA HandlerStep ==
  ASSUME Inv, [Next]_vars, NEW c \in Components, WellServed(c)
  PROVE  \/ /\ generation'[c] \in {generation[c], generation[c] + 1}
            /\ observed'[c] = observed[c] /\ Handling(c)' = Handling(c)
         \/ /\ Handling(c) = 0 /\ observed[c] # generation[c]
            /\ Handling(c)' = generation[c]
            /\ generation'[c] = generation[c] /\ observed'[c] = observed[c]
         \/ /\ Handling(c) # 0 /\ observed'[c] = Handling(c) /\ Handling(c)' = 0
            /\ generation'[c] = generation[c]
         \/ /\ Handling(c)' = 0
            /\ generation'[c] = generation[c] /\ observed'[c] = observed[c]
<1> DEFINE R == [Managers -> [Components -> Nat]]
           Quiet == \A k \in Managers : running'[k][c] = running[k][c]
<1>1. running \in R
  BY TypeParts, BoundsAssumption DEF Inv
<1>2. Exclusive(c)
  BY WellServedIsExclusive
<1>3. /\ observed \in [Components -> 0 .. MaxGeneration]
      /\ generation \in [Components -> 1 .. MaxGeneration]
  BY TypeParts DEF Inv
<1>4. \A m, k \in Managers : running[m][c] # 0 /\ running[k][c] # 0 => k = m
  BY <1>2, OneServes DEF Inv, HandlersHaveControllers
<1>5. ASSUME Quiet, observed'[c] = observed[c],
             generation'[c] \in {generation[c], generation[c] + 1}
      PROVE  /\ generation'[c] \in {generation[c], generation[c] + 1}
             /\ observed'[c] = observed[c] /\ Handling(c)' = Handling(c)
  BY <1>5, HandlingStays
\* The handlers of m are gone, or the one of c is.
<1>6. ASSUME NEW m \in Managers, running' \in R, running[m][c] # 0, running'[m][c] = 0,
             \A k \in Managers \ {m} : running'[k][c] = running[k][c]
      PROVE  Handling(c) = running[m][c] /\ Handling(c)' = 0
  <2>1. \A k \in Managers : running'[k][c] # 0 => k = m
    BY <1>4, <1>6
  <2>2. Handling(c)' = 0
    BY <1>6, <2>1, MaxIs DEF Handling
  <2>3. QED
    BY <1>6, <2>2, HandlingIs
<1>7. ASSUME NEW m \in Managers, Ends(m) PROVE Handling(c)' = 0 \/ Handling(c)' = Handling(c)
  <2>1. /\ running'[m][c] = 0 /\ running' \in R
        /\ \A k \in Managers \ {m} : running'[k][c] = running[k][c]
    BY <1>1, <1>7 DEF Ends, NotRunning
  <2>2. CASE running[m][c] = 0
    BY <2>1, <2>2, HandlingStays
  <2>3. CASE running[m][c] # 0
    BY <1>6, <2>1, <2>3
  <2>4. QED
    BY <2>2, <2>3
<1>8. ASSUME NEW m \in Managers, Call(m, c)
      PROVE  /\ Handling(c) = 0 /\ observed[c] # generation[c]
             /\ Handling(c)' = generation[c]
             /\ generation'[c] = generation[c] /\ observed'[c] = observed[c]
  <2>1. Alive(m) /\ Provider[c] \in claimed[m] /\ running[m][c] = 0
    BY <1>8 DEF Call, Alive
  <2>2. \A k \in Managers : running[k][c] = 0
    BY <1>2, <2>1, OneServes
  <2>3. /\ running'[m][c] = generation[c] /\ running' \in R
        /\ \A k \in Managers \ {m} : running'[k][c] = running[k][c]
    BY <1>1, <1>3, <1>8, BoundsAssumption DEF Call
  <2>4. \A k \in Managers : running'[k][c] # 0 => k = m
    BY <2>2, <2>3
  <2>5. Handling(c)' = generation[c]
    BY <2>3, <2>4, MaxIs DEF Handling
  <2>6. QED
    BY <1>8, <2>2, <2>5, HandlingIs DEF Call, objectVars
<1>9. ASSUME NEW m \in Managers, Return(m, c)
      PROVE  /\ Handling(c) # 0 /\ observed'[c] = Handling(c) /\ Handling(c)' = 0
             /\ generation'[c] = generation[c]
  <2>1. /\ running[m][c] # 0 /\ running'[m][c] = 0 /\ running' \in R
        /\ \A k \in Managers \ {m} : running'[k][c] = running[k][c]
        /\ observed'[c] = running[m][c] /\ generation' = generation
    BY <1>1, <1>3, <1>9 DEF Return
  <2>2. QED
    BY <1>6, <2>1
<1>10. ASSUME NEW m \in Managers, NEW d \in Components \ {c}, Call(m, d) \/ Return(m, d)
       PROVE  Quiet /\ observed'[c] = observed[c] /\ generation' = generation
  BY <1>1, <1>3, <1>10 DEF Call, Return, objectVars
<1>11. ASSUME NEW d \in Components, Edit(d)
       PROVE  Quiet /\ observed' = observed
              /\ generation'[c] \in {generation[c], generation[c] + 1}
  BY <1>3, <1>11 DEF Edit, processVars
<1>12. CASE UNCHANGED <<running, objectVars>>
  BY <1>5, <1>12 DEF objectVars
<1>13. CASE \E m \in Managers : RegisterFails(m) \/ LoseLease(m) \/ Crash(m) \/ Exit(m)
  BY <1>7, <1>13 DEF RegisterFails, LoseLease, Crash, Exit, Ends, objectVars
<1>14. CASE \E m \in Managers, d \in Components : Call(m, d) \/ Return(m, d)
  BY <1>5, <1>8, <1>9, <1>10, <1>14
<1>15. CASE \E d \in Components : Edit(d)
  BY <1>5, <1>11, <1>15
<1>16. QED
  BY <1>12, <1>13, <1>14, <1>15
     DEF Next, Process, Launch, Register, Start, Acquire, Take, Renew, Signal, Tick,
         vars, processVars

LEMMA CallsInit ==
  ASSUME Init, NEW c \in Components
  PROVE  Calls(c)!Init
<1>1. CASE WellServed(c)
  <2>1. Handling(c) = 0
    BY <1>1, InitInv, HandlingIs DEF Init, NotRunning
  <2>2. QED
    BY <1>1, <2>1 DEF Init, Handling, Calls!Init
<1>2. CASE ~WellServed(c)
  BY <1>2 DEF Calls!Init
<1>3. QED
  BY <1>1, <1>2

LEMMA CallsNext ==
  ASSUME Inv, [Next]_vars, NEW c \in Components
  PROVE  [Calls(c)!Next]_(Calls(c)!vars)
<1>1. WellServed(c)' <=> WellServed(c)
  BY WellServedStays
<1>2. CASE WellServed(c)
  BY <1>1, <1>2, HandlerStep
     DEF Handling, Calls!Next, Calls!Edit, Calls!Call, Calls!Return, Calls!Lose, Calls!vars
<1>3. CASE ~WellServed(c)
  BY <1>1, <1>3 DEF Calls!vars
<1>4. QED
  BY <1>2, <1>3

\* The managers call the handlers of every well served Component one at a time, on
\* its current generation, as the provider modules assume, whatever crashes,
\* lost leases and stops there are.
THEOREM ManagersCallHandlers == Spec => CallsHandlers
<1>1. Init => \A c \in Components : Calls(c)!Init
  BY CallsInit
<1>2. Inv /\ [Next]_vars => [\A c \in Components : [Calls(c)!Next]_(Calls(c)!vars)]_vars
  BY CallsNext
<1>3. QED
  BY <1>1, <1>2, Invariance, PTL DEF Spec, CallsHandlers

=============================================================================
