------------------------------ MODULE Managers -------------------------------
(***************************************************************************)
(* The manager processes (src/cmd/main.go): their flags, the registration  *)
(* of the four providers under their names (register.go of each), leader   *)
(* election, the calls of handlers, signals, crashes and restarts.         *)
(* controller-runtime and client-go are dependencies: their steps are      *)
(* written down as far as main.go's options decide them.                   *)
(***************************************************************************)
EXTENDS Naturals, Sequences, FiniteSetsExt

CONSTANTS
  Managers,       \* the pods running the manager
  Prefixes,       \* values of --provider-prefix
  NoPrefix,       \* the flag's default, ""
  Namespaces,     \* where the pods run
  Nobody,         \* a lease nobody has ever held
  Deployments,    \* the ways of deploying them: functions from Managers to Flags
  Components,     \* Component objects in the cluster
  Provider,       \* Provider[c]: the provider name that c asks for
  RenewDeadline,  \* a leader that could not renew for so long gives up
  LeaseDuration,  \* a lease not renewed for so long may be taken
  MaxGeneration,  \* BOUND on the edits of each spec
  MaxFaults       \* BOUND on crashes, stops, failed starts, lost leases

Flags == [prefix : Prefixes, elect : BOOLEAN, namespace : Namespaces]

ASSUME ManagersAssumption ==
  /\ NoPrefix \in Prefixes
  /\ Deployments \subseteq [Managers -> Flags]
  /\ Nobody \notin Managers

\* client-go insists on it (15 s and 10 s unless set otherwise).
ASSUME LeaseAssumption ==
  /\ RenewDeadline \in Nat \ {0} /\ LeaseDuration \in Nat
  /\ RenewDeadline < LeaseDuration

ASSUME BoundsAssumption == MaxGeneration \in Nat \ {0} /\ MaxFaults \in Nat

VARIABLES
  flags,       \* flags[m]: command line and namespace of m
  phase,       \* phase[m]: how far main() is
  left,        \* left[m]: the providers main() has yet to register
  claimed,     \* claimed[m]: the provider names m has controllers for
  lease,       \* lease[n]: holder and age of the lease in namespace n
  running,     \* running[m][c]: the generation of c that a handler of m is
               \* working on, 0 if none
  generation,  \* generation[c]: bumped by every edit of c's spec
  observed,    \* observed[c]: the generation the last recorded result was for
  faults

processVars == <<phase, left, claimed, running>>
objectVars == <<generation, observed>>
vars == <<flags, processVars, lease, objectVars, faults>>

-----------------------------------------------------------------------------
(* Provider names.  No base name ends in "-" and another one, so that a     *)
(* prefixed name is as good as the pair.                                    *)

Providers == <<"iam-policy", "iam-role", "secret-push", "rds">>

NoName == <<>>
DefaultProviderName(base) == <<base>>

buildProviderName(prefix, base) ==
  IF prefix = NoPrefix THEN NoName ELSE <<prefix, base>>

\* The name a provider is registered under.
RegisteredName(given, base) == IF given = NoName THEN DefaultProviderName(base) ELSE given

NameFor(m, base) == RegisteredName(buildProviderName(flags[m].prefix, base), base)

-----------------------------------------------------------------------------
(* The lease.  LeaderElectionID is one constant: every manager that elects  *)
(* contends for the lease of that name in its namespace, whatever its       *)
(* prefix.                                                                  *)

LeaseOf(m) == flags[m].namespace

Alive(m) == phase[m] \in {"active", "stopping"}

Leads(m) == Alive(m) /\ flags[m].elect /\ lease[LeaseOf(m)].holder = m

-----------------------------------------------------------------------------

NotRunning == [c \in Components |-> 0]

Init ==
  /\ flags \in Deployments
  /\ phase = [m \in Managers |-> "down"]
  /\ left = [m \in Managers |-> <<>>]
  /\ claimed = [m \in Managers |-> {}]
  /\ lease = [n \in Namespaces |-> [holder |-> Nobody, age |-> 0]]
  /\ running = [m \in Managers |-> NotRunning]
  /\ generation = [c \in Components |-> 1]
  /\ observed = [c \in Components |-> 0]
  /\ faults = 0

(* main() *)

Launch(m) ==
  /\ phase[m] = "down"
  /\ phase' = [phase EXCEPT ![m] = "registering"]
  /\ left' = [left EXCEPT ![m] = Providers]
  /\ UNCHANGED <<flags, claimed, lease, running, objectVars, faults>>

\* The next provider, under its name.
Register(m) ==
  /\ phase[m] = "registering" /\ left[m] # <<>>
  /\ claimed' = [claimed EXCEPT ![m] = @ \cup {NameFor(m, Head(left[m]))}]
  /\ left' = [left EXCEPT ![m] = Tail(@)]
  /\ UNCHANGED <<flags, phase, lease, running, objectVars, faults>>

\* The process is gone; its handlers with it, its lease not.
Ends(m) ==
  /\ phase' = [phase EXCEPT ![m] = "down"]
  /\ left' = [left EXCEPT ![m] = <<>>]
  /\ claimed' = [claimed EXCEPT ![m] = {}]
  /\ running' = [running EXCEPT ![m] = NotRunning]
  /\ UNCHANGED <<flags, objectVars>>

Fault == faults < MaxFaults /\ faults' = faults + 1

\* Mutation: main() goes on to the next provider.
RegisterSkips(m) ==
  /\ phase[m] = "registering" /\ left[m] # <<>>
  /\ left' = [left EXCEPT ![m] = Tail(@)]
  /\ Fault
  /\ UNCHANGED <<flags, phase, claimed, running, objectVars, lease>>

\* No AWS configuration, no API server, the name taken within the process:
\* os.Exit(1).
RegisterFails(m) ==
  /\ phase[m] = "registering"
  /\ Fault /\ Ends(m)
  /\ UNCHANGED lease

\* Mutation: the flag does not reach the manager's options.
StartUnelected(m) ==
  /\ phase[m] = "registering" /\ left[m] = <<>>
  /\ phase' = [phase EXCEPT ![m] = "active"]
  /\ UNCHANGED <<flags, left, claimed, lease, running, objectVars, faults>>

\* mgr.Start: with leader election the controllers wait for the lease.
Start(m) ==
  /\ phase[m] = "registering" /\ left[m] = <<>>
  /\ phase' = [phase EXCEPT ![m] = IF flags[m].elect THEN "electing" ELSE "active"]
  /\ UNCHANGED <<flags, left, claimed, lease, running, objectVars, faults>>

-----------------------------------------------------------------------------
(* Leader election *)

\* m takes its lease when nobody ever held it, or when its age is at least old.
Take(m, old) ==
  /\ phase[m] = "electing"
  /\ lease[LeaseOf(m)].holder = Nobody \/ lease[LeaseOf(m)].age >= old
  /\ lease' = [lease EXCEPT ![LeaseOf(m)] = [holder |-> m, age |-> 0]]
  /\ phase' = [phase EXCEPT ![m] = "active"]
  /\ UNCHANGED <<flags, left, claimed, running, objectVars, faults>>

\* Mutation: the candidates are as patient as the leader, not more.
AcquireEarly(m) == Take(m, RenewDeadline)

Acquire(m) == Take(m, LeaseDuration)

Renew(m) ==
  /\ Leads(m)
  /\ lease[LeaseOf(m)].age > 0
  /\ lease' = [lease EXCEPT ![LeaseOf(m)].age = 0]
  /\ UNCHANGED <<flags, processVars, objectVars, faults>>

\* "leader election lost": mgr.Start returns the error, os.Exit(1).
LoseLease(m) ==
  /\ Leads(m)
  /\ lease[LeaseOf(m)].age = RenewDeadline
  /\ Fault /\ Ends(m)
  /\ UNCHANGED lease

\* Time passes for the lease of n until it has expired, unless its leader is due to
\* give up.
Tick(n) ==
  /\ lease[n].holder # Nobody
  /\ lease[n].age < LeaseDuration
  /\ ~\E m \in Managers :
        Leads(m) /\ LeaseOf(m) = n /\ lease[n].age = RenewDeadline
  /\ lease' = [lease EXCEPT ![n].age = @ + 1]
  /\ UNCHANGED <<flags, processVars, objectVars, faults>>

-----------------------------------------------------------------------------
(* Handlers *)

\* One worker per controller, and the work queue never gives a Component out
\* twice.
Call(m, c) ==
  /\ phase[m] = "active"
  /\ Provider[c] \in claimed[m]
  /\ observed[c] # generation[c]
  /\ \A d \in Components : Provider[d] = Provider[c] => running[m][d] = 0
  /\ running' = [running EXCEPT ![m][c] = generation[c]]
  /\ UNCHANGED <<flags, phase, left, claimed, lease, objectVars, faults>>

Return(m, c) ==
  /\ running[m][c] # 0
  /\ observed' = [observed EXCEPT ![c] = running[m][c]]
  /\ running' = [running EXCEPT ![m][c] = 0]
  /\ UNCHANGED <<flags, phase, left, claimed, lease, generation, faults>>

-----------------------------------------------------------------------------
(* Ends *)

Crash(m) ==
  /\ phase[m] # "down"
  /\ Fault /\ Ends(m)
  /\ UNCHANGED lease

\* Mutation: LeaderElectionReleaseOnCancel, taking effect with the signal.
SignalReleases(m) ==
  /\ phase[m] = "active"
  /\ Fault
  /\ phase' = [phase EXCEPT ![m] = "stopping"]
  /\ lease' = [lease EXCEPT ![LeaseOf(m)] = [holder |-> Nobody, age |-> 0]]
  /\ UNCHANGED <<flags, left, claimed, running, objectVars>>

\* SIGTERM.  SetupSignalHandler is in place once mgr.Start is called: an active
\* manager calls no more handlers and waits for those that are running.
Signal(m) ==
  /\ phase[m] = "active"
  /\ Fault
  /\ phase' = [phase EXCEPT ![m] = "stopping"]
  /\ UNCHANGED <<flags, left, claimed, running, lease, objectVars>>

\* mgr.Start returns, main() with it.  The lease is not released.
Exit(m) ==
  /\ phase[m] = "stopping"
  /\ running[m] = NotRunning
  /\ Ends(m)
  /\ UNCHANGED <<lease, faults>>

Edit(c) ==
  /\ generation[c] < MaxGeneration
  /\ generation' = [generation EXCEPT ![c] = @ + 1]
  /\ UNCHANGED <<flags, processVars, lease, observed, faults>>

-----------------------------------------------------------------------------

Process(m) == Launch(m) \/ Register(m) \/ Start(m) \/ Acquire(m) \/ Exit(m)

Next ==
  \/ \E m \in Managers :
       \/ Process(m) \/ Renew(m)
       \/ RegisterFails(m) \/ LoseLease(m) \/ Crash(m) \/ Signal(m)
       \/ \E c \in Components : Call(m, c) \/ Return(m, c)
  \/ \E n \in Namespaces : Tick(n)
  \/ \E c \in Components : Edit(c)

Spec == Init /\ [][Next]_vars

\* The kubelet restarts what ended, main() goes on, time passes, work queues are
\* served and handlers return.
FairSpec ==
  /\ Spec
  /\ \A m \in Managers :
       /\ WF_vars(Process(m)) /\ WF_vars(Renew(m))
       /\ WF_vars(\E c \in Components : Call(m, c))
       /\ WF_vars(\E c \in Components : Return(m, c))
  /\ \A n \in Namespaces : WF_vars(Tick(n))

-----------------------------------------------------------------------------
(* How the managers are deployed *)

ServesName(m, name) == \E i \in DOMAIN Providers : NameFor(m, Providers[i]) = name

Servers(c) == {m \in Managers : ServesName(m, Provider[c])}

Rivals(m, n) == flags[m].elect /\ flags[n].elect /\ LeaseOf(m) = LeaseOf(n)

\* Replicas of one deployment, electing; or a single manager.
Exclusive(c) == \A m, n \in Servers(c) : m # n => Rivals(m, n)

\* And no manager with another prefix contends for the lease of c's managers.
WellServed(c) ==
  LET S == Servers(c)
  IN  /\ S # {}
      /\ \A m \in S, n \in Managers : m # n => (Rivals(m, n) <=> n \in S)

-----------------------------------------------------------------------------
(* Properties *)

\* Every variable holds a value of its type.
TypeOK ==
  /\ flags \in [Managers -> Flags]
  /\ phase \in [Managers -> {"down", "registering", "electing", "active", "stopping"}]
  /\ left \in [Managers -> {SubSeq(Providers, i + 1, Len(Providers)) : i \in 0 .. Len(Providers)}]
  /\ claimed \in [Managers -> SUBSET {RegisteredName(buildProviderName(p, Providers[i]), Providers[i]) :
                                     p \in Prefixes, i \in DOMAIN Providers}]
  /\ lease \in [Namespaces -> [holder : Managers \cup {Nobody}, age : 0 .. LeaseDuration]]
  /\ running \in [Managers -> [Components -> 0 .. MaxGeneration]]
  /\ generation \in [Components -> 1 .. MaxGeneration]
  /\ observed \in [Components -> 0 .. MaxGeneration]
  /\ faults \in 0 .. MaxFaults

\* Where the managers naming a Component's provider are replicas that elect a
\* leader, no two of them run a handler of it at once, through crashes, lost
\* leases and stops (main.go's LeaderElection, ReleaseOnCancel left off): the
\* provider modules let each Component have one handler.
OneHandler ==
  \A c \in Components : Exclusive(c) =>
    Cardinality({m \in Managers : running[m][c] # 0}) <= 1

-----------------------------------------------------------------------------
(* Why OneHandler holds: an invariant that every step preserves. *)

\* An elected manager whose process still runs holds the lease of its namespace,
\* and has renewed it in time.
LeadersHold ==
  \A m \in Managers :
    Alive(m) /\ flags[m].elect =>
      /\ lease[LeaseOf(m)].holder = m
      /\ lease[LeaseOf(m)].age <= RenewDeadline

\* A manager has controllers for the names it was deployed with ...
ControllersFit ==
  \A m \in Managers : claimed[m] \subseteq {NameFor(m, Providers[i]) : i \in DOMAIN Providers}

\* ... and handlers run in processes that have a controller for their Component.
HandlersHaveControllers ==
  \A m \in Managers, c \in Components :
    running[m][c] # 0 => Alive(m) /\ Provider[c] \in claimed[m]

\* The inductive invariant behind OneHandler: whoever may call handlers under a
\* lease still has it when the next manager may take it (mgr.Start gives up
\* before the lease expires, main.go's LeaderElection).
Inv == TypeOK /\ LeadersHold /\ ControllersFit /\ HandlersHaveControllers

-----------------------------------------------------------------------------
(* What the provider modules see of all this. *)

\* The managers call the handlers of every well served Component the way the
\* provider modules assume: one at a time, again after a loss, and in the end
\* on the current generation.  Of the others nothing is said.
Calls(c) == INSTANCE HandlerCalls WITH
  generation <- IF WellServed(c) THEN generation[c] ELSE 1,
  observed   <- IF WellServed(c) THEN observed[c] ELSE 0,
  handling   <- IF WellServed(c) THEN Max({running[m][c] : m \in Managers}) ELSE 0

CallsHandlers ==
  /\ \A c \in Components : Calls(c)!Init
  /\ [][\A c \in Components : [Calls(c)!Next]_(Calls(c)!vars)]_vars

\* ... and each of them is seen to in the end, whichever manager leads.
ServesComponents ==
  \A c \in Components :
    WellServed(c) /\ observed[c] # generation[c] ~> observed[c] = generation[c]

=============================================================================
