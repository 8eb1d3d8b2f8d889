--------------------------- MODULE PolicyPromise ----------------------------
(***************************************************************************)
(* What the iam-policy provider promises the users of a policy, whatever   *)
(* the calls it makes: the document in force changes only in one atomic    *)
(* step, to a document that some Component asked for when its apply began; *)
(* an apply brings its document in force at most once; the policy          *)
(* disappears only on behalf of a Component whose deletion was requested;  *)
(* in particular an update never leaves a moment without a policy.         *)
(***************************************************************************)
EXTENDS Naturals

CONSTANTS Components, Docs, ValidDocs, NoDoc

VARIABLES
  wanted,    \* wanted[c]: the document in c's spec
  released,  \* released[c]: c's deletion was requested
  claimed,   \* claimed[c]: the document of c's running apply, or NoDoc
  inForce    \* the document AWS enforces, or NoDoc

vars == <<wanted, released, claimed, inForce>>

Init ==
  /\ wanted \in [Components -> Docs]
  /\ released = [c \in Components |-> FALSE]
  /\ claimed = [c \in Components |-> NoDoc]
  /\ inForce \in ValidDocs \cup {NoDoc}

Want(c) ==
  /\ ~released[c]
  /\ \E d \in Docs : wanted' = [wanted EXCEPT ![c] = d]
  /\ UNCHANGED <<released, claimed, inForce>>

Release(c) ==
  /\ ~released[c]
  /\ released' = [released EXCEPT ![c] = TRUE]
  /\ UNCHANGED <<wanted, claimed, inForce>>

Claim(c) ==
  /\ ~released[c]
  /\ claimed[c] = NoDoc
  /\ wanted[c] \in ValidDocs
  /\ claimed' = [claimed EXCEPT ![c] = wanted[c]]
  /\ UNCHANGED <<wanted, released, inForce>>

Enforce(c) ==
  /\ claimed[c] # NoDoc
  /\ inForce' = claimed[c]
  /\ claimed' = [claimed EXCEPT ![c] = NoDoc]
  /\ UNCHANGED <<wanted, released>>

Abandon(c) ==
  /\ claimed[c] # NoDoc
  /\ claimed' = [claimed EXCEPT ![c] = NoDoc]
  /\ UNCHANGED <<wanted, released, inForce>>

Withdraw(c) ==
  /\ released[c]
  /\ claimed[c] = NoDoc
  /\ inForce' = NoDoc
  /\ UNCHANGED <<wanted, released, claimed>>

EndClaim(c) == Enforce(c) \/ Abandon(c)

Next == \E c \in Components :
  Want(c) \/ Release(c) \/ Claim(c) \/ EndClaim(c) \/ Withdraw(c)

Spec == Init /\ [][Next]_vars

\* Every apply that begins also ends.
FairSpec == Spec /\ \A c \in Components : WF_vars(EndClaim(c))

=============================================================================
