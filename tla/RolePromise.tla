---------------------------- MODULE RolePromise ------------------------------
(***************************************************************************)
(* What the iam-role provider promises the users of a role, whatever the   *)
(* calls it makes: trust and permissions change one at a time, towards the *)
(* spec that the running apply began with; what the spec does not want is  *)
(* revoked before anything is granted, and nothing it wants is revoked on  *)
(* the way; the role disappears, bare, only once the deletion of its       *)
(* Component was requested.  Others may interfere.                         *)
(***************************************************************************)
EXTENDS Naturals

CONSTANTS Specs, ValidSpecs, NoTrust, NoSpec

VARIABLES
  wanted,     \* the Component's spec
  released,   \* its deletion was requested
  claim,      \* the spec of the running apply, or NoSpec
  trust,      \* the trust policy AWS enforces, NoTrust without a role
  granted,    \* the policies in effect
  disturbed,  \* others interfered since the last apply or deletion began
  others      \* how often they did

vars == <<wanted, released, claim, trust, granted, disturbed, others>>

exists == trust # NoTrust

Init ==
  /\ wanted \in Specs
  /\ released = FALSE
  /\ claim = NoSpec
  /\ exists \/ granted = {}
  /\ disturbed = FALSE
  /\ others = 0

Want ==
  /\ ~released
  /\ wanted' \in Specs
  /\ UNCHANGED <<released, claim, trust, granted, disturbed, others>>

Release ==
  /\ released' = TRUE
  /\ UNCHANGED <<wanted, claim, trust, granted, disturbed, others>>

Claim ==
  /\ claim = NoSpec /\ ~released
  /\ wanted \in ValidSpecs
  /\ claim' = wanted
  /\ disturbed' = FALSE
  /\ UNCHANGED <<wanted, released, trust, granted, others>>

\* A deletion begins: what others did before is not its concern.
BeginRelease ==
  /\ claim = NoSpec /\ released
  /\ disturbed' = FALSE
  /\ UNCHANGED <<wanted, released, claim, trust, granted, others>>

\* A call on behalf of the running apply; with the last one the claim ends.
Serves ==
  /\ claim # NoSpec
  /\ claim' \in {claim, NoSpec}
  /\ UNCHANGED <<wanted, released, disturbed, others>>

Trust ==
  /\ Serves
  /\ trust' = claim.trust
  /\ UNCHANGED granted

EndClaim ==
  /\ claim # NoSpec
  /\ claim' = NoSpec
  /\ UNCHANGED <<wanted, released, trust, granted, disturbed, others>>

Grant ==
  /\ Serves
  /\ disturbed \/ granted \subseteq claim.policies
  /\ \E p \in claim.policies \ granted : granted' = granted \cup {p}
  /\ UNCHANGED trust

Revoke ==
  /\ Serves
  /\ \E p \in granted \ claim.policies : granted' = granted \ {p}
  /\ UNCHANGED trust

RevokeAll ==
  /\ released /\ claim = NoSpec
  /\ \E p \in granted : granted' = granted \ {p}
  /\ UNCHANGED <<wanted, released, claim, trust, disturbed, others>>

Withdraw ==
  /\ released /\ claim = NoSpec
  /\ granted = {}
  /\ trust' = NoTrust
  /\ UNCHANGED <<wanted, released, claim, granted, disturbed, others>>

Interfere ==
  /\ others' = others + 1
  /\ disturbed' = TRUE
  /\ UNCHANGED <<wanted, released, claim>>

Next ==
  \/ Want \/ Release \/ Claim \/ EndClaim \/ BeginRelease
  \/ Trust \/ Grant \/ Revoke \/ RevokeAll \/ Withdraw
  \/ Interfere

Spec == Init /\ [][Next]_vars

=============================================================================
