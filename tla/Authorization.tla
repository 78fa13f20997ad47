--------------------------- MODULE Authorization ---------------------------
(***************************************************************************)
(* What a principal may do (src/internal/authz): the one query and the      *)
(* checks around it, and the reconciliation of a binary's permission        *)
(* catalogue with the rows it finds at boot.  A binary is                   *)
(*   [catalogue : key -> requires_step_up, required : keys its routes name,  *)
(*    roles : role -> the grants it is seeded with].                         *)
(***************************************************************************)
EXTENDS Credentials

CONSTANTS
  StepUpWindow,
  CapabilityFloor,   \* keys no token reaches
  AppliesTo,         \* role -> "both" or the one kind of subject it is for
  Assignments        \* role_assignment rows: [kind, id, role, expires, suspended, scope]

\* A key with no row.
NoRow == [state |-> "absent", stepUp |-> FALSE]

-----------------------------------------------------------------------------
(* Checker.Check                                                             *)

\* One role_assignment row reaching the target, for this subject, now
Reaches(a, principal, target, t) ==
  /\ a.kind = principal.kind /\ a.id = principal.id
  /\ AppliesTo[a.role] \in {"both", a.kind}
  /\ a.expires = None \/ a.expires > t
  /\ a.suspended = None \/ a.suspended <= t
  /\ a.scope = "global" \/ a.scope = target

Granted(roles, grants, principal, key, target, t) ==
  \E a \in Assignments :
    Reaches(a, principal, target, t) /\ a.role \in roles /\ <<a.role, key>> \in grants

\* checkToken: the floor is session-only, and one of the declared sets must be held whole
TokenReaches(principal, req) ==
  /\ req.permission \notin CapabilityFloor
  /\ \E set \in req.scopeSets : set # {} /\ set \subseteq principal.scopes

SteppedUpRecently(principal, t) ==
  principal.steppedUp # None /\ t - principal.steppedUp \in 0..StepUpWindow

\* A key without a live row is an error, and the request is refused (refuseUndecidable).
Allowed(perms, roles, grants, principal, req, t) ==
  /\ principal.credential = "pat" => TokenReaches(principal, req)
  /\ req.permission # None =>
       /\ perms[req.permission].state = "live"
       /\ Granted(roles, grants, principal, req.permission, req.target, t)
  /\ req.stepUp \/ (req.permission # None /\ perms[req.permission].stepUp)
       => SteppedUpRecently(principal, t)

-----------------------------------------------------------------------------
(* Reconciler.Reconcile, one transaction                                     *)

Shipped(binary) == DOMAIN binary.catalogue

\* upsertCatalogue and orphanRetired: rows are marked, never deleted
Reconciled(binary, perms) ==
  [k \in DOMAIN perms |->
     CASE k \in Shipped(binary)      -> [state |-> "live", stepUp |-> binary.catalogue[k]]
       [] perms[k].state = "absent"  -> perms[k]
       [] OTHER                      -> [perms[k] EXCEPT !.state = "orphaned"]]

\* Every boot restores what the binary ships.
SeededGrants_EveryBoot(binary, roles, grants) ==
  grants \cup UNION {{<<r, k>> : k \in binary.roles[r]} : r \in DOMAIN binary.roles}

\* Deleting a retired key takes its grants along.
SeededGrants_Cascade(binary, roles, grants) ==
  {g \in grants : g[2] \in Shipped(binary)}
    \cup UNION {{<<r, k>> : k \in binary.roles[r]} : r \in DOMAIN binary.roles \ roles}

\* seedBuiltinRoles: only a role that has no row yet gets its grants
SeededGrants(binary, roles, grants) ==
  grants \cup UNION {{<<r, k>> : k \in binary.roles[r]} : r \in DOMAIN binary.roles \ roles}

\* requireKeys, which rolls the whole transaction back
RequiredShipped(binary) == binary.required \subseteq Shipped(binary)
=============================================================================
