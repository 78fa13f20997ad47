------------------------------ MODULE MCAccess ------------------------------
(***************************************************************************)
(* Two processes over one database, one user with two sessions, one bot,    *)
(* two tabs.  The old build lacks admin.settings; the torn one declares a    *)
(* route on a key it does not ship.                                         *)
(***************************************************************************)
EXTENDS AccessProperties, TLC

New == [catalogue |-> [k \in {"roster.read", "admin.settings"} |-> k = "admin.settings"],
        required |-> {"roster.read", "admin.settings"},
        roles |-> [officer |-> {"roster.read", "admin.settings"}, bot |-> {"roster.read"}]]
Old == [catalogue |-> [k \in {"roster.read"} |-> FALSE], required |-> {"roster.read"},
        roles |-> [officer |-> {"roster.read"}]]
Torn == [catalogue |-> [k \in {"roster.read"} |-> TRUE], required |-> {"admin.settings"},
         roles |-> [bot |-> {"roster.read"}]]
Builds == {New, Old, Torn}

Applies == [officer |-> "user", bot |-> "service_account"]
Holds(kind, id, role, expires, suspended, scope) ==
  [kind |-> kind, id |-> id, role |-> role, expires |-> expires, suspended |-> suspended, scope |-> scope]
Rows == {Holds("user", "uma", "officer", None, 1, "global"), Holds("user", "uma", "officer", 1, None, "global"),
         Holds("service_account", "bot", "bot", None, None, "global")}
Active == [bot |-> "active"]

Op(permission, sets) == [permission |-> permission, scopeSets |-> sets, stepUp |-> FALSE, target |-> "guild"]
Ops == [getGuild |-> Op("roster.read", {{"roster:read"}}), updateGuild |-> Op("admin.settings", {})]

Row(name, label) == [name |-> name, label |-> label, updated |-> 0]
Rows0 == {Row("Kill Party", "DKP")}
Sets == {[name |-> "Raid Party"], [label |-> "EP"]}

Budget(b, l, m, r, e, t) ==
  [boots |-> b, logins |-> l, mints |-> m, requests |-> r, edits |-> e, ticks |-> t]
Shares == {Budget(3, 0, 1, 0, 2, 0), Budget(2, 1, 0, 1, 1, 0), Budget(1, 2, 0, 1, 2, 2),
           Budget(1, 1, 0, 2, 1, 4), Budget(1, 2, 0, 4, 0, 1), Budget(1, 0, 1, 2, 1, 3)}
Symmetry == Permutations(Proc) \cup Permutations(Sid) \cup Permutations(Tab)
=============================================================================
