-------------------------- MODULE AccessProperties --------------------------
(***************************************************************************)
(* What must hold of credentials, boots and the guild row.                  *)
(***************************************************************************)
EXTENDS Access

-----------------------------------------------------------------------------
(* Types                                                                     *)

Stamp == Int \cup {None}
Keys == Proc \X Int
UserRows == [state : States, deleted : BOOLEAN, epoch : Nat]
SessionRows ==
  [user : User, epoch : Nat, seen : Int, expires : Int, absolute : Int, revoked : Stamp, steppedUp : Stamp]
TokenRows ==
  [account : Account, key : Keys, scopes : {TokenScopes}, expires : Int, used : Stamp, revoked : Stamp]
Calls == [user : User, at : Int, stepUp : BOOLEAN, proc : Proc]
Processes == [phase : {"down", "keyring", "creating", "writing", "serving"},
              key : Keys \cup {None}, authorized : BOOLEAN]
Requests == [phase : {"idle", "verifying", "touching", "checking", "handling"}, proc : Proc \cup {None},
             op : DOMAIN Operations \cup {None}, credential : {"session", "pat", None},
             id : Sid \cup Tid \cup {None}, row : SessionRows \cup TokenRows \cup {None},
             owner : UserRows, at : Int]

ASSUME NoneAssumption == None \notin SessionRows \cup TokenRows \cup Calls \cup Keys \cup Int

\* Every variable has its type.
TypeOK ==
  /\ now \in Int
  /\ left \in [{"boots", "logins", "mints", "requests", "edits", "ticks"} -> Nat]
  /\ perms \in [Permission -> [state : {"absent", "live", "orphaned"}, stepUp : BOOLEAN]]
  /\ roles \subseteq Role /\ grants \subseteq Role \X Permission
  /\ users \in [User -> UserRows]
  /\ sessions \in [Sid -> SessionRows \cup {None}] /\ tokens \in [Tid -> TokenRows \cup {None}]
  /\ ended \subseteq Sid /\ calls \in [Sid -> Calls \cup {None}]
  /\ secrets \in [state : {"absent", "short", "whole"}, key : Keys \cup {None}]
  /\ procs \in [Proc -> Processes]
  /\ requests \in [Tab -> Requests]

-----------------------------------------------------------------------------
(* Sign-out, revocation and the touch                                        *)

\* "Sign out everywhere" ends exactly the sessions that existed when it committed: none of them is
\* accepted again, and none opened after it is born dead (CreateSession reads the epoch inside its
\* transaction; BumpSessionEpoch writes one row and no session).
SignOutIsExact ==
  \A s \in Sid : sessions[s] # None =>
    (s \in ended <=> sessions[s].epoch # users[sessions[s].user].epoch)

\* Whatever order touches, revocations and sign-outs commit in, a touch decided on an older row never
\* takes back a revocation, never moves a stamp or an idle expiry backwards, and never carries an
\* expiry past the absolute one (touchSession resolves on one connection and writes on another).
TouchNeverUndoes ==
  [][/\ \A s \in Sid : sessions[s] # None =>
          /\ sessions[s].revoked # None => sessions'[s].revoked = sessions[s].revoked
          /\ sessions'[s].epoch = sessions[s].epoch /\ sessions'[s].absolute = sessions[s].absolute
          /\ sessions'[s].seen >= sessions[s].seen /\ sessions'[s].expires >= sessions[s].expires
          /\ sessions'[s].expires <= sessions[s].absolute
     /\ \A t \in Tid : tokens[t] # None =>
          /\ tokens[t].revoked # None => tokens'[t].revoked = tokens[t].revoked
          /\ tokens[t].used # None => tokens'[t].used >= tokens[t].used]_vars

-----------------------------------------------------------------------------
(* Boots                                                                     *)

\* However many processes race on a first boot, and wherever one dies, every process that serves and
\* every token minted derive from the one key in secrets.json (LoadOrCreateKeyring's O_EXCL, and its
\* refusal of a short file).
OneKey ==
  /\ \A p \in Proc : Serving(p) => secrets.state = "whole" /\ procs[p].key = secrets.key
  /\ \A t \in Tid : tokens[t] # None => secrets.state = "whole" /\ tokens[t].key = secrets.key

GrantsOf(r) == {k \in Permission : <<r, k>> \in grants}

\* A boot, an upgrade, a downgrade or the way back changes no grant of a role the guild has, and no
\* permission row disappears under its grants: only the role editor does (Reconcile seeds a role once,
\* and stamps a retired key instead of deleting it).
GrantsStand ==
  [][/\ \A r \in roles : GrantsOf(r)' # GrantsOf(r) => \E k \in Permission : EditRole(r, k)
     /\ \A k \in Permission : perms[k].state # "absent" => perms'[k].state # "absent"]_vars

-----------------------------------------------------------------------------
(* The guild row                                                             *)

\* No officer replaces a guild row they were never shown, two of them in one microsecond included:
\* whoever changes it was last shown exactly the row that is replaced (guild.Service.Update compares
\* If-Match inside the transaction that writes).
NoLostUpdate ==
  [][guild' # guild => \E b \in Tab : /\ requests[b].phase = "handling" /\ requests'[b] = Idle
                                      /\ seen[b] = guild]_vars
=============================================================================
