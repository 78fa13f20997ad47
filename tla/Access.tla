------------------------------- MODULE Access -------------------------------
(***************************************************************************)
(* One database, the processes that boot over it, and the requests they     *)
(* answer: src/cmd/dkp/serve.go, src/internal/api, src/internal/auth,        *)
(* src/internal/authz and src/internal/guild together.  A store.Tx is one    *)
(* step (module Ledger shows what is inside one); two reads, a read and a    *)
(* write, and a clock reading are separate steps wherever the code separates *)
(* them.  The endpoints that sign out, revoke, mint and edit roles are not   *)
(* in the repository yet; their statements are, and are steps of their own.  *)
(***************************************************************************)
EXTENDS Authorization, FiniteSets

CONSTANTS
  Proc, Binaries, Permission, Role,
  User, Sid,             \* users, and the sessions they may open
  Account, Tid,          \* service accounts, and the tokens minted for them
  AccountState, TokenScopes, TokenLife,
  Tab,                   \* officers' browser tabs and bots, one request at a time each
  Operations,            \* operation -> [permission, scopeSets, stepUp, target]
  Guilds, Patches,       \* rows the guild starts from, and the fields an officer sets
  Budgets                \* how much of each thing happens: [boots, logins, mints, requests, edits, ticks]

States == {"active", "suspended"}

ASSUME OperationsAssumption ==
  \A op \in DOMAIN Operations : Operations[op].permission \in Permission \cup {None}
ASSUME BinariesAssumption ==
  \A binary \in Binaries :
    /\ binary.catalogue \in [Shipped(binary) -> BOOLEAN] /\ Shipped(binary) \subseteq Permission
    /\ DOMAIN binary.roles \subseteq Role
    /\ \A r \in DOMAIN binary.roles : binary.roles[r] \subseteq Permission
ASSUME BudgetsAssumption ==
  /\ Budgets \subseteq [{"boots", "logins", "mints", "requests", "edits", "ticks"} -> Nat]
  /\ TokenLife \in Nat /\ AccountState \in [Account -> States]

VARIABLES
  now, left,
  perms, roles, grants,              \* permission, role, role_permission
  users, sessions, tokens,
  ended,                             \* history: sessions a sign-out-everywhere found
  calls,                             \* CreateSession calls that have not reached their transaction
  secrets, procs,                    \* secrets.json, and the processes
  requests, guild, seen              \* seen: the guild each tab was last shown
authzVars == <<perms, roles, grants>>
credVars == <<users, sessions, tokens, ended, calls>>
bootVars == <<secrets, procs>>
webVars == <<requests, guild, seen>>
vars == <<now, left, authzVars, credVars, bootVars, webVars>>

Down == [phase |-> "down", key |-> None, authorized |-> FALSE]
Idle == [phase |-> "idle", proc |-> None, op |-> None, credential |-> None, id |-> None,
         row |-> None,
         owner |-> [state |-> "active", deleted |-> FALSE, epoch |-> 0], at |-> 0]

Init ==
  /\ now = 0 /\ left \in Budgets
  /\ perms = [k \in Permission |-> NoRow] /\ roles = {} /\ grants = {}
  /\ users = [u \in User |-> [state |-> "active", deleted |-> FALSE, epoch |-> 0]]
  /\ sessions = [s \in Sid |-> None] /\ tokens = [t \in Tid |-> None]
  /\ ended = {} /\ calls = [s \in Sid |-> None]
  /\ secrets = [state |-> "absent", key |-> None]
  /\ procs = [p \in Proc |-> Down]
  /\ requests = [b \in Tab |-> Idle] /\ guild \in Guilds /\ seen = [b \in Tab |-> None]

Spend(what) == left[what] > 0 /\ left' = [left EXCEPT ![what] = @ - 1]

Tick ==
  /\ Spend("ticks") /\ now' = now + 1
  /\ UNCHANGED <<authzVars, credVars, bootVars, webVars>>

-----------------------------------------------------------------------------
(* runServe: reconcile, then the keyring, then listen                        *)

\* A missing required key rolls back and ends the boot; any other failure rolls back and serves.
Boot(p, binary) ==
  /\ procs[p].phase = "down" /\ Spend("boots")
  /\ \/ /\ RequiredShipped(binary)
        /\ perms' = Reconciled(binary, perms)
        /\ grants' = SeededGrants(binary, roles, grants)
        /\ roles' = roles \cup DOMAIN binary.roles
        /\ procs' = [procs EXCEPT ![p] = [Down EXCEPT !.phase = "keyring", !.authorized = TRUE]]
     \/ /\ procs' = [procs EXCEPT ![p] = [Down EXCEPT !.phase = "keyring"]]
        /\ UNCHANGED authzVars
     \/ ~RequiredShipped(binary) /\ UNCHANGED <<procs, authzVars>>
  /\ UNCHANGED <<now, credVars, secrets, webVars>>

\* LoadOrCreateKeyring: the file as this process finds it; a short one refuses the boot
ReadSecrets(p) ==
  /\ procs[p].phase = "keyring"
  /\ procs' = [procs EXCEPT ![p] =
       CASE secrets.state = "absent" -> [@ EXCEPT !.phase = "creating"]
         [] secrets.state = "whole"  -> [@ EXCEPT !.phase = "serving", !.key = secrets.key]
         [] secrets.state = "short"  -> Down]
  /\ UNCHANGED <<now, left, authzVars, credVars, secrets, webVars>>

\* os.OpenFile without O_EXCL, truncating what it finds
MayCreate_Anyway(file) == TRUE
\* O_EXCL
MayCreate(file) == file.state = "absent"

\* createKeyring's 32 random bytes: no two attempts draw the same ones
FreshKey(p) == <<p, left["boots"]>>

OpenSecrets(p) ==
  /\ procs[p].phase = "creating"
  /\ IF MayCreate(secrets)
     THEN /\ secrets' = [state |-> "short", key |-> None]
          /\ procs' = [procs EXCEPT ![p].phase = "writing", ![p].key = FreshKey(p)]
     ELSE procs' = [procs EXCEPT ![p] = Down] /\ UNCHANGED secrets
  /\ UNCHANGED <<now, left, authzVars, credVars, webVars>>

\* A failed write leaves the short file behind.
WriteSecrets(p) ==
  /\ procs[p].phase = "writing"
  /\ \/ /\ secrets' = [state |-> "whole", key |-> procs[p].key]
        /\ procs' = [procs EXCEPT ![p].phase = "serving"]
     \/ procs' = [procs EXCEPT ![p] = Down] /\ UNCHANGED secrets
  /\ UNCHANGED <<now, left, authzVars, credVars, webVars>>

\* The process ends anywhere, and what it was answering with it.
Kill(p) ==
  /\ procs[p].phase # "down" /\ Spend("edits")
  /\ procs' = [procs EXCEPT ![p] = Down]
  /\ requests' = [b \in Tab |-> IF requests[b].proc = p THEN Idle ELSE requests[b]]
  /\ calls' = [s \in Sid |-> IF calls[s] # None /\ calls[s].proc = p THEN None ELSE calls[s]]
  /\ UNCHANGED <<now, authzVars, users, sessions, tokens, ended, secrets, guild, seen>>

\* The operator a malformed file sends for: once no process is writing it, it is deleted.
DeleteShortSecrets ==
  /\ secrets.state = "short" /\ \A p \in Proc : procs[p].phase # "writing"
  /\ secrets' = [state |-> "absent", key |-> None]
  /\ UNCHANGED <<now, left, authzVars, credVars, procs, webVars>>

-----------------------------------------------------------------------------
(* Credentials are made, and ended.                                          *)

\* The listener opens last.
Serving(p) == procs[p].phase = "serving"

\* CreateSession up to its transaction
BeginSession(p, s, u, stepUp) ==
  /\ Serving(p) /\ sessions[s] = None /\ calls[s] = None /\ Spend("logins")
  /\ calls' = [calls EXCEPT ![s] = [user |-> u, at |-> now, stepUp |-> stepUp, proc |-> p]]
  /\ UNCHANGED <<now, authzVars, users, sessions, tokens, ended, bootVars, webVars>>

\* ... and the transaction: a user who may not act gets no session
CreateSession(s) ==
  /\ calls[s] # None
  /\ LET user == users[calls[s].user]
     IN  IF MayAct(user)
         THEN sessions' = [sessions EXCEPT ![s] = SessionRow(calls[s], user.epoch)]
         ELSE UNCHANGED sessions
  /\ calls' = [calls EXCEPT ![s] = None]
  /\ UNCHANGED <<now, left, authzVars, users, tokens, ended, bootVars, webVars>>

BumpSessionEpoch(u) ==
  /\ Spend("edits")
  /\ users' = [users EXCEPT ![u].epoch = @ + 1]
  /\ ended' = ended \cup {s \in Sid : sessions[s] # None /\ sessions[s].user = u}
  /\ UNCHANGED <<now, authzVars, sessions, tokens, calls, bootVars, webVars>>

RevokeSession(s) ==
  /\ sessions[s] # None /\ sessions[s].revoked = None /\ Spend("edits")
  /\ sessions' = [sessions EXCEPT ![s].revoked = now]
  /\ UNCHANGED <<now, authzVars, users, tokens, ended, calls, bootVars, webVars>>

SetAppUserState(u, state) ==
  /\ users[u].state # state /\ Spend("edits")
  /\ users' = [users EXCEPT ![u].state = state]
  /\ UNCHANGED <<now, authzVars, sessions, tokens, ended, calls, bootVars, webVars>>

SoftDeleteAppUser(u) ==
  /\ ~users[u].deleted /\ Spend("edits")
  /\ users' = [users EXCEPT ![u].deleted = TRUE]
  /\ UNCHANGED <<now, authzVars, sessions, tokens, ended, calls, bootVars, webVars>>

\* NewToken and its INSERT
MintToken(p, t, a) ==
  /\ Serving(p) /\ tokens[t] = None /\ Spend("mints")
  /\ tokens' = [tokens EXCEPT ![t] =
       [account |-> a, key |-> procs[p].key, scopes |-> TokenScopes, expires |-> now + TokenLife,
        used |-> None, revoked |-> None]]
  /\ UNCHANGED <<now, authzVars, users, sessions, ended, calls, bootVars, webVars>>

RevokeAPIToken(t) ==
  /\ tokens[t] # None /\ tokens[t].revoked = None /\ Spend("edits")
  /\ tokens' = [tokens EXCEPT ![t].revoked = now]
  /\ UNCHANGED <<now, authzVars, users, sessions, ended, calls, bootVars, webVars>>

\* The role editor: one grant on or off
EditRole(r, k) ==
  /\ r \in roles /\ perms[k].state # "absent" /\ Spend("edits")
  /\ grants' = IF <<r, k>> \in grants THEN grants \ {<<r, k>>} ELSE grants \cup {<<r, k>>}
  /\ UNCHANGED <<now, perms, roles, credVars, bootVars, webVars>>
-----------------------------------------------------------------------------
(* One request: the gate, the credential, its touch, the check, the handler. *)

Refused(b) == requests' = [requests EXCEPT ![b] = Idle]
Goes(b, phase) == requests' = [requests EXCEPT ![b].phase = phase]

\* authorizationGate, then the read of ResolveRequest
Present(b, p, op, credential, id) ==
  /\ requests[b] = Idle /\ Serving(p) /\ procs[p].authorized /\ Spend("requests")
  /\ \/ /\ credential = "session" /\ id \in Sid /\ sessions[id] # None
        /\ requests' = [requests EXCEPT ![b] =
             [Idle EXCEPT !.phase = "verifying", !.proc = p, !.op = op, !.credential = credential,
                          !.id = id, !.row = sessions[id], !.owner = users[sessions[id].user]]]
     \/ /\ credential = "pat" /\ id \in Tid /\ tokens[id] # None
        /\ requests' = [requests EXCEPT ![b] =
             [Idle EXCEPT !.phase = "verifying", !.proc = p, !.op = op, !.credential = credential,
                          !.id = id, !.row = tokens[id],
                          !.owner = [state |-> AccountState[tokens[id].account], deleted |-> FALSE,
                                     epoch |-> 0]]]
  /\ UNCHANGED <<now, authzVars, credVars, bootVars, guild, seen>>

\* The clock is read after the row, and the verdict is on the row that was read.
Verify(b) ==
  /\ requests[b].phase = "verifying"
  /\ LET r == requests[b]
         accepted == IF r.credential = "session" THEN SessionAccepted(r.row, r.owner, now)
                     ELSE TokenAccepted(r.row, procs[r.proc].key, r.owner, now)
         due == TouchDue(IF r.credential = "session" THEN r.row.seen ELSE r.row.used, now)
     IN  IF accepted
         THEN requests' = [requests EXCEPT ![b].phase = IF due THEN "touching" ELSE "checking",
                                           ![b].at = now]
         ELSE Refused(b)
  /\ UNCHANGED <<now, left, authzVars, credVars, bootVars, guild, seen>>

\* touchSession, touchToken: a transaction of its own, whose failure is logged and no more
Touch(b) ==
  /\ requests[b].phase = "touching" /\ Goes(b, "checking")
  /\ LET r == requests[b]
     IN  \/ /\ r.credential = "session"
            /\ sessions' = [sessions EXCEPT ![r.id] = Touched(@, r.row, r.at)]
            /\ UNCHANGED tokens
         \/ /\ r.credential = "pat"
            /\ tokens' = [tokens EXCEPT ![r.id] = TokenTouched(@, r.at)]
            /\ UNCHANGED sessions
         \/ UNCHANGED <<sessions, tokens>>
  /\ UNCHANGED <<now, left, authzVars, users, ended, calls, bootVars, guild, seen>>

\* authorize, against the rows and the clock of this moment
Check(b) ==
  /\ requests[b].phase = "checking"
  /\ LET r == requests[b]
         principal == IF r.credential = "session" THEN SessionPrincipal(r.row) ELSE TokenPrincipal(r.row)
     IN  IF Allowed(perms, roles, grants, principal, Operations[r.op], now)
         THEN Goes(b, "handling") ELSE Refused(b)
  /\ UNCHANGED <<now, left, authzVars, credVars, bootVars, guild, seen>>

GetGuild(b) ==
  /\ requests[b].phase = "handling" /\ requests[b].op = "getGuild" /\ Refused(b)
  /\ seen' = [seen EXCEPT ![b] = guild]
  /\ UNCHANGED <<now, left, authzVars, credVars, bootVars, guild>>

\* A validator made of the timestamp alone
ETagOf_Stamp(g) == g.updated
\* The hash covers every field of the row.
ETagOf(g) == g

\* One patched row: absent fields keep what the row has
PatchedGuild(g, patch, t) ==
  [f \in DOMAIN g |-> IF f = "updated" THEN t ELSE IF f \in DOMAIN patch THEN patch[f] ELSE g[f]]

\* guild.Update: the precondition and the write in one transaction; a 412 shows the current row
UpdateGuild(b, patch) ==
  /\ requests[b].phase = "handling" /\ requests[b].op = "updateGuild" /\ Refused(b)
  /\ seen[b] # None   \* a PATCH without If-Match is a 428
  /\ guild' = IF ETagOf(seen[b]) = ETagOf(guild) THEN PatchedGuild(guild, patch, now) ELSE guild
  /\ seen' = [seen EXCEPT ![b] = guild']
  /\ UNCHANGED <<now, left, authzVars, credVars, bootVars>>

-----------------------------------------------------------------------------
Next ==
  \/ Tick
  \/ \E p \in Proc : \/ \E binary \in Binaries : Boot(p, binary)
                     \/ ReadSecrets(p) \/ OpenSecrets(p) \/ WriteSecrets(p) \/ Kill(p)
  \/ DeleteShortSecrets
  \/ \E p \in Proc, s \in Sid, u \in User, stepUp \in BOOLEAN : BeginSession(p, s, u, stepUp)
  \/ \E s \in Sid : CreateSession(s) \/ RevokeSession(s)
  \/ \E u \in User : \/ BumpSessionEpoch(u) \/ SoftDeleteAppUser(u)
                     \/ \E state \in States : SetAppUserState(u, state)
  \/ \E p \in Proc, t \in Tid, a \in Account : MintToken(p, t, a)
  \/ \E t \in Tid : RevokeAPIToken(t)
  \/ \E r \in Role, k \in Permission : EditRole(r, k)
  \/ \E b \in Tab, p \in Proc, op \in DOMAIN Operations, s \in Sid : Present(b, p, op, "session", s)
  \/ \E b \in Tab, p \in Proc, op \in DOMAIN Operations, t \in Tid : Present(b, p, op, "pat", t)
  \/ \E b \in Tab : Verify(b) \/ Touch(b) \/ Check(b) \/ GetGuild(b)
  \/ \E b \in Tab, patch \in Patches : UpdateGuild(b, patch)

Spec == Init /\ [][Next]_vars
=============================================================================
