---------------------------- MODULE AccessProofs ----------------------------
(***************************************************************************)
(* Proofs of the properties of module AccessProperties, for any number of   *)
(* processes, binaries, users, sessions, tokens, tabs and requests.         *)
(***************************************************************************)
EXTENDS AccessProperties, TLAPS

-----------------------------------------------------------------------------
(* Type correctness                                                          *)

\* A row CreateSession inserts is a session row.
LEMMA SessionRowType ==
  ASSUME NEW call \in Calls, NEW epoch \in Nat
  PROVE  SessionRow(call, epoch) \in SessionRows
BY WindowsAssumption DEF SessionRow, Calls, SessionRows, Stamp

\* What a touch leaves is a session row.
LEMMA TouchedType ==
  ASSUME NEW row \in SessionRows, NEW looked, NEW t \in Int
  PROVE  Touched(row, looked, t) \in SessionRows
<1>1. Min2(t + IdleWindow, row.absolute) \in Int
  BY WindowsAssumption DEF Min2, SessionRows
<1>2. [row EXCEPT !.seen = t, !.expires = Min2(t + IdleWindow, row.absolute)] \in SessionRows
  <2>1. \A e \in Int : [row EXCEPT !.seen = t, !.expires = e] \in SessionRows
    BY DEF SessionRows
  <2> QED BY <1>1, <2>1
<1> QED BY <1>2 DEF Touched

\* What a touch leaves of a token is a token row.
LEMMA TokenTouchedType ==
  ASSUME NEW row \in TokenRows, NEW t \in Int
  PROVE  TokenTouched(row, t) \in TokenRows
BY WindowsAssumption DEF TokenTouched, TokenRows, Stamp

\* A reconciliation leaves permission rows.
LEMMA ReconciledType ==
  ASSUME NEW binary \in Binaries, TypeOK
  PROVE  Reconciled(binary, perms) \in [Permission -> [state : {"absent", "live", "orphaned"}, stepUp : BOOLEAN]]
BY BinariesAssumption DEF TypeOK, Reconciled, Shipped

\* Seeding leaves grants of roles and permissions.
LEMMA SeededType ==
  ASSUME NEW binary \in Binaries, TypeOK
  PROVE  SeededGrants(binary, roles, grants) \subseteq Role \X Permission
BY BinariesAssumption DEF TypeOK, SeededGrants

\* An operation's budget after one of it.
LEMMA SpendType ==
  ASSUME TypeOK, NEW what \in {"boots", "logins", "mints", "requests", "edits", "ticks"}, Spend(what)
  PROVE  left' \in [{"boots", "logins", "mints", "requests", "edits", "ticks"} -> Nat]
BY DEF TypeOK, Spend

\* An empty slot is a request.
LEMMA IdleType == Idle \in Requests
BY DEF Idle, Requests, UserRows, States

\* A process that is down is a process.
LEMMA DownType == Down \in Processes
BY DEF Down, Processes

\* What a request reads at first makes it one.
LEMMA PresentType ==
  ASSUME NEW p \in Proc, NEW op \in DOMAIN Operations, NEW credential \in {"session", "pat"},
         NEW id \in Sid \cup Tid, NEW row \in SessionRows \cup TokenRows, NEW owner \in UserRows
  PROVE  [Idle EXCEPT !.phase = "verifying", !.proc = p, !.op = op, !.credential = credential,
                      !.id = id, !.row = row, !.owner = owner] \in Requests
<1>1. Idle \in Requests
  BY IdleType
<1>2. \A q \in Requests : [q EXCEPT !.phase = "verifying", !.proc = p, !.op = op, !.credential = credential,
                                     !.id = id, !.row = row, !.owner = owner] \in Requests
  BY DEF Requests
<1> QED BY <1>1, <1>2

\* The types hold at the start.
LEMMA InitType == Init => TypeOK
BY IdleType, DownType, BudgetsAssumption DEF Init, TypeOK, NoRow, UserRows, States

-----------------------------------------------------------------------------
(* The inductive invariant                                                   *)

\* One process at most is writing the file, and it is short until that process is done.
WriterIsAlone ==
  /\ secrets.state = "whole" => secrets.key \in Keys
  /\ \A p \in Proc : procs[p].phase = "writing" => secrets.state = "short" /\ procs[p].key \in Keys
  /\ \A p, q \in Proc : procs[p].phase = "writing" /\ procs[q].phase = "writing" => p = q

\* A request under way has a credential row, and rows are never deleted.
RowsExist ==
  \A b \in Tab : requests[b].phase # "idle" =>
    \/ requests[b].credential = "session" /\ requests[b].id \in Sid /\ sessions[requests[b].id] # None
    \/ requests[b].credential = "pat" /\ requests[b].id \in Tid /\ tokens[requests[b].id] # None

\* A session's idle expiry is where its last stamp puts it.
ExpiryFollowsStamp ==
  \A s \in Sid : sessions[s] # None =>
    sessions[s].expires = Min2(sessions[s].seen + IdleWindow, sessions[s].absolute)

\* No session is from the future of its user's epoch.
EpochsPast ==
  \A s \in Sid : /\ s \in ended => sessions[s] # None
                 /\ sessions[s] # None => sessions[s].epoch <= users[sessions[s].user].epoch

\* A call on its way to its transaction has no session yet.
CallsAreFresh == \A s \in Sid : calls[s] # None => sessions[s] = None

IInv == /\ TypeOK /\ OneKey /\ WriterIsAlone /\ RowsExist /\ CallsAreFresh
        /\ ExpiryFollowsStamp /\ EpochsPast /\ SignOutIsExact

\* A request that is refused, or goes on, is a request.
LEMMA RefusedType ==
  ASSUME TypeOK, NEW b \in Tab, Refused(b)
  PROVE  requests' \in [Tab -> Requests]
BY IdleType DEF Refused, TypeOK

LEMMA GoesType ==
  ASSUME TypeOK, NEW b \in Tab, NEW phase \in {"touching", "checking", "handling"}, Goes(b, phase)
  PROVE  requests' \in [Tab -> Requests]
<1>1. [requests[b] EXCEPT !.phase = phase] \in Requests
  BY DEF TypeOK, Requests
<1>2. requests' = [requests EXCEPT ![b] = [requests[b] EXCEPT !.phase = phase]]
  BY DEF Goes
<1> QED BY <1>1, <1>2 DEF TypeOK

\* Every step keeps the types.
LEMMA TypeStep == IInv /\ [Next]_vars => TypeOK'
<1> SUFFICES ASSUME TypeOK, OneKey, WriterIsAlone, RowsExist, [Next]_vars PROVE TypeOK'
  BY DEF IInv
<1> USE DEF authzVars, credVars, bootVars, webVars
<1>1. CASE Tick
  BY <1>1, SpendType DEF Tick, TypeOK
<1>2. ASSUME NEW p \in Proc, NEW binary \in Binaries, Boot(p, binary) PROVE TypeOK'
  <2>1. left' \in [{"boots", "logins", "mints", "requests", "edits", "ticks"} -> Nat]
    BY <1>2, SpendType DEF Boot
  <2>2. procs' \in [Proc -> Processes]
    <3>1. /\ [Down EXCEPT !.phase = "keyring", !.authorized = TRUE] \in Processes
          /\ [Down EXCEPT !.phase = "keyring"] \in Processes
      BY DEF Down, Processes
    <3> QED BY <1>2, <3>1 DEF Boot, TypeOK
  <2>3. /\ perms' \in [Permission -> [state : {"absent", "live", "orphaned"}, stepUp : BOOLEAN]]
        /\ grants' \subseteq Role \X Permission /\ roles' \subseteq Role
    BY <1>2, ReconciledType, SeededType, BinariesAssumption DEF Boot, TypeOK
  <2> QED BY <1>2, <2>1, <2>2, <2>3 DEF Boot, TypeOK
<1>3. ASSUME NEW p \in Proc, ReadSecrets(p) PROVE TypeOK'
  BY <1>3, DownType DEF ReadSecrets, TypeOK, Processes
<1>4. ASSUME NEW p \in Proc, OpenSecrets(p) PROVE TypeOK'
  BY <1>4, DownType DEF OpenSecrets, TypeOK, Processes, FreshKey, Keys
<1>5. ASSUME NEW p \in Proc, WriteSecrets(p) PROVE TypeOK'
  BY <1>5, DownType DEF WriteSecrets, TypeOK, Processes
<1>6. ASSUME NEW p \in Proc, Kill(p) PROVE TypeOK'
  BY <1>6, DownType, IdleType, SpendType DEF Kill, TypeOK
<1>7. CASE DeleteShortSecrets
  BY <1>7 DEF DeleteShortSecrets, TypeOK
<1>8. ASSUME NEW p \in Proc, NEW s \in Sid, NEW u \in User, NEW stepUp \in BOOLEAN,
             BeginSession(p, s, u, stepUp)
      PROVE  TypeOK'
  BY <1>8, SpendType DEF BeginSession, TypeOK, Calls
<1>9. ASSUME NEW s \in Sid, CreateSession(s) PROVE TypeOK'
  <2>1. calls[s] \in Calls /\ users[calls[s].user] \in UserRows
    BY <1>9 DEF CreateSession, TypeOK, Calls
  <2>2. sessions' \in [Sid -> SessionRows \cup {None}]
    BY <1>9, <2>1, SessionRowType DEF CreateSession, TypeOK, UserRows
  <2> QED BY <1>9, <2>2 DEF CreateSession, TypeOK
<1>10. ASSUME NEW s \in Sid, RevokeSession(s) PROVE TypeOK'
  <2>1. sessions' \in [Sid -> SessionRows \cup {None}]
    BY <1>10 DEF RevokeSession, TypeOK, SessionRows, Stamp
  <2> QED BY <1>10, <2>1, SpendType DEF RevokeSession, TypeOK
<1>11. ASSUME NEW u \in User, BumpSessionEpoch(u) PROVE TypeOK'
  BY <1>11, SpendType DEF BumpSessionEpoch, TypeOK, UserRows
<1>12. ASSUME NEW u \in User, SoftDeleteAppUser(u) PROVE TypeOK'
  BY <1>12, SpendType DEF SoftDeleteAppUser, TypeOK, UserRows
<1>13. ASSUME NEW u \in User, NEW state \in States, SetAppUserState(u, state) PROVE TypeOK'
  BY <1>13, SpendType DEF SetAppUserState, TypeOK, UserRows
<1>14. ASSUME NEW p \in Proc, NEW t \in Tid, NEW a \in Account, MintToken(p, t, a)
       PROVE  TypeOK'
  <2>1. tokens' \in [Tid -> TokenRows \cup {None}]
    <3>1. procs[p].key \in Keys
      BY <1>14 DEF MintToken, OneKey, WriterIsAlone
    <3> QED BY <1>14, <3>1, BudgetsAssumption DEF MintToken, TypeOK, TokenRows, Stamp
  <2> QED BY <1>14, <2>1, SpendType DEF MintToken, TypeOK
<1>15. ASSUME NEW t \in Tid, RevokeAPIToken(t) PROVE TypeOK'
  <2>1. tokens' \in [Tid -> TokenRows \cup {None}]
    BY <1>15 DEF RevokeAPIToken, TypeOK, TokenRows, Stamp
  <2> QED BY <1>15, <2>1, SpendType DEF RevokeAPIToken, TypeOK
<1>16. ASSUME NEW r \in Role, NEW k \in Permission, EditRole(r, k) PROVE TypeOK'
  BY <1>16, SpendType DEF EditRole, TypeOK
<1>17. ASSUME NEW b \in Tab, NEW p \in Proc, NEW op \in DOMAIN Operations, NEW s \in Sid,
              Present(b, p, op, "session", s)
       PROVE  TypeOK'
  <2>1. sessions[s] \in SessionRows /\ users[sessions[s].user] \in UserRows
    BY <1>17 DEF Present, TypeOK, SessionRows
  <2>2. requests' \in [Tab -> Requests]
    <3> DEFINE asked == [Idle EXCEPT !.phase = "verifying", !.proc = p, !.op = op, !.credential = "session",
                                     !.id = s, !.row = sessions[s], !.owner = users[sessions[s].user]]
    <3>1. asked \in Requests
      BY <2>1, PresentType
    <3>2. requests' = [requests EXCEPT ![b] = asked]
      BY <1>17 DEF Present
    <3> HIDE DEF asked
    <3> QED BY <3>1, <3>2 DEF TypeOK
  <2> QED BY <1>17, <2>2, SpendType DEF Present, TypeOK
<1>18. ASSUME NEW b \in Tab, NEW p \in Proc, NEW op \in DOMAIN Operations, NEW t \in Tid,
              Present(b, p, op, "pat", t)
       PROVE  TypeOK'
  <2>1. tokens[t] \in TokenRows
    BY <1>18 DEF Present, TypeOK
  <2>2. [state |-> AccountState[tokens[t].account], deleted |-> FALSE, epoch |-> 0] \in UserRows
    BY <2>1, BudgetsAssumption DEF TokenRows, UserRows
  <2>3. requests' \in [Tab -> Requests]
    <3> DEFINE owner == [state |-> AccountState[tokens[t].account], deleted |-> FALSE, epoch |-> 0]
               asked == [Idle EXCEPT !.phase = "verifying", !.proc = p, !.op = op, !.credential = "pat",
                                     !.id = t, !.row = tokens[t], !.owner = owner]
    <3>1. asked \in Requests
      BY <2>1, <2>2, PresentType
    <3>2. requests' = [requests EXCEPT ![b] = asked]
      BY <1>18 DEF Present
    <3> HIDE DEF asked
    <3> QED BY <3>1, <3>2 DEF TypeOK
  <2> QED BY <1>18, <2>3, SpendType DEF Present, TypeOK
<1>19. ASSUME NEW b \in Tab, Verify(b) PROVE TypeOK'
  <2>1. \A phase \in {"touching", "checking"} :
          [requests EXCEPT ![b].phase = phase, ![b].at = now] \in [Tab -> Requests]
    <3> SUFFICES ASSUME NEW phase \in {"touching", "checking"}
                 PROVE  [requests EXCEPT ![b].phase = phase, ![b].at = now] \in [Tab -> Requests]
      OBVIOUS
    <3>1. [requests[b] EXCEPT !.phase = phase] \in Requests
      BY DEF TypeOK, Requests
    <3>2. \A r \in Requests : [r EXCEPT !.at = now] \in Requests
      BY DEF TypeOK, Requests
    <3>3. [requests[b] EXCEPT !.phase = phase, !.at = now] \in Requests
      BY <3>1, <3>2
    <3>4. [requests EXCEPT ![b].phase = phase, ![b].at = now]
            = [requests EXCEPT ![b] = [requests[b] EXCEPT !.phase = phase, !.at = now]]
      BY DEF TypeOK
    <3> QED BY <3>3, <3>4 DEF TypeOK
  <2>2. \/ Refused(b)
        \/ \E phase \in {"touching", "checking"} :
             requests' = [requests EXCEPT ![b].phase = phase, ![b].at = now]
    <3> DEFINE due == TouchDue(IF requests[b].credential = "session" THEN requests[b].row.seen
                               ELSE requests[b].row.used, now)
    <3>1. \/ Refused(b)
          \/ requests' = [requests EXCEPT ![b].phase = IF due THEN "touching" ELSE "checking", ![b].at = now]
      BY <1>19, Zenon DEF Verify
    <3>2. (IF due THEN "touching" ELSE "checking") \in {"touching", "checking"}
      OBVIOUS
    <3> HIDE DEF due
    <3> QED BY <3>1, <3>2
  <2>3. requests' \in [Tab -> Requests]
    BY <2>1, <2>2, RefusedType
  <2> QED BY <1>19, <2>3 DEF Verify, TypeOK
<1>20. ASSUME NEW b \in Tab, Touch(b) PROVE TypeOK'
  <2>1. requests' \in [Tab -> Requests]
    BY <1>20, GoesType DEF Touch
  <2>2. requests[b].at \in Int
    BY DEF TypeOK, Requests
  <2>3. sessions' \in [Sid -> SessionRows \cup {None}]
    BY <1>20, <2>2, TouchedType DEF Touch, TypeOK, RowsExist
  <2>4. tokens' \in [Tid -> TokenRows \cup {None}]
    BY <1>20, <2>2, TokenTouchedType DEF Touch, TypeOK, RowsExist
  <2> QED BY <1>20, <2>1, <2>3, <2>4 DEF Touch, TypeOK
<1>21. ASSUME NEW b \in Tab, Check(b) PROVE TypeOK'
  <2>1. Goes(b, "handling") \/ Refused(b)
    BY <1>21 DEF Check
  <2>2. requests' \in [Tab -> Requests]
    BY <2>1, GoesType, RefusedType
  <2> QED BY <1>21, <2>2 DEF Check, TypeOK
<1>22. ASSUME NEW b \in Tab, GetGuild(b) PROVE TypeOK'
  <2>1. requests' \in [Tab -> Requests]
    BY <1>22, RefusedType DEF GetGuild
  <2> QED BY <1>22, <2>1 DEF GetGuild, TypeOK
<1>23. ASSUME NEW b \in Tab, NEW patch \in Patches, UpdateGuild(b, patch) PROVE TypeOK'
  <2>1. requests' \in [Tab -> Requests]
    BY <1>23, RefusedType DEF UpdateGuild
  <2> QED BY <1>23, <2>1 DEF UpdateGuild, TypeOK
<1>24. CASE UNCHANGED vars
  BY <1>24 DEF vars, TypeOK
<1> QED
  BY <1>1, <1>2, <1>3, <1>4, <1>5, <1>6, <1>7, <1>8, <1>9, <1>10, <1>11, <1>12, <1>13, <1>14, <1>15,
     <1>16, <1>17, <1>18, <1>19, <1>20, <1>21, <1>22, <1>23, <1>24 DEF Next

-----------------------------------------------------------------------------
(* One root key                                                              *)

\* Every step keeps one key and one writer.
LEMMA KeyStep == IInv /\ [Next]_vars => (OneKey /\ WriterIsAlone)'
<1> SUFFICES ASSUME TypeOK, OneKey, WriterIsAlone, RowsExist, [Next]_vars PROVE (OneKey /\ WriterIsAlone)'
  BY DEF IInv
<1> USE DEF authzVars, credVars, bootVars, webVars
<1>1. CASE UNCHANGED <<secrets, procs, tokens>>
  BY <1>1 DEF OneKey, WriterIsAlone, Serving
<1>2. ASSUME NEW p \in Proc, NEW binary \in Binaries, Boot(p, binary) PROVE (OneKey /\ WriterIsAlone)'
  <2>1. \A q \in Proc : procs'[q].phase \in {"serving", "writing"} => procs'[q] = procs[q]
    <3>1. /\ [Down EXCEPT !.phase = "keyring", !.authorized = TRUE].phase = "keyring"
          /\ [Down EXCEPT !.phase = "keyring"].phase = "keyring"
      BY DEF Down
    <3>2. CASE procs' = procs
      BY <3>2
    <3>3. CASE procs' = [procs EXCEPT ![p] = [Down EXCEPT !.phase = "keyring", !.authorized = TRUE]]
      BY <3>1, <3>3 DEF TypeOK
    <3>4. CASE procs' = [procs EXCEPT ![p] = [Down EXCEPT !.phase = "keyring"]]
      BY <3>1, <3>4 DEF TypeOK
    <3> QED BY <1>2, <3>2, <3>3, <3>4 DEF Boot
  <2> QED BY <1>2, <2>1 DEF Boot, OneKey, WriterIsAlone, Serving
<1>3. ASSUME NEW p \in Proc, ReadSecrets(p) PROVE (OneKey /\ WriterIsAlone)'
  BY <1>3 DEF ReadSecrets, Down, TypeOK, Processes, OneKey, WriterIsAlone, Serving
<1>4. ASSUME NEW p \in Proc, OpenSecrets(p) PROVE (OneKey /\ WriterIsAlone)'
  <2>1. FreshKey(p) \in Keys
    BY DEF FreshKey, Keys, TypeOK
  <2>2. CASE secrets.state = "absent"
    <3>1. \A q \in Proc : /\ ~Serving(q) /\ procs[q].phase # "writing"
                         /\ procs'[q] = IF q = p THEN [procs[p] EXCEPT !.phase = "writing", !.key = FreshKey(p)]
                                        ELSE procs[q]
      BY <1>4, <2>2 DEF OpenSecrets, MayCreate, TypeOK, OneKey, WriterIsAlone
    <3>2. procs'[p].phase = "writing" /\ procs'[p].key = FreshKey(p)
      BY <3>1 DEF TypeOK, Processes
    <3>3. secrets'.state = "short" /\ tokens' = tokens /\ \A t \in Tid : tokens[t] = None
      BY <1>4, <2>2 DEF OpenSecrets, MayCreate, OneKey
    <3> QED BY <2>1, <3>1, <3>2, <3>3 DEF OneKey, WriterIsAlone, Serving
  <2>3. CASE secrets.state # "absent"
    <3>1. \A q \in Proc : procs'[q] = IF q = p THEN Down ELSE procs[q]
      BY <1>4, <2>3 DEF OpenSecrets, MayCreate, TypeOK
    <3>2. secrets' = secrets /\ tokens' = tokens
      BY <1>4, <2>3 DEF OpenSecrets, MayCreate
    <3> QED BY <3>1, <3>2 DEF Down, OneKey, WriterIsAlone, Serving
  <2> QED BY <2>2, <2>3
<1>5. ASSUME NEW p \in Proc, WriteSecrets(p) PROVE (OneKey /\ WriterIsAlone)'
  <2>1. /\ secrets.state = "short" /\ procs[p].key \in Keys /\ tokens' = tokens
        /\ \A q \in Proc : ~Serving(q) /\ (procs[q].phase = "writing" => q = p)
        /\ \A t \in Tid : tokens[t] = None
    BY <1>5 DEF WriteSecrets, OneKey, WriterIsAlone
  <2>2. CASE /\ secrets' = [state |-> "whole", key |-> procs[p].key]
             /\ procs' = [procs EXCEPT ![p].phase = "serving"]
    <3>1. \A q \in Proc : IF q = p THEN procs'[q].phase = "serving" /\ procs'[q].key = procs[p].key
                         ELSE procs'[q] = procs[q]
      BY <2>2 DEF TypeOK, Processes
    <3> QED BY <2>1, <2>2, <3>1 DEF OneKey, WriterIsAlone, Serving
  <2>3. CASE procs' = [procs EXCEPT ![p] = Down] /\ UNCHANGED secrets
    <3>1. \A q \in Proc : procs'[q] = IF q = p THEN Down ELSE procs[q]
      BY <2>3 DEF TypeOK
    <3> QED BY <2>1, <2>3, <3>1 DEF Down, OneKey, WriterIsAlone, Serving
  <2> QED BY <1>5, <2>2, <2>3 DEF WriteSecrets
<1>6. ASSUME NEW p \in Proc, Kill(p) PROVE (OneKey /\ WriterIsAlone)'
  BY <1>6 DEF Kill, Down, TypeOK, Processes, OneKey, WriterIsAlone, Serving
<1>7. CASE DeleteShortSecrets
  BY <1>7 DEF DeleteShortSecrets, TypeOK, Processes, OneKey, WriterIsAlone, Serving
<1>8. ASSUME NEW p \in Proc, NEW t \in Tid, NEW a \in Account, MintToken(p, t, a)
      PROVE  (OneKey /\ WriterIsAlone)'
  BY <1>8 DEF MintToken, TypeOK, OneKey, WriterIsAlone, Serving
<1>9. ASSUME NEW t \in Tid, RevokeAPIToken(t) PROVE (OneKey /\ WriterIsAlone)'
  BY <1>9 DEF RevokeAPIToken, TypeOK, TokenRows, OneKey, WriterIsAlone, Serving
<1>10. ASSUME NEW b \in Tab, Touch(b) PROVE (OneKey /\ WriterIsAlone)'
  <2>1. \A t \in Tid : tokens'[t] # None => tokens[t] # None /\ tokens'[t].key = tokens[t].key
    BY <1>10, NoneAssumption DEF Touch, RowsExist, TypeOK, TokenTouched, TokenRows
  <2> QED BY <1>10, <2>1 DEF Touch, OneKey, WriterIsAlone, Serving
<1>11. ASSUME \/ Tick
              \/ \E p \in Proc, s \in Sid, u \in User, stepUp \in BOOLEAN : BeginSession(p, s, u, stepUp)
              \/ \E s \in Sid : CreateSession(s) \/ RevokeSession(s)
              \/ \E u \in User : \/ BumpSessionEpoch(u) \/ SoftDeleteAppUser(u)
                                 \/ \E state \in States : SetAppUserState(u, state)
              \/ \E r \in Role, k \in Permission : EditRole(r, k)
              \/ \E b \in Tab, p \in Proc, op \in DOMAIN Operations, s \in Sid : Present(b, p, op, "session", s)
              \/ \E b \in Tab, p \in Proc, op \in DOMAIN Operations, t \in Tid : Present(b, p, op, "pat", t)
              \/ \E b \in Tab : Verify(b) \/ Check(b) \/ GetGuild(b)
              \/ \E b \in Tab, patch \in Patches : UpdateGuild(b, patch)
       PROVE  UNCHANGED <<secrets, procs, tokens>>
  BY <1>11 DEF Tick, BeginSession, CreateSession, RevokeSession, BumpSessionEpoch, SoftDeleteAppUser,
     SetAppUserState, EditRole, Present, Verify, Check, GetGuild, UpdateGuild
<1>12. CASE UNCHANGED vars
  BY <1>1, <1>12 DEF vars
<1> QED
  BY <1>1, <1>2, <1>3, <1>4, <1>5, <1>6, <1>7, <1>8, <1>9, <1>10, <1>11, <1>12 DEF Next
-----------------------------------------------------------------------------
(* Rows, calls and epochs                                                    *)

\* Every step keeps a row under every request, and a call before every session.
LEMMA RowsStep == IInv /\ [Next]_vars => (RowsExist /\ CallsAreFresh)'
<1> SUFFICES ASSUME TypeOK, RowsExist, CallsAreFresh, [Next]_vars PROVE (RowsExist /\ CallsAreFresh)'
  BY DEF IInv
<1> USE DEF authzVars, credVars, bootVars, webVars
<1>1. ASSUME /\ \A s \in Sid : sessions[s] # None => sessions'[s] # None
             /\ \A t \in Tid : tokens[t] # None => tokens'[t] # None
             /\ \A b \in Tab : requests'[b].phase # "idle" =>
                  requests[b].phase # "idle" /\ requests'[b].credential = requests[b].credential
                                             /\ requests'[b].id = requests[b].id
      PROVE  RowsExist'
  BY <1>1 DEF RowsExist
<1>2. ASSUME NEW p \in Proc, Kill(p) PROVE (RowsExist /\ CallsAreFresh)'
  <2>1. \A b \in Tab : requests'[b] = Idle \/ requests'[b] = requests[b]
    BY <1>2 DEF Kill
  <2>2. RowsExist'
    BY <1>1, <1>2, <2>1 DEF Kill, Idle
  <2>3. CallsAreFresh'
    BY <1>2 DEF Kill, CallsAreFresh
  <2> QED BY <2>2, <2>3
<1>3. ASSUME NEW p \in Proc, NEW s \in Sid, NEW u \in User, NEW stepUp \in BOOLEAN,
             BeginSession(p, s, u, stepUp)
      PROVE  (RowsExist /\ CallsAreFresh)'
  BY <1>3 DEF BeginSession, TypeOK, RowsExist, CallsAreFresh
<1>4. ASSUME NEW s \in Sid, CreateSession(s) PROVE (RowsExist /\ CallsAreFresh)'
  <2>1. \A e \in Nat : SessionRow(calls[s], e) # None
    BY <1>4, SessionRowType, NoneAssumption DEF CreateSession, TypeOK
  <2>2. users[calls[s].user].epoch \in Nat
    BY <1>4 DEF CreateSession, TypeOK, Calls, UserRows
  <2>3. \A s2 \in Sid : sessions[s2] # None => sessions'[s2] # None
    BY <1>4, <2>1, <2>2 DEF CreateSession, TypeOK
  <2>4. RowsExist'
    BY <1>1, <1>4, <2>3 DEF CreateSession
  <2>5. CallsAreFresh'
    BY <1>4 DEF CreateSession, CallsAreFresh, TypeOK
  <2> QED BY <2>4, <2>5
<1>5. ASSUME NEW s \in Sid, RevokeSession(s) PROVE (RowsExist /\ CallsAreFresh)'
  <2>1. \A s2 \in Sid : sessions[s2] # None <=> sessions'[s2] # None
    BY <1>5, NoneAssumption DEF RevokeSession, TypeOK, SessionRows, Stamp
  <2> QED BY <1>1, <1>5, <2>1 DEF RevokeSession, CallsAreFresh
<1>6. ASSUME NEW p \in Proc, NEW t \in Tid, NEW a \in Account, MintToken(p, t, a)
      PROVE  (RowsExist /\ CallsAreFresh)'
  BY <1>1, <1>6 DEF MintToken, TypeOK, CallsAreFresh
<1>7. ASSUME NEW t \in Tid, RevokeAPIToken(t) PROVE (RowsExist /\ CallsAreFresh)'
  <2>1. \A t2 \in Tid : tokens[t2] # None => tokens'[t2] # None
    BY <1>7, NoneAssumption DEF RevokeAPIToken, TypeOK, TokenRows, Stamp
  <2> QED BY <1>1, <1>7, <2>1 DEF RevokeAPIToken, CallsAreFresh
<1>8. ASSUME NEW b \in Tab, NEW p \in Proc, NEW op \in DOMAIN Operations, NEW s \in Sid,
             Present(b, p, op, "session", s)
      PROVE  (RowsExist /\ CallsAreFresh)'
  <2>1. /\ sessions[s] # None
        /\ requests'[b].credential = "session" /\ requests'[b].id = s
        /\ \A b2 \in Tab : b2 # b => requests'[b2] = requests[b2]
    <3> DEFINE asked == [Idle EXCEPT !.phase = "verifying", !.proc = p, !.op = op, !.credential = "session",
                                     !.id = s, !.row = sessions[s], !.owner = users[sessions[s].user]]
    <3>1. asked.credential = "session" /\ asked.id = s
      BY DEF Idle
    <3>2. requests' = [requests EXCEPT ![b] = asked]
      BY <1>8 DEF Present
    <3> HIDE DEF asked
    <3> QED BY <1>8, <3>1, <3>2 DEF Present, TypeOK
  <2> QED BY <1>8, <2>1 DEF Present, RowsExist, CallsAreFresh
<1>9. ASSUME NEW b \in Tab, NEW p \in Proc, NEW op \in DOMAIN Operations, NEW t \in Tid,
             Present(b, p, op, "pat", t)
      PROVE  (RowsExist /\ CallsAreFresh)'
  <2>1. /\ tokens[t] # None
        /\ requests'[b].credential = "pat" /\ requests'[b].id = t
        /\ \A b2 \in Tab : b2 # b => requests'[b2] = requests[b2]
    <3> DEFINE asked == [Idle EXCEPT !.phase = "verifying", !.proc = p, !.op = op, !.credential = "pat",
                                     !.id = t, !.row = tokens[t],
                          !.owner = [state |-> AccountState[tokens[t].account], deleted |-> FALSE, epoch |-> 0]]
    <3>1. asked.credential = "pat" /\ asked.id = t
      BY DEF Idle
    <3>2. requests' = [requests EXCEPT ![b] = asked]
      BY <1>9 DEF Present
    <3> HIDE DEF asked
    <3> QED BY <1>9, <3>1, <3>2 DEF Present, TypeOK
  <2> QED BY <1>9, <2>1 DEF Present, RowsExist, CallsAreFresh
<1>10. ASSUME NEW b \in Tab, Touch(b) PROVE (RowsExist /\ CallsAreFresh)'
  <2>1. requests[b].at \in Int
    BY DEF TypeOK, Requests
  <2>2. \A s \in Sid : sessions[s] # None <=> sessions'[s] # None
    BY <1>10, <2>1, TouchedType, NoneAssumption DEF Touch, RowsExist, TypeOK
  <2>3. \A t \in Tid : tokens[t] # None => tokens'[t] # None
    BY <1>10, <2>1, TokenTouchedType, NoneAssumption DEF Touch, RowsExist, TypeOK
  <2>4. RowsExist'
    <3>1. \A b2 \in Tab : requests'[b2].phase # "idle" =>
            requests[b2].phase # "idle" /\ requests'[b2].credential = requests[b2].credential
                                        /\ requests'[b2].id = requests[b2].id
      BY <1>10 DEF Touch, Goes, TypeOK, Requests
    <3>2. \A s \in Sid : sessions[s] # None => sessions'[s] # None
      BY <2>2
    <3> QED BY <1>1, <2>3, <3>1, <3>2
  <2>5. CallsAreFresh'
    BY <1>10, <2>2 DEF Touch, CallsAreFresh
  <2> QED BY <2>4, <2>5
<1>11. ASSUME NEW b \in Tab, \/ Verify(b) \/ Check(b) \/ GetGuild(b)
                             \/ \E patch \in Patches : UpdateGuild(b, patch)
       PROVE  (RowsExist /\ CallsAreFresh)'
  <2>1. \/ requests' = [requests EXCEPT ![b] = Idle]
        \/ requests' = [requests EXCEPT ![b].phase = "handling"]
        \/ \E t \in Int, phase \in {"touching", "checking"} :
             requests' = [requests EXCEPT ![b].phase = phase, ![b].at = t]
    BY <1>11 DEF Verify, Check, GetGuild, UpdateGuild, Refused, Goes, TypeOK
  <2>2. requests[b].phase # "idle" /\ UNCHANGED <<sessions, tokens, calls>>
    BY <1>11 DEF Verify, Check, GetGuild, UpdateGuild
  <2>3. \A b2 \in Tab : requests'[b2].phase # "idle" =>
          requests[b2].phase # "idle" /\ requests'[b2].credential = requests[b2].credential
                                      /\ requests'[b2].id = requests[b2].id
    BY <2>1, <2>2 DEF TypeOK, Requests, Idle
  <2> QED BY <1>1, <2>2, <2>3 DEF CallsAreFresh
<1>12. ASSUME UNCHANGED <<sessions, tokens, calls, requests>> PROVE (RowsExist /\ CallsAreFresh)'
  BY <1>12 DEF RowsExist, CallsAreFresh
<1>13. ASSUME \/ Tick
              \/ \E p \in Proc : \/ \E binary \in Binaries : Boot(p, binary)
                                 \/ ReadSecrets(p) \/ OpenSecrets(p) \/ WriteSecrets(p)
              \/ DeleteShortSecrets
              \/ \E u \in User : \/ BumpSessionEpoch(u) \/ SoftDeleteAppUser(u)
                                 \/ \E state \in States : SetAppUserState(u, state)
              \/ \E r \in Role, k \in Permission : EditRole(r, k)
       PROVE  UNCHANGED <<sessions, tokens, calls, requests>>
  BY <1>13 DEF Tick, Boot, ReadSecrets, OpenSecrets, WriteSecrets, DeleteShortSecrets, BumpSessionEpoch,
     SoftDeleteAppUser, SetAppUserState, EditRole
<1>14. CASE UNCHANGED vars
  BY <1>12, <1>14 DEF vars
<1> QED
  BY <1>2, <1>3, <1>4, <1>5, <1>6, <1>7, <1>8, <1>9, <1>10, <1>11, <1>12, <1>13, <1>14 DEF Next

-----------------------------------------------------------------------------
(* Epochs and expiries                                                       *)

\* What a step may do to the sessions there are: nothing, or a revocation or a touch, which leave a
\* session's user, epoch and absolute expiry alone and keep its idle expiry where its stamp puts it.
SessionsKept ==
  \A s \in Sid :
    /\ sessions[s] # None <=> sessions'[s] # None
    /\ sessions[s] # None =>
         /\ sessions'[s].user = sessions[s].user /\ sessions'[s].epoch = sessions[s].epoch
         /\ sessions'[s].absolute = sessions[s].absolute
         /\ \/ sessions'[s].seen = sessions[s].seen /\ sessions'[s].expires = sessions[s].expires
            \/ /\ sessions'[s].seen >= sessions[s].seen
               /\ sessions'[s].expires = Min2(sessions'[s].seen + IdleWindow, sessions[s].absolute)
         /\ sessions[s].revoked # None => sessions'[s].revoked = sessions[s].revoked

\* A revocation keeps them.
LEMMA RevokeKeeps ==
  ASSUME TypeOK, NEW s \in Sid, RevokeSession(s)
  PROVE  SessionsKept
<1>1. sessions[s] \in SessionRows /\ now \in Int
  BY DEF RevokeSession, TypeOK
<1>2. [sessions[s] EXCEPT !.revoked = now] \in SessionRows
  BY <1>1 DEF SessionRows, Stamp
<1>3. \A s2 \in Sid : sessions'[s2] = IF s2 = s THEN [sessions[s] EXCEPT !.revoked = now] ELSE sessions[s2]
  BY DEF RevokeSession, TypeOK
<1>4. [sessions[s] EXCEPT !.revoked = now] # None
  BY <1>2, NoneAssumption
<1>5. /\ sessions'[s].user = sessions[s].user /\ sessions'[s].epoch = sessions[s].epoch
      /\ sessions'[s].absolute = sessions[s].absolute /\ sessions'[s].seen = sessions[s].seen
      /\ sessions'[s].expires = sessions[s].expires
  BY <1>1, <1>3 DEF SessionRows
<1>6. sessions[s] # None /\ sessions[s].revoked = None
  BY DEF RevokeSession
<1> QED BY <1>3, <1>4, <1>5, <1>6 DEF SessionsKept

\* A touch keeps them.
LEMMA TouchKeeps ==
  ASSUME TypeOK, RowsExist, NEW b \in Tab, Touch(b)
  PROVE  SessionsKept
<1> DEFINE id == requests[b].id
           at == requests[b].at
<1>1. at \in Int
  BY DEF TypeOK, Requests
<1>2. CASE UNCHANGED sessions
  BY <1>2 DEF SessionsKept
<1>3. CASE /\ requests[b].credential = "session"
           /\ sessions' = [sessions EXCEPT ![id] = Touched(@, requests[b].row, at)]
  <2>1. id \in Sid /\ sessions[id] # None /\ sessions[id] \in SessionRows
    BY <1>3 DEF Touch, RowsExist, TypeOK
  <2>2. \A s \in Sid : sessions'[s] = IF s = id THEN Touched(sessions[id], requests[b].row, at) ELSE sessions[s]
    BY <1>3, <2>1 DEF TypeOK
  <2>3. sessions'[id] # None
    BY <1>1, <2>1, <2>2, TouchedType, NoneAssumption
  <2>4. CASE sessions[id].seen < at - TouchInterval
    <3> DEFINE expires == Min2(at + IdleWindow, sessions[id].absolute)
    <3>1. sessions'[id] = [sessions[id] EXCEPT !.seen = at, !.expires = expires]
      BY <2>1, <2>2, <2>4 DEF Touched
    <3>2. /\ sessions'[id].user = sessions[id].user /\ sessions'[id].epoch = sessions[id].epoch
          /\ sessions'[id].absolute = sessions[id].absolute /\ sessions'[id].seen = at
          /\ sessions'[id].expires = expires /\ sessions'[id].revoked = sessions[id].revoked
      <4> HIDE DEF expires
      <4> QED BY <2>1, <3>1 DEF SessionRows
    <3>3. at >= sessions[id].seen
      BY <1>1, <2>1, <2>4, WindowsAssumption DEF SessionRows
    <3>4. sessions'[id].seen >= sessions[id].seen
      BY <3>2, <3>3
    <3>5. sessions'[id].expires = Min2(sessions'[id].seen + IdleWindow, sessions[id].absolute)
      BY <3>2
    <3> HIDE DEF expires, id, at
    <3> QED BY <2>1, <2>2, <2>3, <3>2, <3>4, <3>5 DEF SessionsKept
  <2>5. CASE ~(sessions[id].seen < at - TouchInterval)
    <3>1. \A s \in Sid : sessions'[s] = sessions[s]
      BY <2>2, <2>5 DEF Touched
    <3> QED BY <3>1 DEF SessionsKept
  <2> QED BY <2>4, <2>5
<1> QED BY <1>2, <1>3 DEF Touch

\* What leaves the epochs as they are leaves what is said of them.
LEMMA EpochsKept ==
  ASSUME TypeOK, ExpiryFollowsStamp, EpochsPast, SignOutIsExact,
         SessionsKept, ended' = ended, \A u \in User : users'[u].epoch = users[u].epoch
  PROVE  (ExpiryFollowsStamp /\ EpochsPast /\ SignOutIsExact)'
<1>1. \A s \in Sid : sessions[s] # None => sessions[s].user \in User
  BY DEF TypeOK, SessionRows
<1>2. ExpiryFollowsStamp'
  BY DEF SessionsKept, ExpiryFollowsStamp
<1>3. EpochsPast'
  BY <1>1 DEF SessionsKept, EpochsPast
<1>4. SignOutIsExact'
  BY <1>1 DEF SessionsKept, SignOutIsExact
<1> QED BY <1>2, <1>3, <1>4

\* Every step keeps sessions, expiries and epochs together.
LEMMA EpochStep == IInv /\ [Next]_vars => (ExpiryFollowsStamp /\ EpochsPast /\ SignOutIsExact)'
<1> DEFINE Good == ExpiryFollowsStamp /\ EpochsPast /\ SignOutIsExact
<1> SUFFICES ASSUME TypeOK, RowsExist, CallsAreFresh, ExpiryFollowsStamp, EpochsPast, SignOutIsExact,
                    [Next]_vars
             PROVE  Good'
  BY DEF IInv
<1> USE DEF authzVars, credVars, bootVars, webVars
<1>1. ASSUME UNCHANGED <<sessions, users, ended>> PROVE Good'
  BY <1>1 DEF ExpiryFollowsStamp, EpochsPast, SignOutIsExact
<1>2. ASSUME NEW s \in Sid, CreateSession(s) PROVE Good'
  <2>1. calls[s] \in Calls /\ sessions[s] = None /\ s \notin ended
    BY <1>2 DEF CreateSession, TypeOK, CallsAreFresh, EpochsPast
  <2> DEFINE epoch == users[calls[s].user].epoch
  <2>2. epoch \in Nat /\ users' = users /\ ended' = ended
    BY <1>2, <2>1 DEF CreateSession, TypeOK, Calls, UserRows
  <2>3. CASE sessions' = sessions
    BY <1>1, <2>2, <2>3
  <2>4. CASE sessions' = [sessions EXCEPT ![s] = SessionRow(calls[s], epoch)]
    <3>1. \A s2 \in Sid : sessions'[s2] = IF s2 = s THEN SessionRow(calls[s], epoch) ELSE sessions[s2]
      BY <2>4 DEF TypeOK
    <3>2. SessionRow(calls[s], epoch).epoch = epoch /\ SessionRow(calls[s], epoch).user = calls[s].user
      BY DEF SessionRow
    <3>3. SessionRow(calls[s], epoch) # None
      BY <2>1, <2>2, SessionRowType, NoneAssumption
    <3>4. SessionRow(calls[s], epoch).expires
            = Min2(SessionRow(calls[s], epoch).seen + IdleWindow, SessionRow(calls[s], epoch).absolute)
      BY <2>1, WindowsAssumption DEF SessionRow, Min2, Calls
    <3> HIDE DEF epoch
    <3>5. ExpiryFollowsStamp'
      BY <3>1, <3>4 DEF ExpiryFollowsStamp
    <3>6. EpochsPast'
      BY <2>1, <2>2, <3>1, <3>2, <3>3 DEF EpochsPast, epoch
    <3>7. SignOutIsExact'
      BY <2>1, <2>2, <3>1, <3>2 DEF SignOutIsExact, epoch
    <3> QED BY <3>5, <3>6, <3>7
  <2> QED BY <1>2, <2>3, <2>4 DEF CreateSession
<1>3. ASSUME NEW s \in Sid, RevokeSession(s) PROVE Good'
  BY <1>3, RevokeKeeps, EpochsKept DEF RevokeSession
<1>4. ASSUME NEW u \in User, BumpSessionEpoch(u) PROVE Good'
  <2>1. /\ sessions' = sessions
        /\ ended' = ended \cup {s \in Sid : sessions[s] # None /\ sessions[s].user = u}
        /\ \A u2 \in User : users'[u2].epoch = IF u2 = u THEN users[u].epoch + 1 ELSE users[u2].epoch
        /\ \A u2 \in User : users[u2].epoch \in Nat
    BY <1>4 DEF BumpSessionEpoch, TypeOK, UserRows
  <2>2. \A s \in Sid : sessions[s] # None => sessions[s].user \in User /\ sessions[s].epoch \in Nat
    BY DEF TypeOK, SessionRows
  <2>3. ExpiryFollowsStamp'
    BY <2>1 DEF ExpiryFollowsStamp
  <2>4. EpochsPast'
    BY <2>1, <2>2 DEF EpochsPast
  <2>5. SignOutIsExact'
    BY <2>1, <2>2 DEF SignOutIsExact, EpochsPast
  <2> QED BY <2>3, <2>4, <2>5
<1>5. ASSUME NEW u \in User, \/ SoftDeleteAppUser(u)
                             \/ \E state \in States : SetAppUserState(u, state)
      PROVE  Good'
  <2>1. /\ sessions' = sessions /\ ended' = ended
        /\ \A u2 \in User : users'[u2].epoch = users[u2].epoch
    BY <1>5 DEF SoftDeleteAppUser, SetAppUserState, TypeOK, UserRows
  <2>2. SessionsKept
    BY <2>1 DEF SessionsKept
  <2> QED BY <2>1, <2>2, EpochsKept
<1>6. ASSUME NEW b \in Tab, Touch(b) PROVE Good'
  BY <1>6, TouchKeeps, EpochsKept DEF Touch
<1>7. ASSUME \/ Tick
             \/ \E p \in Proc : \/ \E binary \in Binaries : Boot(p, binary)
                                \/ ReadSecrets(p) \/ OpenSecrets(p) \/ WriteSecrets(p) \/ Kill(p)
             \/ DeleteShortSecrets
             \/ \E p \in Proc, s \in Sid, u \in User, stepUp \in BOOLEAN : BeginSession(p, s, u, stepUp)
             \/ \E p \in Proc, t \in Tid, a \in Account : MintToken(p, t, a)
             \/ \E t \in Tid : RevokeAPIToken(t)
             \/ \E r \in Role, k \in Permission : EditRole(r, k)
             \/ \E b \in Tab, p \in Proc, op \in DOMAIN Operations, s \in Sid : Present(b, p, op, "session", s)
             \/ \E b \in Tab, p \in Proc, op \in DOMAIN Operations, t \in Tid : Present(b, p, op, "pat", t)
             \/ \E b \in Tab : Verify(b) \/ Check(b) \/ GetGuild(b)
             \/ \E b \in Tab, patch \in Patches : UpdateGuild(b, patch)
      PROVE  UNCHANGED <<sessions, users, ended>>
  BY <1>7 DEF Tick, Boot, ReadSecrets, OpenSecrets, WriteSecrets, Kill, DeleteShortSecrets, BeginSession,
     MintToken, RevokeAPIToken, EditRole, Present, Verify, Check, GetGuild, UpdateGuild
<1>8. CASE UNCHANGED vars
  BY <1>1, <1>8 DEF vars
<1> HIDE DEF Good
<1> QED
  BY <1>1, <1>2, <1>3, <1>4, <1>5, <1>6, <1>7, <1>8 DEF Next

-----------------------------------------------------------------------------
(* The theorems                                                              *)

\* The initial states satisfy the inductive invariant.
LEMMA InvInit == Init => IInv
<1> SUFFICES ASSUME Init PROVE IInv
  OBVIOUS
<1>1. TypeOK
  BY InitType
<1>2. OneKey /\ WriterIsAlone
  BY DEF Init, OneKey, WriterIsAlone, Serving, Down
<1>3. RowsExist
  BY DEF Init, RowsExist, Idle
<1>4. CallsAreFresh /\ ExpiryFollowsStamp /\ EpochsPast /\ SignOutIsExact
  BY DEF Init, CallsAreFresh, ExpiryFollowsStamp, EpochsPast, SignOutIsExact
<1> QED BY <1>1, <1>2, <1>3, <1>4 DEF IInv

\* In every reachable state the inductive invariant holds.
LEMMA InvAlways == Spec => []IInv
<1>1. IInv /\ [Next]_vars => IInv'
  BY TypeStep, KeyStep, RowsStep, EpochStep DEF IInv
<1> QED BY InvInit, <1>1, PTL DEF Spec

\* The state of boots, sessions, tokens and requests always has its type.
THEOREM AccessTypes == Spec => []TypeOK
<1>1. IInv => TypeOK
  BY DEF IInv
<1> QED BY InvAlways, <1>1, PTL

\* LoadOrCreateKeyring: every serving process and every token ever minted derive from the one key in
\* secrets.json, however many first boots race and wherever one dies.
THEOREM OneRootKey == Spec => []OneKey
<1>1. IInv => OneKey
  BY DEF IInv
<1> QED BY InvAlways, <1>1, PTL

\* BumpSessionEpoch and CreateSession: signing out everywhere ends the sessions that were open when it
\* committed, and no other.
THEOREM SignOutExact == Spec => []SignOutIsExact
<1>1. IInv => SignOutIsExact
  BY DEF IInv
<1> QED BY InvAlways, <1>1, PTL

\* touchSession and touchToken: no touch, decided on however old a row, undoes a revocation or moves a
\* stamp or an expiry backwards.
THEOREM TouchUndoesNothing == Spec => TouchNeverUndoes
<1> DEFINE Kept ==
      /\ \A s \in Sid : sessions[s] # None =>
           /\ sessions[s].revoked # None => sessions'[s].revoked = sessions[s].revoked
           /\ sessions'[s].epoch = sessions[s].epoch /\ sessions'[s].absolute = sessions[s].absolute
           /\ sessions'[s].seen >= sessions[s].seen /\ sessions'[s].expires >= sessions[s].expires
           /\ sessions'[s].expires <= sessions[s].absolute
      /\ \A t \in Tid : tokens[t] # None =>
           /\ tokens[t].revoked # None => tokens'[t].revoked = tokens[t].revoked
           /\ tokens[t].used # None => tokens'[t].used >= tokens[t].used
<1>1. IInv /\ [Next]_vars => [Kept]_vars
  <2> SUFFICES ASSUME IInv, Next PROVE Kept
    OBVIOUS
  <2> USE DEF IInv, authzVars, credVars, bootVars, webVars
  <2>1. SessionsKept /\ TypeOK' =>
          \A s \in Sid : sessions[s] # None =>
           /\ sessions[s].revoked # None => sessions'[s].revoked = sessions[s].revoked
           /\ sessions'[s].epoch = sessions[s].epoch /\ sessions'[s].absolute = sessions[s].absolute
           /\ sessions'[s].seen >= sessions[s].seen /\ sessions'[s].expires >= sessions[s].expires
           /\ sessions'[s].expires <= sessions[s].absolute
    <3> SUFFICES ASSUME SessionsKept, TypeOK', NEW s \in Sid, sessions[s] # None
                 PROVE  /\ sessions[s].revoked # None => sessions'[s].revoked = sessions[s].revoked
                        /\ sessions'[s].epoch = sessions[s].epoch /\ sessions'[s].absolute = sessions[s].absolute
                        /\ sessions'[s].seen >= sessions[s].seen /\ sessions'[s].expires >= sessions[s].expires
                        /\ sessions'[s].expires <= sessions[s].absolute
      OBVIOUS
    <3>1. sessions[s] \in SessionRows /\ sessions'[s] \in SessionRows
      BY DEF TypeOK, SessionsKept
    <3>2. \A r \in SessionRows : r.seen \in Int /\ r.expires \in Int /\ r.absolute \in Int
      BY DEF SessionRows
    <3>3. sessions[s].expires = Min2(sessions[s].seen + IdleWindow, sessions[s].absolute)
      BY DEF ExpiryFollowsStamp
    <3>4. \A a, b, c \in Int : a >= b => Min2(a + IdleWindow, c) >= Min2(b + IdleWindow, c)
      BY WindowsAssumption DEF Min2
    <3>5. \A a, c \in Int : Min2(a + IdleWindow, c) <= c
      BY WindowsAssumption DEF Min2
    <3>6. CASE sessions'[s].seen = sessions[s].seen /\ sessions'[s].expires = sessions[s].expires
      BY <3>1, <3>2, <3>3, <3>5, <3>6 DEF SessionsKept
    <3>7. CASE /\ sessions'[s].seen >= sessions[s].seen
               /\ sessions'[s].expires = Min2(sessions'[s].seen + IdleWindow, sessions[s].absolute)
      BY <3>1, <3>2, <3>3, <3>4, <3>5, <3>7 DEF SessionsKept
    <3> QED BY <3>6, <3>7 DEF SessionsKept
  <2>2. SessionsKept \/ \E s \in Sid : CreateSession(s)
    <3>1. UNCHANGED sessions => SessionsKept
      BY DEF SessionsKept
    <3>2. (\E s \in Sid : RevokeSession(s)) \/ (\E b \in Tab : Touch(b)) => SessionsKept
      BY RevokeKeeps, TouchKeeps
    <3>3. \/ UNCHANGED sessions
          \/ \E s \in Sid : CreateSession(s) \/ RevokeSession(s)
          \/ \E b \in Tab : Touch(b)
      BY DEF Next, Tick, Boot, ReadSecrets, OpenSecrets, WriteSecrets, Kill, DeleteShortSecrets, BeginSession,
         BumpSessionEpoch, SoftDeleteAppUser, SetAppUserState, MintToken, RevokeAPIToken, EditRole, Present,
         Verify, Check, GetGuild, UpdateGuild
    <3> QED BY <3>1, <3>2, <3>3
  <2>3. ASSUME NEW s \in Sid, CreateSession(s)
        PROVE  \A s2 \in Sid : sessions[s2] # None => sessions'[s2] = sessions[s2]
    BY <2>3 DEF CreateSession, CallsAreFresh, TypeOK
  <2>4. \A s \in Sid : sessions[s] # None =>
          /\ sessions[s].revoked # None => sessions'[s].revoked = sessions[s].revoked
          /\ sessions'[s].epoch = sessions[s].epoch /\ sessions'[s].absolute = sessions[s].absolute
          /\ sessions'[s].seen >= sessions[s].seen /\ sessions'[s].expires >= sessions[s].expires
          /\ sessions'[s].expires <= sessions[s].absolute
    <3>1. TypeOK'
      BY TypeStep
    <3>2. CASE SessionsKept
      BY <2>1, <3>1, <3>2
    <3>3. CASE \E s \in Sid : CreateSession(s)
      <4>1. \A s \in Sid : sessions[s] # None =>
              /\ sessions[s].seen \in Int /\ sessions[s].expires \in Int /\ sessions[s].absolute \in Int
              /\ sessions[s].expires <= sessions[s].absolute
        BY WindowsAssumption DEF TypeOK, SessionRows, ExpiryFollowsStamp, Min2
      <4> QED BY <2>3, <3>3, <4>1
    <3> QED BY <2>2, <3>2, <3>3
  <2>5. \A t \in Tid : tokens[t] # None =>
          /\ tokens[t].revoked # None => tokens'[t].revoked = tokens[t].revoked
          /\ tokens[t].used # None => tokens'[t].used >= tokens[t].used
    <3> SUFFICES ASSUME NEW t \in Tid, tokens[t] # None
                 PROVE  /\ tokens[t].revoked # None => tokens'[t].revoked = tokens[t].revoked
                        /\ tokens[t].used # None => tokens'[t].used >= tokens[t].used
      OBVIOUS
    <3>1. tokens[t] \in TokenRows /\ (tokens[t].used # None => tokens[t].used \in Int)
      BY DEF TypeOK, TokenRows, Stamp
    <3>2. CASE tokens'[t] = tokens[t]
      BY <3>1, <3>2
    <3>3. CASE \E t2 \in Tid : RevokeAPIToken(t2)
      BY <3>1, <3>3 DEF RevokeAPIToken, TypeOK, TokenRows
    <3>4. CASE \E b \in Tab : Touch(b)
      <4>1. PICK b \in Tab : Touch(b)
        BY <3>4
      <4>2. requests[b].at \in Int
        BY DEF TypeOK, Requests
      <4>3. tokens'[t] = tokens[t] \/ tokens'[t] = TokenTouched(tokens[t], requests[b].at)
        BY <4>1 DEF Touch, TypeOK
      <4>4. TokenTouched(tokens[t], requests[b].at).revoked = tokens[t].revoked
        BY <3>1 DEF TokenTouched, TokenRows
      <4>5. tokens[t].used # None => TokenTouched(tokens[t], requests[b].at).used >= tokens[t].used
        BY <3>1, <4>2, WindowsAssumption DEF TokenTouched, TokenRows
      <4> QED BY <3>1, <4>3, <4>4, <4>5
    <3>5. \/ UNCHANGED tokens
          \/ \E p \in Proc, t2 \in Tid, a \in Account : MintToken(p, t2, a)
          \/ \E t2 \in Tid : RevokeAPIToken(t2)
          \/ \E b \in Tab : Touch(b)
      BY DEF Next, Tick, Boot, ReadSecrets, OpenSecrets, WriteSecrets, Kill, DeleteShortSecrets, BeginSession,
         CreateSession, RevokeSession, BumpSessionEpoch, SoftDeleteAppUser, SetAppUserState, EditRole, Present,
         Verify, Check, GetGuild, UpdateGuild
    <3>6. CASE \E p \in Proc, t2 \in Tid, a \in Account : MintToken(p, t2, a)
      BY <3>2, <3>6 DEF MintToken, TypeOK
    <3> QED BY <3>2, <3>3, <3>4, <3>5, <3>6
  <2> QED BY <2>4, <2>5
<1> QED BY InvAlways, <1>1, PTL DEF Spec, TouchNeverUndoes

\* Seeding gives grants to no role the guild already has.
LEMMA SeedingSparesRoles ==
  ASSUME NEW binary \in Binaries, NEW r \in roles, NEW k
  PROVE  <<r, k>> \in SeededGrants(binary, roles, grants) <=> <<r, k>> \in grants
BY DEF SeededGrants

\* Reconcile, on whatever binary: a boot edits no grant of a role the guild has and loses no permission
\* row; only the role editor does the first, and nothing the second.
THEOREM GrantsStandAlways == Spec => GrantsStand
<1> DEFINE Stands ==
      /\ \A r \in roles : GrantsOf(r)' # GrantsOf(r) => \E k \in Permission : EditRole(r, k)
      /\ \A k \in Permission : perms[k].state # "absent" => perms'[k].state # "absent"
<1>1. IInv /\ [Next]_vars => [Stands]_vars
  <2> SUFFICES ASSUME IInv, Next PROVE Stands
    OBVIOUS
  <2> USE DEF IInv, authzVars, credVars, bootVars, webVars
  <2>1. CASE UNCHANGED <<perms, grants>>
    BY <2>1 DEF GrantsOf
  <2>2. ASSUME NEW p \in Proc, NEW binary \in Binaries, Boot(p, binary) PROVE Stands
    <3>1. CASE UNCHANGED authzVars
      BY <2>1, <3>1
    <3>2. CASE perms' = Reconciled(binary, perms) /\ grants' = SeededGrants(binary, roles, grants)
      <4>1. \A r \in roles : GrantsOf(r)' = GrantsOf(r)
        BY <3>2, SeedingSparesRoles DEF GrantsOf
      <4>2. \A k \in Permission : perms[k].state # "absent" => perms'[k].state # "absent"
        BY <3>2 DEF Reconciled, TypeOK
      <4> QED BY <4>1, <4>2
    <3> QED BY <2>2, <3>1, <3>2 DEF Boot
  <2>3. ASSUME NEW r \in Role, NEW k \in Permission, EditRole(r, k) PROVE Stands
    <3>1. \A q \in roles : q # r => GrantsOf(q)' = GrantsOf(q)
      BY <2>3 DEF EditRole, GrantsOf
    <3>2. perms' = perms
      BY <2>3 DEF EditRole
    <3> QED BY <2>3, <3>1, <3>2
  <2>4. \/ UNCHANGED <<perms, grants>>
        \/ \E p \in Proc, binary \in Binaries : Boot(p, binary)
        \/ \E r \in Role, k \in Permission : EditRole(r, k)
    BY DEF Next, Tick, ReadSecrets, OpenSecrets, WriteSecrets, Kill, DeleteShortSecrets, BeginSession,
       CreateSession, RevokeSession, BumpSessionEpoch, SoftDeleteAppUser, SetAppUserState, MintToken,
       RevokeAPIToken, Present, Verify, Touch, Check, GetGuild, UpdateGuild
  <2> HIDE DEF Stands
  <2> QED BY <2>1, <2>2, <2>3, <2>4
<1> QED BY InvAlways, <1>1, PTL DEF Spec, GrantsStand

\* guild.Service.Update: whoever changes the guild row was last shown exactly the row that is replaced.
THEOREM NoUpdateIsLost == Spec => NoLostUpdate
<1> DEFINE Shown == guild' # guild =>
             \E b \in Tab : /\ requests[b].phase = "handling" /\ requests'[b] = Idle
                            /\ seen[b] = guild
<1>1. IInv /\ [Next]_vars => [Shown]_vars
  <2> SUFFICES ASSUME IInv, Next, guild' # guild
               PROVE  \E b \in Tab : /\ requests[b].phase = "handling" /\ requests'[b] = Idle
                                     /\ seen[b] = guild
    OBVIOUS
  <2>1. PICK b \in Tab, patch \in Patches : UpdateGuild(b, patch)
    BY DEF Next, Tick, Boot, ReadSecrets, OpenSecrets, WriteSecrets, Kill, DeleteShortSecrets, BeginSession,
       CreateSession, RevokeSession, BumpSessionEpoch, SoftDeleteAppUser, SetAppUserState, MintToken,
       RevokeAPIToken, EditRole, Present, Verify, Touch, Check, GetGuild, webVars
  <2>2. requests[b].phase = "handling" /\ requests'[b] = Idle
    BY <2>1 DEF UpdateGuild, Refused, IInv, TypeOK
  <2>3. seen[b] = guild
    BY <2>1 DEF UpdateGuild, ETagOf
  <2> QED BY <2>2, <2>3
<1> QED BY InvAlways, <1>1, PTL DEF Spec, NoLostUpdate
=============================================================================
