---------------------------- MODULE Credentials ----------------------------
(***************************************************************************)
(* The rows behind a credential (src/internal/auth): what a session and a   *)
(* token are born with, when the resolver accepts them, and what the        *)
(* throttled touch writes.  Secrets are abstracted to the identity of their *)
(* row; a token's hash to the root key it was derived from.                *)
(***************************************************************************)
EXTENDS Integers

CONSTANTS
  None,
  IdleWindow,       \* SessionIdleWindow: slides on use
  AbsoluteWindow,   \* SessionAbsoluteWindow: does not
  TouchInterval     \* how stale last_seen_at must be to be written again

ASSUME WindowsAssumption ==
  /\ IdleWindow \in Nat /\ AbsoluteWindow \in Nat /\ TouchInterval \in Nat
  /\ IdleWindow <= AbsoluteWindow

Min2(a, b) == IF a <= b THEN a ELSE b

\* The row an INSERT of CreateSession that forgot the user's epoch would leave.
SessionRow_EpochZero(call, epoch) ==
  [user |-> call.user, epoch |-> 0, seen |-> call.at, expires |-> call.at + IdleWindow,
   absolute |-> call.at + AbsoluteWindow, revoked |-> None,
   steppedUp |-> IF call.stepUp THEN call.at ELSE None]

\* Both windows run from the clock CreateSession read before its transaction.
SessionRow(call, epoch) ==
  [user |-> call.user, epoch |-> epoch, seen |-> call.at, expires |-> call.at + IdleWindow,
   absolute |-> call.at + AbsoluteWindow, revoked |-> None,
   steppedUp |-> IF call.stepUp THEN call.at ELSE None]

MayAct(user) == ~user.deleted /\ user.state = "active"

\* resolveSession's switch
SessionAccepted(row, user, t) ==
  /\ row.revoked = None
  /\ t < row.expires /\ t < row.absolute
  /\ row.epoch = user.epoch
  /\ MayAct(user)

\* resolveToken: the hash under this process's pepper first, then what the row says
TokenAccepted(row, key, owner, t) ==
  /\ row.key = key
  /\ row.revoked = None
  /\ row.expires # None => t < row.expires
  /\ MayAct(owner)

\* The caller's throttle, read from the row it resolved
TouchDue(stamp, t) == stamp # None => stamp <= t - TouchInterval

\* TouchSession writing whatever its caller last saw, stamps and all.
Touched_WholeRow(row, looked, t) ==
  [looked EXCEPT !.seen = t, !.expires = Min2(t + IdleWindow, looked.absolute)]

\* TouchSession without its guard
Touched_Unguarded(row, looked, t) ==
  [row EXCEPT !.seen = t, !.expires = Min2(t + IdleWindow, row.absolute)]

\* TouchSession: guarded by the stamp it finds, never past the absolute expiry
Touched(row, looked, t) ==
  IF row.seen < t - TouchInterval
  THEN [row EXCEPT !.seen = t, !.expires = Min2(t + IdleWindow, row.absolute)]
  ELSE row

\* TouchAPIToken
TokenTouched(row, t) ==
  IF row.used = None \/ row.used < t - TouchInterval THEN [row EXCEPT !.used = t] ELSE row

SessionPrincipal(row) ==
  [kind |-> "user", id |-> row.user, credential |-> "session", scopes |-> {}, steppedUp |-> row.steppedUp]
TokenPrincipal(row) ==
  [kind |-> "service_account", id |-> row.account, credential |-> "pat", scopes |-> row.scopes,
   steppedUp |-> None]
=============================================================================
