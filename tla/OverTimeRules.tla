---------------------------- MODULE OverTimeRules ----------------------------
(***************************************************************************)
(* What happens with nobody online: decay_percent, decay_window, the cap   *)
(* run and the start_points grant.  A run is [period, asOf, accounts, days,*)
(* from, to]: its idempotency label, the position every balance is read at,*)
(* an explicit account list (empty for the roster) and, for decay_window,  *)
(* the slice (from, to] of the log that has aged out of a window of days.  *)
(***************************************************************************)
EXTENDS EarnRules

CONSTANT MaxWindowDays

-----------------------------------------------------------------------------
(* decay_percent                                                             *)

DecayPercentConfigValid(cfg) ==
  /\ cfg.decay \in 1..WholeBp
  /\ cfg.negative \in {"skip", "toward_zero", "preserve_sign"}
  /\ cfg.negative = "preserve_sign" => cfg.floor < 0

\* decayable: the signed move of one balance, clamped at the floor
Decayable(cfg, balance) ==
  CASE balance > 0 /\ balance > cfg.floor ->
         -Least(DecayAmount(balance, cfg.decay), balance - cfg.floor)
    [] balance > 0 /\ balance <= cfg.floor -> 0
    [] balance = 0 -> 0
    [] balance < 0 /\ cfg.negative = "skip" -> 0
    [] balance < 0 /\ cfg.negative = "toward_zero" -> DecayAmount(-balance, cfg.decay)
    [] balance < 0 /\ cfg.negative = "preserve_sign" ->
         -Least(DecayAmount(-balance, cfg.decay), Greatest(balance - cfg.floor, 0))

DecayableInRange(cfg, balance) ==
  /\ balance > 0 => balance - cfg.floor \in Cp
  /\ balance < 0 /\ cfg.negative # "skip" => -balance \in Cp

\* Every balance is read at the pool head instead of the run's position.
DecayPercentRun_AtHead(rule, log, run, roster) ==
  LET moves == MovesOf([a \in Targets(run, roster) |-> Decayable(rule.cfg, Balance(log, a, Len(log)))])
  IN  Propose(rule, "decay", run.period, rule.cfg.floor, PaidToBank(moves))

DecayPercentRun(rule, log, run, roster) ==
  LET balance == [a \in Targets(run, roster) |-> Balance(log, a, run.asOf)]
      moves   == MovesOf([a \in DOMAIN balance |-> Decayable(rule.cfg, balance[a])])
  IN  IF /\ DecayPercentConfigValid(rule.cfg) /\ RunOk(run)
         /\ \A a \in DOMAIN balance : DecayableInRange(rule.cfg, balance[a])
         /\ moves # <<>>
      THEN Propose(rule, "decay", run.period, rule.cfg.floor, PaidToBank(moves))
      ELSE NoPlan

DecayPercentAnswers == {"run", "adjustment", "reversal"}

-----------------------------------------------------------------------------
(* decay_window                                                              *)

DecayWindowConfigValid(cfg) == cfg.days \in 1..MaxWindowDays

\* checkWindow
WindowOk(cfg, run) ==
  /\ run.days = cfg.days
  /\ run.from >= 0 /\ run.to >= 0
  /\ run.from <= run.to
  /\ run.to <= run.asOf

\* A run without the clamp.
Expired_Unclamped(cfg, log, run, a) == Greatest(EarnedBetween(log, a, run.from, run.to), 0)

\* expired: what the slice earned, clamped to what is still held above the floor
Expired(cfg, log, run, a) ==
  Least(Greatest(EarnedBetween(log, a, run.from, run.to), 0),
        Greatest(Balance(log, a, run.asOf) - cfg.floor, 0))

DecayWindowRun(rule, log, run, roster) ==
  LET who   == Targets(run, roster)
      moves == MovesOf([a \in who |-> -Expired(rule.cfg, log, run, a)])
  IN  IF /\ DecayWindowConfigValid(rule.cfg) /\ WindowOk(rule.cfg, run) /\ RunOk(run)
         /\ \A a \in who : EarnedBetween(log, a, run.from, run.to) > 0 =>
              Balance(log, a, run.asOf) - rule.cfg.floor \in Cp
         /\ moves # <<>>
      THEN Propose(rule, "decay", run.period, rule.cfg.floor, PaidToBank(moves))
      ELSE NoPlan

DecayWindowAnswers == {"run", "adjustment", "reversal"}

-----------------------------------------------------------------------------
(* cap, on its cadence                                                       *)

CapRun(rule, log, run, roster) ==
  LET moves == MovesOf([a \in Targets(run, roster) |->
                 -Greatest(Balance(log, a, run.asOf) - rule.cfg.hard, 0)])
  IN  IF CapConfigValid(rule.cfg) /\ rule.cfg.hard > 0 /\ RunOk(run) /\ moves # <<>>
      THEN Propose(rule, "cap", run.period, rule.cfg.floor, PaidToBank(moves))
      ELSE NoPlan

-----------------------------------------------------------------------------
(* start_points                                                              *)

StartPointsConfigValid(cfg) == cfg.grant >= 0

\* Eligible by the sum.
Eligible_ZeroBalance(log, run, a) == Balance(log, a, run.asOf) = 0

\* Eligible: no entry of any batch the run can see.  A balance of zero is not eligibility.
Eligible(log, run, a) == ~HasHistory(log, a, run.asOf)

StartPointsRun(rule, log, run, roster) ==
  LET grants == MovesOf([a \in {b \in Targets(run, roster) : Eligible(log, run, b)} |-> rule.cfg.grant])
  IN  IF StartPointsConfigValid(rule.cfg) /\ rule.cfg.grant > 0 /\ RunOk(run) /\ grants # <<>>
      THEN Propose(rule, "start_points", run.period, None, FundedByBank(grants))
      ELSE NoPlan

StartPointsAnswers == {"run", "adjustment", "reversal"}
=============================================================================
