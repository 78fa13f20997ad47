------------------------------ MODULE EarnRules ------------------------------
(***************************************************************************)
(* Attendance: tick, attendance_weighted, and the planners fixed_price and *)
(* cap keep beside their own.  An attendance event is [attendees, amount]: *)
(* a sequence of shares [account, weight, role] and the value of the tick, *)
(* None for the configured one.                                            *)
(***************************************************************************)
EXTENDS Planning

CONSTANT MaxMultiplierBp             \* maxRoleMultiplierBp, ten whole shares

Worth(default, ev) == IF ev.amount = None THEN default ELSE ev.amount

-----------------------------------------------------------------------------
(* tick                                                                      *)

\* tickConfig as validated: [award, multiplier, roles, floor], roles a function from the
\* listed roles to their multipliers
TickConfigValid(cfg) ==
  /\ cfg.award > 0
  /\ cfg.multiplier \in 0..MaxMultiplierBp
  /\ \A role \in DOMAIN cfg.roles : role # None /\ cfg.roles[role] \in 0..MaxMultiplierBp

MultiplierFor(cfg, role) == IF role \in DOMAIN cfg.roles THEN cfg.roles[role] ELSE cfg.multiplier

TickEarns(cfg, amount, share) ==
  amount * share.weight \in Cp /\ Scalable(amount * share.weight, MultiplierFor(cfg, share.role))
TickEarned(cfg, amount, share) == Scaled(amount * share.weight, MultiplierFor(cfg, share.role))

TickAttendance(rule, ev) ==
  LET shares  == SortByAccount(ev.attendees)
      amount  == Worth(rule.cfg.award, ev)
      credits == NonZero([i \in DOMAIN shares |->
                            Entry(shares[i].account, TickEarned(rule.cfg, amount, shares[i]))])
  IN  IF /\ TickConfigValid(rule.cfg)
         /\ amount > 0 /\ CheckedShares(ev.attendees)
         /\ \A i \in DOMAIN shares : TickEarns(rule.cfg, amount, shares[i])
         /\ credits # <<>>
      THEN Propose(rule, "attendance", None, None, FundedByBank(credits))
      ELSE NoPlan

\* What tick answers; every other question is ErrUnsupported.
TickAnswers == {"attendance", "adjustment", "reversal"}

-----------------------------------------------------------------------------
(* attendance_weighted: one pot, split by how much of the raid each attended *)

WeightedConfigValid(cfg) == cfg.pot > 0

\* checkAttendanceWeights: somebody attended, and the weights add up
AttendanceWeightsOk(shares) == SummableWeights(shares) /\ Total(Weights(shares)) > 0

WeightedAttendance(rule, ev) ==
  LET shares == SortByAccount(ev.attendees)
      pot    == Worth(rule.cfg.pot, ev)
  IN  IF /\ WeightedConfigValid(rule.cfg)
         /\ shares # <<>> /\ pot > 0
         /\ CheckedShares(ev.attendees) /\ NoSystemAccounts(shares) /\ AttendanceWeightsOk(shares)
      THEN Propose(rule, "attendance", None, None,
                   <<Entry(Bank, -pot)>> \o Allocate(pot, shares, Bank))
      ELSE NoPlan

WeightedAnswers == {"attendance", "adjustment", "reversal"}

-----------------------------------------------------------------------------
(* fixed_price: a flat tick, and a haircut of its own                        *)

ProceedsKnown(proceeds) == proceeds \in {"guild_bank", "attendees"}
SoloPolicyKnown(policy) == policy \in {"guild_bank", "write_off"}

\* validateSpendTerms, shared by every spend rule that routes proceeds
SpendTermsValid(cfg) == ProceedsKnown(cfg.proceeds) /\ SoloPolicyKnown(cfg.solo)

FixedPriceConfigValid(cfg) ==
  SpendTermsValid(cfg) /\ cfg.default >= 0 /\ cfg.award > 0 /\ cfg.decay \in 0..WholeBp

FixedPriceAttendance(rule, ev) ==
  LET shares  == SortByAccount(ev.attendees)
      amount  == Worth(rule.cfg.award, ev)
      credits == NonZero([i \in DOMAIN shares |->
                            Entry(shares[i].account, amount * shares[i].weight)])
  IN  IF /\ FixedPriceConfigValid(rule.cfg)
         /\ amount > 0 /\ CheckedShares(ev.attendees)
         /\ \A i \in DOMAIN shares : amount * shares[i].weight \in Cp
         /\ credits # <<>>
      THEN Propose(rule, "attendance", None, None, FundedByBank(credits))
      ELSE NoPlan

FixedPriceDecay(rule, log, run, roster) ==
  LET debits == MovesOf([a \in Targets(run, roster) |->
                  -DecayAmount(Greatest(Balance(log, a, run.asOf), 0), rule.cfg.decay)])
  IN  IF FixedPriceConfigValid(rule.cfg) /\ rule.cfg.decay > 0 /\ RunOk(run) /\ debits # <<>>
      THEN Propose(rule, "decay", run.period, rule.cfg.floor, PaidToBank(debits))
      ELSE NoPlan

FixedPriceAnswers == {"attendance", "award", "adjustment", "run", "reversal"}

-----------------------------------------------------------------------------
(* cap, when it is asked to earn                                             *)

CapConfigValid(cfg) ==
  /\ cfg.award > 0 /\ cfg.hard >= 0 /\ cfg.soft >= 0 /\ cfg.over \in 0..WholeBp
  /\ cfg.hard > 0 \/ cfg.soft > 0
  /\ cfg.hard > 0 => cfg.soft <= cfg.hard /\ cfg.floor <= cfg.hard
  /\ cfg.over > 0 => cfg.soft > 0

\* earnable: full up to the soft cap, reduced above it, never past the hard cap
AboveSoftCap(cfg, balance, gross) ==
  LET room == Greatest(cfg.soft - balance, 0)
  IN  IF cfg.soft > 0 /\ gross > room THEN room + Scaled(gross - room, cfg.over) ELSE gross
Earnable(cfg, balance, gross) ==
  LET net == AboveSoftCap(cfg, balance, gross)
  IN  IF cfg.hard > 0 THEN Least(net, Greatest(cfg.hard - balance, 0)) ELSE net

EarnableInRange(cfg, balance, gross) ==
  /\ cfg.soft > 0 =>
       /\ cfg.soft - balance \in Cp
       /\ LET room == Greatest(cfg.soft - balance, 0)
          IN  gross > room => /\ Scalable(gross - room, cfg.over)
                              /\ room + Scaled(gross - room, cfg.over) \in Cp
  /\ cfg.hard > 0 => cfg.hard - balance \in Cp

CapAttendance(rule, log, ev) ==
  LET shares   == SortByAccount(ev.attendees)
      gross    == [i \in DOMAIN shares |-> Worth(rule.cfg.award, ev) * shares[i].weight]
      balance  == [i \in DOMAIN shares |-> Balance(log, shares[i].account, Len(log))]
      credits  == NonZero([i \in DOMAIN shares |->
                    Entry(shares[i].account, Earnable(rule.cfg, balance[i], gross[i]))])
  IN  IF /\ CapConfigValid(rule.cfg)
         /\ Worth(rule.cfg.award, ev) > 0 /\ CheckedShares(ev.attendees)
         /\ \A i \in DOMAIN shares : gross[i] \in Cp /\ EarnableInRange(rule.cfg, balance[i], gross[i])
         /\ credits # <<>>
      THEN Propose(rule, "attendance", None, None, FundedByBank(credits))
      ELSE NoPlan

CapAnswers == {"attendance", "adjustment", "run", "reversal"}
=============================================================================
