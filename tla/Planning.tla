------------------------------ MODULE Planning ------------------------------
(***************************************************************************)
(* What every point strategy of src/internal/strategy is built from: the   *)
(* facade a planner reads the ledger through (strategy.Ctx), the events it *)
(* plans, and the helpers of common.go and proposal.go.                    *)
(*                                                                         *)
(* A rule is a pair [id, cfg]: a strategy and the configuration the pool   *)
(* gives it.  A log is the sequence of a pool's committed batches, so its  *)
(* length is HeadSeq; every strategy modelled keeps one balance kind, dkp, *)
(* so an entry is [account, amount].  A planner that returns an error      *)
(* returns NoPlan here.                                                    *)
(***************************************************************************)
EXTENDS Allocator, Admission

CONSTANTS
  Bank, WriteOff,     \* the guild_bank and write_off system accounts
  WholeBp             \* basisPointsWhole, 10000 in the code

SystemAccounts == {Bank, WriteOff, Residue}
Entry(a, x) == [account |-> a, amount |-> x]

-----------------------------------------------------------------------------
(* strategy.Ctx: the positional reads.                                       *)

Moved(batch, a) ==
  Total([i \in DOMAIN batch.entries |->
           IF batch.entries[i].account = a THEN batch.entries[i].amount ELSE 0])

Balance(log, a, asOf) == Total([n \in 1..asOf |-> Moved(log[n], a)])

HasHistory(log, a, asOf) ==
  \E n \in 1..asOf : \E i \in DOMAIN log[n].entries : log[n].entries[i].account = a

\* Credits only: an expiry is a debit and can never be part of a later slice.
EarnedIn(batch, a) ==
  Total([i \in DOMAIN batch.entries |->
           IF batch.entries[i].account = a /\ batch.entries[i].amount > 0
           THEN batch.entries[i].amount ELSE 0])
EarnedBetween(log, a, from, to) ==
  Total([n \in 1..(to - from) |-> EarnedIn(log[from + n], a)])

-----------------------------------------------------------------------------
(* proposal.go: a proposed batch, and its negation.                          *)

NoPlan == [kind |-> "none", strategy |-> None, cfg |-> None, period |-> None,
           reverses |-> None, floor |-> None, entries |-> <<>>]

\* proposeZeroSum: every planner refuses an empty batch and a counterpart that would wrap, and
\* this one a batch whose entries do not sum to exactly zero.  floor is the declared NonNegative bound, None when undeclared.
Propose(rule, kind, period, floor, entries) ==
  IF /\ entries # <<>> /\ \A i \in DOMAIN entries : entries[i].amount \in Cp
     /\ RunsInRange(Amounts(entries)) /\ Total(Amounts(entries)) = 0
  THEN [kind |-> kind, strategy |-> rule.id, cfg |-> rule.cfg, period |-> period,
        reverses |-> None, floor |-> floor, entries |-> entries]
  ELSE NoPlan

\* BatchProposal.Negated
Negated(entries) == [i \in DOMAIN entries |-> Entry(entries[i].account, -entries[i].amount)]

\* Keeps the floor the original declared.
ReversePlan_KeepsFloor(id, log, n) ==
  [kind |-> "reversal", strategy |-> id, cfg |-> log[n].cfg, period |-> None,
   reverses |-> n, floor |-> log[n].floor, entries |-> Negated(log[n].entries)]

\* reversePlan: the negation of batch n of the log, restamped, and without the floor the
\* original may have declared.
ReversePlan(id, log, n) ==
  LET b == log[n]
  IN  IF b.strategy = id /\ b.entries # <<>> /\ (\A i \in DOMAIN b.entries : -b.entries[i].amount \in Cp)
      THEN [kind |-> "reversal", strategy |-> id, cfg |-> b.cfg, period |-> None,
            reverses |-> n, floor |-> None, entries |-> Negated(b.entries)]
      ELSE NoPlan

-----------------------------------------------------------------------------
(* common.go: checks and arithmetic.                                         *)

Distinct(seq) == \A i, j \in DOMAIN seq : seq[i].account = seq[j].account => i = j
CheckedShares(shares) ==
  Distinct(shares) /\ \A i \in DOMAIN shares : shares[i].account # None /\ shares[i].weight >= 0
NoSystemAccounts(shares) == \A i \in DOMAIN shares : shares[i].account \notin SystemAccounts
BuyerOk(a) == a \notin SystemAccounts \cup {None}

\* decayAmount: a 128-bit product, so it cannot overflow; rounded toward zero
DecayAmount(balance, bp) == (balance * bp) \div WholeBp

\* scaleByBasisPoints multiplies in an int64: a product outside it is refused
Scalable(amount, bp) == amount >= 0 /\ bp >= 0 /\ amount * bp \in Cp
Scaled(amount, bp) == (amount * bp) \div WholeBp

Least(x, y) == IF x < y THEN x ELSE y
Greatest(x, y) == IF x > y THEN x ELSE y

\* resolvePrice: the price on the award, else the item's, else the configured default
ResolvedPrice(default, ev) ==
  CASE ev.price # None                         -> ev.price
    [] ev.price = None /\ ev.itemPrice # None  -> ev.itemPrice
    [] OTHER                                   -> default

\* adjustmentProposal: an account, an amount and an optional counterparty
AdjustmentPlan(rule, ev) ==
  LET other == IF ev.counterparty = None THEN Bank ELSE ev.counterparty
  IN  IF ev.account # None /\ ev.amount # 0 /\ other # ev.account /\ -ev.amount \in Cp
      THEN Propose(rule, "adjustment", None, rule.cfg.floor,
                   <<Entry(ev.account, ev.amount), Entry(other, -ev.amount)>>)
      ELSE NoPlan

\* cadenceTargets: the run's own list or the roster, system accounts left out by every
\* planner; a run without a period, or naming an account twice, is refused.
RunOk(run) ==
  run.period # None /\ Distinct([i \in DOMAIN run.accounts |-> [account |-> run.accounts[i]]])
Targets(run, roster) ==
  (IF run.accounts = <<>> THEN roster ELSE Range(run.accounts)) \ SystemAccounts

\* A target the run does not move has an entry of zero.
MovesOf_Zeros(amount) ==
  LET who == InOrder(DOMAIN amount) IN [k \in DOMAIN who |-> Entry(who[k], amount[who[k]])]

\* The loop of every run: targets in id order (sortedAccounts), each moved by its amount, zeros
\* dropped.
MovesOf(amount) ==
  LET who == InOrder({a \in DOMAIN amount : amount[a] # 0})
  IN  [k \in DOMAIN who |-> Entry(who[k], amount[who[k]])]

\* The bank stands on the other side of every attendance tick, grant and over-time run; it has
\* no entry in a run that nets to zero.
FundedByBank(credits) == <<Entry(Bank, -Total(Amounts(credits)))>> \o credits
PaidToBank(moves) ==
  LET paid == -Total(Amounts(moves))
  IN  IF paid = 0 THEN moves ELSE Append(moves, Entry(Bank, paid))
=============================================================================
