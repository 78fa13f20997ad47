--------------------------- MODULE PoolProperties ---------------------------
(***************************************************************************)
(* What a guild relies on its points to do, whatever rules the pool runs.  *)
(***************************************************************************)
EXTENDS Pool

Members == Founders \cup Newcomers
HeadSeq == Len(log)
Holding(a) == Balance(log, a, HeadSeq)

\* What a proposal may call itself.  With a period it is the idempotency key of a run, never nil.
KindsOfPlan == {"attendance", "award", "adjustment", "decay", "cap", "start_points", "reversal"}
ASSUME KeyAssumption == None \notin KindsOfPlan \X Int

\* Every proposal, committed or waiting, moves something with every entry, in a representable
\* amount, between accounts that exist or will: the shape ledger.Commit asks for.
ProposalOk(p) ==
  /\ \A i \in DOMAIN p.entries : /\ p.entries[i].amount \in Cp \ {0}
                                 /\ p.entries[i].account \in Members \cup SystemAccounts
  /\ p.reverses \in {None} \cup 1..HeadSeq
  /\ p.kind \in KindsOfPlan
TypeOK ==
  /\ HeadSeq \in 1..MaxBatches /\ Cardinality(plans) <= MaxPlans
  /\ \A n \in 1..HeadSeq : ProposalOk(log[n])
  /\ \A p \in plans : ProposalOk(p)
  /\ Founders \subseteq roster /\ roster \subseteq Members
  /\ auction.parties \subseteq roster /\ Len(auction.bids) <= MaxBids

-----------------------------------------------------------------------------
(* The log.                                                                  *)

\* A member is in debt only because a reversal took points back from them, or because a rule
\* whose floor is below zero did: no stale plan, double sale, auction win, expiry or trim does
\* it, however long it waited between PlanAward, PlanDecay or PlanAdjustment and Commit.
DebtNeedsAReversal ==
  \A a \in Members : Holding(a) < 0 =>
    \E n \in 1..HeadSeq :
      /\ Moved(log[n], a) < 0
      /\ log[n].kind = "reversal" \/ (log[n].floor # None /\ log[n].floor < 0)

\* Nobody p moves stands so near the limit of an int64 that the points of p could reach it.
RoomFor(p) ==
  LET size == Total([i \in DOMAIN p.entries |-> Magnitude(p.entries[i].amount)])
  IN  \A i \in DOMAIN p.entries :
        LET held == Holding(p.entries[i].account) IN held - size \in Cp /\ held + size \in Cp

\* Rules.PlanReversal and checkNonNegative together never leave a mistake unfixable: every batch
\* not yet reversed can be reversed now, whatever was spent since and whatever rules are in force.
EveryBatchCanBeReversed ==
  \A n \in 1..HeadSeq : ~IsReversed(log, n) =>
    LET p == PlanReversal(rules, log, n) IN p # NoPlan /\ CommitAdmits(log, roster, p)

\* A batch stands unless a standing batch reverses it: the count of reversals above it is even.
Standing[n \in 1..MaxBatches] ==
  n > HeadSeq \/ ~\E m \in (n + 1)..HeadSeq : log[m].reverses = n /\ Standing[m]

\* Reversing restores exactly: a balance is the sum of the batches that stand, so of two plans to
\* reverse one batch, or reversals of reversals, no points are left over or taken twice.
StandingsAreWhatStands ==
  \A a \in Members \cup SystemAccounts :
    Holding(a) = Total([n \in 1..HeadSeq |->
                   IF log[n].kind # "reversal" /\ Standing[n] THEN Moved(log[n], a) ELSE 0])

\* A sale whose buyer can pay it down to the floor is never refused: somebody else's debt, left by
\* a reversal, does not stop a batch that only credits them (checkNonNegative, #194).
AffordableSalesCommit ==
  \A ev \in Sales :
    LET p == AwardPlan(rules.spend, ev)
    IN  /\ p # NoPlan
        /\ \A i \in DOMAIN p.entries : p.entries[i].account \in roster \cup SystemAccounts
        /\ \A a \in roster : Net(p, a) < 0 => Holding(a) + Net(p, a) >= p.floor
        => CommitAdmits(log, roster, p)

\* A proposal as strategy.BatchProposal hands it to ledger.Commit: one balance kind, SumZero and,
\* if the planner declared one, NonNegative; a run's idempotency key is its kind and its period.
InKind(entries) ==
  [i \in DOMAIN entries |->
     [account |-> entries[i].account, kind |-> "dkp", amount |-> entries[i].amount]]
KeyOf(p) == IF p.period = None THEN None ELSE <<p.kind, p.period>>
Declares(p) ==
  {[rule |-> "SumZero", scope |-> "dkp", floor |-> None]}
  \cup {[rule |-> "NonNegative", scope |-> "dkp", floor |-> f] : f \in {p.floor} \ {None}}
RequestOf(p) ==
  [kind |-> p.kind, key |-> KeyOf(p), ref |-> None, reverses |-> p.reverses,
   entries |-> InKind(p.entries), rules |-> Declares(p)]
History ==
  [n \in 1..HeadSeq |-> [id |-> n, key |-> KeyOf(log[n]), ref |-> None,
                         reverses |-> log[n].reverses, entries |-> InKind(log[n].entries)]]

\* What the pool takes ledger.Commit to decide of a waiting proposal is what Ledger is shown to
\* decide of the request it becomes: the reads at the head, the links, the keys and the floors.
CommitsAsTheLedger ==
  \A p \in plans :
    CommitAdmits(log, roster, p)
      <=> Admits(History, roster \cup SystemAccounts, Members, RequestOf(p))

-----------------------------------------------------------------------------
(* The over-time rules.                                                      *)

\* The run the scheduler would open now, its slice beginning where the last one ended.
NextRun ==
  [period |-> MaxRuns + 1, asOf |-> HeadSeq, accounts |-> <<>>, from |-> run.spec.to, to |-> HeadSeq,
   days |-> IF rules.overTime.id = "decay_window" THEN rules.overTime.cfg.days ELSE 0]

\* A run planned at the head is never refused: one member who spent what was to expire, or who is
\* below the floor already, does not cost everybody else their expiry, trim or forgiveness.
FreshRunsCommit ==
  rules.overTime # None =>
    LET p == RunPlan(rules.overTime, log, NextRun, roster)
    IN  p # NoPlan => CommitAdmits(log, roster, p)

\* Planning a run again, after other batches committed and other members joined, gives the batch
\* it gave the first time: the reads of PlanDecay are at the run's position, not at the head.
\* start_points reads the roster of the day and is left out.
RetriedRunIsTheSame ==
  run # NoRun /\ run.rule.id # "start_points" =>
    RunPlan(run.rule, log, run.spec, roster) = run.plan

\* What decay_window has taken from a member never exceeds what the log up to the end of its last
\* slice credited them: no credit expires twice, over retried, reordered and reversed runs.
CreditsExpireOnce ==
  \A a \in Members :
    Total([n \in 1..HeadSeq |-> IF log[n].strategy = "decay_window" /\ log[n].kind = "decay"
                             THEN -Moved(log[n], a) ELSE 0])
      <= EarnedBetween(log, a, 0, Least(run.spec.to, HeadSeq))

\* start_points grants to nobody who already had history when the run was planned, and to nobody
\* twice, however balances and the roster moved meanwhile.
GrantedOnce ==
  \A a \in Members :
    Cardinality({n \in 1..HeadSeq : log[n].kind = "start_points" /\ Moved(log[n], a) > 0}) <= 1

-----------------------------------------------------------------------------
(* Splits.                                                                   *)

CreditOf(p, a) == Total([i \in DOMAIN p.entries |->
  IF p.entries[i].account = a /\ p.entries[i].amount > 0 THEN p.entries[i].amount ELSE 0])
DebitOf(p, a) == Total([i \in DOMAIN p.entries |->
  IF p.entries[i].account = a /\ p.entries[i].amount < 0 THEN -p.entries[i].amount ELSE 0])

SplitsProceeds(rule) ==
  rule.id = "zero_sum" \/ (rule.id # "loot_council" /\ rule.cfg.proceeds = "attendees")
Taking(rule, ev) ==
  IF rule.id = "zero_sum" /\ rule.cfg.winner = "excluded"
  THEN Kept(ev.shares, {i \in DOMAIN ev.shares : ev.shares[i].account # ev.buyer})
  ELSE ev.shares

\* ledger.Allocate, wherever a sale is split over a raid: nobody is credited a centipoint or more
\* off their exact share of what the buyer is debited, and of two rounded differently the one
\* rounded up had no smaller remainder.  The order the event lists its shares in changes nothing.
SplitIsFair ==
  \A ev \in Sales :
    LET p       == AwardPlan(rules.spend, ev)
        turned  == AwardPlan(rules.spend, [ev EXCEPT !.shares = Reverse(ev.shares)])
        taking  == Taking(rules.spend, ev)
        sum     == Total(Weights(taking))
        Exact(i) == DebitOf(p, ev.buyer) * taking[i].weight
        Got(i)  == sum * CreditOf(p, taking[i].account)
    IN  /\ turned.entries = p.entries
        /\ p # NoPlan /\ SplitsProceeds(rules.spend) /\ sum > 0 =>
             /\ \A i \in DOMAIN taking : Got(i) - Exact(i) \in (1 - sum)..(sum - 1)
             /\ \A i, j \in DOMAIN taking :
                  Got(i) > Exact(i) /\ Got(j) <= Exact(j) => Exact(i) % sum >= Exact(j) % sum

-----------------------------------------------------------------------------
(* Auctions.  The settlement of the bids as they stand, were it called now.  *)

Bidding == auction.phase = "open" /\ Can(rules.spend, "settle")
Outcome(draws) == Resolution(auction, log, draws)
Permuted(bids, f) == [i \in DOMAIN bids |-> bids[f[i]]]

\* Two callers that hand SettleAuction the same bids in different orders settle identically
\* (rankBids, sortedEntrants), tie and price included.
SettlementIgnoresArrival ==
  Bidding =>
    \A f \in Bijection(DOMAIN auction.bids, DOMAIN auction.bids) : \A draws \in Draws :
      SettleAuction(rules.spend, log, auction, Permuted(auction.bids, f), draws) = Outcome(draws)

\* A bid on a higher rung of the ladder beats any amount, share or roll below it.
StandingRungs(min) ==
  {TierRank(auction.bids[i]) : i \in {j \in DOMAIN auction.bids : auction.bids[j].amount >= min}}
HigherRungWins ==
  Bidding /\ rules.spend.id \in {"auction_open", "auction_sealed", "roll"} =>
    \A draws \in Draws :
      LET r   == Outcome(draws)
          min == IF rules.spend.id = "roll" THEN 0 ELSE SessionMinimum(auction, rules.spend.cfg.minBid)
      IN  \A a \in ({r.winner} \ {None}) \cup r.tie : \E i \in DOMAIN auction.bids :
            /\ auction.bids[i].account = a /\ auction.bids[i].amount >= min
            /\ \A rank \in StandingRungs(min) : TierRank(auction.bids[i]) >= rank

\* In an auction the winner pays between the session's minimum and their own highest bid, no less
\* than anybody else on their rung bid, and in a second-price one no more than an increment over
\* the best of them: never a price set by the winner's own earlier bid (settlePrice).
Rung(account, draws) == {i \in DOMAIN auction.bids :
  /\ auction.bids[i].amount >= SessionMinimum(auction, rules.spend.cfg.minBid)
  /\ \A k \in StandingRungs(SessionMinimum(auction, rules.spend.cfg.minBid)) :
       TierRank(auction.bids[i]) >= k}
WinnerPaysTheRunnerUp ==
  Bidding /\ rules.spend.id = "auction_sealed" =>
    \A draws \in Draws : LET r == Outcome(draws) IN r.winner # None =>
      LET rung  == Rung(r.winner, draws)
          own   == {auction.bids[i].amount : i \in {j \in rung : auction.bids[j].account = r.winner}}
          rival == {auction.bids[i].amount : i \in {j \in rung : auction.bids[j].account # r.winner}}
          least == SessionMinimum(auction, rules.spend.cfg.minBid)
      IN  /\ r.price >= least /\ \E x \in own : r.price <= x
          /\ \A x \in rival : r.price >= x
          /\ rules.spend.cfg.pay = "second_price" =>
               \/ r.price = least
               \/ \E x \in rival : r.price <= x + rules.spend.cfg.increment

\* A sealed auction's tie is between at least two people; it awards nobody and rolls nothing, and a
\* bidder who placed the same number twice is not tied with themselves (tiedAccounts).
TiesAreBetweenPeople ==
  Bidding =>
    \A draws \in Draws : LET r == Outcome(draws) IN
      r.tie # {} => /\ Cardinality(r.tie) >= 2 /\ r.tie \subseteq auction.parties
                    /\ r.winner = None /\ ~r.rolled

\* The round a tie asks for ends: nobody outside it can win, it can only tie higher, and it never
\* awards below what everybody already offered (Tie.MinRebidCp, sessionMinimum).  A roll, should the
\* rules become one meanwhile, costs what it costs: its entries name no amount.
RebidBeatsTheTie ==
  Bidding /\ auction.tieAt # None /\ rules.spend.id # "roll" =>
    \A draws \in Draws : LET r == Outcome(draws) IN
      /\ r.tieAt # None => r.tieAt > auction.tieAt
      /\ r.winner # None => r.price > auction.tieAt

\* A commit while the bids are open, a decay or another award, changes nobody's share and so no
\* settlement: relative_bid reads the balances frozen when the session opened.
SettlementIsFrozen ==
  [][Bidding /\ UNCHANGED <<auction, rules>> =>
       \A draws \in Draws : Resolution(auction, log', draws) = Outcome(draws)]_vars
=============================================================================
