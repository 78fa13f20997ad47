------------------------------- MODULE Bidding -------------------------------
(***************************************************************************)
(* Bids, tiers and settlements: tier.go, the ranking half of spend.go, and *)
(* ValidateBid and SettleAuction of auction_open, auction_sealed,          *)
(* relative_bid and roll.                                                  *)
(*                                                                         *)
(* A bid is [account, amount, at, tier, sealed]; a session [seqAtOpen, min]*)
(* and whatever its holder adds; draws is the seeded Rng, the numbers its  *)
(* successive calls return.  A resolution is [winner, price, tie, tieAt,   *)
(* rolled]: winner and tieAt None when there is none, rolled when a seed   *)
(* was consumed.                                                           *)
(***************************************************************************)
EXTENDS SpendRules

NoResolution == [winner |-> None, price |-> 0, tie |-> {}, tieAt |-> None, rolled |-> FALSE]
IntN(draws, k, n) == draws[k] % n

-----------------------------------------------------------------------------
(* tier.go                                                                   *)

Ladder == <<"main", "main_offspec", "alt", "anyone">>
TierOf(bid) == IF bid.tier = None THEN "anyone" ELSE bid.tier
TierKnown(bid) == TierOf(bid) \in Range(Ladder)
\* tierRank: higher is nearer the top of the ladder
TierRank(bid) == Len(Ladder) + 1 - (CHOOSE i \in DOMAIN Ladder : Ladder[i] = TierOf(bid))

\* Amounts first, the ladder afterwards.
WinningRung_Everybody(bids) == bids

\* resolveTier: the bids on the highest rung anybody bid on
WinningRung(bids) ==
  Kept(bids, {i \in DOMAIN bids : \A j \in DOMAIN bids : TierRank(bids[j]) <= TierRank(bids[i])})

-----------------------------------------------------------------------------
(* spend.go: ranking                                                         *)

\* The roll first, the ladder between equals.
Beats_RankFirst(x, y) ==
  \/ x.rank > y.rank
  \/ x.rank = y.rank /\ TierRank(x.bid) > TierRank(y.bid)
  \/ x.rank = y.rank /\ TierRank(x.bid) = TierRank(y.bid) /\ x.bid.account < y.bid.account

\* rankBids' order over [bid, rank]: ladder, rank, the earlier bid, the smaller account id
Beats(x, y) ==
  \/ TierRank(x.bid) > TierRank(y.bid)
  \/ /\ TierRank(x.bid) = TierRank(y.bid)
     /\ \/ x.rank > y.rank
        \/ x.rank = y.rank /\ x.bid.at < y.bid.at
        \/ x.rank = y.rank /\ x.bid.at = y.bid.at /\ x.bid.account < y.bid.account

\* rankBids, a stable sort
RankBids(ranked) ==
  LET Before(i) == {j \in DOMAIN ranked : \/ Beats(ranked[j], ranked[i])
                                          \/ ~Beats(ranked[i], ranked[j]) /\ j < i}
  IN  Arranged(ranked, [i \in DOMAIN ranked |-> Before(i)])
ByAmount(bids) == RankBids([i \in DOMAIN bids |-> [bid |-> bids[i], rank |-> bids[i].amount]])

\* tiedOnRank and tiedAtTop: the prefix no step above separates, without and with the time
TiedOnRank(ordered) ==
  Kept(ordered, {i \in DOMAIN ordered : /\ TierRank(ordered[i].bid) = TierRank(ordered[1].bid)
                                        /\ ordered[i].rank = ordered[1].rank})
TiedAtTop(ordered) ==
  LET tied == TiedOnRank(ordered)
  IN  Kept(tied, {i \in DOMAIN tied : tied[i].bid.at = ordered[1].bid.at})

\* tiedAccounts over bidPerAccount: who, not how many rows
TiedAccounts(ordered) == {TiedOnRank(ordered)[i].bid.account : i \in DOMAIN TiedOnRank(ordered)}

\* Counts rows: a bidder who placed the same amount twice is tied with themselves.
Contested_Rows(ordered) == Len(TiedOnRank(ordered)) > 1
Contested(ordered) == Cardinality(TiedAccounts(ordered)) > 1

\* bidPerAccount: the first row each account has
BidPerAccount(ordered) ==
  Kept(ordered, {i \in DOMAIN ordered :
                   \A j \in 1..(i - 1) : ordered[j].bid.account # ordered[i].bid.account})

\* settleHighest: a seeded pick, consumed only when two accounts are still equal
SettleHighest(ordered, draws) ==
  LET candidates == BidPerAccount(TiedAtTop(ordered))
      contested  == Len(candidates) > 1
      won        == IF contested THEN candidates[1 + IntN(draws, 1, Len(candidates))] ELSE candidates[1]
  IN  [NoResolution EXCEPT !.winner = won.bid.account, !.price = won.bid.amount, !.rolled = contested]

EligibleBids(bids, min) ==
  Kept(bids, {i \in DOMAIN bids : bids[i].amount >= min /\ bids[i].amount > 0})
SessionMinimum(session, configured) == Greatest(session.min, configured)

-----------------------------------------------------------------------------
(* ValidateBid                                                               *)

\* checkBidIdentity (the bid and the account validated are one record here)
BidIdentityOk(bid) == bid.account \notin SystemAccounts \cup {None} /\ TierKnown(bid)

\* checkBidAffordable: against the balance at the head, with no hold on other open bids
Spendable(log, a) == Balance(log, a, Len(log))
Affordable(log, bid) == bid.amount <= Spendable(log, bid.account)

AuctionOpenBidOk(cfg, log, bid) ==
  /\ ~bid.sealed
  /\ bid.amount >= cfg.minBid
  /\ (bid.amount - cfg.minBid) % cfg.increment = 0
  /\ Affordable(log, bid)

AuctionSealedBidOk(cfg, log, bid) == bid.sealed /\ bid.amount >= cfg.minBid /\ Affordable(log, bid)

\* shareBasisPoints: which part of a balance an amount is, for a real part of a real balance
IsShare(amount, balance) == balance > 0 /\ amount >= 0 /\ amount <= balance
ShareBp(amount, balance) == (amount * WholeBp) \div balance
ShareOk(cfg, amount, balance) ==
  IsShare(amount, balance) /\ ShareBp(amount, balance) \in cfg.minBp..cfg.maxBp

RelativeBidOk(cfg, log, bid) ==
  bid.amount > 0 /\ ShareOk(cfg, bid.amount, Spendable(log, bid.account))

RollEntryOk(cfg, log, bid) ==
  /\ bid.amount = 0 /\ ~bid.sealed
  /\ cfg.cost > 0 => cfg.cost <= Spendable(log, bid.account)

ValidateBid(rule, log, bid) ==
  /\ BidIdentityOk(bid)
  /\ \/ rule.id = "auction_open" /\ AuctionOpenConfigValid(rule.cfg) /\ AuctionOpenBidOk(rule.cfg, log, bid)
     \/ rule.id = "auction_sealed" /\ AuctionSealedConfigValid(rule.cfg) /\ AuctionSealedBidOk(rule.cfg, log, bid)
     \/ rule.id = "relative_bid" /\ RelativeBidConfigValid(rule.cfg) /\ RelativeBidOk(rule.cfg, log, bid)
     \/ rule.id = "roll" /\ RollConfigValid(rule.cfg) /\ RollEntryOk(rule.cfg, log, bid)

-----------------------------------------------------------------------------
(* SettleAuction                                                             *)

SettleOpen(cfg, session, bids, draws) ==
  LET eligible == EligibleBids(bids, SessionMinimum(session, cfg.minBid))
  IN  IF eligible = <<>> THEN NoResolution
      ELSE SettleHighest(ByAmount(WinningRung(eligible)), draws)

\* The next row of the order, which may be the winner's own earlier bid.
SecondPrice_NextRow(cfg, ordered, minimum) ==
  IF Len(ordered) = 1 THEN minimum
  ELSE Least(ordered[2].bid.amount + cfg.increment, ordered[1].bid.amount)

\* settlePrice: the first bid of another account plus an increment, clamped to the winner's
\* own; a sole bidder of the rung pays the minimum
SecondPrice(cfg, ordered, minimum) ==
  LET others == Kept(ordered, {i \in DOMAIN ordered : ordered[i].bid.account # ordered[1].bid.account})
      raised == others[1].bid.amount + cfg.increment
  IN  IF others = <<>> THEN minimum ELSE Least(raised, ordered[1].bid.amount)

SealedPrice(cfg, ordered, minimum) ==
  IF cfg.pay = "first_price" THEN ordered[1].bid.amount ELSE SecondPrice(cfg, ordered, minimum)

\* A tie between accounts awards nobody, names them and asks for a rebid: rebidResolution.
SettleSealed(cfg, session, bids) ==
  LET minimum  == SessionMinimum(session, cfg.minBid)
      eligible == EligibleBids(bids, minimum)
      ordered  == ByAmount(WinningRung(eligible))
  IN  IF eligible = <<>> THEN NoResolution
      ELSE IF Contested(ordered)
           THEN [NoResolution EXCEPT !.tie = TiedAccounts(ordered), !.tieAt = ordered[1].bid.amount]
           ELSE [NoResolution EXCEPT !.winner = ordered[1].bid.account,
                                     !.price = SealedPrice(cfg, ordered, minimum)]

\* A share is measured against the balance frozen when the session opened.
FrozenBalance_Live(log, session, a) == Balance(log, a, Len(log))
FrozenBalance(log, session, a) == Balance(log, a, session.seqAtOpen)
FrozenBalances(log, session, bids) ==
  [a \in {bids[i].account : i \in DOMAIN bids} |-> FrozenBalance(log, session, a)]

SettleRelative(cfg, frozen, session, bids, draws) ==
  LET placed == EligibleBids(bids, session.min)
      real   == Kept(placed, {i \in DOMAIN placed :
                                ShareOk(cfg, placed[i].amount, frozen[placed[i].account])})
      ranked == [i \in DOMAIN real |-> [bid |-> real[i],
                   rank |-> ShareBp(real[i].amount, frozen[real[i].account])]]
  IN  IF real = <<>> THEN NoResolution ELSE SettleHighest(RankBids(ranked), draws)

\* Rolls in the order the entries arrived.
SettleRoll_ArrivalOrder(cfg, bids, draws) ==
  LET rolled  == [i \in DOMAIN bids |-> [bid |-> bids[i],
                    rank |-> cfg.low + IntN(draws, i, cfg.high - cfg.low + 1)]]
      ordered == RankBids(rolled)
  IN  IF bids = <<>> \/ ~Distinct(bids) THEN NoResolution
      ELSE IF Len(TiedOnRank(ordered)) > 1 THEN [NoResolution EXCEPT !.rolled = TRUE]
      ELSE [NoResolution EXCEPT !.winner = ordered[1].bid.account, !.price = cfg.cost, !.rolled = TRUE]

\* sortedEntrants: one entry per account, in id order, each rolled once; a tie awards nobody
SettleRoll(cfg, bids, draws) ==
  LET entrants == SortByAccount(bids)
      rolled   == [i \in DOMAIN entrants |-> [bid |-> entrants[i],
                     rank |-> cfg.low + IntN(draws, i, cfg.high - cfg.low + 1)]]
      ordered  == RankBids(rolled)
  IN  IF bids = <<>> \/ ~Distinct(bids) THEN NoResolution
      ELSE IF Len(TiedOnRank(ordered)) > 1 THEN [NoResolution EXCEPT !.rolled = TRUE]
      ELSE [NoResolution EXCEPT !.winner = ordered[1].bid.account, !.price = cfg.cost, !.rolled = TRUE]

\* A configuration that does not validate is an error and settles nothing.
SettleAuction(rule, log, session, bids, draws) ==
  CASE rule.id = "auction_open" /\ AuctionOpenConfigValid(rule.cfg) ->
         SettleOpen(rule.cfg, session, bids, draws)
    [] rule.id = "auction_sealed" /\ AuctionSealedConfigValid(rule.cfg) ->
         SettleSealed(rule.cfg, session, bids)
    [] rule.id = "relative_bid" /\ RelativeBidConfigValid(rule.cfg) ->
         SettleRelative(rule.cfg, FrozenBalances(log, session, bids), session, bids, draws)
    [] rule.id = "roll" /\ RollConfigValid(rule.cfg) ->
         SettleRoll(rule.cfg, bids, draws)
    [] OTHER -> NoResolution

-----------------------------------------------------------------------------
(* The round a tie asks for: Tie.MinRebidCp and Tie.MaxPasses.               *)

CanRebid(resolution) == resolution.tieAt + 1 \in Cp
MinRebid_SameAmount(resolution) == resolution.tieAt
MinRebid(resolution) == resolution.tieAt + 1
=============================================================================
