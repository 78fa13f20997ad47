----------------------------- MODULE SpendRules -----------------------------
(***************************************************************************)
(* Awards: the planners of fixed_price, zero_sum, loot_council, roll and   *)
(* the three auctions, over the shared proceeds routing of spend.go.  An   *)
(* award event is [buyer, price, itemPrice, reasoned, shares]: price and   *)
(* itemPrice may be None, reasoned says whether a rationale was recorded.  *)
(***************************************************************************)
EXTENDS OverTimeRules

CONSTANT MaxRollFace

\* The account a solo kill's proceeds go to.
SoloAccount(policy) == IF policy = "write_off" THEN WriteOff ELSE Bank

\* routeProceeds: the whole price to the bank, or a split over the night's raiders; a split
\* with a repeated, negative or system share is refused.
RouteProceeds(proceeds, solo, shares, price) ==
  CASE proceeds = "guild_bank" -> <<Entry(Bank, price)>>
    [] proceeds = "attendees" /\ CheckedShares(shares) /\ NoSystemAccounts(shares)
         -> Allocate(price, SortByAccount(shares), SoloAccount(solo))
    [] OTHER -> Refused

\* Declares no floor.
SpendAward_NoFloor(rule, proceeds, solo, floor, ev, price) ==
  LET credits == RouteProceeds(proceeds, solo, ev.shares, price)
  IN  Propose(rule, "award", None, None, <<Entry(ev.buyer, -price)>> \o credits)

\* spendAward
SpendAward(rule, proceeds, solo, floor, ev, price) ==
  LET credits == RouteProceeds(proceeds, solo, ev.shares, price)
  IN  IF BuyerOk(ev.buyer) /\ price > 0 /\ credits # Refused
      THEN Propose(rule, "award", None, floor, <<Entry(ev.buyer, -price)>> \o credits)
      ELSE NoPlan

FixedPriceAward(rule, ev) ==
  LET price == ResolvedPrice(rule.cfg.default, ev)
  IN  IF FixedPriceConfigValid(rule.cfg)
      THEN SpendAward(rule, rule.cfg.proceeds, rule.cfg.solo, rule.cfg.floor, ev, price)
      ELSE NoPlan

-----------------------------------------------------------------------------
(* zero_sum                                                                  *)

ZeroSumConfigValid(cfg) ==
  /\ cfg.winner \in {"excluded", "included"}
  /\ cfg.solo \in {"guild_bank", "write_off", "free"}
  /\ cfg.default >= 0

\* beneficiaries: the buyer keeps a share of their own payment only under "included"
ZeroSumShares(cfg, ev) ==
  IF cfg.winner = "included" THEN ev.shares
  ELSE Kept(ev.shares, {i \in DOMAIN ev.shares : ev.shares[i].account # ev.buyer})

ZeroSumAward(rule, ev) ==
  LET cfg   == rule.cfg
      price == ResolvedPrice(cfg.default, ev)
      share == ZeroSumShares(cfg, ev)
      solo  == IF cfg.solo = "free" THEN "guild_bank" ELSE cfg.solo
  IN  IF /\ ZeroSumConfigValid(cfg) /\ BuyerOk(ev.buyer) /\ price > 0
         /\ CheckedShares(ev.shares)
         /\ ~(share = <<>> /\ cfg.solo = "free")
      THEN SpendAward(rule, "attendees", solo, cfg.floor, [ev EXCEPT !.shares = share], price)
      ELSE NoPlan

ZeroSumAnswers == {"award", "adjustment", "reversal"}

-----------------------------------------------------------------------------
(* loot_council                                                              *)

LootCouncilConfigValid(cfg) == cfg.charge >= 0

\* resolveCouncilCharge: what the council named, else the configured charge
CouncilCharge(cfg, ev) == IF ev.price = None THEN cfg.charge ELSE ev.price

\* A charge of nothing moves no points and writes no batch.
LootCouncilAward(rule, ev) ==
  LET charge == CouncilCharge(rule.cfg, ev)
  IN  IF /\ LootCouncilConfigValid(rule.cfg) /\ BuyerOk(ev.buyer)
         /\ rule.cfg.reason => ev.reasoned
         /\ charge > 0
      THEN Propose(rule, "award", None, rule.cfg.floor,
                   <<Entry(ev.buyer, -charge), Entry(Bank, charge)>>)
      ELSE NoPlan

LootCouncilAnswers == {"award", "adjustment", "reversal"}

-----------------------------------------------------------------------------
(* roll, and the auctions: the price comes with the settlement               *)

RollConfigValid(cfg) ==
  /\ SpendTermsValid(cfg)
  /\ cfg.low \in 0..MaxRollFace /\ cfg.high \in (cfg.low + 1)..MaxRollFace
  /\ cfg.cost >= 0

RollAward(rule, ev) ==
  LET cost == IF ev.price = None THEN rule.cfg.cost ELSE ev.price
  IN  IF RollConfigValid(rule.cfg) /\ cost # 0
      THEN SpendAward(rule, rule.cfg.proceeds, rule.cfg.solo, rule.cfg.floor, ev, cost)
      ELSE NoPlan

AuctionOpenConfigValid(cfg) == SpendTermsValid(cfg) /\ cfg.minBid > 0 /\ cfg.increment > 0

AuctionSealedConfigValid(cfg) ==
  /\ SpendTermsValid(cfg) /\ cfg.minBid > 0 /\ cfg.increment > 0
  /\ cfg.pay \in {"second_price", "first_price"}

RelativeBidConfigValid(cfg) ==
  /\ SpendTermsValid(cfg)
  /\ cfg.minBp \in 0..WholeBp /\ cfg.maxBp \in 1..WholeBp /\ cfg.minBp <= cfg.maxBp

AuctionConfigValid(rule) ==
  CASE rule.id = "auction_open"   -> AuctionOpenConfigValid(rule.cfg)
    [] rule.id = "auction_sealed" -> AuctionSealedConfigValid(rule.cfg)
    [] rule.id = "relative_bid"   -> RelativeBidConfigValid(rule.cfg)

\* The three PlanAwards: an award that names no settled price is refused.
AuctionAward(rule, ev) ==
  IF AuctionConfigValid(rule) /\ ev.price # None
  THEN SpendAward(rule, rule.cfg.proceeds, rule.cfg.solo, rule.cfg.floor, ev, ev.price)
  ELSE NoPlan

\* What roll and the three auctions answer.
RollAnswers == {"award", "adjustment", "bid", "settle", "reversal"}
AuctionOpenAnswers == {"award", "adjustment", "bid", "settle", "reversal"}
AuctionSealedAnswers == {"award", "adjustment", "bid", "settle", "reversal"}
RelativeBidAnswers == {"award", "adjustment", "bid", "settle", "reversal"}
=============================================================================
