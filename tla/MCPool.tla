------------------------------- MODULE MCPool -------------------------------
(***************************************************************************)
(* Seven pools of three members and a newcomer: every strategy of the       *)
(* catalogue is in one of them.  A whole is ten basis points.              *)
(***************************************************************************)
EXTENDS PoolProperties

ann == 11
bob == 12
cyd == 13
dee == 14

Share(a, w, role) == [account |-> a, weight |-> w, role |-> role]
Rule(id, cfg) == [id |-> id, cfg |-> cfg]

Raid == [amount |-> None, attendees |-> <<Share(bob, 2, None), Share(ann, 2, None), Share(cyd, 1, "standby")>>]
Night == [amount |-> 25, attendees |-> <<Share(cyd, 1, None), Share(ann, 1, "standby")>>]

Tick == Rule("tick", [award |-> 20, multiplier |-> 10, roles |-> [standby |-> 5], floor |-> 0])
Weighted == Rule("attendance_weighted", [pot |-> 91, floor |-> 0])

FixedPrice == Rule("fixed_price", [default |-> 30, award |-> 20, decay |-> 1, proceeds |-> "attendees",
                                   solo |-> "write_off", floor |-> 0])
ZeroSum == Rule("zero_sum", [winner |-> "excluded", solo |-> "free", default |-> 25, floor |-> 0])
Council == Rule("loot_council", [charge |-> 25, reason |-> TRUE, floor |-> -20])
Auction == [proceeds |-> "guild_bank", solo |-> "guild_bank", floor |-> 0, minBid |-> 20, increment |-> 10]
Open == Rule("auction_open", Auction)
Sealed == Rule("auction_sealed", [proceeds |-> "attendees", solo |-> "guild_bank", floor |-> 0,
                                  minBid |-> 20, increment |-> 3, pay |-> "second_price"])
Relative == Rule("relative_bid", [proceeds |-> "guild_bank", solo |-> "guild_bank", floor |-> 0,
                                  minBp |-> 1, maxBp |-> 8])
Roll == Rule("roll", [proceeds |-> "guild_bank", solo |-> "guild_bank", floor |-> 0,
                      low |-> 1, high |-> 3, cost |-> 20])

Percent == Rule("decay_percent", [decay |-> 3, negative |-> "toward_zero", floor |-> 0])
Signed == Rule("decay_percent", [decay |-> 5, negative |-> "preserve_sign", floor |-> -15])
Window == Rule("decay_window", [days |-> 7, floor |-> 0])
Cap == Rule("cap", [award |-> 20, hard |-> 35, soft |-> 0, over |-> 0, floor |-> 0])
Start == Rule("start_points", [grant |-> 15])

Pool(earn, spend, overTime) == [earn |-> earn, spend |-> spend, overTime |-> overTime]
Pools ==
  {Pool(Weighted, ZeroSum, Window), Pool(Tick, FixedPrice, Percent), Pool(Tick, Council, Signed),
   Pool(Tick, Open, Start), Pool(Tick, Sealed, Cap), Pool(Weighted, Relative, Percent),
   Pool(Tick, Roll, Percent)}
\* No spend rule at all, an earn document nobody validated, and a rule in another's place.
Changes == {Pool(Rule("attendance_weighted", [pot |-> 0, floor |-> 0]), None, Percent), Pool(Cap, None, None)}

Sale(buyer, price, shares) ==
  [buyer |-> buyer, price |-> None, itemPrice |-> price, reasoned |-> TRUE, shares |-> shares]
PriceList ==
  {Sale(bob, None, <<Share(ann, 2, None), Share(bob, 1, None), Share(cyd, 1, None)>>),
   Sale(ann, 10, <<Share(cyd, 1, None), Share(bob, 3, None), Share(dee, 3, None)>>)}
Gifts == {[account |-> ann, amount |-> 15, counterparty |-> bob]}

Bid(a, x, t, tier, sealed) == [account |-> a, amount |-> x, at |-> t, tier |-> tier, sealed |-> sealed]
BidMenu ==
  {Bid(ann, x, t, None, TRUE) : x \in {20, 21}, t \in {1, 2}}
  \cup {Bid(bob, x, 1, tier, TRUE) : x \in {20, 25}, tier \in {None, "main"}}
  \cup {Bid(ann, x, t, None, FALSE) : x \in {0, 20, 30}, t \in {1, 2}}
  \cup {Bid(bob, x, 1, tier, FALSE) : x \in {0, 30}, tier \in {None, "main"}}
  \cup {Bid(cyd, x, 1, "main", FALSE) : x \in {0, 4}}
Nights == {Night}
Rngs == {<<0, 1, 2>>, <<1, 0, 1>>}
=============================================================================
