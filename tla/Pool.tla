-------------------------------- MODULE Pool --------------------------------
(***************************************************************************)
(* A pool and its rules (src/internal/strategy/pool.go): officers record   *)
(* attendance, sell items, adjust and reverse, a scheduler runs the        *)
(* over-time rule, an auction takes bids.  Planning and committing are two *)
(* steps, as in the code: a planner reads the log at some position and     *)
(* returns a proposal, and ledger.Commit accepts or refuses it against the *)
(* log it finds.  What lies between (the officers, the scheduler, the      *)
(* auction's holder) is not in the repository yet and is modelled from     *)
(* what strategy.go says of its callers.                                   *)
(***************************************************************************)
EXTENDS Bidding

CONSTANTS
  Compositions,      \* the rules a pool may start with: [earn, spend, overTime]
  Replacements,      \* what they may be changed to
  Founders,          \* the roster at the start
  Newcomers,
  Opening,           \* the attendance event of the first raid
  Attendances, Sales, Adjustments, Bids, Draws,
  MaxBatches, MaxPlans, MaxRuns, MaxBids,
  MaxBusy,           \* batches, waiting proposals and bids together
  OneRunAtATime,     \* the scheduler commits or abandons a run before the next
  OneBidPerInstant   \* no account places two bids in one microsecond

ASSUME AccountsAssumption ==         \* an account id is a ULID, so ids are ordered; kind "system" or not
  /\ Founders \cup Newcomers \cup SystemAccounts \subseteq Nat
  /\ IsFiniteSet(Founders \cup Newcomers) /\ (Founders \cup Newcomers) \cap SystemAccounts = {}
ASSUME ConfigsAssumption ==          \* awards, pots, prices, floors, caps and grants are int64 fields
  \A r \in Compositions \cup Replacements :
    /\ r.earn # None =>
         /\ r.earn.cfg.floor \in Int
         /\ r.earn.id = "tick" => r.earn.cfg.award \in Int
         /\ r.earn.id = "attendance_weighted" => r.earn.cfg.pot \in Int
    /\ r.spend # None =>
         /\ r.spend.cfg.floor \in Int
         /\ r.spend.id \in {"fixed_price", "zero_sum"} => r.spend.cfg.default \in Int
         /\ r.spend.id = "roll" => r.spend.cfg.cost \in Int
         /\ r.spend.id \in {"auction_open", "auction_sealed"} =>
              r.spend.cfg.minBid \in Int /\ r.spend.cfg.increment \in Int
    /\ r.overTime # None =>
         /\ r.overTime.id # "start_points" => r.overTime.cfg.floor \in Int
         /\ r.overTime.id = "cap" => r.overTime.cfg.hard \in Int
         /\ r.overTime.id = "start_points" => r.overTime.cfg.grant \in Int
ASSUME EventsAssumption ==           \* an event names accounts of the guild, or none
  LET accounts == Founders \cup Newcomers \cup SystemAccounts \cup {None}
      shares   == Seq([account : accounts, weight : Int, role : STRING \cup {None}])
  IN  /\ Attendances \cup {Opening} \subseteq [amount : Int \cup {None}, attendees : shares]
      /\ Sales \subseteq [buyer : accounts, price : Int \cup {None}, itemPrice : Int \cup {None},
                          reasoned : BOOLEAN, shares : shares]
      /\ Adjustments \subseteq [account : accounts, amount : Int, counterparty : accounts]
      /\ Bids \subseteq [account : accounts, amount : Int, at : Int, tier : STRING \cup {None},
                         sealed : BOOLEAN]
      /\ Draws \subseteq [1..MaxBids -> Nat]
ASSUME NoneAssumption == None \notin Int
ASSUME BoundsAssumption ==
  MaxBatches \in Nat \ {0} /\ MaxPlans \in Nat /\ MaxRuns \in Nat /\ MaxBids \in Nat
  /\ WholeBp \in Nat \ {0} /\ MaxMultiplierBp \in Nat

VARIABLES rules, roster, log, plans, run, auction
vars == <<rules, roster, log, plans, run, auction>>

-----------------------------------------------------------------------------
(* catalogue.go and pool.go: which strategy answers which question.          *)

RuleKindOf ==
  [tick |-> "earn", attendance_weighted |-> "earn",
   fixed_price |-> "spend", zero_sum |-> "spend", loot_council |-> "spend", roll |-> "spend",
   auction_open |-> "spend", auction_sealed |-> "spend", relative_bid |-> "spend",
   decay_percent |-> "overTime", decay_window |-> "overTime", cap |-> "overTime",
   start_points |-> "overTime"]

Answers ==
  [tick |-> TickAnswers, attendance_weighted |-> WeightedAnswers,
   fixed_price |-> FixedPriceAnswers, zero_sum |-> ZeroSumAnswers,
   loot_council |-> LootCouncilAnswers, roll |-> RollAnswers,
   auction_open |-> AuctionOpenAnswers, auction_sealed |-> AuctionSealedAnswers,
   relative_bid |-> RelativeBidAnswers, decay_percent |-> DecayPercentAnswers,
   decay_window |-> DecayWindowAnswers, cap |-> CapAnswers, start_points |-> StartPointsAnswers]

\* PoolConfig.Resolve: each rule set is in the catalogue and of the kind it is used for.
Resolves(r) ==
  \A kind \in {"earn", "spend", "overTime"} :
    r[kind] # None => r[kind].id \in DOMAIN RuleKindOf /\ RuleKindOf[r[kind].id] = kind

\* Rules.require, and the strategy's own ErrUnsupported
Can(rule, question) == rule # None /\ question \in Answers[rule.id]

AttendancePlan(rule, ledger, ev) ==
  IF ~Can(rule, "attendance") THEN NoPlan
  ELSE CASE rule.id = "tick"                -> TickAttendance(rule, ev)
         [] rule.id = "attendance_weighted" -> WeightedAttendance(rule, ev)
         [] rule.id = "fixed_price"         -> FixedPriceAttendance(rule, ev)
         [] rule.id = "cap"                 -> CapAttendance(rule, ledger, ev)

ConfigValid(rule) ==
  CASE rule.id = "tick"                -> TickConfigValid(rule.cfg)
    [] rule.id = "attendance_weighted" -> WeightedConfigValid(rule.cfg)
    [] OTHER                           -> TRUE

AwardPlan(rule, ev) ==
  IF ~Can(rule, "award") THEN NoPlan
  ELSE CASE rule.id = "fixed_price"  -> FixedPriceAward(rule, ev)
         [] rule.id = "zero_sum"     -> ZeroSumAward(rule, ev)
         [] rule.id = "loot_council" -> LootCouncilAward(rule, ev)
         [] rule.id = "roll"         -> RollAward(rule, ev)
         [] OTHER                    -> AuctionAward(rule, ev)

RunPlan(rule, ledger, spec, members) ==
  IF ~Can(rule, "run") THEN NoPlan
  ELSE CASE rule.id = "decay_percent" -> DecayPercentRun(rule, ledger, spec, members)
         [] rule.id = "decay_window"  -> DecayWindowRun(rule, ledger, spec, members)
         [] rule.id = "cap"           -> CapRun(rule, ledger, spec, members)
         [] rule.id = "start_points"  -> StartPointsRun(rule, ledger, spec, members)
         [] rule.id = "fixed_price"   -> FixedPriceDecay(rule, ledger, spec, members)

\* The rule that is in force for this kind of batch plans its reversal.
PlanReversal_RuleInForce(r, ledger, n) ==
  LET rule == CASE ledger[n].kind \in {"attendance", "adjustment"} -> r.earn
                [] ledger[n].kind = "award" -> r.spend
                [] OTHER -> r.overTime
  IN  IF rule = None THEN NoPlan ELSE ReversePlan(rule.id, ledger, n)

\* Rules.PlanReversal: the strategy that planned the batch, found by its id, whatever r is
PlanReversal(r, ledger, n) == ReversePlan(ledger[n].strategy, ledger, n)

-----------------------------------------------------------------------------
(* ledger.Commit, reduced to what it decides for one pool; module Ledger has *)
(* it statement by statement.                                                *)

Net(p, a) == Moved(p, a)
PartOf(p, a) ==
  [i \in DOMAIN p.entries |-> IF p.entries[i].account = a THEN p.entries[i].amount ELSE 0]
IsReversed(ledger, n) == \E m \in DOMAIN ledger : ledger[m].reverses = n

\* A balance below the floor, whichever way this batch moves it.
FloorAdmits_Absolute(ledger, p) ==
  p.floor # None =>
    \A i \in DOMAIN p.entries :
      LET a == p.entries[i].account
      IN  a \notin SystemAccounts => Balance(ledger, a, Len(ledger)) + Net(p, a) >= p.floor

\* checkNonNegative: only an account this batch takes from, read at the head
FloorAdmits(ledger, p) ==
  p.floor # None =>
    \A i \in DOMAIN p.entries :
      LET a == p.entries[i].account
      IN  a \notin SystemAccounts /\ Net(p, a) < 0 =>
            Balance(ledger, a, Len(ledger)) + Net(p, a) >= p.floor

\* Without the index a batch can be reversed again.
LinkAdmits_Again(ledger, p) ==
  p.kind = "reversal" <=> p.reverses # None

\* ux_batch_reverses and checkReversalLinkage
LinkAdmits(ledger, p) ==
  /\ p.kind = "reversal" <=> p.reverses # None
  /\ p.reverses # None => p.reverses \in DOMAIN ledger /\ ~IsReversed(ledger, p.reverses)

\* Every proposal is committed under a key of its own.
PeriodFree_OwnKey(ledger, p) == TRUE

\* The idempotency key of a cadence run is its kind and its period.
PeriodFree(ledger, p) ==
  p.period # None => \A n \in DOMAIN ledger : ledger[n].kind = p.kind => ledger[n].period # p.period

CommitAdmits(ledger, members, p) ==
  /\ p.entries \in Seq([account : members \cup SystemAccounts, amount : Cp \ {0}]) \ {<<>>}
  /\ \A i \in DOMAIN p.entries :
       Balance(ledger, p.entries[i].account, Len(ledger)) + Net(p, p.entries[i].account) \in Cp
  /\ RunsInRange(Amounts(p.entries)) /\ Total(Amounts(p.entries)) = 0
  /\ \A i \in DOMAIN p.entries : RunsInRange(PartOf(p, p.entries[i].account))
  /\ LinkAdmits(ledger, p) /\ PeriodFree(ledger, p) /\ FloorAdmits(ledger, p)

-----------------------------------------------------------------------------
Busy == Len(log) + Cardinality(plans) + Len(auction.bids)
NoRun == [rule |-> None, members |-> {}, plan |-> NoPlan,
          spec |-> [period |-> 0, asOf |-> 0, accounts |-> <<>>, days |-> 0, from |-> 0, to |-> 0]]
NoAuction == [phase |-> "none", seqAtOpen |-> 0, min |-> 0, parties |-> {}, bids |-> <<>>,
              tieAt |-> None]

\* A pool after its first raid.
Init ==
  /\ rules \in {r \in Compositions : Resolves(r)}
  /\ roster = Founders
  /\ log = <<AttendancePlan(rules.earn, <<>>, Opening)>> /\ CommitAdmits(<<>>, roster, log[1])
  /\ plans = {}
  /\ run = NoRun
  /\ auction = NoAuction

\* A planner's proposal waits for its commit; its error changes nothing.
Offer(p) ==
  /\ p # NoPlan /\ p \notin plans
  /\ Len(log) < MaxBatches /\ Cardinality(plans) < MaxPlans /\ Busy < MaxBusy
  /\ plans' = plans \cup {p}

RecordAttendance ==
  /\ \E ev \in Attendances : Offer(AttendancePlan(rules.earn, log, ev))
  /\ UNCHANGED <<rules, roster, log, run, auction>>

Sell ==
  /\ \E ev \in Sales : Offer(AwardPlan(rules.spend, ev))
  /\ UNCHANGED <<rules, roster, log, run, auction>>

\* Rules.PlanAdjustment asks the earn rule.
Adjust ==
  /\ Can(rules.earn, "adjustment") /\ ConfigValid(rules.earn)
  /\ \E ev \in Adjustments : Offer(AdjustmentPlan(rules.earn, ev))
  /\ UNCHANGED <<rules, roster, log, run, auction>>

ReverseBatch ==
  /\ \E n \in DOMAIN log : Offer(PlanReversal(rules, log, n))
  /\ UNCHANGED <<rules, roster, log, run, auction>>

\* The scheduler opens the next period at the head; a window slides on from where it ended.
OpenRun ==
  /\ run.spec.period < MaxRuns /\ Can(rules.overTime, "run")
  /\ OneRunAtATime => \A p \in plans : p.period = None
  /\ \E to \in run.spec.to..Len(log) :
       LET window == rules.overTime.id = "decay_window"
           spec   == [period |-> run.spec.period + 1, asOf |-> Len(log), accounts |-> <<>>,
                      days |-> IF window THEN rules.overTime.cfg.days ELSE 0,
                      from |-> run.spec.to, to |-> to]
           plan   == RunPlan(rules.overTime, log, spec, roster)
       IN  /\ ~window => to = run.spec.to
           /\ Offer(plan)
           /\ run' = [rule |-> rules.overTime, members |-> roster, plan |-> plan, spec |-> spec]
  /\ UNCHANGED <<rules, roster, log, auction>>

\* A run whose answer was lost is planned again, over today's roster.
RetryRun ==
  /\ run # NoRun /\ run.rule = rules.overTime
  /\ Offer(RunPlan(run.rule, log, run.spec, roster))
  /\ UNCHANGED <<rules, roster, log, run, auction>>

\* ledger.Commit; a refused proposal is dropped by its caller
Commit ==
  /\ \E p \in plans :
       /\ plans' = plans \ {p}
       /\ log' = IF CommitAdmits(log, roster, p) THEN Append(log, p) ELSE log
  /\ Len(log) < MaxBatches
  /\ UNCHANGED <<rules, roster, run, auction>>

Join ==
  /\ \E a \in Newcomers \ roster : roster' = roster \cup {a}
  /\ UNCHANGED <<rules, log, plans, run, auction>>

\* An officer replaces the rules; a pool whose rules do not resolve is refused.
ChangeRules ==
  /\ rules \in Compositions
  /\ \E r \in Replacements : Resolves(r) /\ rules' = r
  /\ UNCHANGED <<roster, log, plans, run, auction>>

-----------------------------------------------------------------------------
(* The auction's holder: one session, and the rebid rounds its ties ask for. *)

OpenAuction ==
  /\ Can(rules.spend, "bid") /\ auction = NoAuction
  /\ auction' = [NoAuction EXCEPT !.phase = "open", !.seqAtOpen = Len(log), !.parties = roster]
  /\ UNCHANGED <<rules, roster, log, plans, run>>

PlaceBid ==
  /\ auction.phase = "open" /\ Can(rules.spend, "bid") /\ Len(auction.bids) < MaxBids /\ Busy < MaxBusy
  /\ \E bid \in Bids :
       /\ bid.account \in auction.parties
       /\ ValidateBid(rules.spend, log, bid)
       /\ OneBidPerInstant => \A i \in DOMAIN auction.bids :
            auction.bids[i].account = bid.account => auction.bids[i].at # bid.at
       /\ auction' = [auction EXCEPT !.bids = Append(@, bid)]
  /\ UNCHANGED <<rules, roster, log, plans, run>>

Resolution(session, ledger, draws) == SettleAuction(rules.spend, ledger, session, session.bids, draws)

\* The session a tie asks for: its parties only, above the amount they tied at.
RebidSession(session, resolution, ledger) ==
  [session EXCEPT !.bids = <<>>, !.parties = resolution.tie, !.min = MinRebid(resolution),
                  !.tieAt = resolution.tieAt, !.seqAtOpen = Len(ledger)]

\* Whoever won is charged what the settlement says.
WonItem(resolution) == [buyer |-> resolution.winner, price |-> resolution.price, itemPrice |-> None,
                        reasoned |-> TRUE, shares |-> Opening.attendees]

Settle ==
  /\ auction.phase = "open" /\ Can(rules.spend, "settle")
  /\ \E draws \in Draws :
       LET r     == Resolution(auction, log, draws)
           award == AwardPlan(rules.spend, WonItem(r))
       IN  IF r.tieAt # None /\ CanRebid(r)
           THEN auction' = RebidSession(auction, r, log) /\ UNCHANGED plans
           ELSE /\ auction' = [NoAuction EXCEPT !.phase = "settled"]
                /\ \/ r.winner # None /\ Offer(award)
                   \/ (r.winner = None \/ award = NoPlan) /\ UNCHANGED plans
  /\ UNCHANGED <<rules, roster, log, run>>

-----------------------------------------------------------------------------
Next ==
  \/ RecordAttendance \/ Sell \/ Adjust \/ ReverseBatch \/ OpenRun \/ RetryRun \/ Commit \/ Join
  \/ ChangeRules \/ OpenAuction \/ PlaceBid \/ Settle

Spec == Init /\ [][Next]_vars
=============================================================================
