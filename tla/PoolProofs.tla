----------------------------- MODULE PoolProofs -----------------------------
(***************************************************************************)
(* Theorems about pools (PoolProperties), for any rules, roster, events,   *)
(* integer width and bounds.                                               *)
(***************************************************************************)
EXTENDS PoolProperties, AllocatorProofs

-----------------------------------------------------------------------------
(* What a batch moves.                                                       *)

IsEntries(es) == DOMAIN es = 1..Len(es) /\ Len(es) \in Nat /\ \A i \in DOMAIN es : es[i].amount \in Int

\* The column that Moved adds up.
Column(b, a) == [i \in DOMAIN b.entries |-> IF b.entries[i].account = a THEN b.entries[i].amount ELSE 0]

\* It is a sequence of integers.
LEMMA ColumnType ==
  ASSUME NEW b, IsEntries(b.entries), NEW a
  PROVE  /\ Column(b, a) \in Seq(Int) /\ Len(Column(b, a)) = Len(b.entries)
         /\ Moved(b, a) = Total(Column(b, a)) /\ Moved(b, a) \in Int
<1>1. Column(b, a) \in Seq(Int) /\ Len(Column(b, a)) = Len(b.entries)
  BY DEF Column, IsEntries
<1>2. Moved(b, a) = Total(Column(b, a))
  BY DEF Moved, Column
<1>3. QED BY <1>1, <1>2, TotalType

\* A sequence over a set is one over a larger set.
LEMMA SeqWiden ==
  ASSUME NEW S, NEW T, S \subseteq T, NEW s \in Seq(S)
  PROVE  s \in Seq(T)
<1>1. DOMAIN s = 1..Len(s) /\ Len(s) \in Nat /\ \A i \in 1..Len(s) : s[i] \in T
  BY ElementOfSeq, LenProperties
<1>2. s = [i \in 1..Len(s) |-> s[i]]
  BY <1>1
<1>3. QED BY <1>1, <1>2

\* What validate lets into the log is one.
LEMMA RowsAreEntries ==
  ASSUME NEW A, NEW es \in Seq([account : A, amount : Cp \ {0}])
  PROVE  IsEntries(es) /\ \A i \in DOMAIN es : es[i].account \in A
<1>1. Len(es) \in Nat /\ DOMAIN es = 1..Len(es)
  BY LenProperties
<1>2. \A i \in 1..Len(es) : es[i] \in [account : A, amount : Cp \ {0}]
  BY ElementOfSeq
<1>3. Cp \subseteq Int
  BY MaxCpAssumption DEF Cp
<1>4. QED BY <1>1, <1>2, <1>3 DEF IsEntries

\* A batch moves nothing of an account it has no entry of.
LEMMA MovedNothing ==
  ASSUME NEW b, IsEntries(b.entries), NEW a, \A i \in DOMAIN b.entries : b.entries[i].account # a
  PROVE  Moved(b, a) = 0
<1>1. Column(b, a) \in Seq(Int) /\ Moved(b, a) = Total(Column(b, a))
  BY ColumnType
<1>2. \A i \in 1..Len(Column(b, a)) : Column(b, a)[i] = 0
  BY ColumnType DEF Column, IsEntries
<1>3. QED BY <1>1, <1>2, TotalZero

\* A reversal moves what the batch moved, the other way.
LEMMA MovedNegated ==
  ASSUME NEW b, IsEntries(b.entries), NEW c, c.entries = Negated(b.entries), NEW a
  PROVE  IsEntries(c.entries) /\ Moved(c, a) = -Moved(b, a)
<1>1. /\ DOMAIN c.entries = 1..Len(b.entries) /\ Len(c.entries) = Len(b.entries)
      /\ \A i \in 1..Len(b.entries) : /\ c.entries[i].account = b.entries[i].account
                                     /\ c.entries[i].amount = -b.entries[i].amount
  BY DEF Negated, Entry, IsEntries
<1>2. IsEntries(c.entries)
  BY <1>1 DEF IsEntries
<1>3. \A i \in 1..Len(b.entries) : Column(c, a)[i] = -Column(b, a)[i]
  BY <1>1 DEF Column, IsEntries
<1>4. Total(Column(c, a)) = -Total(Column(b, a))
  BY <1>1, <1>2, <1>3, ColumnType, TotalNegated
<1>5. QED BY <1>2, <1>4, ColumnType

-----------------------------------------------------------------------------
(* What a log holds.                                                         *)

IsLog(ledger) == (\E S : ledger \in Seq(S)) /\ \A n \in 1..Len(ledger) : IsEntries(ledger[n].entries)

\* A batch more.
LEMMA LogAppend ==
  ASSUME NEW ledger, IsLog(ledger), NEW p, IsEntries(p.entries)
  PROVE  /\ IsLog(Append(ledger, p)) /\ Len(ledger) \in Nat
         /\ Len(Append(ledger, p)) = Len(ledger) + 1
         /\ Append(ledger, p)[Len(ledger) + 1] = p
         /\ \A n \in 1..Len(ledger) : Append(ledger, p)[n] = ledger[n]
<1>1. PICK S : ledger \in Seq(S)
  BY DEF IsLog
<1>2. ledger \in Seq(S \cup {p})
  BY <1>1, ElementOfSeq, LenProperties
<1>3. /\ Append(ledger, p) \in Seq(S \cup {p}) /\ Len(ledger) \in Nat
      /\ Len(Append(ledger, p)) = Len(ledger) + 1
      /\ Append(ledger, p)[Len(ledger) + 1] = p
      /\ \A n \in 1..Len(ledger) : Append(ledger, p)[n] = ledger[n]
  BY <1>2, AppendProperties, LenProperties
<1>4. \A n \in 1..Len(Append(ledger, p)) : IsEntries(Append(ledger, p)[n].entries)
  BY <1>3 DEF IsLog
<1>5. IsLog(Append(ledger, p))
  BY <1>3, <1>4 DEF IsLog
<1>6. QED BY <1>3, <1>5

Movements(ledger, a, asOf) == [n \in 1..asOf |-> Moved(ledger[n], a)]

\* A balance is an integer.
LEMMA BalanceType ==
  ASSUME NEW ledger, IsLog(ledger), NEW a, NEW n \in Nat, n <= Len(ledger)
  PROVE  /\ Movements(ledger, a, n) \in Seq(Int) /\ Len(Movements(ledger, a, n)) = n
         /\ Balance(ledger, a, n) = Total(Movements(ledger, a, n)) /\ Balance(ledger, a, n) \in Int
<1>1. \A m \in 1..n : Moved(ledger[m], a) \in Int
  <2> TAKE m \in 1..n
  <2>1. Len(ledger) \in Nat
    BY LenProperties DEF IsLog
  <2>2. IsEntries(ledger[m].entries)
    BY <2>1 DEF IsLog
  <2>3. QED BY <2>2, ColumnType
<1>2. Movements(ledger, a, n) \in Seq(Int) /\ Len(Movements(ledger, a, n)) = n
  BY <1>1 DEF Movements
<1>3. Balance(ledger, a, n) = Total(Movements(ledger, a, n))
  BY DEF Balance, Movements
<1>4. QED BY <1>2, <1>3, TotalType

\* A batch moves the balances at the head.
LEMMA BalanceAppend ==
  ASSUME NEW ledger, IsLog(ledger), NEW p, IsEntries(p.entries), NEW a
  PROVE  Balance(Append(ledger, p), a, Len(ledger) + 1) = Balance(ledger, a, Len(ledger)) + Moved(p, a)
<1> DEFINE n == Len(ledger)
           s == Movements(ledger, a, n)
           t == Movements(Append(ledger, p), a, n + 1)
<1>1. /\ n \in Nat /\ Len(Append(ledger, p)) = n + 1 /\ IsLog(Append(ledger, p))
      /\ Append(ledger, p)[n + 1] = p /\ \A m \in 1..n : Append(ledger, p)[m] = ledger[m]
  BY LogAppend
<1>2. s \in Seq(Int) /\ Len(s) = n /\ Balance(ledger, a, n) = Total(s)
  BY <1>1, BalanceType
<1>3. t \in Seq(Int) /\ Len(t) = n + 1 /\ Balance(Append(ledger, p), a, n + 1) = Total(t)
  <2> DEFINE l == Append(ledger, p)
             m == n + 1
  <2>1. IsLog(l) /\ m \in Nat /\ m <= Len(l)
    BY <1>1
  <2> HIDE DEF l, m, n
  <2>2. /\ Movements(l, a, m) \in Seq(Int) /\ Len(Movements(l, a, m)) = m
        /\ Balance(l, a, m) = Total(Movements(l, a, m))
    BY <2>1, BalanceType
  <2>3. QED BY <2>2 DEF l, m
<1>4. t[n + 1] = Moved(p, a) /\ \A m \in 1..n : t[m] = s[m]
  BY <1>1 DEF Movements
<1> HIDE DEF s, t, n
<1>5. Total(t) = Total(s) + t[Len(t)]
  BY <1>1, <1>2, <1>3, <1>4, TotalExtend
<1>6. QED BY <1>2, <1>3, <1>4, <1>5 DEF n

\* A batch moves no balance at an earlier position.
LEMMA BalanceKept ==
  ASSUME NEW ledger, IsLog(ledger), NEW p, IsEntries(p.entries), NEW a, NEW n \in Nat, n <= Len(ledger)
  PROVE  Balance(Append(ledger, p), a, n) = Balance(ledger, a, n)
<1>1. \A m \in 1..n : Append(ledger, p)[m] = ledger[m]
  BY LogAppend
<1>2. [m \in 1..n |-> Moved(Append(ledger, p)[m], a)] = [m \in 1..n |-> Moved(ledger[m], a)]
  BY <1>1
<1>3. QED BY <1>2 DEF Balance

\* Who has no entry up to a position has nothing there.
LEMMA BalanceNothing ==
  ASSUME NEW ledger, IsLog(ledger), NEW a, NEW n \in Nat, n <= Len(ledger), ~HasHistory(ledger, a, n)
  PROVE  Balance(ledger, a, n) = 0 /\ \A m \in 1..n : Moved(ledger[m], a) = 0
<1>1. \A m \in 1..n : Moved(ledger[m], a) = 0
  <2> TAKE m \in 1..n
  <2>1. Len(ledger) \in Nat
    BY LenProperties DEF IsLog
  <2>2. IsEntries(ledger[m].entries) /\ \A i \in DOMAIN ledger[m].entries : ledger[m].entries[i].account # a
    BY <2>1 DEF IsLog, HasHistory
  <2>3. QED BY <2>2, MovedNothing
<1>2. \A m \in 1..n : Movements(ledger, a, n)[m] = 0
  BY <1>1 DEF Movements
<1>3. QED BY <1>1, <1>2, BalanceType, TotalZero

-----------------------------------------------------------------------------
(* What a planner returns.                                                   *)

\* Which strategies answer what (catalogue.go).
LEMMA WhoAnswers ==
  ASSUME NEW id \in DOMAIN RuleKindOf
  PROVE  /\ "attendance" \in Answers[id] => id \in {"tick", "attendance_weighted", "fixed_price", "cap"}
         /\ RuleKindOf[id] = "overTime" => id \in {"decay_percent", "decay_window", "cap", "start_points"}
  BY DEF RuleKindOf, Answers, TickAnswers, WeightedAnswers, FixedPriceAnswers, ZeroSumAnswers,
         LootCouncilAnswers, RollAnswers, AuctionOpenAnswers, AuctionSealedAnswers,
         RelativeBidAnswers, DecayPercentAnswers, DecayWindowAnswers, CapAnswers, StartPointsAnswers

\* What a proposal says of itself; it moves something, from somebody to somebody.
Balanced(p) == p.entries # <<>> /\ Total(Amounts(p.entries)) = 0
Labelled(p, kind, strategy, period, floor) ==
  /\ p.kind = kind /\ p.strategy = strategy /\ p.period = period /\ p.floor = floor
  /\ p.reverses = None /\ Balanced(p)

\* proposeZeroSum refuses, or labels what it was given.
LEMMA ProposeLabels ==
  ASSUME NEW rule, NEW kind, NEW period, NEW floor, NEW entries,
         Propose(rule, kind, period, floor, entries) # NoPlan
  PROVE  /\ Labelled(Propose(rule, kind, period, floor, entries), kind, rule.id, period, floor)
         /\ Propose(rule, kind, period, floor, entries).entries = entries
  BY DEF Propose, Labelled, Balanced

\* An attendance batch declares no floor and belongs to no period.
LEMMA AttendanceLabels ==
  ASSUME NEW rule, rule # None => rule.id \in DOMAIN RuleKindOf, NEW ledger, NEW ev,
         AttendancePlan(rule, ledger, ev) # NoPlan
  PROVE  rule # None /\ Labelled(AttendancePlan(rule, ledger, ev), "attendance", rule.id, None, None)
<1> DEFINE p == AttendancePlan(rule, ledger, ev)
<1>1. Can(rule, "attendance")
  BY DEF AttendancePlan
<1>2. rule # None /\ rule.id \in {"tick", "attendance_weighted", "fixed_price", "cap"}
  BY <1>1, WhoAnswers DEF Can
<1>3. CASE rule.id = "tick"
  <2>1. p = TickAttendance(rule, ev)
    BY <1>1, <1>3 DEF AttendancePlan
  <2>2. PICK entries : p = Propose(rule, "attendance", None, None, entries)
    BY <2>1 DEF TickAttendance
  <2>3. QED BY <1>2, <2>2, ProposeLabels
<1>4. CASE rule.id = "attendance_weighted"
  <2>1. p = WeightedAttendance(rule, ev)
    BY <1>1, <1>4 DEF AttendancePlan
  <2>2. PICK entries : p = Propose(rule, "attendance", None, None, entries)
    BY <2>1 DEF WeightedAttendance
  <2>3. QED BY <1>2, <2>2, ProposeLabels
<1>5. CASE rule.id = "fixed_price"
  <2>1. p = FixedPriceAttendance(rule, ev)
    BY <1>1, <1>5 DEF AttendancePlan
  <2>2. PICK entries : p = Propose(rule, "attendance", None, None, entries)
    BY <2>1 DEF FixedPriceAttendance
  <2>3. QED BY <1>2, <2>2, ProposeLabels
<1>6. CASE rule.id = "cap"
  <2>1. p = CapAttendance(rule, ledger, ev)
    BY <1>1, <1>6 DEF AttendancePlan
  <2>2. PICK entries : p = Propose(rule, "attendance", None, None, entries)
    BY <2>1 DEF CapAttendance
  <2>3. QED BY <1>2, <2>2, ProposeLabels
<1>7. QED BY <1>2, <1>3, <1>4, <1>5, <1>6

\* Every award declares the floor its rule is configured with.
LEMMA SpendLabels ==
  ASSUME NEW rule, NEW proceeds, NEW solo, NEW floor, NEW ev, NEW price,
         SpendAward(rule, proceeds, solo, floor, ev, price) # NoPlan
  PROVE  Labelled(SpendAward(rule, proceeds, solo, floor, ev, price), "award", rule.id, None, floor)
<1>1. PICK entries : SpendAward(rule, proceeds, solo, floor, ev, price)
                       = Propose(rule, "award", None, floor, entries)
  BY DEF SpendAward
<1>2. QED BY <1>1, ProposeLabels

\* A sale says which rule it was planned by, and declares its floor.
LEMMA AwardLabels ==
  ASSUME NEW rule, NEW ev, AwardPlan(rule, ev) # NoPlan
  PROVE  rule # None /\ Labelled(AwardPlan(rule, ev), "award", rule.id, None, rule.cfg.floor)
<1> DEFINE p == AwardPlan(rule, ev)
<1>1. rule # None /\ Can(rule, "award")
  BY DEF AwardPlan, Can
<1>2. CASE rule.id = "fixed_price"
  <2>1. p = FixedPriceAward(rule, ev)
    BY <1>1, <1>2 DEF AwardPlan
  <2>2. QED BY <1>1, <2>1, SpendLabels DEF FixedPriceAward
<1>3. CASE rule.id = "zero_sum"
  <2>1. p = ZeroSumAward(rule, ev)
    BY <1>1, <1>3 DEF AwardPlan
  <2>2. QED BY <1>1, <2>1, SpendLabels DEF ZeroSumAward
<1>4. CASE rule.id = "loot_council"
  <2>1. p = LootCouncilAward(rule, ev)
    BY <1>1, <1>4 DEF AwardPlan
  <2>2. PICK entries : p = Propose(rule, "award", None, rule.cfg.floor, entries)
    BY <2>1 DEF LootCouncilAward
  <2>3. QED BY <1>1, <2>2, ProposeLabels
<1>5. CASE rule.id = "roll"
  <2>1. p = RollAward(rule, ev)
    BY <1>1, <1>5 DEF AwardPlan
  <2>2. QED BY <1>1, <2>1, SpendLabels DEF RollAward
<1>6. CASE rule.id \notin {"fixed_price", "zero_sum", "loot_council", "roll"}
  <2>1. p = AuctionAward(rule, ev)
    BY <1>1, <1>6 DEF AwardPlan
  <2>2. QED BY <1>1, <2>1, SpendLabels DEF AuctionAward
<1>7. QED BY <1>2, <1>3, <1>4, <1>5, <1>6

\* An adjustment declares the earn rule's floor.
LEMMA AdjustmentLabels ==
  ASSUME NEW rule, NEW ev, AdjustmentPlan(rule, ev) # NoPlan
  PROVE  Labelled(AdjustmentPlan(rule, ev), "adjustment", rule.id, None, rule.cfg.floor)
<1>1. PICK entries : AdjustmentPlan(rule, ev) = Propose(rule, "adjustment", None, rule.cfg.floor, entries)
  BY DEF AdjustmentPlan
<1>2. QED BY <1>1, ProposeLabels

\* A run belongs to its period; all but the grants declare a floor.
RunKind(id) == IF id \in {"cap", "start_points"} THEN id ELSE "decay"
\* What RunPlan returns belongs to the run's period, whichever strategy planned it.
LEMMA RunLabels ==
  ASSUME NEW rule, rule.id \in DOMAIN RuleKindOf, RuleKindOf[rule.id] = "overTime",
         NEW ledger, NEW spec, NEW members, RunPlan(rule, ledger, spec, members) # NoPlan
  PROVE  Labelled(RunPlan(rule, ledger, spec, members), RunKind(rule.id), rule.id, spec.period,
                  IF rule.id = "start_points" THEN None ELSE rule.cfg.floor)
<1> DEFINE p == RunPlan(rule, ledger, spec, members)
<1>1. Can(rule, "run") /\ rule.id \in {"decay_percent", "decay_window", "cap", "start_points"}
  BY WhoAnswers DEF RunPlan
<1>2. CASE rule.id = "decay_percent"
  <2>1. p = DecayPercentRun(rule, ledger, spec, members)
    BY <1>1, <1>2 DEF RunPlan
  <2>2. PICK entries : p = Propose(rule, "decay", spec.period, rule.cfg.floor, entries)
    BY <2>1 DEF DecayPercentRun
  <2>3. QED BY <1>2, <2>2, ProposeLabels DEF RunKind
<1>3. CASE rule.id = "decay_window"
  <2>1. p = DecayWindowRun(rule, ledger, spec, members)
    BY <1>1, <1>3 DEF RunPlan
  <2>2. PICK entries : p = Propose(rule, "decay", spec.period, rule.cfg.floor, entries)
    BY <2>1 DEF DecayWindowRun
  <2>3. QED BY <1>3, <2>2, ProposeLabels DEF RunKind
<1>4. CASE rule.id = "cap"
  <2>1. p = CapRun(rule, ledger, spec, members)
    BY <1>1, <1>4 DEF RunPlan
  <2>2. PICK entries : p = Propose(rule, "cap", spec.period, rule.cfg.floor, entries)
    BY <2>1 DEF CapRun
  <2>3. QED BY <1>4, <2>2, ProposeLabels DEF RunKind
<1>5. CASE rule.id = "start_points"
  <2>1. p = StartPointsRun(rule, ledger, spec, members)
    BY <1>1, <1>5 DEF RunPlan
  <2>2. PICK entries : p = Propose(rule, "start_points", spec.period, None, entries)
    BY <2>1 DEF StartPointsRun
  <2>3. QED BY <1>5, <2>2, ProposeLabels DEF RunKind
<1>6. QED BY <1>1, <1>2, <1>3, <1>4, <1>5

\* A reversal is the negation of its batch, and nothing else that its planner could choose.
LEMMA ReversalLabels ==
  ASSUME NEW r, NEW ledger, NEW n, PlanReversal(r, ledger, n) # NoPlan
  PROVE  LET p == PlanReversal(r, ledger, n)
         IN  /\ p.kind = "reversal" /\ p.reverses = n /\ p.floor = None /\ p.period = None
             /\ p.entries = Negated(ledger[n].entries)
  BY DEF PlanReversal, ReversePlan

-----------------------------------------------------------------------------
(* What a step does.                                                         *)

\* A planner that answered has offered its plan, and nothing else waits that did not before.
LEMMA Offered ==
  ASSUME NEW q, Offer(q), NEW p \in plans' \ plans
  PROVE  p = q /\ p # NoPlan
  BY DEF Offer

\* What is charged for: sales, and what an auction settled now would charge its winner.
Charged == Sales \cup {WonItem(Resolution(auction, log, draws)) : draws \in Draws}

\* Where a plan that waits comes from.
MadeBy(p) ==
  \/ \E ev \in Attendances : p = AttendancePlan(rules.earn, log, ev)
  \/ \E ev \in Charged : p = AwardPlan(rules.spend, ev)
  \/ rules.earn # None /\ \E ev \in Adjustments : p = AdjustmentPlan(rules.earn, ev)
  \/ \E n \in DOMAIN log : p = PlanReversal(rules, log, n)
  \/ /\ Can(rules.overTime, "run") /\ run'.rule = rules.overTime
     /\ p = RunPlan(rules.overTime, log, run'.spec, roster)
\* Every proposal that starts to wait was returned by a planner, and nothing else moved then.
LEMMA PlansAreMade ==
  ASSUME [Next]_vars, NEW p \in plans' \ plans
  PROVE  p # NoPlan /\ MadeBy(p) /\ UNCHANGED <<rules, roster, log>>
<1>1. CASE RecordAttendance
  <2>1. PICK ev \in Attendances : Offer(AttendancePlan(rules.earn, log, ev))
    BY <1>1 DEF RecordAttendance
  <2>2. p = AttendancePlan(rules.earn, log, ev) /\ p # NoPlan
    BY <2>1, Offered
  <2>3. QED BY <1>1, <2>1, <2>2 DEF RecordAttendance, MadeBy
<1>2. CASE Sell
  <2>1. PICK ev \in Sales : Offer(AwardPlan(rules.spend, ev))
    BY <1>2 DEF Sell
  <2>2. p = AwardPlan(rules.spend, ev) /\ p # NoPlan
    BY <2>1, Offered
  <2>3. QED BY <1>2, <2>1, <2>2 DEF Sell, MadeBy, Charged
<1>3. CASE Adjust
  <2>1. PICK ev \in Adjustments : Offer(AdjustmentPlan(rules.earn, ev))
    BY <1>3 DEF Adjust
  <2>2. p = AdjustmentPlan(rules.earn, ev) /\ p # NoPlan /\ rules.earn # None
    BY <1>3, <2>1, Offered DEF Adjust, Can
  <2>3. QED BY <1>3, <2>1, <2>2 DEF Adjust, MadeBy
<1>4. CASE ReverseBatch
  <2>1. PICK n \in DOMAIN log : Offer(PlanReversal(rules, log, n))
    BY <1>4 DEF ReverseBatch
  <2>2. p = PlanReversal(rules, log, n) /\ p # NoPlan
    BY <2>1, Offered
  <2>3. QED BY <1>4, <2>2 DEF ReverseBatch, MadeBy
<1>5. CASE OpenRun
  <2>1. PICK spec, plan :
          /\ Offer(plan) /\ plan = RunPlan(rules.overTime, log, spec, roster)
          /\ run' = [rule |-> rules.overTime, members |-> roster, plan |-> plan, spec |-> spec]
    BY <1>5 DEF OpenRun
  <2>2. p = plan /\ p # NoPlan
    BY <2>1, Offered
  <2>3. QED BY <1>5, <2>1, <2>2 DEF OpenRun, MadeBy
<1>6. CASE RetryRun
  <2>1. Offer(RunPlan(run.rule, log, run.spec, roster)) /\ run' = run /\ run.rule = rules.overTime
    BY <1>6 DEF RetryRun
  <2>2. p = RunPlan(rules.overTime, log, run.spec, roster) /\ p # NoPlan
    BY <2>1, Offered
  <2>3. Can(rules.overTime, "run")
    BY <2>2 DEF RunPlan
  <2>4. QED BY <1>6, <2>1, <2>2, <2>3 DEF RetryRun, MadeBy
<1>7. CASE Settle
  <2>1. PICK draws \in Draws : Offer(AwardPlan(rules.spend, WonItem(Resolution(auction, log, draws))))
    BY <1>7 DEF Settle
  <2>2. p = AwardPlan(rules.spend, WonItem(Resolution(auction, log, draws))) /\ p # NoPlan
    BY <2>1, Offered
  <2>3. QED BY <1>7, <2>1, <2>2 DEF Settle, MadeBy, Charged
<1>8. CASE Commit \/ Join \/ ChangeRules \/ OpenAuction \/ PlaceBid \/ UNCHANGED vars
  BY <1>8 DEF Commit, Join, ChangeRules, OpenAuction, PlaceBid, vars
<1>9. QED BY <1>1, <1>2, <1>3, <1>4, <1>5, <1>6, <1>7, <1>8 DEF Next

\* The log grows by waiting plans that ledger.Commit accepts, one at a time.
Commits(p) ==
  /\ p \in plans /\ plans' = plans \ {p} /\ Len(log) < MaxBatches
  /\ log' = Append(log, p) /\ CommitAdmits(log, roster, p)
  /\ UNCHANGED <<rules, roster, run, auction>>
\* Only Commit touches the log, and by one batch that waited and was admitted.
LEMMA LogGrows ==
  ASSUME [Next]_vars
  PROVE  log' = log \/ \E p : Commits(p)
<1>1. CASE Commit
  BY <1>1 DEF Commit, Commits
<1>2. CASE ~Commit
  BY <1>2 DEF Next, RecordAttendance, Sell, Adjust, ReverseBatch, OpenRun, RetryRun, Join, ChangeRules,
              OpenAuction, PlaceBid, Settle, vars
<1>3. QED BY <1>1, <1>2

\* Accounts join and none leaves; rules are replaced by rules that resolve.
LEMMA OthersMove ==
  ASSUME [Next]_vars
  PROVE  /\ roster \subseteq roster' /\ roster' \subseteq roster \cup Newcomers
         /\ rules' = rules \/ (rules' \in Replacements /\ Resolves(rules'))
         /\ run' = run \/ OpenRun
<1>1. CASE Join
  BY <1>1 DEF Join
<1>2. CASE ChangeRules
  <2>1. PICK r \in Replacements : Resolves(r) /\ rules' = r
    BY <1>2 DEF ChangeRules
  <2>2. QED BY <1>2, <2>1 DEF ChangeRules
<1>3. CASE OpenRun
  BY <1>3 DEF OpenRun
<1>4. CASE ~(Join \/ ChangeRules \/ OpenRun)
  <2>1. UNCHANGED <<roster, rules, run>>
    BY <1>4 DEF Next, RecordAttendance, Sell, Adjust, ReverseBatch, RetryRun, Commit, OpenAuction,
                PlaceBid, Settle, vars
  <2>2. QED BY <2>1
<1>5. QED BY <1>1, <1>2, <1>3, <1>4

-----------------------------------------------------------------------------
(* Rules that resolve, and batches of accounts the pool has.                 *)

Rows(members) == [account : members \cup SystemAccounts, amount : Cp \ {0}]
RulesInv == rules \in Compositions \cup Replacements /\ Resolves(rules)
RosterInv == Founders \subseteq roster /\ roster \subseteq Members
LogInv ==
  /\ \E S : log \in Seq(S)
  /\ HeadSeq \in 1..MaxBatches
  /\ \A n \in 1..HeadSeq : log[n].entries \in Seq(Rows(roster)) \ {<<>>}
BaseInv == RulesInv /\ RosterInv /\ LogInv

\* Rows of a roster are rows of a larger one.
LEMMA RowsGrow ==
  ASSUME NEW A, NEW B, A \subseteq B, NEW es \in Seq(Rows(A))
  PROVE  es \in Seq(Rows(B))
<1>1. Rows(A) \subseteq Rows(B)
  BY DEF Rows
<1>2. QED BY <1>1, SeqWiden

\* Such a log is one that sums can be taken of.
LEMMA LogIsLog ==
  ASSUME LogInv
  PROVE  /\ IsLog(log) /\ HeadSeq \in Nat
         /\ \A n \in 1..HeadSeq : \A i \in DOMAIN log[n].entries :
              log[n].entries[i].account \in roster \cup SystemAccounts
<1>1. HeadSeq \in Nat /\ Len(log) = HeadSeq /\ \E S : log \in Seq(S)
  BY BoundsAssumption DEF LogInv, HeadSeq
<1>2. ASSUME NEW n \in 1..HeadSeq
      PROVE  /\ IsEntries(log[n].entries)
             /\ \A i \in DOMAIN log[n].entries : log[n].entries[i].account \in roster \cup SystemAccounts
  <2>1. log[n].entries \in Seq([account : roster \cup SystemAccounts, amount : Cp \ {0}])
    BY DEF LogInv, Rows
  <2>2. QED BY <2>1, RowsAreEntries
<1>3. QED BY <1>1, <1>2 DEF IsLog

\* The first raid is a batch of the founders.
LEMMA BaseInit == Init => BaseInv
<1> SUFFICES ASSUME Init PROVE BaseInv
  OBVIOUS
<1> DEFINE p == AttendancePlan(rules.earn, <<>>, Opening)
<1>1. log = <<p>> /\ CommitAdmits(<<>>, roster, p) /\ roster = Founders
  BY DEF Init
<1>2. p.entries \in Seq(Rows(roster)) \ {<<>>}
  BY <1>1 DEF CommitAdmits, Rows
<1> HIDE DEF p
<1>3. log \in Seq({p}) /\ Len(log) = 1 /\ log[1] = p
  BY <1>1
<1>4. LogInv
  BY <1>2, <1>3, BoundsAssumption DEF LogInv, HeadSeq
<1>5. RulesInv /\ RosterInv
  BY <1>1 DEF Init, RulesInv, RosterInv, Members
<1>6. QED BY <1>4, <1>5 DEF BaseInv

\* Admission keeps the log a log; rules are replaced by rules that resolve.
LEMMA BaseNext == BaseInv /\ [Next]_vars => BaseInv'
<1> SUFFICES ASSUME BaseInv, [Next]_vars PROVE BaseInv'
  OBVIOUS
<1>1. RulesInv' /\ RosterInv'
  BY OthersMove DEF BaseInv, RulesInv, RosterInv, Members
<1>2. \A n \in 1..HeadSeq : log[n].entries \in Seq(Rows(roster')) \ {<<>>}
  BY OthersMove, RowsGrow DEF BaseInv, LogInv
<1>3. LogInv'
  <2>1. CASE log' = log
    BY <1>2, <2>1 DEF BaseInv, LogInv, HeadSeq
  <2>2. ASSUME NEW p, Commits(p) PROVE LogInv'
    <3>1. p.entries \in Seq(Rows(roster')) \ {<<>>}
      BY <2>2 DEF Commits, CommitAdmits, Rows
    <3>2. IsEntries(p.entries)
      BY <3>1, RowsAreEntries DEF Rows
    <3>3. /\ IsLog(log') /\ Len(log) \in Nat /\ Len(log') = Len(log) + 1
          /\ log'[Len(log) + 1] = p /\ \A n \in 1..Len(log) : log'[n] = log[n]
      <4>1. IsLog(log)
        BY LogIsLog DEF BaseInv
      <4>2. log' = Append(log, p)
        BY <2>2 DEF Commits
      <4>3. QED BY <3>2, <4>1, <4>2, LogAppend
    <3>4. Len(log') \in 1..MaxBatches
      BY <2>2, <3>3, BoundsAssumption DEF Commits
    <3>5. \A n \in 1..Len(log') : log'[n].entries \in Seq(Rows(roster')) \ {<<>>}
      BY <1>2, <3>1, <3>3 DEF HeadSeq
    <3>6. QED BY <3>3, <3>4, <3>5 DEF LogInv, IsLog, HeadSeq
  <2>3. QED BY <2>1, <2>2, LogGrows
<1>4. QED BY <1>1, <1>3 DEF BaseInv

\* What a commit appends, and what was in the log is there still.
LEMMA Committed ==
  ASSUME BaseInv, NEW p, Commits(p)
  PROVE  /\ IsLog(log) /\ IsLog(log') /\ IsEntries(p.entries) /\ p.entries \in Seq(Rows(roster))
         /\ HeadSeq \in Nat /\ HeadSeq' = HeadSeq + 1 /\ log'[HeadSeq + 1] = p
         /\ \A n \in 1..HeadSeq : log'[n] = log[n]
<1>1. p.entries \in Seq(Rows(roster)) /\ log' = Append(log, p)
  BY DEF Commits, CommitAdmits, Rows
<1>2. IsEntries(p.entries)
  BY <1>1, RowsAreEntries DEF Rows
<1>3. IsLog(log)
  BY LogIsLog DEF BaseInv
<1>4. QED BY <1>1, <1>2, <1>3, LogAppend DEF HeadSeq

-----------------------------------------------------------------------------
(* Reversals.                                                                *)

\* A reversal is the negation of the batch it names, which is one of the first n.
Linked(p, n) ==
  p.reverses # None => p.reverses \in 1..n /\ p.entries = Negated(log[p.reverses].entries)

\* Every batch is linked to an earlier one or to none, and no two to the same.
LinkInv ==
  /\ \A p \in plans : Linked(p, HeadSeq)
  /\ \A n \in 1..HeadSeq : (log[n].kind = "reversal" <=> log[n].reverses # None) /\ Linked(log[n], n - 1)
  /\ \A m, n \in 1..HeadSeq : log[m].reverses # None /\ log[m].reverses = log[n].reverses => m = n

\* What a new plan says of itself, whichever planner made it.
LEMMA MadeLabels ==
  ASSUME RulesInv, [Next]_vars, NEW p, p # NoPlan, MadeBy(p)
  PROVE  \/ Labelled(p, "attendance", p.strategy, None, None)
         \/ Labelled(p, "award", p.strategy, None, p.floor)
         \/ Labelled(p, "adjustment", p.strategy, None, p.floor)
         \/ /\ rules.overTime # None /\ RuleKindOf[rules.overTime.id] = "overTime"
            /\ rules.overTime.id \in DOMAIN RuleKindOf
            /\ Labelled(p, RunKind(rules.overTime.id), rules.overTime.id, run'.spec.period,
                        IF rules.overTime.id = "start_points" THEN None ELSE rules.overTime.cfg.floor)
            /\ p = RunPlan(rules.overTime, log, run'.spec, roster)
         \/ /\ p.kind = "reversal" /\ p.floor = None /\ p.period = None
            /\ p.reverses \in DOMAIN log /\ p.entries = Negated(log[p.reverses].entries)
<1>1. ASSUME NEW ev, p = AttendancePlan(rules.earn, log, ev)
      PROVE  Labelled(p, "attendance", p.strategy, None, None)
  <2>1. rules.earn # None => rules.earn.id \in DOMAIN RuleKindOf
    BY DEF RulesInv, Resolves
  <2>2. Labelled(p, "attendance", rules.earn.id, None, None)
    BY <1>1, <2>1, AttendanceLabels
  <2>3. QED BY <2>2 DEF Labelled
<1>2. ASSUME NEW ev, p = AwardPlan(rules.spend, ev) PROVE Labelled(p, "award", p.strategy, None, p.floor)
  <2>1. Labelled(p, "award", rules.spend.id, None, rules.spend.cfg.floor)
    BY <1>2, AwardLabels
  <2>2. QED BY <2>1 DEF Labelled
<1>3. ASSUME NEW ev, p = AdjustmentPlan(rules.earn, ev)
      PROVE  Labelled(p, "adjustment", p.strategy, None, p.floor)
  <2>1. Labelled(p, "adjustment", rules.earn.id, None, rules.earn.cfg.floor)
    BY <1>3, AdjustmentLabels
  <2>2. QED BY <2>1 DEF Labelled
<1>4. ASSUME NEW n \in DOMAIN log, p = PlanReversal(rules, log, n)
      PROVE  /\ p.kind = "reversal" /\ p.floor = None /\ p.period = None
             /\ p.reverses \in DOMAIN log /\ p.entries = Negated(log[p.reverses].entries)
  BY <1>4, ReversalLabels
<1>5. ASSUME Can(rules.overTime, "run"), p = RunPlan(rules.overTime, log, run'.spec, roster)
      PROVE  /\ rules.overTime # None /\ RuleKindOf[rules.overTime.id] = "overTime"
             /\ rules.overTime.id \in DOMAIN RuleKindOf
             /\ Labelled(p, RunKind(rules.overTime.id), rules.overTime.id, run'.spec.period,
                         IF rules.overTime.id = "start_points" THEN None ELSE rules.overTime.cfg.floor)
  <2>1. /\ rules.overTime # None /\ rules.overTime.id \in DOMAIN RuleKindOf
        /\ RuleKindOf[rules.overTime.id] = "overTime"
    BY <1>5 DEF RulesInv, Resolves, Can
  <2>2. QED BY <1>5, <2>1, RunLabels
<1>6. QED BY <1>1, <1>2, <1>3, <1>4, <1>5 DEF MadeBy

\* A new plan is linked to the log it was planned from.
LEMMA MadeLinked ==
  ASSUME BaseInv, [Next]_vars, NEW p, p # NoPlan, MadeBy(p)
  PROVE  Linked(p, HeadSeq)
<1>1. DOMAIN log = 1..HeadSeq
  BY DEF BaseInv, LogInv, HeadSeq
<1>2. QED BY <1>1, MadeLabels DEF BaseInv, Labelled, Linked

\* The first raid reverses nothing.
LEMMA LinkInit == Init => LinkInv
<1> SUFFICES ASSUME Init PROVE LinkInv
  OBVIOUS
<1> DEFINE p == AttendancePlan(rules.earn, <<>>, Opening)
<1>1. plans = {} /\ log = <<p>> /\ LinkAdmits(<<>>, p)
  BY DEF Init, CommitAdmits
<1>2. (p.kind = "reversal" <=> p.reverses # None) /\ p.reverses = None
  BY <1>1 DEF LinkAdmits
<1> HIDE DEF p
<1>3. Len(log) = 1 /\ log[1] = p
  BY <1>1
<1>4. QED BY <1>1, <1>2, <1>3 DEF LinkInv, Linked, HeadSeq

\* A reversal is planned from the batch it names, and ux_batch_reverses admits one of each.
LEMMA LinkNext == BaseInv /\ LinkInv /\ [Next]_vars => LinkInv'
<1> SUFFICES ASSUME BaseInv, LinkInv, [Next]_vars PROVE LinkInv'
  OBVIOUS
<1>1. ASSUME log' = log PROVE LinkInv'
  <2>1. HeadSeq' = HeadSeq
    BY <1>1 DEF HeadSeq
  <2>2. \A p \in plans' : Linked(p, HeadSeq)
    BY PlansAreMade, MadeLinked DEF LinkInv
  <2>3. \A p \in plans' : Linked(p, HeadSeq)'
    BY <1>1, <2>1, <2>2 DEF Linked
  <2>4. QED BY <1>1, <2>1, <2>3 DEF LinkInv, Linked
<1>2. ASSUME NEW p, Commits(p) PROVE LinkInv'
  <2> DEFINE H == HeadSeq
  <2>1. /\ H \in Nat /\ HeadSeq' = H + 1 /\ log'[H + 1] = p
        /\ \A n \in 1..H : log'[n] = log[n]
    BY <1>2, Committed
  <2>2. Linked(p, H) /\ plans' \subseteq plans /\ LinkAdmits(log, p) /\ DOMAIN log = 1..H
    BY <1>2 DEF Commits, LinkInv, CommitAdmits, BaseInv, LogInv, HeadSeq
  <2> HIDE DEF H
  <2>3. \A q \in plans' : Linked(q, HeadSeq)'
    BY <2>1, <2>2 DEF LinkInv, Linked, H
  <2>4. ASSUME NEW n \in 1..(H + 1)
        PROVE  /\ log'[n].kind = "reversal" <=> log'[n].reverses # None
               /\ log'[n].reverses # None => /\ log'[n].reverses \in 1..(n - 1)
                                             /\ log'[n].entries = Negated(log'[log'[n].reverses].entries)
    <3>1. CASE n = H + 1
      BY <2>1, <2>2, <3>1 DEF Linked, LinkAdmits
    <3>2. CASE n \in 1..H
      <4>1. (log[n].kind = "reversal" <=> log[n].reverses # None) /\ Linked(log[n], n - 1)
        BY <3>2 DEF LinkInv, H
      <4>2. log[n].reverses # None => log[n].reverses \in 1..H
        BY <2>1, <3>2, <4>1 DEF Linked
      <4>3. QED BY <2>1, <3>2, <4>1, <4>2 DEF Linked
    <3>3. QED BY <2>1, <3>1, <3>2
  <2>5. ASSUME NEW m \in 1..(H + 1), NEW n \in 1..(H + 1),
               log'[m].reverses # None, log'[m].reverses = log'[n].reverses
        PROVE  m = n
    <3>1. p.reverses # None => \A k \in 1..H : log[k].reverses # p.reverses
      BY <2>2 DEF LinkAdmits, IsReversed
    <3>2. \A i, j \in 1..H : log[i].reverses # None /\ log[i].reverses = log[j].reverses => i = j
      BY DEF LinkInv, H
    <3>3. QED BY <2>1, <2>5, <3>1, <3>2
  <2>6. QED BY <2>1, <2>3, <2>4, <2>5 DEF LinkInv, Linked
<1>3. QED BY <1>1, <1>2, LogGrows

-----------------------------------------------------------------------------
(* Standings.                                                                *)

\* Whether batch n stands, if f says which later ones do.
Stands(f, n) == n > HeadSeq \/ ~\E m \in (n + 1)..HeadSeq : log[m].reverses = n /\ f[m]
Unfolds(f) ==
  f = [n \in 1..MaxBatches |-> n > HeadSeq \/ ~\E m \in (n + 1)..HeadSeq : log[m].reverses = n /\ f[m]]

\* The recursion of Standing, from the head of the log down, is well defined.
LEMMA StandingStep ==
  ASSUME LogInv
  PROVE  \A n \in 1..HeadSeq :
           Standing[n] <=> ~\E m \in (n + 1)..HeadSeq : log[m].reverses = n /\ Standing[m]
<1> DEFINE B == 1..MaxBatches
           N == {k \in Nat : k <= MaxBatches =>
                   \E f \in [B -> BOOLEAN] : \A n \in B : n > MaxBatches - k => f[n] = Stands(f, n)}
<1>1. MaxBatches \in Nat /\ HeadSeq \in 1..MaxBatches
  BY BoundsAssumption DEF LogInv
<1>2. 0 \in N
  <2>1. [n \in B |-> TRUE] \in [B -> BOOLEAN] /\ \A n \in B : ~(n > MaxBatches - 0)
    BY <1>1
  <2>2. QED BY <2>1
<1>3. ASSUME NEW k \in Nat, k \in N PROVE k + 1 \in N
  <2>1. SUFFICES ASSUME k + 1 <= MaxBatches
                 PROVE  \E f \in [B -> BOOLEAN] : \A n \in B : n > MaxBatches - (k + 1) => f[n] = Stands(f, n)
    OBVIOUS
  <2>2. PICK f \in [B -> BOOLEAN] : \A n \in B : n > MaxBatches - k => f[n] = Stands(f, n)
    BY <1>1, <1>3, <2>1
  <2> DEFINE j == MaxBatches - k
             g == [f EXCEPT ![j] = Stands(f, j)]
  <2>3. j \in B /\ g \in [B -> BOOLEAN] /\ g[j] = Stands(f, j) /\ \A n \in B : n # j => g[n] = f[n]
    BY <1>1, <2>1 DEF Stands
  <2>4. \A n \in B : n >= j => Stands(g, n) = Stands(f, n)
    <3> HIDE DEF g
    <3>1. SUFFICES ASSUME NEW n \in B, n >= j PROVE Stands(g, n) = Stands(f, n)
      OBVIOUS
    <3>2. \A m \in (n + 1)..HeadSeq : g[m] = f[m]
      BY <1>1, <2>1, <2>3, <3>1
    <3>3. QED BY <3>2 DEF Stands
  <2>5. \A n \in B : n > MaxBatches - (k + 1) => g[n] = Stands(g, n)
    <3> HIDE DEF g
    <3>1. SUFFICES ASSUME NEW n \in B, n > MaxBatches - (k + 1) PROVE g[n] = Stands(g, n)
      OBVIOUS
    <3>2. n = j \/ n > MaxBatches - k
      BY <1>1, <2>1, <3>1
    <3>3. n >= j
      BY <1>1, <2>1, <3>1
    <3>4. QED BY <2>2, <2>3, <2>4, <3>2, <3>3
  <2> HIDE DEF g
  <2>6. QED BY <2>3, <2>5
<1>4. Nat \subseteq N
  <2> HIDE DEF N
  <2>1. QED BY <1>2, <1>3, NatInductive
<1>5. PICK f \in [B -> BOOLEAN] : \A n \in B : f[n] = Stands(f, n)
  <2>1. MaxBatches \in N
    BY <1>1, <1>4
  <2>2. \A n \in B : n > MaxBatches - MaxBatches
    BY <1>1
  <2>3. QED BY <1>1, <2>1, <2>2
<1>6. Unfolds(f)
  <2>1. f = [n \in B |-> f[n]]
    OBVIOUS
  <2>2. [n \in B |-> f[n]] = [n \in B |-> Stands(f, n)]
    BY <1>5
  <2>3. QED BY <2>1, <2>2 DEF Stands, Unfolds
<1>7. Standing = CHOOSE g : Unfolds(g)
  BY DEF Standing, Unfolds
<1>8. \A g : Unfolds(g) => Unfolds(CHOOSE h : Unfolds(h))
  OBVIOUS
<1>9. Unfolds(Standing)
  BY <1>6, <1>7, <1>8
<1>10. \A n \in 1..MaxBatches : Standing[n] = Stands(Standing, n)
  <2> DEFINE g == Standing
  <2>1. Unfolds(g)
    BY <1>9
  <2> HIDE DEF g
  <2>2. \A n \in 1..MaxBatches : g[n] = Stands(g, n)
    BY <2>1 DEF Unfolds, Stands
  <2>3. QED BY <2>2 DEF g
<1>11. \A n \in 1..HeadSeq : n \in 1..MaxBatches /\ ~(n > HeadSeq)
  BY <1>1
<1>12. QED BY <1>10, <1>11 DEF Stands

\* Of a batch and its reversal exactly one stands; a batch nobody reversed does.
LEMMA StandingOfPair ==
  ASSUME LogInv, LinkInv, NEW n \in 1..HeadSeq
  PROVE  /\ \A m \in 1..HeadSeq : log[m].reverses = n => (Standing[n] <=> ~Standing[m])
         /\ (\A m \in 1..HeadSeq : log[m].reverses # n) => Standing[n]
<1>0. HeadSeq \in Nat
  BY BoundsAssumption DEF LogInv
<1>1. Standing[n] <=> ~\E m \in (n + 1)..HeadSeq : log[m].reverses = n /\ Standing[m]
  BY StandingStep
<1>2. \A m \in (n + 1)..HeadSeq : m \in 1..HeadSeq
  BY <1>0
<1>3. ASSUME NEW m \in 1..HeadSeq, log[m].reverses = n PROVE Standing[n] <=> ~Standing[m]
  <2>1. n # None
    BY <1>0, NoneAssumption
  <2>2. n \in 1..(m - 1)
    BY <1>3, <2>1 DEF LinkInv, Linked
  <2>3. m \in (n + 1)..HeadSeq
    BY <1>0, <2>2
  <2>4. \A k \in 1..HeadSeq : log[k].reverses = n => k = m
    BY <1>3, <2>1 DEF LinkInv
  <2>5. QED BY <1>1, <1>2, <1>3, <2>3, <2>4
<1>4. QED BY <1>1, <1>2, <1>3

\* What a batch that stands moves counts in the sum over batches that are no reversals, and what a
\* reversal that stands moves is what its batch lost by not standing: summed over the log, both
\* sides of the property differ by the same amount.
LEMMA StandingsAddUp ==
  ASSUME BaseInv, LinkInv, NEW a
  PROVE  Holding(a) = Total([n \in 1..HeadSeq |->
                        IF log[n].kind # "reversal" /\ Standing[n] THEN Moved(log[n], a) ELSE 0])
<1> DEFINE H == HeadSeq
           moved(n) == Moved(log[n], a)
           stands(n) == IF Standing[n] THEN moved(n) ELSE 0
           all == Movements(log, a, H)
           u == [n \in 1..H |-> stands(n)]
           w == [n \in 1..H |-> IF log[n].kind # "reversal" /\ Standing[n] THEN Moved(log[n], a) ELSE 0]
           x == [n \in 1..H |-> stands(n) - moved(n)]
           y == [n \in 1..H |-> IF log[n].kind = "reversal" THEN stands(n) ELSE 0]
           f == [n \in 1..H |-> log[n].reverses]
<1>1. H \in Nat /\ IsLog(log) /\ Len(log) = H
  BY LogIsLog DEF BaseInv, HeadSeq
<1>2. \A n \in 1..H : IsEntries(log[n].entries) /\ moved(n) \in Int
  BY <1>1, ColumnType DEF IsLog
<1>3. /\ all \in Seq(Int) /\ Len(all) = H /\ Holding(a) = Total(all)
      /\ \A n \in 1..H : all[n] = moved(n)
  <2>1. \A n \in 1..H : all[n] = moved(n)
    BY DEF Movements
  <2>2. H <= Len(log)
    BY <1>1
  <2>3. Holding(a) = Balance(log, a, H)
    BY DEF Holding
  <2> HIDE DEF H
  <2>4. all \in Seq(Int) /\ Len(all) = H /\ Balance(log, a, H) = Total(all)
    BY <1>1, <2>2, BalanceType
  <2>5. QED BY <2>1, <2>3, <2>4
<1>4. /\ u \in Seq(Int) /\ w \in Seq(Int) /\ x \in Seq(Int) /\ y \in Seq(Int)
      /\ Len(u) = H /\ Len(w) = H /\ Len(x) = H /\ Len(y) = H
  <2>1. \A n \in 1..H : u[n] \in Int /\ w[n] \in Int /\ x[n] \in Int /\ y[n] \in Int
    BY <1>2
  <2>2. /\ u = [n \in 1..H |-> u[n]] /\ w = [n \in 1..H |-> w[n]]
        /\ x = [n \in 1..H |-> x[n]] /\ y = [n \in 1..H |-> y[n]]
    OBVIOUS
  <2> HIDE DEF u, w, x, y, H
  <2>3. u \in Seq(Int) /\ Len(u) = H
    BY <1>1, <2>1, <2>2
  <2>4. w \in Seq(Int) /\ Len(w) = H
    BY <1>1, <2>1, <2>2
  <2>5. x \in Seq(Int) /\ Len(x) = H
    BY <1>1, <2>1, <2>2
  <2>6. y \in Seq(Int) /\ Len(y) = H
    BY <1>1, <2>1, <2>2
  <2>7. QED BY <2>3, <2>4, <2>5, <2>6
<1>5. \A n \in 1..H : u[n] = w[n] + y[n] /\ u[n] = all[n] + x[n]
  BY <1>2, <1>3
<1>6. \A n \in 1..H : IF f[n] \in 1..H THEN x[f[n]] = y[n] ELSE y[n] = 0
  <2> TAKE n \in 1..H
  <2>1. CASE f[n] \in 1..H
    <3> DEFINE k == f[n]
    <3>1. k \in 1..H /\ k = log[n].reverses /\ k # None
      BY <1>1, <2>1, NoneAssumption
    <3>2. log[n].kind = "reversal" /\ log[n].entries = Negated(log[k].entries)
      BY <3>1 DEF LinkInv, Linked
    <3>3. moved(n) = -moved(k) /\ moved(n) \in Int /\ moved(k) \in Int
      BY <1>2, <3>1, <3>2, MovedNegated
    <3>4. Standing[k] <=> ~Standing[n]
      BY <3>1, StandingOfPair DEF BaseInv
    <3>5. x[k] = stands(k) - moved(k) /\ y[n] = stands(n)
      BY <3>1, <3>2
    <3> HIDE DEF k, moved, x, y
    <3>6. x[k] = y[n]
      BY <3>3, <3>4, <3>5
    <3>7. QED BY <2>1, <3>6 DEF k
  <2>2. CASE f[n] \notin 1..H
    <3>1. log[n].kind # "reversal"
      BY <1>1, <2>2 DEF LinkInv, Linked
    <3>2. QED BY <2>2, <3>1
  <2>3. QED BY <2>1, <2>2
<1>7. \A m, n \in 1..H : f[m] \in 1..H /\ f[m] = f[n] => m = n
  BY <1>1, NoneAssumption DEF LinkInv
<1>8. \A n \in 1..H : (\A m \in 1..H : f[m] # n) => x[n] = 0
  <2> SUFFICES ASSUME NEW n \in 1..H, \A m \in 1..H : f[m] # n PROVE x[n] = 0
    OBVIOUS
  <2>1. Standing[n]
    BY StandingOfPair DEF BaseInv
  <2>2. QED BY <1>2, <2>1
<1> HIDE DEF all, u, w, x, y, f, H
<1>9. Total(x) = Total(y)
  <2>1. \A n \in 1..Len(y) : IF f[n] \in 1..Len(x) THEN x[f[n]] = y[n] ELSE y[n] = 0
    BY <1>4, <1>6
  <2>2. \A m, n \in 1..Len(y) : f[m] \in 1..Len(x) /\ f[m] = f[n] => m = n
    BY <1>4, <1>7
  <2>3. \A n \in 1..Len(x) : (\A m \in 1..Len(y) : f[m] # n) => x[n] = 0
    BY <1>4, <1>8
  <2>4. x \in Seq(Int) /\ y \in Seq(Int) /\ Len(x) = Len(y)
    BY <1>4
  <2>5. QED BY <2>1, <2>2, <2>3, <2>4, TotalMatched
<1>10. Total(u) = Total(w) + Total(y)
  <2>1. \A n \in 1..Len(u) : u[n] = w[n] + y[n]
    BY <1>4, <1>5
  <2>2. Len(w) = Len(u) /\ Len(y) = Len(u)
    BY <1>4
  <2>3. QED BY <1>4, <2>1, <2>2, TotalPlus
<1>11. Total(u) = Total(all) + Total(x)
  <2>1. \A n \in 1..Len(u) : u[n] = all[n] + x[n]
    BY <1>4, <1>5
  <2>2. Len(all) = Len(u) /\ Len(x) = Len(u)
    BY <1>3, <1>4
  <2>3. QED BY <1>3, <1>4, <2>1, <2>2, TotalPlus
<1>12. Total(w) \in Int /\ Total(y) \in Int /\ Total(all) \in Int
  BY <1>3, <1>4, TotalType
<1>13. Holding(a) = Total(w)
  BY <1>3, <1>9, <1>10, <1>11, <1>12
<1>14. QED BY <1>13 DEF w, H

\* Reversing restores exactly, through reversals of reversals (StandingsAreWhatStands): by the
\* links alone, which reversePlan makes and ux_batch_reverses and checkReversalLinkage keep.
THEOREM StandingsCorrect == Spec => []StandingsAreWhatStands
<1>1. Init => BaseInv /\ LinkInv
  BY BaseInit, LinkInit
<1>2. BaseInv /\ LinkInv /\ [Next]_vars => (BaseInv /\ LinkInv)'
  BY BaseNext, LinkNext
<1>3. BaseInv /\ LinkInv => StandingsAreWhatStands
  BY StandingsAddUp DEF StandingsAreWhatStands
<1>4. QED BY <1>1, <1>2, <1>3, PTL DEF Spec

-----------------------------------------------------------------------------
(* What a run's loop writes.                                                 *)

Moving(f) == {a \in DOMAIN f : f[a] # 0}

\* Runs that move the same accounts by the same amounts are the same, whoever else they looked at.
LEMMA MovesAgree ==
  ASSUME NEW f, NEW g, Moving(f) = Moving(g), Moving(f) \in SUBSET Nat, IsFiniteSet(Moving(f)),
         \A a \in Moving(f) : f[a] = g[a]
  PROVE  MovesOf(f) = MovesOf(g)
<1> DEFINE who == InOrder(Moving(f))
<1>a. Moving(f) \in SUBSET Int
  OBVIOUS
<1>1. DOMAIN who = 1..Cardinality(Moving(f)) /\ \A k \in 1..Cardinality(Moving(f)) : who[k] \in Moving(f)
  BY <1>a, OrderLists
<1>2. MovesOf(f) = [k \in DOMAIN who |-> Entry(who[k], f[who[k]])]
  BY DEF MovesOf, Moving
<1>3. MovesOf(g) = [k \in DOMAIN who |-> Entry(who[k], g[who[k]])]
  BY DEF MovesOf, Moving
<1> HIDE DEF who
<1>4. \A k \in DOMAIN who : Entry(who[k], f[who[k]]) = Entry(who[k], g[who[k]])
  BY <1>1
<1>5. QED BY <1>2, <1>3, <1>4

\* Each account is moved by its amount, and no other is.
LEMMA MovesType ==
  ASSUME NEW f, DOMAIN f \in SUBSET Nat, IsFiniteSet(DOMAIN f), \A a \in DOMAIN f : f[a] \in Int
  PROVE  /\ MovesOf(f) \in Seq([account : DOMAIN f, amount : Int]) /\ IsEntries(MovesOf(f))
         /\ \A i \in DOMAIN MovesOf(f) : /\ MovesOf(f)[i].account \in Moving(f)
                                         /\ MovesOf(f)[i].amount = f[MovesOf(f)[i].account]
         /\ \A i, j \in DOMAIN MovesOf(f) : MovesOf(f)[i].account = MovesOf(f)[j].account => i = j
         /\ \A a \in Moving(f) : \E i \in DOMAIN MovesOf(f) : MovesOf(f)[i].account = a
<1> DEFINE S == Moving(f)
           L == Cardinality(S)
           who == InOrder(S)
           es == MovesOf(f)
<1>1. S \in SUBSET DOMAIN f
  BY DEF Moving
<1>2. S \in SUBSET Nat /\ IsFiniteSet(S)
  BY <1>1, FS_Subset
<1>3. /\ DOMAIN who = 1..L /\ L \in Nat /\ \A k \in 1..L : who[k] \in S
      /\ \A j, k \in 1..L : who[j] = who[k] => j = k
      /\ \A a \in S : \E k \in 1..L : who[k] = a
  <2> HIDE DEF S
  <2>1. S \in SUBSET Int
    BY <1>2
  <2>2. QED BY <1>2, <2>1, OrderLists
<1>4. es = [k \in 1..L |-> Entry(who[k], f[who[k]])]
  <2>1. es = [k \in DOMAIN who |-> Entry(who[k], f[who[k]])]
    BY DEF MovesOf, Moving
  <2> HIDE DEF es, who, L, S
  <2>2. QED BY <1>3, <2>1
<1> HIDE DEF who, S, L, es
<1>5. \A k \in 1..L : es[k].account = who[k] /\ es[k].amount = f[who[k]]
  BY <1>4 DEF Entry
<1>6. \A k \in 1..L : es[k] \in [account : DOMAIN f, amount : Int]
  BY <1>1, <1>3, <1>4 DEF Entry
<1>7. es \in Seq([account : DOMAIN f, amount : Int]) /\ Len(es) = L /\ DOMAIN es = 1..L
  BY <1>3, <1>4, <1>6
<1>8. IsEntries(es)
  BY <1>3, <1>6, <1>7 DEF IsEntries
<1>9. /\ \A i \in DOMAIN es : es[i].account \in S /\ es[i].amount = f[es[i].account]
      /\ \A i, j \in DOMAIN es : es[i].account = es[j].account => i = j
      /\ \A a \in S : \E i \in DOMAIN es : es[i].account = a
  <2>1. DOMAIN es = 1..L
    BY <1>7
  <2>2. \A i \in 1..L : es[i].account \in S /\ es[i].amount = f[es[i].account]
    BY <1>3, <1>5
  <2>3. \A i, j \in 1..L : es[i].account = es[j].account => i = j
    BY <1>3, <1>5
  <2>4. \A a \in S : \E i \in 1..L : es[i].account = a
    BY <1>3, <1>5
  <2>5. QED BY <2>1, <2>2, <2>3, <2>4
<1>10. QED BY <1>7, <1>8, <1>9 DEF es, S

-----------------------------------------------------------------------------
(* What a slice of the log earned somebody.                                  *)

Earnings(b, a) ==
  [i \in DOMAIN b.entries |->
     IF b.entries[i].account = a /\ b.entries[i].amount > 0 THEN b.entries[i].amount ELSE 0]
Slice(ledger, a, from, to) == [n \in 1..(to - from) |-> EarnedIn(ledger[from + n], a)]

\* A batch earns an account nothing or more, and nothing without an entry of theirs.
LEMMA EarnedInType ==
  ASSUME NEW b, IsEntries(b.entries), NEW a
  PROVE  /\ EarnedIn(b, a) \in Nat
         /\ (\A i \in DOMAIN b.entries : b.entries[i].account # a) => EarnedIn(b, a) = 0
<1> DEFINE s == Earnings(b, a)
           z == [i \in DOMAIN b.entries |-> 0]
<1>1. s \in Seq(Int) /\ Len(s) = Len(b.entries) /\ \A i \in 1..Len(s) : s[i] >= 0
  BY DEF Earnings, IsEntries
<1>2. z \in Seq(Int) /\ Len(z) = Len(b.entries) /\ \A i \in 1..Len(z) : z[i] = 0
  BY DEF IsEntries
<1>3. EarnedIn(b, a) = Total(s)
  BY DEF EarnedIn, Earnings
<1>4. (\A i \in DOMAIN b.entries : b.entries[i].account # a) => \A i \in 1..Len(s) : s[i] = 0
  BY DEF Earnings, IsEntries
<1> HIDE DEF s, z
<1>5. Total(s) \in Int /\ Total(z) = 0
  BY <1>1, <1>2, TotalType, TotalZero
<1>6. \A i \in 1..Len(z) : z[i] <= s[i]
  BY <1>1, <1>2, ElementOfSeq
<1>7. Total(z) <= Total(s)
  BY <1>1, <1>2, <1>6, TotalMonotone
<1>8. (\A i \in 1..Len(s) : s[i] = 0) => Total(s) = 0
  BY <1>1, TotalZero
<1>9. QED BY <1>3, <1>4, <1>5, <1>7, <1>8

\* The slice of a log, credit by credit.
LEMMA SliceType ==
  ASSUME NEW ledger, IsLog(ledger), NEW a, NEW from \in Nat, NEW to \in Nat, from <= to, to <= Len(ledger)
  PROVE  /\ Slice(ledger, a, from, to) \in Seq(Int) /\ Len(Slice(ledger, a, from, to)) = to - from
         /\ EarnedBetween(ledger, a, from, to) = Total(Slice(ledger, a, from, to))
         /\ EarnedBetween(ledger, a, from, to) \in Nat
         /\ \A n \in 1..(to - from) : EarnedIn(ledger[from + n], a) \in Nat
<1> DEFINE k == to - from
           s == Slice(ledger, a, from, to)
           z == [n \in 1..k |-> 0]
<1>1. k \in Nat /\ Len(ledger) \in Nat
  BY LenProperties DEF IsLog
<1>2. \A n \in 1..k : EarnedIn(ledger[from + n], a) \in Nat
  <2> TAKE n \in 1..k
  <2>1. from + n \in 1..Len(ledger)
    BY <1>1
  <2>2. IsEntries(ledger[from + n].entries)
    BY <2>1 DEF IsLog
  <2>3. QED BY <2>2, EarnedInType
<1>3. s = [n \in 1..k |-> EarnedIn(ledger[from + n], a)]
  BY DEF Slice
<1>4. EarnedBetween(ledger, a, from, to) = Total(s)
  BY DEF EarnedBetween, Slice
<1> HIDE DEF s, k
<1>5. s \in Seq(Int) /\ Len(s) = k /\ \A n \in 1..k : s[n] \in Nat
  <2>1. \A n \in 1..k : s[n] \in Nat
    BY <1>2, <1>3
  <2>2. s \in [1..k -> Int]
    BY <1>3, <2>1
  <2>3. QED BY <1>1, <2>1, <2>2
<1>6. z \in Seq(Int) /\ Len(z) = k /\ \A n \in 1..k : z[n] = 0
  BY <1>1
<1> HIDE DEF z
<1>7. Total(z) = 0 /\ Total(s) \in Int
  BY <1>5, <1>6, TotalZero, TotalType
<1>8. \A n \in 1..Len(z) : z[n] <= s[n]
  BY <1>5, <1>6
<1>9. Total(z) <= Total(s)
  BY <1>5, <1>6, <1>8, TotalMonotone
<1>10. QED BY <1>1, <1>2, <1>4, <1>5, <1>7, <1>9 DEF k, s

\* Later batches earn nothing in an earlier slice.
LEMMA EarnedKept ==
  ASSUME NEW ledger, IsLog(ledger), NEW p, IsEntries(p.entries), NEW a,
         NEW from \in Nat, NEW to \in Nat, from <= to, to <= Len(ledger)
  PROVE  EarnedBetween(Append(ledger, p), a, from, to) = EarnedBetween(ledger, a, from, to)
<1>1. Len(ledger) \in Nat /\ \A m \in 1..Len(ledger) : Append(ledger, p)[m] = ledger[m]
  BY LogAppend
<1>2. \A n \in 1..(to - from) : from + n \in 1..Len(ledger)
  BY <1>1
<1>3. \A n \in 1..(to - from) : EarnedIn(Append(ledger, p)[from + n], a) = EarnedIn(ledger[from + n], a)
  BY <1>1, <1>2
<1>4. [n \in 1..(to - from) |-> EarnedIn(Append(ledger, p)[from + n], a)]
        = [n \in 1..(to - from) |-> EarnedIn(ledger[from + n], a)]
  BY <1>3
<1>5. QED BY <1>4 DEF EarnedBetween

\* Who has no entry up to a position earned nothing in a slice that ends there.
LEMMA EarnedNothing ==
  ASSUME NEW ledger, IsLog(ledger), NEW a, NEW from \in Nat, NEW to \in Nat, from <= to,
         NEW n \in Nat, to <= n, n <= Len(ledger), ~HasHistory(ledger, a, n)
  PROVE  EarnedBetween(ledger, a, from, to) = 0
<1> DEFINE s == Slice(ledger, a, from, to)
<1>0. Len(ledger) \in Nat
  BY LenProperties DEF IsLog
<1>1. s \in Seq(Int) /\ Len(s) = to - from /\ EarnedBetween(ledger, a, from, to) = Total(s)
  <2>1. to <= Len(ledger)
    BY <1>0
  <2>2. QED BY <2>1, SliceType
<1>2. \A m \in 1..(to - from) : EarnedIn(ledger[from + m], a) = 0
  <2> TAKE m \in 1..(to - from)
  <2>1. from + m \in 1..n /\ from + m \in 1..Len(ledger)
    BY <1>0
  <2>2. IsEntries(ledger[from + m].entries)
    BY <2>1 DEF IsLog
  <2>3. \A i \in DOMAIN ledger[from + m].entries : ledger[from + m].entries[i].account # a
    BY <2>1 DEF HasHistory
  <2>4. QED BY <2>2, <2>3, EarnedInType
<1>3. \A m \in 1..(to - from) : s[m] = 0
  BY <1>2 DEF Slice
<1> HIDE DEF s
<1>4. QED BY <1>1, <1>3, TotalZero

\* Slices that meet add up.
LEMMA EarnedSplit ==
  ASSUME NEW ledger, IsLog(ledger), NEW a, NEW from \in Nat, NEW to \in Nat, from <= to, to <= Len(ledger)
  PROVE  EarnedBetween(ledger, a, 0, to) = EarnedBetween(ledger, a, 0, from) + EarnedBetween(ledger, a, from, to)
<1> DEFINE s == Slice(ledger, a, 0, from)
           t == Slice(ledger, a, from, to)
           u == Slice(ledger, a, 0, to)
<1>0. Len(ledger) \in Nat
  BY LenProperties DEF IsLog
<1>1. s \in Seq(Int) /\ Len(s) = from /\ EarnedBetween(ledger, a, 0, from) = Total(s)
  <2>1. 0 <= from /\ from <= Len(ledger) /\ from - 0 = from
    BY <1>0
  <2>2. QED BY <2>1, SliceType
<1>2. t \in Seq(Int) /\ Len(t) = to - from /\ EarnedBetween(ledger, a, from, to) = Total(t)
  BY <1>0, SliceType
<1>3. u \in Seq(Int) /\ Len(u) = to /\ EarnedBetween(ledger, a, 0, to) = Total(u)
  <2>1. 0 <= to /\ to - 0 = to
    OBVIOUS
  <2>2. QED BY <2>1, SliceType
<1>4. \A n \in 1..from : s[n] = EarnedIn(ledger[n], a)
  BY DEF Slice
<1>5. \A n \in 1..(to - from) : t[n] = EarnedIn(ledger[from + n], a)
  BY DEF Slice
<1>6. \A n \in 1..to : u[n] = EarnedIn(ledger[n], a)
  BY DEF Slice
<1> HIDE DEF s, t, u
<1>7. s \o t \in Seq(Int) /\ Len(s \o t) = to /\ Len(s) \in Nat
  <2>1. s \o t \in Seq(Int) /\ Len(s \o t) = Len(s) + Len(t)
    BY <1>1, <1>2, ConcatProperties, ZenonT(60)
  <2>2. QED BY <1>1, <1>2, <2>1
<1>8. \A n \in 1..to : u[n] = (s \o t)[n]
  <2> TAKE n \in 1..to
  <2>1. CASE n <= from
    <3>1. (s \o t)[n] = s[n] /\ n \in 1..from
      BY <1>1, <1>2, <2>1, ConcatProperties
    <3>2. QED BY <1>4, <1>6, <3>1
  <2>2. CASE from < n
    <3>1. n - from \in 1..(to - from) /\ from + (n - from) = n
      BY <2>2
    <3>2. (s \o t)[n] = t[n - from]
      BY <1>1, <1>2, <2>2, ConcatProperties
    <3>3. t[n - from] = EarnedIn(ledger[n], a)
      BY <1>5, <3>1
    <3>4. QED BY <1>6, <3>2, <3>3
  <2>3. n <= from \/ from < n
    OBVIOUS
  <2>4. QED BY <2>1, <2>2, <2>3
<1>9. u = s \o t
  BY <1>3, <1>7, <1>8, SeqEqual
<1>10. QED BY <1>1, <1>2, <1>3, <1>9, TotalConcat

-----------------------------------------------------------------------------
(* What a run reads.                                                         *)

\* The document of an over-time rule, as far as a run does arithmetic with it.
OverTimeRule(rule) ==
  /\ rule.id \in DOMAIN RuleKindOf /\ RuleKindOf[rule.id] = "overTime"
  /\ rule.id \in {"decay_percent", "decay_window"} => rule.cfg.floor \in Int
  /\ rule.id = "cap" => rule.cfg.hard \in Int
  /\ rule.id = "start_points" => rule.cfg.grant \in Int

\* Two logs, and a roster and a larger one, that answer what the run asks alike: its reads of
\* the accounts are the same, and who is only in the larger roster had nothing and earned nothing.
SameReads(ledger, A, other, B, spec) ==
  /\ spec.accounts = <<>>
  /\ A \subseteq B /\ B \in SUBSET Nat /\ IsFiniteSet(B)
  /\ \A a \in B :
       /\ Balance(ledger, a, spec.asOf) = Balance(other, a, spec.asOf)
       /\ EarnedBetween(ledger, a, spec.from, spec.to) = EarnedBetween(other, a, spec.from, spec.to)
  /\ \A a \in B \ A : a \notin SystemAccounts =>
       Balance(other, a, spec.asOf) = 0 /\ EarnedBetween(other, a, spec.from, spec.to) = 0

\* A run over more accounts that moves the others as before and the new ones by nothing.
LEMMA MovesOfMore ==
  ASSUME NEW f, NEW g, DOMAIN f \subseteq DOMAIN g, DOMAIN g \in SUBSET Nat, IsFiniteSet(DOMAIN g),
         \A a \in DOMAIN f : f[a] = g[a], \A a \in DOMAIN g \ DOMAIN f : g[a] = 0
  PROVE  MovesOf(f) = MovesOf(g)
<1>1. Moving(f) = Moving(g)
  BY DEF Moving
<1>2. Moving(f) \in SUBSET DOMAIN g
  BY <1>1 DEF Moving
<1>3. Moving(f) \in SUBSET Nat /\ IsFiniteSet(Moving(f))
  BY <1>2, FS_Subset
<1>4. \A a \in Moving(f) : f[a] = g[a]
  BY DEF Moving
<1>5. QED BY <1>1, <1>3, <1>4, MovesAgree

\* Both runs are over the rosters without the system accounts.
LEMMA RosterTargets ==
  ASSUME NEW ledger, NEW A, NEW other, NEW B, NEW spec, SameReads(ledger, A, other, B, spec)
  PROVE  /\ Targets(spec, A) = A \ SystemAccounts /\ Targets(spec, B) = B \ SystemAccounts
         /\ A \ SystemAccounts \subseteq B \ SystemAccounts
         /\ B \ SystemAccounts \in SUBSET Nat /\ IsFiniteSet(B \ SystemAccounts)
<1>1. B \ SystemAccounts \in SUBSET B /\ IsFiniteSet(B)
  BY DEF SameReads
<1>2. IsFiniteSet(B \ SystemAccounts)
  BY <1>1, FS_Subset
<1>3. QED BY <1>2 DEF SameReads, Targets

\* decay_percent gives the same batch wherever its reads are the same.
LEMMA DecayPercentAgrees ==
  ASSUME NEW rule, rule.cfg.floor \in Int, NEW ledger, NEW A, NEW other, NEW B, NEW spec,
         SameReads(ledger, A, other, B, spec)
  PROVE  DecayPercentRun(rule, ledger, spec, A) = DecayPercentRun(rule, other, spec, B)
<1> DEFINE cfg == rule.cfg
           f == [a \in A \ SystemAccounts |-> Decayable(cfg, Balance(ledger, a, spec.asOf))]
           g == [a \in B \ SystemAccounts |-> Decayable(cfg, Balance(other, a, spec.asOf))]
           inRange(l, M) == \A a \in M : DecayableInRange(cfg, Balance(l, a, spec.asOf))
           plan(moves, ok) == IF DecayPercentConfigValid(cfg) /\ RunOk(spec) /\ ok /\ moves # <<>>
                              THEN Propose(rule, "decay", spec.period, cfg.floor, PaidToBank(moves))
                              ELSE NoPlan
<1>1. /\ Targets(spec, A) = A \ SystemAccounts /\ Targets(spec, B) = B \ SystemAccounts
      /\ A \ SystemAccounts \subseteq B \ SystemAccounts
      /\ B \ SystemAccounts \in SUBSET Nat /\ IsFiniteSet(B \ SystemAccounts)
  BY RosterTargets
<1>2. Decayable(cfg, 0) = 0 /\ DecayableInRange(cfg, 0)
  BY DEF Decayable, DecayableInRange
<1>3. \A a \in A \ SystemAccounts : f[a] = g[a]
  BY DEF SameReads
<1>4. \A a \in DOMAIN g \ DOMAIN f : g[a] = 0
  BY <1>2 DEF SameReads
<1>5. inRange(ledger, A \ SystemAccounts) <=> inRange(other, B \ SystemAccounts)
  BY <1>2 DEF SameReads
<1>6. DecayPercentRun(rule, ledger, spec, A) = plan(MovesOf(f), inRange(ledger, A \ SystemAccounts))
  <2> DEFINE balance == [a \in A \ SystemAccounts |-> Balance(ledger, a, spec.asOf)]
  <2>1. [a \in DOMAIN balance |-> Decayable(cfg, balance[a])] = f
    OBVIOUS
  <2>2. (\A a \in DOMAIN balance : DecayableInRange(cfg, balance[a])) <=> inRange(ledger, A \ SystemAccounts)
    OBVIOUS
  <2>3. QED BY <1>1, <2>1, <2>2 DEF DecayPercentRun
<1>7. DecayPercentRun(rule, other, spec, B) = plan(MovesOf(g), inRange(other, B \ SystemAccounts))
  <2> DEFINE balance == [a \in B \ SystemAccounts |-> Balance(other, a, spec.asOf)]
  <2>1. [a \in DOMAIN balance |-> Decayable(cfg, balance[a])] = g
    OBVIOUS
  <2>2. (\A a \in DOMAIN balance : DecayableInRange(cfg, balance[a])) <=> inRange(other, B \ SystemAccounts)
    OBVIOUS
  <2>3. QED BY <1>1, <2>1, <2>2 DEF DecayPercentRun
<1>8. MovesOf(f) = MovesOf(g)
  <2>1. DOMAIN f = A \ SystemAccounts /\ DOMAIN g = B \ SystemAccounts
    OBVIOUS
  <2> HIDE DEF f, g
  <2>2. QED BY <1>1, <1>3, <1>4, <2>1, MovesOfMore
<1>9. QED BY <1>5, <1>6, <1>7, <1>8

\* So does decay_window, which reads credits of a slice as well.
LEMMA DecayWindowAgrees ==
  ASSUME NEW rule, rule.cfg.floor \in Int, NEW ledger, NEW A, NEW other, NEW B, NEW spec,
         SameReads(ledger, A, other, B, spec)
  PROVE  DecayWindowRun(rule, ledger, spec, A) = DecayWindowRun(rule, other, spec, B)
<1> DEFINE cfg == rule.cfg
           f == [a \in A \ SystemAccounts |-> -Expired(cfg, ledger, spec, a)]
           g == [a \in B \ SystemAccounts |-> -Expired(cfg, other, spec, a)]
           inRange(l, M) == \A a \in M : EarnedBetween(l, a, spec.from, spec.to) > 0 =>
                              Balance(l, a, spec.asOf) - cfg.floor \in Cp
           plan(moves, ok) == IF /\ DecayWindowConfigValid(cfg) /\ WindowOk(cfg, spec) /\ RunOk(spec)
                                 /\ ok /\ moves # <<>>
                              THEN Propose(rule, "decay", spec.period, cfg.floor, PaidToBank(moves))
                              ELSE NoPlan
<1>1. /\ Targets(spec, A) = A \ SystemAccounts /\ Targets(spec, B) = B \ SystemAccounts
      /\ A \ SystemAccounts \subseteq B \ SystemAccounts
      /\ B \ SystemAccounts \in SUBSET Nat /\ IsFiniteSet(B \ SystemAccounts)
  BY RosterTargets
<1>2. \A a \in B \ SystemAccounts : a \notin A => Expired(cfg, other, spec, a) = 0
  <2> SUFFICES ASSUME NEW a \in B \ SystemAccounts, a \notin A PROVE Expired(cfg, other, spec, a) = 0
    OBVIOUS
  <2>1. Balance(other, a, spec.asOf) = 0 /\ EarnedBetween(other, a, spec.from, spec.to) = 0
    BY DEF SameReads
  <2>2. Greatest(0, 0) = 0 /\ Greatest(0 - cfg.floor, 0) \in Nat
    BY DEF Greatest
  <2>3. Least(0, Greatest(0 - cfg.floor, 0)) = 0
    BY <2>2 DEF Least
  <2>4. QED BY <2>1, <2>2, <2>3 DEF Expired
<1>3. \A a \in A \ SystemAccounts : Expired(cfg, ledger, spec, a) = Expired(cfg, other, spec, a)
  BY DEF SameReads, Expired
<1>4. \A a \in DOMAIN f : f[a] = g[a]
  BY <1>1, <1>3
<1>5. \A a \in DOMAIN g \ DOMAIN f : g[a] = 0
  BY <1>2
<1>6. inRange(ledger, A \ SystemAccounts) <=> inRange(other, B \ SystemAccounts)
  <2>1. \A a \in B \ SystemAccounts : a \notin A => ~(EarnedBetween(other, a, spec.from, spec.to) > 0)
    BY DEF SameReads
  <2>2. QED BY <2>1 DEF SameReads
<1>7. DecayWindowRun(rule, ledger, spec, A) = plan(MovesOf(f), inRange(ledger, A \ SystemAccounts))
  BY <1>1 DEF DecayWindowRun
<1>8. DecayWindowRun(rule, other, spec, B) = plan(MovesOf(g), inRange(other, B \ SystemAccounts))
  BY <1>1 DEF DecayWindowRun
<1>9. MovesOf(f) = MovesOf(g)
  <2>1. DOMAIN f = A \ SystemAccounts /\ DOMAIN g = B \ SystemAccounts
    OBVIOUS
  <2> HIDE DEF f, g
  <2>2. QED BY <1>1, <1>4, <1>5, <2>1, MovesOfMore
<1>10. QED BY <1>6, <1>7, <1>8, <1>9

\* And cap.
LEMMA CapAgrees ==
  ASSUME NEW rule, rule.cfg.hard \in Int, NEW ledger, NEW A, NEW other, NEW B, NEW spec,
         SameReads(ledger, A, other, B, spec)
  PROVE  CapRun(rule, ledger, spec, A) = CapRun(rule, other, spec, B)
<1> DEFINE cfg == rule.cfg
           f == [a \in A \ SystemAccounts |-> -Greatest(Balance(ledger, a, spec.asOf) - cfg.hard, 0)]
           g == [a \in B \ SystemAccounts |-> -Greatest(Balance(other, a, spec.asOf) - cfg.hard, 0)]
           plan(moves) == IF CapConfigValid(cfg) /\ cfg.hard > 0 /\ RunOk(spec) /\ moves # <<>>
                          THEN Propose(rule, "cap", spec.period, cfg.floor, PaidToBank(moves))
                          ELSE NoPlan
<1>1. /\ Targets(spec, A) = A \ SystemAccounts /\ Targets(spec, B) = B \ SystemAccounts
      /\ A \ SystemAccounts \subseteq B \ SystemAccounts
      /\ B \ SystemAccounts \in SUBSET Nat /\ IsFiniteSet(B \ SystemAccounts)
  BY RosterTargets
<1>2. \A a \in DOMAIN f : f[a] = g[a]
  BY <1>1 DEF SameReads
<1>3. ASSUME cfg.hard > 0 PROVE MovesOf(f) = MovesOf(g)
  <2>1. Greatest(0 - cfg.hard, 0) = 0
    BY <1>3 DEF Greatest
  <2>2. \A a \in DOMAIN g \ DOMAIN f : g[a] = 0
    BY <2>1 DEF SameReads
  <2>3. DOMAIN f = A \ SystemAccounts /\ DOMAIN g = B \ SystemAccounts
    OBVIOUS
  <2> HIDE DEF f, g
  <2>4. QED BY <1>1, <1>2, <2>2, <2>3, MovesOfMore
<1>4. CapRun(rule, ledger, spec, A) = plan(MovesOf(f)) /\ CapRun(rule, other, spec, B) = plan(MovesOf(g))
  BY <1>1 DEF CapRun
<1> HIDE DEF f, g
<1>5. QED BY <1>3, <1>4

\* A run is what its reads make it: no batch and no member that came after its position changes it.
LEMMA RunAgrees ==
  ASSUME NEW rule, OverTimeRule(rule), rule.id # "start_points",
         NEW ledger, NEW A, NEW other, NEW B, NEW spec, SameReads(ledger, A, other, B, spec)
  PROVE  RunPlan(rule, ledger, spec, A) = RunPlan(rule, other, spec, B)
<1>1. rule.id \in {"decay_percent", "decay_window", "cap"}
  BY WhoAnswers DEF OverTimeRule
<1>2. CASE rule.id = "decay_percent"
  <2>1. DecayPercentRun(rule, ledger, spec, A) = DecayPercentRun(rule, other, spec, B)
    BY <1>2, DecayPercentAgrees DEF OverTimeRule
  <2>2. QED BY <1>2, <2>1 DEF RunPlan
<1>3. CASE rule.id = "decay_window"
  <2>1. DecayWindowRun(rule, ledger, spec, A) = DecayWindowRun(rule, other, spec, B)
    BY <1>3, DecayWindowAgrees DEF OverTimeRule
  <2>2. QED BY <1>3, <2>1 DEF RunPlan
<1>4. CASE rule.id = "cap"
  <2>1. CapRun(rule, ledger, spec, A) = CapRun(rule, other, spec, B)
    BY <1>4, CapAgrees DEF OverTimeRule
  <2>2. QED BY <1>4, <2>1 DEF RunPlan
<1>5. QED BY <1>1, <1>2, <1>3, <1>4

-----------------------------------------------------------------------------
(* A retried run.                                                            *)

\* The scheduler's run was planned at a position of the log, over everybody who had an entry by
\* then, and its plan is what that log gave.  (start_points asks who is on the roster today.)
SpecInv ==
  /\ run.spec.accounts = <<>> /\ run.spec.period \in Nat
  /\ run.spec.from \in Nat /\ run.spec.to \in Nat /\ run.spec.asOf \in Nat
  /\ run.spec.from <= run.spec.to /\ run.spec.to <= run.spec.asOf /\ run.spec.asOf <= HeadSeq
RunMade ==
  /\ OverTimeRule(run.rule) /\ run.members \subseteq roster
  /\ \A n \in 1..run.spec.asOf : \A i \in DOMAIN log[n].entries :
       log[n].entries[i].account \in run.members \cup SystemAccounts
  /\ run.rule.id # "start_points" => run.plan = RunPlan(run.rule, log, run.spec, run.members)
RunInv == SpecInv /\ (run # NoRun => RunMade)

\* The rule in force for runs has the document a run needs.
LEMMA RuleInForce ==
  ASSUME RulesInv, rules.overTime # None
  PROVE  OverTimeRule(rules.overTime)
  BY ConfigsAssumption DEF RulesInv, Resolves, OverTimeRule

\* A roster is a finite set of ids.
LEMMA RosterFinite ==
  ASSUME RosterInv, NEW A, A \subseteq roster
  PROVE  A \in SUBSET Nat /\ IsFiniteSet(A) /\ A \cap SystemAccounts = {}
<1>1. A \in SUBSET (Founders \cup Newcomers)
  BY DEF RosterInv, Members
<1>2. IsFiniteSet(A)
  BY <1>1, AccountsAssumption, FS_Subset
<1>3. QED BY <1>1, <1>2, AccountsAssumption

\* A commit after the run's position changes nothing the run reads.
LEMMA ReadsKept ==
  ASSUME BaseInv, SpecInv, run.members \subseteq roster, NEW p, IsEntries(p.entries)
  PROVE  SameReads(log, run.members, Append(log, p), run.members, run.spec)
<1>1. IsLog(log) /\ Len(log) \in Nat
  BY LogIsLog DEF BaseInv, HeadSeq
<1>2. run.members \in SUBSET Nat /\ IsFiniteSet(run.members)
  BY RosterFinite DEF BaseInv
<1>3. /\ run.spec.asOf \in Nat /\ run.spec.asOf <= Len(log)
      /\ run.spec.from \in Nat /\ run.spec.to \in Nat /\ run.spec.from <= run.spec.to /\ run.spec.to <= Len(log)
  BY <1>1 DEF SpecInv, HeadSeq
<1>4. \A a : Balance(log, a, run.spec.asOf) = Balance(Append(log, p), a, run.spec.asOf)
  BY <1>1, <1>3, BalanceKept
<1>5. \A a : EarnedBetween(log, a, run.spec.from, run.spec.to)
               = EarnedBetween(Append(log, p), a, run.spec.from, run.spec.to)
  BY <1>1, <1>3, EarnedKept
<1>6. QED BY <1>2, <1>4, <1>5 DEF SameReads, SpecInv

\* Who joined after the run's position has nothing there.
LEMMA ReadsOfRoster ==
  ASSUME BaseInv, SpecInv, RunMade
  PROVE  SameReads(log, run.members, log, roster, run.spec)
<1>1. IsLog(log) /\ Len(log) \in Nat
  BY LogIsLog DEF BaseInv, HeadSeq
<1>2. roster \in SUBSET Nat /\ IsFiniteSet(roster) /\ run.members \subseteq roster
  BY RosterFinite DEF BaseInv, RunMade
<1>3. /\ run.spec.asOf \in Nat /\ run.spec.asOf <= Len(log) /\ run.spec.to <= run.spec.asOf
      /\ run.spec.from \in Nat /\ run.spec.to \in Nat /\ run.spec.from <= run.spec.to
  BY <1>1 DEF SpecInv, HeadSeq
<1>4. ASSUME NEW a \in roster \ run.members, a \notin SystemAccounts
      PROVE  Balance(log, a, run.spec.asOf) = 0 /\ EarnedBetween(log, a, run.spec.from, run.spec.to) = 0
  <2>1. ~HasHistory(log, a, run.spec.asOf)
    BY <1>4 DEF HasHistory, RunMade
  <2>2. Balance(log, a, run.spec.asOf) = 0
    BY <1>1, <1>3, <2>1, BalanceNothing
  <2>3. EarnedBetween(log, a, run.spec.from, run.spec.to) = 0
    BY <1>1, <1>3, <2>1, EarnedNothing
  <2>4. QED BY <2>2, <2>3
<1>5. QED BY <1>2, <1>4 DEF SameReads, SpecInv

\* The scheduler opens a run at the head, its slice beginning where the last one ended.
LEMMA RunOpened ==
  ASSUME OpenRun
  PROVE  /\ rules.overTime # None /\ UNCHANGED <<rules, roster, log, auction>>
         /\ OneRunAtATime => \A p \in plans : p.period = None
         /\ run'.rule = rules.overTime /\ run'.members = roster
         /\ run'.plan = RunPlan(rules.overTime, log, run'.spec, roster) /\ plans' = plans \cup {run'.plan}
         /\ run'.spec.period = run.spec.period + 1 /\ run'.spec.asOf = Len(log) /\ run'.spec.accounts = <<>>
         /\ run'.spec.from = run.spec.to /\ run'.spec.to \in run.spec.to..Len(log)
         /\ rules.overTime.id # "decay_window" => run'.spec.to = run.spec.to
<1> DEFINE days == IF rules.overTime.id = "decay_window" THEN rules.overTime.cfg.days ELSE 0
           spec(to) == [period |-> run.spec.period + 1, asOf |-> Len(log), accounts |-> <<>>,
                        days |-> days, from |-> run.spec.to, to |-> to]
           plan(to) == RunPlan(rules.overTime, log, spec(to), roster)
<1>1. PICK to \in run.spec.to..Len(log) :
        /\ rules.overTime.id # "decay_window" => to = run.spec.to
        /\ Offer(plan(to))
        /\ run' = [rule |-> rules.overTime, members |-> roster, plan |-> plan(to), spec |-> spec(to)]
  BY DEF OpenRun
<1>2. run'.spec = spec(to) /\ run'.plan = plan(to) /\ run'.rule = rules.overTime /\ run'.members = roster
  BY <1>1
<1>3. plans' = plans \cup {run'.plan} /\ run'.plan = RunPlan(rules.overTime, log, run'.spec, roster)
  BY <1>1, <1>2 DEF Offer
<1>4. /\ run'.spec.period = run.spec.period + 1 /\ run'.spec.asOf = Len(log) /\ run'.spec.accounts = <<>>
      /\ run'.spec.from = run.spec.to /\ run'.spec.to = to
  BY <1>2
<1>5. /\ rules.overTime # None /\ UNCHANGED <<rules, roster, log, auction>>
      /\ OneRunAtATime => \A p \in plans : p.period = None
  BY DEF OpenRun, Can
<1>6. QED BY <1>1, <1>2, <1>3, <1>4, <1>5

\* No run has been opened.
LEMMA RunInit == Init => RunInv
  BY BaseInit DEF Init, RunInv, SpecInv, NoRun, BaseInv, LogInv, HeadSeq

\* A run is planned when it is opened; commits and joins leave what it read as it was.
LEMMA RunNext == BaseInv /\ RunInv /\ [Next]_vars => RunInv'
<1> SUFFICES ASSUME BaseInv, RunInv, [Next]_vars PROVE RunInv'
  OBVIOUS
<1>1. CASE OpenRun
  <2>1. /\ rules.overTime # None /\ UNCHANGED <<rules, roster, log>>
        /\ run'.rule = rules.overTime /\ run'.members = roster
        /\ run'.plan = RunPlan(rules.overTime, log, run'.spec, roster)
        /\ run'.spec.period = run.spec.period + 1 /\ run'.spec.asOf = Len(log) /\ run'.spec.accounts = <<>>
        /\ run'.spec.from = run.spec.to /\ run'.spec.to \in run.spec.to..Len(log)
    BY <1>1, RunOpened
  <2>2. OverTimeRule(rules.overTime)
    BY <2>1, RuleInForce DEF BaseInv
  <2>3. Len(log) \in Nat /\ \A n \in 1..Len(log) : \A i \in DOMAIN log[n].entries :
          log[n].entries[i].account \in roster \cup SystemAccounts
    BY LogIsLog DEF BaseInv, HeadSeq
  <2>4. SpecInv'
    BY <2>1, <2>3 DEF RunInv, SpecInv, HeadSeq
  <2>5. RunMade'
    BY <2>1, <2>2, <2>3 DEF RunMade
  <2>6. QED BY <2>4, <2>5 DEF RunInv
<1>2. CASE run' = run /\ log' = log
  BY <1>2, OthersMove DEF RunInv, SpecInv, RunMade, HeadSeq
<1>3. ASSUME NEW p, Commits(p) PROVE RunInv'
  <2>1. /\ IsLog(log) /\ IsEntries(p.entries) /\ HeadSeq \in Nat /\ HeadSeq' = HeadSeq + 1
        /\ \A n \in 1..HeadSeq : log'[n] = log[n]
    BY <1>3, Committed
  <2>2. log' = Append(log, p) /\ UNCHANGED <<run, roster>>
    BY <1>3 DEF Commits
  <2>3. SpecInv'
    BY <2>1, <2>2 DEF RunInv, SpecInv
  <2>4. ASSUME run # NoRun PROVE RunMade'
    <3>1. RunMade /\ SpecInv
      BY <2>4 DEF RunInv
    <3>2. \A n \in 1..run.spec.asOf : log'[n] = log[n]
      BY <2>1, <3>1 DEF SpecInv
    <3>3. ASSUME run.rule.id # "start_points"
          PROVE  RunPlan(run.rule, log', run.spec, run.members) = run.plan
      <4>1. SameReads(log, run.members, Append(log, p), run.members, run.spec)
        BY <2>1, <3>1, ReadsKept DEF RunMade
      <4>2. RunPlan(run.rule, log, run.spec, run.members) = RunPlan(run.rule, Append(log, p), run.spec, run.members)
        BY <3>1, <3>3, <4>1, RunAgrees DEF RunMade
      <4>3. QED BY <2>2, <3>1, <3>3, <4>2 DEF RunMade
    <3>4. QED BY <2>2, <3>1, <3>2, <3>3 DEF RunMade
  <2>5. QED BY <2>2, <2>3, <2>4 DEF RunInv
<1>4. QED BY <1>1, <1>2, <1>3, OthersMove, LogGrows DEF Commits

\* A run planned again, after other batches and other members, is the batch it was the first time
\* (RetriedRunIsTheSame): decay_percent, decay_window and cap read balances and slices at the
\* run's own position, and a target they do not move has no entry.
THEOREM RetriedRunsCorrect == Spec => []RetriedRunIsTheSame
<1>1. Init => BaseInv /\ RunInv
  BY BaseInit, RunInit
<1>2. BaseInv /\ RunInv /\ [Next]_vars => (BaseInv /\ RunInv)'
  BY BaseNext, RunNext
<1>3. BaseInv /\ RunInv => RetriedRunIsTheSame
  <2> SUFFICES ASSUME BaseInv, RunInv, run # NoRun, run.rule.id # "start_points"
               PROVE  RunPlan(run.rule, log, run.spec, roster) = run.plan
    BY DEF RetriedRunIsTheSame
  <2>1. RunMade /\ SpecInv
    BY DEF RunInv
  <2>2. SameReads(log, run.members, log, roster, run.spec)
    BY <2>1, ReadsOfRoster
  <2>3. RunPlan(run.rule, log, run.spec, run.members) = RunPlan(run.rule, log, run.spec, roster)
    BY <2>1, <2>2, RunAgrees DEF RunMade
  <2>4. QED BY <2>1, <2>3 DEF RunMade
<1>4. QED BY <1>1, <1>2, <1>3, PTL DEF Spec

-----------------------------------------------------------------------------
(* An auction's frozen balances.                                             *)

\* A session was opened, or reopened for a rebid, at a position of the log.
SessionInv == "seqAtOpen" \in DOMAIN auction /\ auction.seqAtOpen \in Nat /\ auction.seqAtOpen <= HeadSeq

\* Nothing has been opened.
LEMMA SessionInit == Init => SessionInv
  BY BaseInit DEF Init, SessionInv, NoAuction, BaseInv, LogInv, HeadSeq

\* A session is opened at the head, and the log never shrinks.
LEMMA SessionNext == BaseInv /\ SessionInv /\ [Next]_vars => SessionInv'
<1> SUFFICES ASSUME BaseInv, SessionInv, [Next]_vars PROVE SessionInv'
  OBVIOUS
<1>1. HeadSeq \in Nat /\ HeadSeq = Len(log)
  BY LogIsLog DEF BaseInv, HeadSeq
<1>2. HeadSeq' \in Nat /\ HeadSeq <= HeadSeq'
  <2>1. CASE log' = log
    BY <1>1, <2>1 DEF HeadSeq
  <2>2. ASSUME NEW p, Commits(p) PROVE HeadSeq' \in Nat /\ HeadSeq <= HeadSeq'
    BY <2>2, Committed
  <2>3. QED BY <2>1, <2>2, LogGrows
<1>3. \/ auction' = auction
      \/ /\ "seqAtOpen" \in DOMAIN auction'
         /\ auction'.seqAtOpen = Len(log) \/ auction'.seqAtOpen = auction.seqAtOpen \/ auction'.seqAtOpen = 0
  <2>1. CASE OpenAuction
    BY <2>1 DEF OpenAuction, NoAuction
  <2>2. CASE PlaceBid
    BY <2>2 DEF PlaceBid, SessionInv
  <2>3. CASE Settle
    BY <2>3 DEF Settle, RebidSession, NoAuction, SessionInv
  <2>4. CASE ~(OpenAuction \/ PlaceBid \/ Settle)
    BY <2>4 DEF Next, RecordAttendance, Sell, Adjust, ReverseBatch, OpenRun, RetryRun, Commit, Join,
                ChangeRules, vars
  <2>5. QED BY <2>1, <2>2, <2>3, <2>4
<1>4. QED BY <1>1, <1>2, <1>3 DEF SessionInv

\* A settlement reads the log only up to where the session opened.
LEMMA SettlementKept ==
  ASSUME BaseInv, SessionInv, NEW p, Commits(p), NEW draws
  PROVE  Resolution(auction, log', draws) = Resolution(auction, log, draws)
<1>1. IsLog(log) /\ IsEntries(p.entries) /\ log' = Append(log, p)
  BY Committed DEF Commits
<1>2. auction.seqAtOpen \in Nat /\ auction.seqAtOpen <= Len(log)
  BY DEF SessionInv, HeadSeq
<1>3. \A a : FrozenBalance(Append(log, p), auction, a) = FrozenBalance(log, auction, a)
  BY <1>1, <1>2, BalanceKept DEF FrozenBalance
<1>4. FrozenBalances(Append(log, p), auction, auction.bids) = FrozenBalances(log, auction, auction.bids)
  BY <1>3 DEF FrozenBalances
<1>5. SettleAuction(rules.spend, Append(log, p), auction, auction.bids, draws)
        = SettleAuction(rules.spend, log, auction, auction.bids, draws)
  BY <1>4 DEF SettleAuction
<1>6. UNCHANGED rules
  BY DEF Commits
<1>7. QED BY <1>1, <1>5, <1>6 DEF Resolution

\* Nothing that commits while the bids are open changes who wins and at what price
\* (SettlementIsFrozen): relative_bid measures a share against the balance at SeqAtOpen.
THEOREM SettlementFrozen == Spec => SettlementIsFrozen
<1>1. Init => BaseInv /\ SessionInv
  BY BaseInit, SessionInit
<1>2. BaseInv /\ SessionInv /\ [Next]_vars => (BaseInv /\ SessionInv)'
  BY BaseNext, SessionNext
<1>3. BaseInv /\ SessionInv /\ [Next]_vars =>
        [Bidding /\ UNCHANGED <<auction, rules>> =>
           \A draws \in Draws : Resolution(auction, log', draws) = Outcome(draws)]_vars
  <2> SUFFICES ASSUME BaseInv, SessionInv, [Next]_vars, UNCHANGED <<auction, rules>>, NEW draws \in Draws
               PROVE  Resolution(auction, log', draws) = Resolution(auction, log, draws)
    BY DEF Outcome
  <2>1. CASE log' = log
    BY <2>1 DEF Resolution
  <2>2. ASSUME NEW p, Commits(p) PROVE Resolution(auction, log', draws) = Resolution(auction, log, draws)
    BY <2>2, SettlementKept
  <2>3. QED BY <2>1, <2>2, LogGrows
<1>4. QED BY <1>1, <1>2, <1>3, PTL DEF Spec, SettlementIsFrozen

-----------------------------------------------------------------------------
(* Grants.                                                                   *)

\* The batch a pool starts with is attendance.
LEMMA FirstBatch ==
  ASSUME Init
  PROVE  plans = {} /\ run = NoRun /\ HeadSeq = 1 /\ log[1].kind = "attendance"
<1> DEFINE p == AttendancePlan(rules.earn, <<>>, Opening)
<1>1. plans = {} /\ run = NoRun /\ log = <<p>> /\ p.entries # <<>> /\ Resolves(rules)
  BY DEF Init, CommitAdmits
<1>2. p # NoPlan /\ (rules.earn # None => rules.earn.id \in DOMAIN RuleKindOf)
  BY <1>1 DEF NoPlan, Resolves
<1>3. Labelled(p, "attendance", rules.earn.id, None, None)
  BY <1>2, AttendanceLabels
<1> HIDE DEF p
<1>4. QED BY <1>1, <1>3 DEF HeadSeq, Labelled

\* Only start_points makes a grant, and only to who has no history where its run reads.
LEMMA GrantsMade ==
  ASSUME BaseInv, RunInv, [Next]_vars, NEW p, p # NoPlan, MadeBy(p), p.kind = "start_points"
  PROVE  /\ p.period = run'.spec.period
         /\ \A i \in DOMAIN p.entries :
              p.entries[i].account = Bank \/ ~HasHistory(log, p.entries[i].account, run'.spec.asOf)
<1> DEFINE rule == rules.overTime
           spec == run'.spec
<1>1. /\ rule # None /\ rule.id \in DOMAIN RuleKindOf /\ RuleKindOf[rule.id] = "overTime"
      /\ RunKind(rule.id) = "start_points" /\ p.period = spec.period
      /\ p = RunPlan(rule, log, spec, roster)
  BY MadeLabels DEF BaseInv, Labelled
<1>2. rule.id = "start_points"
  BY <1>1 DEF RunKind
<1>3. p = StartPointsRun(rule, log, spec, roster) /\ rule.cfg.grant \in Int
  BY <1>1, <1>2, RuleInForce DEF RunPlan, BaseInv, OverTimeRule
<1> DEFINE S == {a \in Targets(spec, roster) : Eligible(log, spec, a)}
           f == [a \in S |-> rule.cfg.grant]
           es == MovesOf(f)
<1>4. p = Propose(rule, "start_points", spec.period, None, FundedByBank(es))
  BY <1>1, <1>3 DEF StartPointsRun
<1>5. p.entries = FundedByBank(es)
  <2> HIDE DEF rule, spec, es
  <2>1. Propose(rule, "start_points", spec.period, None, FundedByBank(es)) # NoPlan
    BY <1>4
  <2>2. QED BY <1>4, <2>1, ProposeLabels
<1>6. S \in SUBSET Nat /\ IsFiniteSet(S)
  <2>1. spec.accounts = <<>>
    BY RunNext DEF RunInv, SpecInv
  <2>2. S \in SUBSET roster
    BY <2>1 DEF Targets
  <2>3. QED BY <2>2, RosterFinite DEF BaseInv
<1>7. /\ es \in Seq([account : S, amount : Int])
      /\ \A i \in DOMAIN es : es[i].account \in S
  <2>1. DOMAIN f = S /\ \A a \in DOMAIN f : f[a] \in Int
    BY <1>3
  <2> HIDE DEF f, S
  <2>2. es \in Seq([account : DOMAIN f, amount : Int])
    BY <1>6, <2>1, MovesType
  <2>3. es \in Seq([account : S, amount : Int])
    BY <2>1, <2>2
  <2> HIDE DEF es
  <2>4. DOMAIN es = 1..Len(es) /\ \A i \in 1..Len(es) : es[i] \in [account : S, amount : Int]
    BY <2>3, ElementOfSeq, LenProperties
  <2>5. QED BY <2>3, <2>4
<1>8. \A i \in DOMAIN p.entries : p.entries[i].account = Bank \/ p.entries[i].account \in S
  <2> DEFINE b == Entry(Bank, -Total(Amounts(es)))
             T == {b} \cup [account : S, amount : Int]
  <2>1. p.entries = <<b>> \o es
    BY <1>5 DEF FundedByBank
  <2>2. b.account = Bank
    BY DEF Entry
  <2> HIDE DEF b, es, S
  <2>3. <<b>> \in Seq(T) /\ es \in Seq(T)
    <3>1. b \in T /\ [account : S, amount : Int] \subseteq T
      OBVIOUS
    <3> HIDE DEF T
    <3>2. <<b>> \in Seq(T)
      BY <3>1
    <3>3. es \in Seq(T)
      BY <1>7, <3>1, SeqWiden
    <3>4. QED BY <3>2, <3>3
  <2> HIDE DEF T
  <2>4. p.entries \in Seq(T)
    BY <2>1, <2>3, ConcatProperties
  <2>5. \A i \in DOMAIN p.entries : p.entries[i] \in T
    BY <2>4
  <2>6. QED BY <2>2, <2>5 DEF T
<1>9. \A a \in S : ~HasHistory(log, a, spec.asOf)
  BY DEF Eligible
<1> HIDE DEF S
<1>10. QED BY <1>1, <1>8, <1>9

\* What waits to be granted, and what was granted since the run's position, is the run's.
GrantsMadeInv ==
  /\ \A p \in plans : p.kind = "start_points" =>
       /\ p.period = run.spec.period
       /\ \A i \in DOMAIN p.entries :
            p.entries[i].account = Bank \/ ~HasHistory(log, p.entries[i].account, run.spec.asOf)
  /\ \A n \in 1..HeadSeq : log[n].kind = "start_points" /\ n > run.spec.asOf =>
       log[n].period = run.spec.period
Grants(a, n) == log[n].kind = "start_points" /\ Moved(log[n], a) > 0
GrantInv ==
  /\ GrantsMadeInv
  /\ \A a \in Members : \A m, n \in 1..HeadSeq : Grants(a, m) /\ Grants(a, n) => m = n

\* Nothing has been granted.
LEMMA GrantInit == Init => GrantInv
  BY FirstBatch DEF GrantInv, GrantsMadeInv, Grants

\* A grant moves who has an entry, and nobody the run's position knew.
LEMMA GrantsAreNew ==
  ASSUME BaseInv, RunInv, GrantsMadeInv, NEW p \in plans, p.kind = "start_points", IsEntries(p.entries),
         NEW a \in Members, Moved(p, a) > 0
  PROVE  \A n \in 1..run.spec.asOf : Moved(log[n], a) = 0
<1>1. PICK i \in DOMAIN p.entries : p.entries[i].account = a
  BY MovedNothing
<1>2. a # Bank
  BY AccountsAssumption DEF Members, SystemAccounts
<1>3. ~HasHistory(log, a, run.spec.asOf)
  BY <1>1, <1>2 DEF GrantsMadeInv
<1>4. IsLog(log) /\ run.spec.asOf \in Nat /\ run.spec.asOf <= Len(log)
  BY LogIsLog DEF BaseInv, RunInv, SpecInv, HeadSeq
<1>5. QED BY <1>3, <1>4, BalanceNothing

\* A period commits once, and the next run reads a log that has what this one granted.
LEMMA GrantNext ==
  ASSUME OneRunAtATime
  PROVE  BaseInv /\ RunInv /\ GrantInv /\ [Next]_vars => GrantInv'
<1> SUFFICES ASSUME BaseInv, RunInv, GrantInv, [Next]_vars PROVE GrantInv'
  OBVIOUS
<1>0. IsLog(log) /\ HeadSeq \in Nat /\ HeadSeq = Len(log)
  BY LogIsLog DEF BaseInv, HeadSeq
<1>1. ASSUME log' = log PROVE GrantInv'
  <2>1. \A p \in plans' \ plans : p.kind = "start_points" =>
          /\ p.period = run'.spec.period
          /\ \A i \in DOMAIN p.entries :
               p.entries[i].account = Bank \/ ~HasHistory(log, p.entries[i].account, run'.spec.asOf)
    BY PlansAreMade, GrantsMade
  <2>2. CASE run' = run
    BY <1>1, <2>1, <2>2 DEF GrantInv, GrantsMadeInv, Grants, HeadSeq, HasHistory
  <2>3. CASE OpenRun
    <3>1. /\ \A p \in plans : p.period = None
          /\ run'.spec.asOf = HeadSeq
      BY <2>3, RunOpened DEF HeadSeq
    <3>2. \A p \in plans : p.kind # "start_points"
      BY <3>1, NoneAssumption DEF RunInv, SpecInv, GrantInv, GrantsMadeInv
    <3>3. \A n \in 1..HeadSeq : ~(n > run'.spec.asOf)
      BY <1>0, <3>1
    <3>4. QED BY <1>1, <2>1, <3>2, <3>3 DEF GrantInv, GrantsMadeInv, Grants, HeadSeq, HasHistory
  <2>4. QED BY <2>2, <2>3, OthersMove
<1>2. ASSUME NEW p, Commits(p) PROVE GrantInv'
  <2>0. PICK H \in Nat : H = HeadSeq
    BY <1>0
  <2>1. /\ H \in Nat /\ HeadSeq' = H + 1 /\ log'[H + 1] = p /\ IsEntries(p.entries)
        /\ \A n \in 1..H : log'[n] = log[n]
    BY <1>2, <2>0, Committed
  <2>2. p \in plans /\ plans' \subseteq plans /\ run' = run /\ PeriodFree(log, p) /\ DOMAIN log = 1..H
    BY <1>2, <2>0 DEF Commits, CommitAdmits, BaseInv, LogInv, HeadSeq
  <2>3. run.spec.asOf \in Nat /\ run.spec.asOf <= H /\ run.spec.period \in Nat
    BY <2>0 DEF RunInv, SpecInv
  <2>4. \A a : HasHistory(log', a, run.spec.asOf) <=> HasHistory(log, a, run.spec.asOf)
    <3>1. \A n \in 1..run.spec.asOf : log'[n] = log[n]
      BY <2>1, <2>3
    <3>2. QED BY <3>1 DEF HasHistory
  <2>5. GrantsMadeInv'
    <3>1. \A n \in 1..(H + 1) : n = H + 1 \/ n \in 1..H
      BY <2>1
    <3>2. \A n \in 1..H : log'[n].kind = "start_points" /\ n > run.spec.asOf => log'[n].period = run.spec.period
      BY <2>0, <2>1 DEF GrantInv, GrantsMadeInv
    <3>3. p.kind = "start_points" => p.period = run.spec.period
      BY <2>2 DEF GrantInv, GrantsMadeInv
    <3>4. \A n \in 1..(H + 1) : log'[n].kind = "start_points" /\ n > run.spec.asOf => log'[n].period = run.spec.period
      BY <2>1, <3>1, <3>2, <3>3
    <3>5. QED BY <2>1, <2>2, <2>4, <3>4 DEF GrantInv, GrantsMadeInv
  <2>6. ASSUME NEW a \in Members, p.kind = "start_points", Moved(p, a) > 0, NEW n \in 1..H
        PROVE  ~Grants(a, n)
    <3>1. CASE n <= run.spec.asOf
      <4>1. Moved(log[n], a) = 0
        BY <2>2, <2>1, <2>3, <2>6, <3>1, GrantsAreNew DEF GrantInv
      <4>2. QED BY <4>1 DEF Grants
    <3>2. CASE n > run.spec.asOf
      <4>1. p.period = run.spec.period /\ p.period # None
        BY <2>2, <2>3, <2>6, NoneAssumption DEF GrantInv, GrantsMadeInv
      <4>2. log[n].kind = p.kind => log[n].period # p.period
        BY <2>2, <4>1 DEF PeriodFree
      <4>3. log[n].kind # "start_points"
        BY <2>0, <2>6, <3>2, <4>1, <4>2 DEF GrantInv, GrantsMadeInv
      <4>4. QED BY <4>3 DEF Grants
    <3>3. QED BY <2>1, <2>3, <3>1, <3>2
  <2>7. ASSUME NEW a \in Members, NEW m \in 1..(H + 1), NEW n \in 1..(H + 1),
               Grants(a, m)', Grants(a, n)'
        PROVE  m = n
    <3>1. \A k \in 1..H : Grants(a, k)' <=> Grants(a, k)
      BY <2>1 DEF Grants
    <3>2. Grants(a, H + 1)' => p.kind = "start_points" /\ Moved(p, a) > 0
      BY <2>1 DEF Grants
    <3>3. \A i, j \in 1..H : Grants(a, i) /\ Grants(a, j) => i = j
      BY <2>0 DEF GrantInv
    <3>4. \A k \in 1..(H + 1) : k = H + 1 \/ k \in 1..H
      BY <2>1
    <3>5. CASE m \in 1..H /\ n \in 1..H
      BY <2>7, <3>1, <3>3, <3>5
    <3>6. CASE m = H + 1 /\ n \in 1..H
      BY <2>6, <2>7, <3>1, <3>2, <3>6
    <3>7. CASE m \in 1..H /\ n = H + 1
      BY <2>6, <2>7, <3>1, <3>2, <3>7
    <3>8. QED BY <3>4, <3>5, <3>6, <3>7
  <2>8. QED BY <2>1, <2>5, <2>7 DEF GrantInv
<1>3. QED BY <1>1, <1>2, LogGrows

\* Nobody is granted starting points twice (GrantedOnce), if the scheduler opens a period only
\* when no proposal of another waits: the run reads who had history at its position, and the
\* period of its key is refused twice.
THEOREM GrantsCorrect ==
  ASSUME OneRunAtATime
  PROVE  Spec => []GrantedOnce
<1>1. Init => BaseInv /\ RunInv /\ GrantInv
  BY BaseInit, RunInit, GrantInit
<1>2. BaseInv /\ RunInv /\ GrantInv /\ [Next]_vars => (BaseInv /\ RunInv /\ GrantInv)'
  BY BaseNext, RunNext, GrantNext
<1>3. GrantInv => GrantedOnce
  <2> SUFFICES ASSUME GrantInv, NEW a \in Members
               PROVE  Cardinality({n \in 1..HeadSeq : Grants(a, n)}) <= 1
    BY DEF GrantedOnce, Grants
  <2> DEFINE S == {n \in 1..HeadSeq : Grants(a, n)}
  <2>1. \A m, n \in S : m = n
    BY DEF GrantInv
  <2> HIDE DEF S
  <2>2. CASE S = {}
    BY <2>2, FS_EmptySet DEF S
  <2>3. CASE S # {}
    <3>1. PICK n \in S : S = {n}
      BY <2>1, <2>3
    <3>2. Cardinality(S) = 1
      BY <3>1, FS_Singleton
    <3>3. QED BY <3>2 DEF S
  <2>4. QED BY <2>2, <2>3
<1>4. QED BY <1>1, <1>2, <1>3, PTL DEF Spec

-----------------------------------------------------------------------------
(* Expiries.                                                                 *)

\* A run's moves move an account by its amount.
LEMMA MovesMove ==
  ASSUME NEW f, DOMAIN f \in SUBSET Nat, IsFiniteSet(DOMAIN f), \A a \in DOMAIN f : f[a] \in Int,
         NEW b, b.entries = MovesOf(f), NEW a
  PROVE  /\ IsEntries(b.entries)
         /\ Moved(b, a) = IF a \in DOMAIN f THEN f[a] ELSE 0
<1> DEFINE es == MovesOf(f)
           s == [i \in 1..Len(es) |-> 0]
           t == Column(b, a)
<1>1. /\ IsEntries(es)
      /\ \A i \in DOMAIN es : es[i].account \in Moving(f) /\ es[i].amount = f[es[i].account]
      /\ \A i, j \in DOMAIN es : es[i].account = es[j].account => i = j
      /\ \A c \in Moving(f) : \E i \in DOMAIN es : es[i].account = c
  BY MovesType
<1>0. b.entries = es
  OBVIOUS
<1> HIDE DEF es
<1>2. t \in Seq(Int) /\ Len(t) = Len(es) /\ Moved(b, a) = Total(t)
  BY <1>0, <1>1, ColumnType
<1>3. DOMAIN es = 1..Len(es) /\ Len(es) \in Nat
  BY <1>1 DEF IsEntries
<1>4. CASE a \in Moving(f)
  <2>1. PICK c \in DOMAIN es : es[c].account = a
    BY <1>1, <1>4
  <2>2. \A i \in DOMAIN es : i # c => es[i].account # a
    BY <1>1, <2>1
  <2>3. s \in Seq(Int) /\ Len(s) = Len(es) /\ Total(s) = 0
    <3>1. s \in Seq(Int) /\ Len(s) = Len(es) /\ \A i \in 1..Len(s) : s[i] = 0
      BY <1>3
    <3> HIDE DEF s
    <3>2. QED BY <3>1, TotalZero
  <2>4. t[c] = s[c] + f[a] /\ f[a] \in Int
    <3>1. t[c] = f[a] /\ s[c] = 0
      BY <1>0, <1>1, <1>3, <2>1 DEF Column
    <3>2. f[a] \in Int
      BY <1>4 DEF Moving
    <3> HIDE DEF s, t
    <3>3. QED BY <3>1, <3>2
  <2>5. \A i \in 1..Len(s) : i # c => t[i] = s[i]
    BY <1>0, <1>3, <2>2, <2>3 DEF Column
  <2> HIDE DEF s, t
  <2>6. c \in 1..Len(s) /\ Len(s) = Len(t)
    BY <1>2, <1>3, <2>3
  <2>7. Total(t) = Total(s) + f[a]
    BY <1>2, <2>3, <2>4, <2>5, <2>6, TotalPoint
  <2>8. QED BY <1>0, <1>1, <1>2, <1>4, <2>3, <2>4, <2>7 DEF Moving
<1>5. CASE a \notin Moving(f)
  <2>1. Moved(b, a) = 0
    BY <1>0, <1>1, <1>5, MovedNothing
  <2>2. a \in DOMAIN f => f[a] = 0
    BY <1>5 DEF Moving
  <2>3. QED BY <1>0, <1>1, <1>5, <2>1, <2>2
<1>6. QED BY <1>4, <1>5

\* What the bank is paid moves nobody else.
LEMMA PaidMovesOthersNot ==
  ASSUME NEW es, IsEntries(es), es \in Seq([account : Nat, amount : Int]),
         NEW b, b.entries = es, NEW c, c.entries = PaidToBank(es), NEW a, a # Bank
  PROVE  IsEntries(c.entries) /\ Moved(c, a) = Moved(b, a)
<1> DEFINE paid == -Total(Amounts(es))
           e == Entry(Bank, paid)
<1>1. CASE paid = 0
  BY <1>1 DEF PaidToBank, Moved
<1>2. CASE paid # 0
  <2>1. paid \in Int
    <3>1. Amounts(es) \in Seq(Int)
      <4>1. Amounts(es) = [i \in 1..Len(es) |-> es[i].amount] /\ \A i \in 1..Len(es) : es[i].amount \in Int
        BY DEF Amounts, IsEntries
      <4>2. Len(es) \in Nat
        BY DEF IsEntries
      <4>3. QED BY <4>1, <4>2
    <3>2. Total(Amounts(es)) \in Int
      BY <3>1, TotalType
    <3>3. QED BY <3>2
  <2>2. c.entries = Append(es, e)
    BY <1>2 DEF PaidToBank
  <2>3. e.amount = paid /\ e.account = Bank
    BY DEF Entry
  <2> HIDE DEF e, paid
  <2>4. /\ Len(es) \in Nat /\ Len(c.entries) = Len(es) + 1 /\ DOMAIN c.entries = 1..(Len(es) + 1)
        /\ c.entries[Len(es) + 1] = e /\ \A i \in 1..Len(es) : c.entries[i] = es[i]
    BY <2>2, AppendProperties DEF IsEntries
  <2>5. \A i \in DOMAIN c.entries : c.entries[i].amount \in Int
    BY <2>1, <2>3, <2>4 DEF IsEntries
  <2>6. IsEntries(c.entries)
    BY <2>4, <2>5 DEF IsEntries
  <2>7. /\ Column(c, a) \in Seq(Int) /\ Len(Column(c, a)) = Len(es) + 1 /\ Moved(c, a) = Total(Column(c, a))
        /\ Column(b, a) \in Seq(Int) /\ Len(Column(b, a)) = Len(es) /\ Moved(b, a) = Total(Column(b, a))
    BY <2>4, <2>6, ColumnType
  <2>8. Column(c, a)[Len(es) + 1] = 0
    BY <2>3, <2>4 DEF Column
  <2>9. \A i \in 1..Len(es) : Column(c, a)[i] = Column(b, a)[i]
    BY <2>4 DEF Column, IsEntries
  <2>10. Total(Column(c, a)) = Total(Column(b, a)) + Column(c, a)[Len(Column(c, a))]
    BY <2>4, <2>7, <2>9, TotalExtend
  <2>11. Total(Column(b, a)) \in Int
    BY <2>7, TotalType
  <2>12. QED BY <2>6, <2>7, <2>8, <2>10, <2>11
<1>3. QED BY <1>1, <1>2

\* An expiry takes from a member no more than the run's slice credited them.
LEMMA ExpiryBound ==
  ASSUME NEW rule, rule.cfg.floor \in Int, NEW ledger, IsLog(ledger), NEW spec, NEW members,
         members \in SUBSET Nat, IsFiniteSet(members), spec.accounts = <<>>,
         spec.asOf \in Nat, spec.from \in Nat, spec.to \in Nat, spec.from <= spec.to,
         spec.to <= spec.asOf, spec.asOf <= Len(ledger),
         DecayWindowRun(rule, ledger, spec, members) # NoPlan, NEW a, a # Bank
  PROVE  -Moved(DecayWindowRun(rule, ledger, spec, members), a)
           <= EarnedBetween(ledger, a, spec.from, spec.to)
<1> DEFINE p == DecayWindowRun(rule, ledger, spec, members)
           S == members \ SystemAccounts
           f == [c \in S |-> -Expired(rule.cfg, ledger, spec, c)]
           es == MovesOf(f)
           b == [entries |-> es]
<1>1. Targets(spec, members) = S /\ S \in SUBSET Nat /\ IsFiniteSet(S)
  <2>1. S \in SUBSET members
    OBVIOUS
  <2>2. QED BY <2>1, FS_Subset DEF Targets
<1>2. p = Propose(rule, "decay", spec.period, rule.cfg.floor, PaidToBank(es))
  BY <1>1 DEF DecayWindowRun
<1>3. p.entries = PaidToBank(es)
  <2> HIDE DEF p, es
  <2>1. Propose(rule, "decay", spec.period, rule.cfg.floor, PaidToBank(es)) # NoPlan
    BY <1>2 DEF p
  <2>2. QED BY <1>2, <2>1, ProposeLabels
<1>4. Len(ledger) \in Nat
  BY LenProperties DEF IsLog
<1>5. \A c : /\ EarnedBetween(ledger, c, spec.from, spec.to) \in Nat
             /\ Balance(ledger, c, spec.asOf) \in Int
  <2> TAKE c
  <2>1. spec.to <= Len(ledger)
    BY <1>4
  <2>2. EarnedBetween(ledger, c, spec.from, spec.to) \in Nat
    BY <2>1, SliceType
  <2>3. Balance(ledger, c, spec.asOf) \in Int
    BY BalanceType
  <2>4. QED BY <2>2, <2>3
<1>6. \A c : /\ Expired(rule.cfg, ledger, spec, c) \in Nat
             /\ Expired(rule.cfg, ledger, spec, c) <= EarnedBetween(ledger, c, spec.from, spec.to)
  BY <1>5 DEF Expired, Least, Greatest
<1>7. DOMAIN f = S /\ \A c \in S : f[c] \in Int /\ -f[c] <= EarnedBetween(ledger, c, spec.from, spec.to)
  BY <1>5, <1>6
<1> HIDE DEF f, S, p
<1>8. /\ IsEntries(es) /\ Moved(b, a) = IF a \in S THEN f[a] ELSE 0
      /\ es \in Seq([account : Nat, amount : Int])
  <2>1. DOMAIN f \in SUBSET Nat /\ IsFiniteSet(DOMAIN f) /\ \A c \in DOMAIN f : f[c] \in Int
    BY <1>1, <1>7
  <2>2. b.entries = MovesOf(f)
    OBVIOUS
  <2>3. es \in Seq([account : DOMAIN f, amount : Int])
    BY <2>1, MovesType
  <2> HIDE DEF b
  <2>4. IsEntries(b.entries) /\ Moved(b, a) = IF a \in DOMAIN f THEN f[a] ELSE 0
    BY <2>1, <2>2, MovesMove
  <2>5. es \in Seq([account : Nat, amount : Int])
    <3> DEFINE R == [account : DOMAIN f, amount : Int]
               T == [account : Nat, amount : Int]
    <3>1. R \subseteq T
      BY <2>1
    <3> HIDE DEF es, R, T
    <3>2. es \in Seq(R) => es \in Seq(T)
      BY <3>1, SeqWiden
    <3>3. QED BY <2>3, <3>2 DEF R, T
  <2>6. QED BY <1>7, <2>2, <2>4, <2>5
<1>9. b.entries = es
  OBVIOUS
<1> HIDE DEF b, es
<1>10. Moved(p, a) = Moved(b, a)
  BY <1>3, <1>8, <1>9, PaidMovesOthersNot
<1>11. -Moved(b, a) <= EarnedBetween(ledger, a, spec.from, spec.to)
  BY <1>5, <1>7, <1>8
<1>12. QED BY <1>10, <1>11 DEF p

\* What decay_window took from somebody, batch by batch.
IsExpiry(b) == b.strategy = "decay_window" /\ b.kind = "decay"
Expiries(a) == [n \in 1..HeadSeq |-> IF log[n].strategy = "decay_window" /\ log[n].kind = "decay"
                                     THEN -Moved(log[n], a) ELSE 0]
Taken(a) == Total(Expiries(a))
Credited(a, to) == EarnedBetween(log, a, 0, to)

\* What waits to expire is the run's, and within its slice; what has expired is within the slices
\* before it, or within its own too once a run of its period has committed.
ExpiryWaits ==
  \A p \in plans : IsExpiry(p) =>
    /\ p.period = run.spec.period
    /\ \A a \in Members : -Moved(p, a) <= EarnedBetween(log, a, run.spec.from, run.spec.to)
ExpiryInv ==
  /\ ExpiryWaits
  /\ \A a \in Members :
       \/ Taken(a) <= Credited(a, run.spec.from)
       \/ /\ Taken(a) <= Credited(a, run.spec.to)
          /\ \E n \in 1..HeadSeq : log[n].kind = "decay" /\ log[n].period = run.spec.period

\* The sums of what expired are sums of integers.
LEMMA TakenType ==
  ASSUME BaseInv, NEW a
  PROVE  /\ Expiries(a) \in Seq(Int) /\ Len(Expiries(a)) = HeadSeq /\ Taken(a) \in Int
<1>1. HeadSeq \in Nat /\ \A n \in 1..HeadSeq : IsEntries(log[n].entries)
  BY LogIsLog DEF BaseInv, IsLog, HeadSeq
<1>2. \A n \in 1..HeadSeq : Moved(log[n], a) \in Int
  BY <1>1, ColumnType
<1>3. Expiries(a) \in Seq(Int) /\ Len(Expiries(a)) = HeadSeq
  BY <1>1, <1>2 DEF Expiries
<1>4. QED BY <1>3, TotalType DEF Taken

\* A commit takes what it expires.
LEMMA TakenStep ==
  ASSUME BaseInv, NEW p, Commits(p), NEW a
  PROVE  Taken(a)' = Taken(a) + (IF IsExpiry(p) THEN -Moved(p, a) ELSE 0)
<1>1. PICK H \in Nat : H = HeadSeq
  BY LogIsLog DEF BaseInv
<1>2. HeadSeq' = H + 1 /\ log'[H + 1] = p /\ \A n \in 1..H : log'[n] = log[n]
  BY <1>1, Committed
<1>3. Expiries(a)' = [n \in 1..(H + 1) |-> IF log'[n].strategy = "decay_window" /\ log'[n].kind = "decay"
                                            THEN -Moved(log'[n], a) ELSE 0]
  BY <1>2 DEF Expiries
<1>4. Len(Expiries(a)') = H + 1 /\ Expiries(a)'[H + 1] = IF IsExpiry(p) THEN -Moved(p, a) ELSE 0
  BY <1>2, <1>3 DEF IsExpiry
<1>5. \A n \in 1..H : Expiries(a)'[n] = Expiries(a)[n]
  BY <1>1, <1>2, <1>3 DEF Expiries
<1>6. Expiries(a) \in Seq(Int) /\ Len(Expiries(a)) = H
  BY <1>1, TakenType
<1> DEFINE s == Expiries(a)'
           t == Expiries(a)
<1>7. Taken(a)' = Total(s) /\ Taken(a) = Total(t)
  BY DEF Taken
<1> HIDE DEF s, t
<1>8. Total(s) = Total(t) + s[Len(s)]
  BY <1>4, <1>5, <1>6, TotalExtend DEF s, t
<1>9. QED BY <1>4, <1>7, <1>8 DEF s

\* Credits are not negative, and those to the end of the slice are those before it and in it.
LEMMA CreditedType ==
  ASSUME BaseInv, SpecInv, NEW a
  PROVE  /\ Credited(a, run.spec.from) \in Nat /\ Credited(a, run.spec.to) \in Nat
         /\ EarnedBetween(log, a, run.spec.from, run.spec.to) \in Nat
         /\ Credited(a, run.spec.to) = Credited(a, run.spec.from) + EarnedBetween(log, a, run.spec.from, run.spec.to)
<1>1. IsLog(log) /\ Len(log) \in Nat
  BY LogIsLog DEF BaseInv, HeadSeq
<1>2. /\ run.spec.from \in Nat /\ run.spec.to \in Nat /\ run.spec.from <= run.spec.to
      /\ run.spec.to <= Len(log) /\ run.spec.from <= Len(log) /\ 0 <= run.spec.from /\ 0 <= run.spec.to
  BY <1>1 DEF SpecInv, HeadSeq
<1>3. EarnedBetween(log, a, 0, run.spec.from) \in Nat
  BY <1>1, <1>2, SliceType
<1>4. EarnedBetween(log, a, 0, run.spec.to) \in Nat
  BY <1>1, <1>2, SliceType
<1>5. EarnedBetween(log, a, run.spec.from, run.spec.to) \in Nat
  BY <1>1, <1>2, SliceType
<1>6. EarnedBetween(log, a, 0, run.spec.to)
        = EarnedBetween(log, a, 0, run.spec.from) + EarnedBetween(log, a, run.spec.from, run.spec.to)
  BY <1>1, <1>2, EarnedSplit
<1>7. QED BY <1>3, <1>4, <1>5, <1>6 DEF Credited

\* Nothing has expired.
LEMMA ExpiryInit == Init => ExpiryInv
<1> SUFFICES ASSUME Init PROVE ExpiryInv
  OBVIOUS
<1>1. BaseInv /\ SpecInv
  BY BaseInit, RunInit DEF RunInv
<1>2. plans = {} /\ HeadSeq = 1 /\ log[1].kind = "attendance"
  BY FirstBatch
<1>3. ASSUME NEW a \in Members PROVE Taken(a) <= Credited(a, run.spec.from)
  <2>1. \A n \in 1..Len(Expiries(a)) : Expiries(a)[n] = 0
    BY <1>2 DEF Expiries
  <2>2. Expiries(a) \in Seq(Int)
    BY <1>1, TakenType
  <2>3. Taken(a) = 0
    BY <2>1, <2>2, TotalZero DEF Taken
  <2>4. QED BY <1>1, <2>3, CreditedType
<1>4. QED BY <1>2, <1>3 DEF ExpiryInv, ExpiryWaits

\* A new expiry is the run's, and within its slice.
LEMMA ExpiriesMade ==
  ASSUME BaseInv, RunInv, [Next]_vars, NEW p, p # NoPlan, MadeBy(p), UNCHANGED log, IsExpiry(p)
  PROVE  /\ p.period = run'.spec.period
         /\ \A a \in Members : -Moved(p, a) <= EarnedBetween(log, a, run'.spec.from, run'.spec.to)
<1> DEFINE rule == rules.overTime
           spec == run'.spec
<1>1. /\ rule # None /\ rule.id = "decay_window" /\ p.period = spec.period
      /\ p = RunPlan(rule, log, spec, roster)
  BY MadeLabels DEF BaseInv, Labelled, IsExpiry
<1>2. p = DecayWindowRun(rule, log, spec, roster) /\ rule.cfg.floor \in Int
  BY <1>1, RuleInForce DEF RunPlan, BaseInv, OverTimeRule
<1>3. /\ spec.accounts = <<>> /\ spec.from \in Nat /\ spec.to \in Nat /\ spec.asOf \in Nat
      /\ spec.from <= spec.to /\ spec.to <= spec.asOf /\ spec.asOf <= Len(log)
  <2>1. SpecInv'
    BY RunNext DEF RunInv
  <2>2. QED BY <2>1 DEF SpecInv, HeadSeq
<1>4. IsLog(log) /\ roster \in SUBSET Nat /\ IsFiniteSet(roster)
  BY LogIsLog, RosterFinite DEF BaseInv
<1>5. ASSUME NEW a \in Members PROVE -Moved(p, a) <= EarnedBetween(log, a, spec.from, spec.to)
  <2>1. a # Bank
    BY AccountsAssumption DEF Members, SystemAccounts
  <2> HIDE DEF rule, spec
  <2>2. -Moved(DecayWindowRun(rule, log, spec, roster), a) <= EarnedBetween(log, a, spec.from, spec.to)
    BY <1>2, <1>3, <1>4, <2>1, ExpiryBound
  <2>3. QED BY <1>2, <2>2
<1>6. QED BY <1>1, <1>5

\* A period commits once, within its slice, and slices do not overlap.
LEMMA ExpiryNext ==
  ASSUME OneRunAtATime
  PROVE  BaseInv /\ RunInv /\ ExpiryInv /\ [Next]_vars => ExpiryInv'
<1> SUFFICES ASSUME BaseInv, RunInv, ExpiryInv, [Next]_vars PROVE ExpiryInv'
  OBVIOUS
<1>0. IsLog(log) /\ HeadSeq \in Nat /\ HeadSeq = Len(log) /\ SpecInv
  BY LogIsLog DEF BaseInv, HeadSeq, RunInv
<1>1. ASSUME log' = log PROVE ExpiryInv'
  <2>1. \A p \in plans' \ plans : IsExpiry(p) =>
          /\ p.period = run'.spec.period
          /\ \A a \in Members : -Moved(p, a) <= EarnedBetween(log, a, run'.spec.from, run'.spec.to)
    BY <1>1, PlansAreMade, ExpiriesMade
  <2>2. \A a : Taken(a)' = Taken(a)
    BY <1>1 DEF Taken, Expiries, HeadSeq
  <2>3. CASE run' = run
    <3>1. ExpiryWaits'
      BY <1>1, <2>1, <2>3 DEF ExpiryInv, ExpiryWaits
    <3>2. QED BY <1>1, <2>2, <2>3, <3>1 DEF ExpiryInv, Credited, HeadSeq
  <2>4. CASE OpenRun
    <3>1. (\A p \in plans : p.period = None) /\ run'.spec.from = run.spec.to
      BY <2>4, RunOpened
    <3>2. \A p \in plans : ~IsExpiry(p)
      BY <1>0, <3>1, NoneAssumption DEF SpecInv, ExpiryInv, ExpiryWaits
    <3>3. ExpiryWaits'
      BY <1>1, <2>1, <3>2 DEF ExpiryWaits
    <3>4. ASSUME NEW a \in Members PROVE Taken(a)' <= Credited(a, run'.spec.from)
      <4>1. Taken(a) <= Credited(a, run.spec.from) \/ Taken(a) <= Credited(a, run.spec.to)
        BY DEF ExpiryInv
      <4>2. Credited(a, run.spec.from) <= Credited(a, run.spec.to) /\ Credited(a, run.spec.from) \in Nat
        BY <1>0, CreditedType
      <4>3. Credited(a, run.spec.to) \in Nat /\ Taken(a) \in Int
        BY <1>0, CreditedType, TakenType
      <4>4. QED BY <2>2, <3>1, <4>1, <4>2, <4>3
    <3>5. QED BY <1>1, <3>3, <3>4 DEF ExpiryInv, Credited
  <2>5. QED BY <2>3, <2>4, OthersMove
<1>2. ASSUME NEW p, Commits(p) PROVE ExpiryInv'
  <2>0. PICK H \in Nat : H = HeadSeq
    BY <1>0
  <2>1. /\ HeadSeq' = H + 1 /\ log'[H + 1] = p /\ IsEntries(p.entries)
        /\ \A n \in 1..H : log'[n] = log[n]
    BY <1>2, <2>0, Committed
  <2>2. /\ p \in plans /\ plans' \subseteq plans /\ run' = run /\ PeriodFree(log, p) /\ DOMAIN log = 1..H
        /\ log' = Append(log, p)
    BY <1>2, <2>0 DEF Commits, CommitAdmits, BaseInv, LogInv, HeadSeq
  <2>3. \A a : /\ Credited(a, run.spec.from)' = Credited(a, run.spec.from)
               /\ Credited(a, run.spec.to)' = Credited(a, run.spec.to)
               /\ EarnedBetween(log', a, run.spec.from, run.spec.to) = EarnedBetween(log, a, run.spec.from, run.spec.to)
    <3> TAKE a
    <3>1. /\ run.spec.from \in Nat /\ run.spec.to \in Nat /\ run.spec.from <= run.spec.to
          /\ run.spec.to <= Len(log) /\ run.spec.from <= Len(log) /\ 0 <= run.spec.from /\ 0 <= run.spec.to
      BY <1>0 DEF SpecInv
    <3>2. EarnedBetween(log', a, 0, run.spec.from) = EarnedBetween(log, a, 0, run.spec.from)
      BY <1>0, <2>1, <2>2, <3>1, EarnedKept
    <3>3. EarnedBetween(log', a, 0, run.spec.to) = EarnedBetween(log, a, 0, run.spec.to)
      BY <1>0, <2>1, <2>2, <3>1, EarnedKept
    <3>4. EarnedBetween(log', a, run.spec.from, run.spec.to) = EarnedBetween(log, a, run.spec.from, run.spec.to)
      BY <1>0, <2>1, <2>2, <3>1, EarnedKept
    <3>5. QED BY <2>2, <3>2, <3>3, <3>4 DEF Credited
  <2>4. ExpiryWaits'
    BY <2>2, <2>3 DEF ExpiryInv, ExpiryWaits
  <2>5. ASSUME NEW a \in Members
        PROVE  \/ Taken(a)' <= Credited(a, run.spec.from)
               \/ /\ Taken(a)' <= Credited(a, run.spec.to)
                  /\ \E n \in 1..(H + 1) : log'[n].kind = "decay" /\ log'[n].period = run.spec.period
    <3>1. /\ Credited(a, run.spec.from) \in Nat /\ Credited(a, run.spec.to) \in Nat
          /\ EarnedBetween(log, a, run.spec.from, run.spec.to) \in Nat
          /\ Credited(a, run.spec.to)
               = Credited(a, run.spec.from) + EarnedBetween(log, a, run.spec.from, run.spec.to)
      BY <1>0, CreditedType
    <3>2. Taken(a) \in Int /\ Moved(p, a) \in Int
      BY <2>1, TakenType, ColumnType
    <3>3. CASE IsExpiry(p)
      <4>1. /\ p.period = run.spec.period /\ p.period # None /\ p.kind = "decay"
            /\ -Moved(p, a) <= EarnedBetween(log, a, run.spec.from, run.spec.to)
        BY <1>0, <2>2, <3>3, NoneAssumption DEF ExpiryInv, ExpiryWaits, IsExpiry, SpecInv
      <4>2. ~\E n \in 1..H : log[n].kind = "decay" /\ log[n].period = run.spec.period
        BY <2>2, <4>1 DEF PeriodFree
      <4>3. Taken(a) <= Credited(a, run.spec.from)
        BY <2>0, <4>2 DEF ExpiryInv
      <4>4. Taken(a)' = Taken(a) - Moved(p, a)
        BY <1>2, <3>2, <3>3, TakenStep
      <4>5. Taken(a)' <= Credited(a, run.spec.to)
        BY <3>1, <3>2, <4>1, <4>3, <4>4
      <4>6. log'[H + 1].kind = "decay" /\ log'[H + 1].period = run.spec.period /\ H + 1 \in 1..(H + 1)
        BY <2>1, <4>1
      <4>7. QED BY <4>5, <4>6
    <3>4. CASE ~IsExpiry(p)
      <4>1. Taken(a)' = Taken(a)
        BY <1>2, <3>2, <3>4, TakenStep
      <4>2. (\E n \in 1..H : log[n].kind = "decay" /\ log[n].period = run.spec.period)
              => \E n \in 1..(H + 1) : log'[n].kind = "decay" /\ log'[n].period = run.spec.period
        BY <2>1
      <4>3. QED BY <2>0, <4>1, <4>2 DEF ExpiryInv
    <3>5. QED BY <3>3, <3>4
  <2>6. QED BY <2>1, <2>2, <2>3, <2>4, <2>5 DEF ExpiryInv
<1>3. QED BY <1>1, <1>2, LogGrows

\* No credit expires twice (CreditsExpireOnce), if the scheduler opens a period only when no
\* proposal of another waits: slices meet end to end, an expiry is clamped to its slice, and a
\* period commits once.
THEOREM ExpiriesCorrect ==
  ASSUME OneRunAtATime
  PROVE  Spec => []CreditsExpireOnce
<1>1. Init => BaseInv /\ RunInv /\ ExpiryInv
  BY BaseInit, RunInit, ExpiryInit
<1>2. BaseInv /\ RunInv /\ ExpiryInv /\ [Next]_vars => (BaseInv /\ RunInv /\ ExpiryInv)'
  BY BaseNext, RunNext, ExpiryNext
<1>3. BaseInv /\ RunInv /\ ExpiryInv => CreditsExpireOnce
  <2> SUFFICES ASSUME BaseInv, RunInv, ExpiryInv, NEW a \in Members
               PROVE  Taken(a) <= Credited(a, Least(run.spec.to, HeadSeq))
    BY DEF CreditsExpireOnce, Taken, Expiries, Credited
  <2>1. SpecInv /\ HeadSeq \in Nat
    BY LogIsLog DEF RunInv, BaseInv
  <2>2. Least(run.spec.to, HeadSeq) = run.spec.to
    BY <2>1 DEF SpecInv, Least
  <2>3. Taken(a) <= Credited(a, run.spec.from) \/ Taken(a) <= Credited(a, run.spec.to)
    BY DEF ExpiryInv
  <2>4. /\ Credited(a, run.spec.from) \in Nat /\ Credited(a, run.spec.to) \in Nat
        /\ EarnedBetween(log, a, run.spec.from, run.spec.to) \in Nat
        /\ Credited(a, run.spec.to)
             = Credited(a, run.spec.from) + EarnedBetween(log, a, run.spec.from, run.spec.to)
    BY <2>1, CreditedType
  <2>5. Taken(a) \in Int
    BY TakenType
  <2>6. QED BY <2>2, <2>3, <2>4, <2>5
<1>4. QED BY <1>1, <1>2, <1>3, PTL DEF Spec

-----------------------------------------------------------------------------
(* Sales.                                                                    *)

Accounts == Founders \cup Newcomers \cup SystemAccounts \cup {None}
ShareOf == [account : Accounts, weight : Int, role : STRING \cup {None}]
SaleOf == [buyer : Accounts, price : Int \cup {None}, itemPrice : Int \cup {None},
           reasoned : BOOLEAN, shares : Seq(ShareOf)]

\* Shares no planner refuses are shares that can be split over.
LEMMA CheckedAreShares ==
  ASSUME NEW s \in Seq(ShareOf), CheckedShares(s), NoSystemAccounts(s)
  PROVE  /\ IsShares(s) /\ AccountsDiffer(s)
         /\ \A i \in DOMAIN s : s[i].account \in Nat /\ s[i].weight \in Nat
<1>1. DOMAIN s = 1..Len(s) /\ Len(s) \in Nat /\ \A i \in DOMAIN s : s[i] \in ShareOf
  BY LenProperties, ElementOfSeq
<1>2. \A i \in DOMAIN s : s[i].account \in Accounts /\ s[i].weight \in Int
  BY <1>1 DEF ShareOf
<1>3. \A i \in DOMAIN s : s[i].account \in Nat /\ s[i].weight \in Nat
  BY <1>2, AccountsAssumption DEF Accounts, CheckedShares, NoSystemAccounts
<1>4. AccountsDiffer(s)
  BY DEF CheckedShares, Distinct, AccountsDiffer
<1>5. QED BY <1>1, <1>3, <1>4 DEF IsShares, AccountsDiffer

\* What a planner checks of shares does not depend on their order.
LEMMA ChecksIgnoreOrder ==
  ASSUME NEW s \in Seq(ShareOf), NEW t \in Seq(ShareOf), NEW f, Rearranges(t, s, f)
  PROVE  /\ CheckedShares(t) <=> CheckedShares(s)
         /\ NoSystemAccounts(t) <=> NoSystemAccounts(s)
         /\ t = <<>> <=> s = <<>>
<1>1. \A i \in DOMAIN t : f[i] \in DOMAIN s /\ t[i] = s[f[i]]
  BY DEF Rearranges
<1>2. \A j \in DOMAIN s : \E i \in DOMAIN t : f[i] = j
  BY DEF Rearranges
<1>3. \A i, j \in DOMAIN t : f[i] = f[j] => i = j
  BY DEF Rearranges
<1>4. Distinct(t) <=> Distinct(s)
  <2>1. ASSUME Distinct(s) PROVE Distinct(t)
    <3> SUFFICES ASSUME NEW i \in DOMAIN t, NEW j \in DOMAIN t, t[i].account = t[j].account PROVE i = j
      BY DEF Distinct
    <3>1. f[i] = f[j]
      BY <1>1, <2>1 DEF Distinct
    <3>2. QED BY <1>3, <3>1
  <2>2. ASSUME Distinct(t) PROVE Distinct(s)
    <3> SUFFICES ASSUME NEW i \in DOMAIN s, NEW j \in DOMAIN s, s[i].account = s[j].account PROVE i = j
      BY DEF Distinct
    <3>1. PICK k \in DOMAIN t : f[k] = i
      BY <1>2
    <3>2. PICK l \in DOMAIN t : f[l] = j
      BY <1>2
    <3>3. k = l
      BY <1>1, <2>2, <3>1, <3>2 DEF Distinct
    <3>4. QED BY <3>1, <3>2, <3>3
  <2>3. QED BY <2>1, <2>2
<1>5. CheckedShares(t) <=> CheckedShares(s)
  <2>1. (\A i \in DOMAIN t : t[i].account # None /\ t[i].weight >= 0) <=>
        (\A i \in DOMAIN s : s[i].account # None /\ s[i].weight >= 0)
    <3> DEFINE Ok(x) == x.account # None /\ x.weight >= 0
    <3>1. (\A i \in DOMAIN s : Ok(s[i])) => \A i \in DOMAIN t : Ok(t[i])
      <4> HIDE DEF Ok
      <4>1. QED BY <1>1
    <3>2. (\A i \in DOMAIN t : Ok(t[i])) => \A i \in DOMAIN s : Ok(s[i])
      <4> HIDE DEF Ok
      <4> SUFFICES ASSUME \A i \in DOMAIN t : Ok(t[i]), NEW j \in DOMAIN s PROVE Ok(s[j])
        OBVIOUS
      <4>1. PICK i \in DOMAIN t : f[i] = j
        BY <1>2
      <4>2. QED BY <1>1, <4>1
    <3>3. QED BY <3>1, <3>2
  <2>2. QED BY <1>4, <2>1 DEF CheckedShares
<1>6. NoSystemAccounts(t) <=> NoSystemAccounts(s)
  <2>1. ASSUME NoSystemAccounts(s), NEW i \in DOMAIN t PROVE t[i].account \notin SystemAccounts
    BY <1>1, <2>1 DEF NoSystemAccounts
  <2>2. ASSUME NoSystemAccounts(t), NEW j \in DOMAIN s PROVE s[j].account \notin SystemAccounts
    <3>1. PICK i \in DOMAIN t : f[i] = j
      BY <1>2
    <3>2. QED BY <1>1, <2>2, <3>1 DEF NoSystemAccounts
  <2>3. QED BY <2>1, <2>2 DEF NoSystemAccounts
<1>7. Len(t) = Len(s)
  BY RearrangedLength
<1>8. t = <<>> <=> s = <<>>
  BY <1>7, EmptySeq
<1>9. QED BY <1>5, <1>6, <1>8

\* Nor does what routeProceeds returns.
LEMMA RouteIgnoresOrder ==
  ASSUME NEW s \in Seq(ShareOf), NEW t \in Seq(ShareOf), NEW f, Rearranges(t, s, f),
         NEW proceeds, NEW solo, NEW price
  PROVE  RouteProceeds(proceeds, solo, t, price) = RouteProceeds(proceeds, solo, s, price)
<1>1. CheckedShares(t) <=> CheckedShares(s)
  BY ChecksIgnoreOrder
<1>2. NoSystemAccounts(t) <=> NoSystemAccounts(s)
  BY ChecksIgnoreOrder
<1>3. CASE CheckedShares(s) /\ NoSystemAccounts(s)
  <2>1. AccountsDiffer(s) /\ \A i \in DOMAIN s : s[i].account \in Int
    BY <1>3, CheckedAreShares
  <2>2. Len(t) = Len(s)
    BY RearrangedLength
  <2>3. SortByAccount(t) = SortByAccount(s)
    BY <2>1, <2>2, SortIgnoresOrder
  <2>4. QED BY <1>1, <1>2, <2>3 DEF RouteProceeds
<1>4. CASE ~(CheckedShares(s) /\ NoSystemAccounts(s))
  BY <1>1, <1>2, <1>4 DEF RouteProceeds
<1>5. QED BY <1>3, <1>4

\* Nor does a sale.
LEMMA AwardIgnoresOrder ==
  ASSUME NEW rule, rule # None => rule.id \in DOMAIN RuleKindOf, NEW ev \in SaleOf, NEW t \in Seq(ShareOf), NEW f,
         Rearranges(t, ev.shares, f)
  PROVE  AwardPlan(rule, [ev EXCEPT !.shares = t]) = AwardPlan(rule, ev)
<1> DEFINE turned == [ev EXCEPT !.shares = t]
           s == ev.shares
<1>1. /\ turned.buyer = ev.buyer /\ turned.price = ev.price /\ turned.itemPrice = ev.itemPrice
      /\ turned.reasoned = ev.reasoned /\ turned.shares = t /\ s \in Seq(ShareOf)
  BY DEF SaleOf
<1> HIDE DEF turned, s
<1>2. \A proceeds, solo, price :
        RouteProceeds(proceeds, solo, turned.shares, price) = RouteProceeds(proceeds, solo, ev.shares, price)
  BY <1>1, RouteIgnoresOrder DEF s
<1>3. \A proceeds, solo, floor, price :
        SpendAward(rule, proceeds, solo, floor, turned, price) = SpendAward(rule, proceeds, solo, floor, ev, price)
  BY <1>1, <1>2 DEF SpendAward
<1>4. \A default : ResolvedPrice(default, turned) = ResolvedPrice(default, ev)
  BY <1>1 DEF ResolvedPrice
<1>5. FixedPriceAward(rule, turned) = FixedPriceAward(rule, ev)
  BY <1>3, <1>4 DEF FixedPriceAward
<1>6. LootCouncilAward(rule, turned) = LootCouncilAward(rule, ev)
  BY <1>1 DEF LootCouncilAward, CouncilCharge
<1>7. RollAward(rule, turned) = RollAward(rule, ev)
  BY <1>1, <1>3 DEF RollAward
<1>8. AuctionAward(rule, turned) = AuctionAward(rule, ev)
  BY <1>1, <1>3 DEF AuctionAward
<1>9. ZeroSumAward(rule, turned) = ZeroSumAward(rule, ev)
  <2> DEFINE u == ZeroSumShares(rule.cfg, turned)
             v == ZeroSumShares(rule.cfg, ev)
             split == [turned EXCEPT !.shares = u]
             whole == [ev EXCEPT !.shares = v]
  <2>1. v \in Seq(ShareOf) /\ u \in Seq(ShareOf) /\ \E g : Rearranges(u, v, g)
    <3>1. CASE rule.cfg.winner = "included"
      BY <1>1, <3>1 DEF ZeroSumShares, s
    <3>2. CASE rule.cfg.winner # "included"
      <4> DEFINE S == {i \in DOMAIN s : s[i].account # ev.buyer}
                 U == {i \in DOMAIN t : t[i].account # ev.buyer}
      <4>1. v = Kept(s, S) /\ u = Kept(t, U)
        BY <1>1, <3>2 DEF ZeroSumShares, s
      <4>2. Rearranges(t, s, f)
        BY DEF s
      <4>3. \A i \in DOMAIN t : i \in U <=> f[i] \in S
        BY <4>2 DEF Rearranges
      <4>4. S \in SUBSET DOMAIN s /\ U \in SUBSET DOMAIN t
        OBVIOUS
      <4> HIDE DEF S, U, u, v
      <4>5. Kept(s, S) \in Seq(ShareOf) /\ Kept(t, U) \in Seq(ShareOf)
        BY <1>1, <4>4, KeptLists
      <4>6. \E g : Rearranges(Kept(t, U), Kept(s, S), g)
        BY <1>1, <4>2, <4>3, <4>4, KeptRearranges
      <4>7. QED BY <4>1, <4>5, <4>6
    <3>3. QED BY <3>1, <3>2
  <2> HIDE DEF u, v
  <2>2. PICK g : Rearranges(u, v, g)
    BY <2>1
  <2>3. \A proceeds, solo, price :
          RouteProceeds(proceeds, solo, u, price) = RouteProceeds(proceeds, solo, v, price)
    BY <2>1, <2>2, RouteIgnoresOrder
  <2>4. u = <<>> <=> v = <<>>
    BY <2>1, <2>2, ChecksIgnoreOrder
  <2>5. CheckedShares(turned.shares) <=> CheckedShares(ev.shares)
    BY <1>1, ChecksIgnoreOrder DEF s
  <2>6. /\ split.shares = u /\ split.buyer = ev.buyer
        /\ whole.shares = v /\ whole.buyer = ev.buyer
    BY <1>1 DEF turned, SaleOf
  <2>7. \A proceeds, solo, floor, price :
          SpendAward(rule, proceeds, solo, floor, split, price)
            = SpendAward(rule, proceeds, solo, floor, whole, price)
    <3> HIDE DEF split, whole
    <3>1. QED BY <2>3, <2>6 DEF SpendAward
  <2> DEFINE solo == IF rule.cfg.solo = "free" THEN "guild_bank" ELSE rule.cfg.solo
             price == ResolvedPrice(rule.cfg.default, ev)
             Asked == ZeroSumConfigValid(rule.cfg) /\ BuyerOk(ev.buyer) /\ price > 0 /\ CheckedShares(ev.shares)
  <2>8. ZeroSumAward(rule, ev) = IF Asked /\ ~(v = <<>> /\ rule.cfg.solo = "free")
                                 THEN SpendAward(rule, "attendees", solo, rule.cfg.floor, whole, price) ELSE NoPlan
    BY DEF ZeroSumAward, v
  <2>9. ZeroSumAward(rule, turned) = IF Asked /\ ~(u = <<>> /\ rule.cfg.solo = "free")
                                     THEN SpendAward(rule, "attendees", solo, rule.cfg.floor, split, price) ELSE NoPlan
    <3>1. ResolvedPrice(rule.cfg.default, turned) = price
      BY <1>4
    <3> HIDE DEF price
    <3>2. QED BY <1>1, <2>5, <3>1 DEF ZeroSumAward, u
  <2> HIDE DEF solo, price, Asked, split, whole
  <2>10. QED BY <2>4, <2>7, <2>8, <2>9
<1>10. QED BY <1>5, <1>6, <1>7, <1>8, <1>9 DEF AwardPlan, turned

\* The planners that split a sale: the buyer is debited the price, and Allocate credits it.
LEMMA SplittingAward ==
  ASSUME NEW rule, rule # None => rule.id \in DOMAIN RuleKindOf,
         rule.id \in {"fixed_price", "zero_sum"} => rule.cfg.default \in Int,
         rule.id = "roll" => rule.cfg.cost \in Int,
         NEW ev \in SaleOf, AwardPlan(rule, ev) # NoPlan, SplitsProceeds(rule)
  PROVE  \E price \in Int : \E empty :
           /\ price > 0 /\ ev.buyer \notin SystemAccounts
           /\ CheckedShares(Taking(rule, ev)) /\ NoSystemAccounts(Taking(rule, ev))
           /\ Allocate(price, SortByAccount(Taking(rule, ev)), empty) # Refused
           /\ AwardPlan(rule, ev).entries =
                <<Entry(ev.buyer, -price)>> \o Allocate(price, SortByAccount(Taking(rule, ev)), empty)
<1> DEFINE p == AwardPlan(rule, ev)
<1>1. rule # None /\ Can(rule, "award") /\ rule.id \in DOMAIN RuleKindOf
  BY DEF AwardPlan, Can
<1>2. ev.price \in Int \cup {None} /\ ev.itemPrice \in Int \cup {None}
  BY DEF SaleOf
<1>3. ASSUME NEW price \in Int, NEW solo, NEW floor, NEW sold, sold.buyer = ev.buyer,
             sold.shares = Taking(rule, ev), p = SpendAward(rule, "attendees", solo, floor, sold, price)
      PROVE  \E empty :
           /\ price > 0 /\ ev.buyer \notin SystemAccounts
           /\ CheckedShares(Taking(rule, ev)) /\ NoSystemAccounts(Taking(rule, ev))
           /\ Allocate(price, SortByAccount(Taking(rule, ev)), empty) # Refused
           /\ p.entries = <<Entry(ev.buyer, -price)>> \o Allocate(price, SortByAccount(Taking(rule, ev)), empty)
  <2> DEFINE credits == RouteProceeds("attendees", solo, sold.shares, price)
  <2>1. /\ BuyerOk(ev.buyer) /\ price > 0 /\ credits # Refused
        /\ p = Propose(rule, "award", None, floor, <<Entry(ev.buyer, -price)>> \o credits)
    BY <1>3 DEF SpendAward
  <2> DEFINE es == <<Entry(ev.buyer, -price)>> \o credits
  <2> HIDE DEF es, p
  <2>a. Propose(rule, "award", None, floor, es) # NoPlan
    BY <2>1 DEF es, p
  <2>b. Propose(rule, "award", None, floor, es).entries = es
    BY <2>a, ProposeLabels
  <2>2. p.entries = <<Entry(ev.buyer, -price)>> \o credits
    BY <2>1, <2>b DEF es
  <2>3. /\ CheckedShares(Taking(rule, ev)) /\ NoSystemAccounts(Taking(rule, ev))
        /\ credits = Allocate(price, SortByAccount(Taking(rule, ev)), SoloAccount(solo))
    BY <1>3, <2>1 DEF RouteProceeds
  <2>4. ev.buyer \notin SystemAccounts
    BY <2>1 DEF BuyerOk
  <2> HIDE DEF credits
  <2>5. QED BY <2>1, <2>2, <2>3, <2>4
<1>4. CASE rule.id = "fixed_price"
  <2> DEFINE price == ResolvedPrice(rule.cfg.default, ev)
  <2>1. price \in Int
    BY <1>2, <1>4 DEF ResolvedPrice
  <2>2. rule.cfg.proceeds = "attendees" /\ Taking(rule, ev) = ev.shares
    BY <1>4 DEF SplitsProceeds, Taking
  <2>3. p = SpendAward(rule, "attendees", rule.cfg.solo, rule.cfg.floor, ev, price)
    BY <1>1, <1>4, <2>2 DEF AwardPlan, FixedPriceAward
  <2> HIDE DEF price, p
  <2>4. QED BY <1>3, <2>1, <2>2, <2>3 DEF p
<1>5. CASE rule.id = "zero_sum"
  <2> DEFINE price == ResolvedPrice(rule.cfg.default, ev)
             solo  == IF rule.cfg.solo = "free" THEN "guild_bank" ELSE rule.cfg.solo
             sold  == [ev EXCEPT !.shares = ZeroSumShares(rule.cfg, ev)]
  <2>1. price \in Int
    BY <1>2, <1>5 DEF ResolvedPrice
  <2>2. p = ZeroSumAward(rule, ev)
    BY <1>1, <1>5 DEF AwardPlan
  <2>3. ZeroSumConfigValid(rule.cfg) /\ p = SpendAward(rule, "attendees", solo, rule.cfg.floor, sold, price)
    BY <2>2 DEF ZeroSumAward
  <2>4. ZeroSumShares(rule.cfg, ev) = Taking(rule, ev)
    BY <1>5, <2>3 DEF ZeroSumShares, Taking, ZeroSumConfigValid
  <2>5. sold.buyer = ev.buyer /\ sold.shares = Taking(rule, ev)
    BY <2>4 DEF SaleOf
  <2> HIDE DEF price, solo, sold, p
  <2>6. QED BY <1>3, <2>1, <2>3, <2>5 DEF p
<1>6. CASE rule.id = "roll"
  <2> DEFINE price == IF ev.price = None THEN rule.cfg.cost ELSE ev.price
  <2>1. price \in Int
    BY <1>2, <1>6
  <2>2. rule.cfg.proceeds = "attendees" /\ Taking(rule, ev) = ev.shares
    BY <1>6 DEF SplitsProceeds, Taking
  <2>3. p = SpendAward(rule, "attendees", rule.cfg.solo, rule.cfg.floor, ev, price)
    BY <1>1, <1>6, <2>2 DEF AwardPlan, RollAward
  <2> HIDE DEF price, p
  <2>4. QED BY <1>3, <2>1, <2>2, <2>3 DEF p
<1>7. CASE rule.id \notin {"fixed_price", "zero_sum", "roll"}
  <2>1. rule.id # "loot_council" /\ rule.cfg.proceeds = "attendees" /\ Taking(rule, ev) = ev.shares
    BY <1>7 DEF SplitsProceeds, Taking
  <2>2. p = AuctionAward(rule, ev)
    BY <1>1, <1>7, <2>1 DEF AwardPlan
  <2>3. ev.price \in Int /\ p = SpendAward(rule, "attendees", rule.cfg.solo, rule.cfg.floor, ev, ev.price)
    BY <1>2, <2>1, <2>2 DEF AuctionAward
  <2> HIDE DEF p
  <2>4. QED BY <1>3, <2>1, <2>3 DEF p
<1>8. QED BY <1>4, <1>5, <1>6, <1>7

\* Who takes part is in the list of the raid.
LEMMA TakingType ==
  ASSUME NEW rule, NEW ev \in SaleOf
  PROVE  Taking(rule, ev) \in Seq(ShareOf)
<1>1. ev.shares \in Seq(ShareOf)
  BY DEF SaleOf
<1> DEFINE S == {i \in DOMAIN ev.shares : ev.shares[i].account # ev.buyer}
<1>2. S \in SUBSET DOMAIN ev.shares
  OBVIOUS
<1> HIDE DEF S
<1>3. Kept(ev.shares, S) \in Seq(ShareOf)
  BY <1>1, <1>2, KeptLists
<1>4. QED BY <1>1, <1>3 DEF Taking, S

\* Sorted shares are shares, of the same weight together.
LEMMA SortedShares ==
  ASSUME NEW s \in Seq(ShareOf), CheckedShares(s), NoSystemAccounts(s)
  PROVE  /\ IsShares(SortByAccount(s)) /\ Len(SortByAccount(s)) = Len(s)
         /\ Total(Weights(SortByAccount(s))) = Total(Weights(s))
         /\ \A i \in DOMAIN s : \E k \in 1..Len(s) : SortByAccount(s)[k] = s[i]
<1> DEFINE t == SortByAccount(s)
           r == Ranked(AccountOrder(s))
           n == Len(s)
<1>1. /\ \A i \in DOMAIN s : s[i].account \in Nat /\ s[i].weight \in Nat
      /\ \A i, j \in DOMAIN s : s[i].account = s[j].account => i = j
  BY CheckedAreShares DEF AccountsDiffer
<1>2. \A i \in DOMAIN s : s[i].account \in Int
  BY <1>1
<1>3. /\ t \in Seq(ShareOf) /\ Len(t) = n
      /\ t = [k \in 1..n |-> s[r[k]]]
      /\ \A k \in 1..n : r[k] \in 1..n
  BY <1>2, SortKeeps
<1>4. \A j, k \in DOMAIN t : r[j] = r[k] => j = k
  BY <1>2, SortKeeps DEF Keeps
<1>5. DOMAIN s = 1..n /\ n \in Nat
  BY LenProperties
<1> HIDE DEF t, r, n
<1>6. DOMAIN t = 1..n /\ \A k \in 1..n : t[k] = s[r[k]]
  BY <1>3
<1>7. IsShares(t)
  <2>1. \A k \in 1..n : t[k].account \in Int /\ t[k].weight \in Nat
    BY <1>1, <1>3, <1>5, <1>6
  <2>2. \A j, k \in 1..n : t[j].account = t[k].account => j = k
    <3> SUFFICES ASSUME NEW j \in 1..n, NEW k \in 1..n, t[j].account = t[k].account PROVE j = k
      OBVIOUS
    <3>1. r[j] = r[k]
      BY <1>1, <1>3, <1>5, <1>6
    <3>2. QED BY <1>4, <1>6, <3>1
  <2>3. QED BY <1>3, <1>5, <1>6, <2>1, <2>2 DEF IsShares
<1>8. \A i \in DOMAIN s : \E k \in 1..n : r[k] = i
  <2> DEFINE g == [k \in 1..n |-> r[k]]
  <2>1. IsFiniteSet(1..n)
    BY <1>5, FS_Interval
  <2>2. g \in Injection(1..n, 1..n)
    BY <1>3, <1>4, <1>6 DEF Injection, IsInjective
  <2> HIDE DEF g
  <2>3. g \in Surjection(1..n, 1..n)
    BY <2>1, <2>2, FS_Injection
  <2>4. \A i \in 1..n : \E k \in 1..n : g[k] = i
    BY <2>3 DEF Surjection
  <2>5. QED BY <1>5, <2>4 DEF g
<1>9. Total(Weights(t)) = Total(Weights(s))
  <2>1. Weights(s) \in Seq(Int) /\ Len(Weights(s)) = n /\ \A i \in 1..n : Weights(s)[i] = s[i].weight
    BY <1>1, <1>5 DEF Weights
  <2>2. Weights(t) \in Seq(Int) /\ Len(Weights(t)) = n /\ \A i \in 1..n : Weights(t)[i] = t[i].weight
    BY <1>1, <1>3, <1>5, <1>6 DEF Weights
  <2> DEFINE x == Weights(t)
             y == Weights(s)
  <2> HIDE DEF x, y
  <2>3. x \in Seq(Int) /\ y \in Seq(Int) /\ Len(x) = n /\ Len(y) = n
    BY <2>1, <2>2 DEF x, y
  <2>4. \A k \in 1..n : r[k] \in 1..n /\ x[k] = y[r[k]]
    BY <1>3, <1>6, <2>1, <2>2 DEF x, y
  <2>5. (\A j, k \in 1..n : r[j] = r[k] => j = k) /\ (\A i \in 1..n : \E k \in 1..n : r[k] = i)
    BY <1>4, <1>5, <1>6, <1>8
  <2>6. Picks(x, y, r)
    BY <2>3, <2>4, <2>5 DEF Picks
  <2>7. Total(x) = Total(y)
    BY <2>3, <2>6, TotalPicked
  <2>8. QED BY <2>7 DEF x, y
<1>10. \A i \in DOMAIN s : \E k \in 1..n : t[k] = s[i]
  BY <1>6, <1>8
<1>11. QED BY <1>3, <1>7, <1>9, <1>10 DEF t, n

\* The entries of a sale: the debit of the buyer, then the credits of the rows that were made.
SellsFor(p, b, price, out) ==
  /\ out \in Seq([account : Int, amount : Int])
  /\ \A k \in DOMAIN out : out[k].amount > 0
  /\ price \in Int /\ price > 0
  /\ p.entries = <<Entry(b, -price)>> \o out

\* Credits are positive and a debit is not one of them: what a sale takes from its buyer is the
\* price, and what it gives to an account is what its rows give.
LEMMA SaleEntries ==
  ASSUME NEW p, NEW b, NEW price, NEW out, SellsFor(p, b, price, out)
  PROVE  DebitOf(p, b) = price /\ \A a : CreditOf(p, a) = GivenTo(out, a)
<1>0. /\ out \in Seq([account : Int, amount : Int]) /\ price \in Int /\ price > 0
      /\ \A k \in DOMAIN out : out[k].amount > 0
      /\ p.entries = <<Entry(b, -price)>> \o out
  BY DEF SellsFor
<1> DEFINE n == Len(out)
           es == p.entries
<1>1. n \in Nat /\ DOMAIN out = 1..n /\ \A k \in 1..n : out[k] \in [account : Int, amount : Int]
  BY <1>0, LenProperties, ElementOfSeq
<1>2. \A k \in 1..n : out[k].amount \in Int /\ out[k].amount > 0
  BY <1>0, <1>1
<1>3. /\ Len(es) = n + 1 /\ DOMAIN es = 1..(n + 1) /\ es[1].account = b /\ es[1].amount = -price
      /\ \A k \in 2..(n + 1) : es[k] = out[k - 1]
  <2>1. es = <<Entry(b, -price)>> \o out
    BY <1>0
  <2> HIDE DEF es
  <2>2. QED BY <1>0, <1>1, <2>1 DEF Entry
<1> HIDE DEF n, es
<1>4. \A k \in 2..(n + 1) : k - 1 \in 1..n
  BY <1>1
<1>5. DebitOf(p, b) = price
  <2> DEFINE x == [i \in DOMAIN es |-> IF es[i].account = b /\ es[i].amount < 0 THEN -es[i].amount ELSE 0]
             z == [i \in 1..(n + 1) |-> 0]
  <2>1. DebitOf(p, b) = Total(x)
    BY DEF DebitOf, es
  <2>2. x[1] = price /\ \A k \in 2..(n + 1) : x[k] = 0
    BY <1>0, <1>1, <1>2, <1>3, <1>4
  <2>3. x \in Seq(Int) /\ Len(x) = n + 1
    <3>1. \A k \in 1..(n + 1) : k = 1 \/ k \in 2..(n + 1)
      BY <1>1
    <3>2. DOMAIN x = 1..(n + 1) /\ x = [k \in DOMAIN x |-> x[k]]
      BY <1>3
    <3> HIDE DEF x
    <3>3. \A k \in 1..(n + 1) : x[k] \in Int
      BY <1>0, <2>2, <3>1
    <3>4. x \in [1..(n + 1) -> Int]
      BY <3>2, <3>3
    <3>5. PICK m \in Nat : m = n + 1
      BY <1>1
    <3>6. QED BY <3>4, <3>5
  <2>4. z \in Seq(Int) /\ Len(z) = n + 1 /\ \A i \in 1..Len(z) : z[i] = 0
    BY <1>1
  <2> HIDE DEF x, z
  <2>5. Total(z) = 0
    BY <2>4, TotalZero
  <2>6. 1 \in 1..Len(z) /\ Len(z) = Len(x)
    BY <1>1, <2>3, <2>4
  <2>7. x[1] = z[1] + price
    BY <1>0, <2>2, <2>4, <2>6
  <2>8. \A i \in 1..Len(z) : i # 1 => x[i] = z[i]
    <3>1. \A i \in 1..(n + 1) : i = 1 \/ i \in 2..(n + 1)
      BY <1>1
    <3>2. QED BY <2>2, <2>4, <3>1
  <2>9. Total(x) = Total(z) + price
    BY <1>0, <2>3, <2>4, <2>6, <2>7, <2>8, TotalPoint
  <2>10. QED BY <1>0, <2>1, <2>5, <2>9
<1>6. ASSUME NEW a PROVE CreditOf(p, a) = GivenTo(out, a)
  <2> DEFINE x == [i \in DOMAIN es |-> IF es[i].account = a /\ es[i].amount > 0 THEN es[i].amount ELSE 0]
             y == [k \in DOMAIN out |-> IF out[k].account = a THEN out[k].amount ELSE 0]
             r == [k \in 1..n |-> k + 1]
  <2>1. CreditOf(p, a) = Total(x) /\ GivenTo(out, a) = Total(y)
    BY DEF CreditOf, GivenTo, es
  <2>2. y \in Seq(Int) /\ Len(y) = n /\ \A k \in 1..n : y[k] = IF out[k].account = a THEN out[k].amount ELSE 0
    BY <1>1, <1>2
  <2>3. x[1] = 0 /\ \A k \in 2..(n + 1) : x[k] = y[k - 1] /\ x[k] \in Int
    BY <1>0, <1>1, <1>2, <1>3, <1>4
  <2>4. DOMAIN x = 1..(n + 1)
    BY <1>3
  <2> HIDE DEF x, y
  <2>5. x \in Seq(Int) /\ Len(x) = n + 1
    <3>1. \A k \in 1..(n + 1) : k = 1 \/ k \in 2..(n + 1)
      BY <1>1
    <3>2. \A k \in 1..(n + 1) : x[k] \in Int
      BY <2>3, <3>1
    <3>3. x = [k \in DOMAIN x |-> x[k]]
      BY DEF x
    <3>4. x \in [1..(n + 1) -> Int]
      BY <2>4, <3>2, <3>3
    <3>5. PICK m \in Nat : m = n + 1
      BY <1>1
    <3>6. QED BY <3>4, <3>5
  <2>6. Picks(y, x, r)
    <3>1. \A k \in 1..n : r[k] \in 1..(n + 1) /\ y[k] = x[r[k]]
      BY <1>1, <2>3
    <3>2. \A j, k \in 1..n : r[j] = r[k] => j = k
      BY <1>1
    <3>3. ASSUME NEW i \in 1..(n + 1), \A k \in 1..n : r[k] # i PROVE x[i] = 0
      <4>1. i = 1
        <5>1. SUFFICES ASSUME i # 1 PROVE FALSE
          OBVIOUS
        <5>2. i - 1 \in 1..n /\ r[i - 1] = i
          BY <1>1, <5>1
        <5>3. QED BY <3>3, <5>2
      <4>2. QED BY <2>3, <4>1
    <3> HIDE DEF r
    <3>4. QED BY <2>2, <2>5, <3>1, <3>2, <3>3 DEF Picks
  <2>7. Total(y) = Total(x)
    BY <2>2, <2>5, <2>6, TotalPicked
  <2>8. QED BY <2>1, <2>7
<1>7. QED BY <1>5, <1>6

\* The shares of a sale, and the sum that is split over them.
LEMMA SaleIsFair ==
  ASSUME RulesInv, NEW ev \in Sales, AwardPlan(rules.spend, ev) # NoPlan, SplitsProceeds(rules.spend),
         Total(Weights(Taking(rules.spend, ev))) > 0
  PROVE  LET p        == AwardPlan(rules.spend, ev)
             taking   == Taking(rules.spend, ev)
             sum      == Total(Weights(taking))
             Exact(i) == DebitOf(p, ev.buyer) * taking[i].weight
             Got(i)   == sum * CreditOf(p, taking[i].account)
         IN  /\ \A i \in DOMAIN taking : Got(i) - Exact(i) \in (1 - sum)..(sum - 1)
             /\ \A i, j \in DOMAIN taking :
                  Got(i) > Exact(i) /\ Got(j) <= Exact(j) => Exact(i) % sum >= Exact(j) % sum
<1> DEFINE rule == rules.spend
           p == AwardPlan(rule, ev)
           taking == Taking(rule, ev)
           sum == Total(Weights(taking))
           t == SortByAccount(taking)
           n == Len(taking)
<1>1. ev \in SaleOf
  BY EventsAssumption DEF SaleOf, ShareOf, Accounts
<1>2. rule # None
  BY DEF AwardPlan, Can
<1>3. /\ rule.id \in DOMAIN RuleKindOf
      /\ rule.id \in {"fixed_price", "zero_sum"} => rule.cfg.default \in Int
      /\ rule.id = "roll" => rule.cfg.cost \in Int
  BY <1>2, ConfigsAssumption DEF RulesInv, Resolves
<1>P. PICK price \in Int :
      \E empty :
        /\ price > 0 /\ ev.buyer \notin SystemAccounts
        /\ CheckedShares(taking) /\ NoSystemAccounts(taking)
        /\ Allocate(price, t, empty) # Refused
        /\ p.entries = <<Entry(ev.buyer, -price)>> \o Allocate(price, t, empty)
  <2> HIDE DEF rule
  <2>1. SplitsProceeds(rule) /\ AwardPlan(rule, ev) # NoPlan
    BY DEF rule
  <2>2. QED BY <1>1, <1>3, <2>1, SplittingAward
<1>4. PICK empty :
        /\ price > 0 /\ ev.buyer \notin SystemAccounts
        /\ CheckedShares(taking) /\ NoSystemAccounts(taking)
        /\ Allocate(price, t, empty) # Refused
        /\ p.entries = <<Entry(ev.buyer, -price)>> \o Allocate(price, t, empty)
  BY <1>P
<1> DEFINE out == Allocate(price, t, empty)
<1>5. taking \in Seq(ShareOf)
  BY <1>1, TakingType
<1>6. DOMAIN taking = 1..n /\ n \in Nat
  BY <1>5, LenProperties
<1> HIDE DEF taking, p
<1>7. /\ IsShares(t) /\ Len(t) = n /\ Total(Weights(t)) = sum
      /\ \A i \in 1..n : \E k \in 1..n : t[k] = taking[i]
  BY <1>4, <1>P, <1>5, <1>6, SortedShares
<1>8. sum > 0
  BY DEF taking
<1> HIDE DEF t, n
<1>9. out = Split(price, t)
  BY <1>4, <1>P, <1>7, <1>8, AllocateSplits
<1>10. Split(price, t) \in Seq([account : Int, amount : Int])
  BY <1>7, <1>8, SplitKeeps
<1>11. \A k \in DOMAIN Split(price, t) : price > 0 => Split(price, t)[k].amount > 0
  BY <1>7, <1>8, SplitGives
<1>12. DebitOf(p, ev.buyer) = price /\ \A a : CreditOf(p, a) = GivenTo(out, a)
  <2>1. SellsFor(p, ev.buyer, price, out)
    BY <1>4, <1>P, <1>9, <1>10, <1>11 DEF SellsFor
  <2> HIDE DEF out
  <2>2. QED BY <2>1, SaleEntries
<1>13. \A k \in 1..n : GivenTo(out, t[k].account) \in Nat
  <2>1. \A k \in 1..Len(t) : GivenTo(Split(price, t), t[k].account) = Sign(price) * Portion(price, t, k)
    BY <1>7, <1>8, SplitGives
  <2>2. \A k \in 1..Len(t) : Portion(price, t, k) \in Nat
    BY <1>7, <1>8, PortionsAddUp
  <2>3. Sign(price) = 1
    BY <1>4, <1>P DEF Sign
  <2>4. QED BY <1>7, <1>9, <2>1, <2>2, <2>3
<1>14. /\ \A k \in 1..n : sum * GivenTo(out, t[k].account) - price * t[k].weight \in (1 - sum)..(sum - 1)
       /\ \A k, l \in 1..n :
            /\ sum * GivenTo(out, t[k].account) > price * t[k].weight
            /\ sum * GivenTo(out, t[l].account) <= price * t[l].weight
            => (price * t[k].weight) % sum >= (price * t[l].weight) % sum
  <2> DEFINE Got(i) == Magnitude(GivenTo(out, t[i].account))
             Exact(i) == Magnitude(price) * t[i].weight
  <2>1. /\ \A i \in 1..Len(t) : Total(Weights(t)) * Got(i) - Exact(i)
                                    \in (1 - Total(Weights(t)))..(Total(Weights(t)) - 1)
        /\ \A i, j \in 1..Len(t) :
             Total(Weights(t)) * Got(i) > Exact(i) /\ Total(Weights(t)) * Got(j) <= Exact(j)
               => Exact(i) % Total(Weights(t)) >= Exact(j) % Total(Weights(t))
    BY <1>4, <1>P, <1>7, <1>8, AllocateIsFair
  <2>2. \A i \in 1..n : Got(i) = GivenTo(out, t[i].account)
    BY <1>13 DEF Magnitude
  <2>3. \A i \in 1..n : Exact(i) = price * t[i].weight
    BY <1>4, <1>P DEF Magnitude
  <2>4. Total(Weights(t)) = sum /\ Len(t) = n
    BY <1>7
  <2> HIDE DEF Got, Exact, sum, out, n
  <2>5. \A i \in 1..n : sum * Got(i) - Exact(i) \in (1 - sum)..(sum - 1)
    BY <2>1, <2>4
  <2>6. \A i, j \in 1..n :
          sum * Got(i) > Exact(i) /\ sum * Got(j) <= Exact(j) => Exact(i) % sum >= Exact(j) % sum
    BY <2>1, <2>4
  <2>7. \A k \in 1..n : sum * GivenTo(out, t[k].account) - price * t[k].weight \in (1 - sum)..(sum - 1)
    BY <2>2, <2>3, <2>5
  <2>8. QED BY <2>2, <2>3, <2>6, <2>7
<1> HIDE DEF out, sum
<1>15. \A i \in 1..n : sum * CreditOf(p, taking[i].account) - DebitOf(p, ev.buyer) * taking[i].weight
                          \in (1 - sum)..(sum - 1)
  <2> TAKE i \in 1..n
  <2>1. PICK k \in 1..n : t[k] = taking[i]
    BY <1>7
  <2>2. QED BY <1>12, <1>14, <2>1
<1>16. ASSUME NEW i \in 1..n, NEW j \in 1..n,
              sum * CreditOf(p, taking[i].account) > DebitOf(p, ev.buyer) * taking[i].weight,
              sum * CreditOf(p, taking[j].account) <= DebitOf(p, ev.buyer) * taking[j].weight
       PROVE  (DebitOf(p, ev.buyer) * taking[i].weight) % sum >= (DebitOf(p, ev.buyer) * taking[j].weight) % sum
  <2>1. PICK k \in 1..n : t[k] = taking[i]
    BY <1>7
  <2>2. PICK l \in 1..n : t[l] = taking[j]
    BY <1>7
  <2>3. /\ sum * GivenTo(out, t[k].account) > price * t[k].weight
        /\ sum * GivenTo(out, t[l].account) <= price * t[l].weight
    BY <1>12, <1>16, <2>1, <2>2
  <2>4. (price * t[k].weight) % sum >= (price * t[l].weight) % sum
    BY <1>14, <2>3
  <2>5. QED BY <1>12, <2>1, <2>2, <2>4
<1>17. QED BY <1>6, <1>15, <1>16 DEF p, taking, sum

\* Splits are fair, at every state of every pool, whatever is sold, for whatever price and to
\* whoever took part: ledger.Allocate under routeProceeds and zero_sum.
THEOREM SplitsAreFair == Spec => []SplitIsFair
<1>1. BaseInv => SplitIsFair
  <2> SUFFICES ASSUME BaseInv, NEW ev \in Sales
               PROVE  LET p       == AwardPlan(rules.spend, ev)
                          turned  == AwardPlan(rules.spend, [ev EXCEPT !.shares = Reverse(ev.shares)])
                          taking  == Taking(rules.spend, ev)
                          sum     == Total(Weights(taking))
                          Exact(i) == DebitOf(p, ev.buyer) * taking[i].weight
                          Got(i)  == sum * CreditOf(p, taking[i].account)
                      IN  /\ turned.entries = p.entries
                          /\ p # NoPlan /\ SplitsProceeds(rules.spend) /\ sum > 0 =>
                               /\ \A i \in DOMAIN taking : Got(i) - Exact(i) \in (1 - sum)..(sum - 1)
                               /\ \A i, j \in DOMAIN taking :
                                    Got(i) > Exact(i) /\ Got(j) <= Exact(j) => Exact(i) % sum >= Exact(j) % sum
    BY DEF SplitIsFair
  <2>1. RulesInv
    BY DEF BaseInv
  <2>2. ev \in SaleOf
    BY EventsAssumption DEF SaleOf, ShareOf, Accounts
  <2>3. ev.shares \in Seq(ShareOf)
    BY <2>2 DEF SaleOf
  <2>4. Reverse(ev.shares) \in Seq(ShareOf) /\ \E f : Rearranges(Reverse(ev.shares), ev.shares, f)
    BY <2>3, ReverseRearranges
  <2>5. PICK f : Rearranges(Reverse(ev.shares), ev.shares, f)
    BY <2>4
  <2>6. rules.spend # None => rules.spend.id \in DOMAIN RuleKindOf
    BY <2>1 DEF RulesInv, Resolves
  <2>7. AwardPlan(rules.spend, [ev EXCEPT !.shares = Reverse(ev.shares)]) = AwardPlan(rules.spend, ev)
    BY <2>2, <2>4, <2>5, <2>6, AwardIgnoresOrder
  <2>8. QED BY <2>1, <2>7, SaleIsFair
<1>2. Init => BaseInv
  BY BaseInit
<1>3. BaseInv /\ [Next]_vars => BaseInv'
  BY BaseNext
<1>4. QED BY <1>1, <1>2, <1>3, PTL DEF Spec

-----------------------------------------------------------------------------
(* Debts.                                                                    *)

\* Who only ever receives in a batch is not taken from.
LEMMA GivesOnly ==
  ASSUME NEW b, IsEntries(b.entries), NEW a,
         \A i \in DOMAIN b.entries : b.entries[i].account = a => b.entries[i].amount >= 0
  PROVE  Moved(b, a) >= 0
<1> DEFINE t == Column(b, a)
           z == [i \in 1..Len(t) |-> 0]
<1>1. t \in Seq(Int) /\ Len(t) = Len(b.entries) /\ Moved(b, a) = Total(t)
  BY ColumnType
<1>2. Len(t) \in Nat /\ \A i \in 1..Len(t) : t[i] \in Int /\ t[i] >= 0
  BY <1>1 DEF IsEntries, Column
<1> HIDE DEF t
<1>3. z \in Seq(Int) /\ Len(z) = Len(t) /\ \A i \in 1..Len(z) : z[i] = 0
  BY <1>2
<1> HIDE DEF z
<1>4. \A i \in 1..Len(z) : z[i] <= t[i]
  BY <1>2, <1>3
<1>5. Total(z) <= Total(t) /\ Total(z) = 0
  BY <1>1, <1>3, <1>4, TotalMonotone, TotalZero
<1>6. QED BY <1>1, <1>5

\* A batch that the bank funds takes from nobody else.
LEMMA FundedGives ==
  ASSUME NEW es \in Seq([account : Int, amount : Nat]), NEW x \in Int,
         NEW b, b.entries = <<Entry(Bank, x)>> \o es, NEW a, a # Bank
  PROVE  Moved(b, a) >= 0
<1> DEFINE n == Len(es)
<1>1. n \in Nat /\ DOMAIN es = 1..n /\ \A i \in 1..n : es[i] \in [account : Int, amount : Nat]
  BY LenProperties, ElementOfSeq
<1>2. /\ Len(b.entries) = n + 1 /\ DOMAIN b.entries = 1..(n + 1)
      /\ b.entries[1].account = Bank /\ b.entries[1].amount = x
      /\ \A i \in 2..(n + 1) : b.entries[i] = es[i - 1]
  BY <1>1 DEF Entry
<1> HIDE DEF n
<1>3. \A i \in 2..(n + 1) : i - 1 \in 1..n
  BY <1>1
<1>4. \A i \in 2..(n + 1) : b.entries[i].amount \in Nat
  BY <1>1, <1>2, <1>3
<1>5. \A i \in 1..(n + 1) : i = 1 \/ i \in 2..(n + 1)
  BY <1>1
<1>6. IsEntries(b.entries)
  BY <1>1, <1>2, <1>4, <1>5 DEF IsEntries
<1>7. \A i \in DOMAIN b.entries : b.entries[i].account = a => b.entries[i].amount >= 0
  BY <1>2, <1>4, <1>5
<1>8. QED BY <1>6, <1>7, GivesOnly

\* What is credited has a sum.
LEMMA CreditsTotal ==
  ASSUME NEW es \in Seq([account : Int, amount : Nat])
  PROVE  -Total(Amounts(es)) \in Int
<1>1. Amounts(es) \in Seq(Int)
  <2> DEFINE C == [account : Int, amount : Nat]
  <2>0. \A c \in C : c.amount \in Int
    OBVIOUS
  <2>1. DOMAIN es = 1..Len(es) /\ Len(es) \in Nat /\ \A i \in 1..Len(es) : es[i].amount \in Int
    <3>1. es \in Seq(C)
      OBVIOUS
    <3> HIDE DEF C
    <3>2. DOMAIN es = 1..Len(es) /\ Len(es) \in Nat /\ \A i \in 1..Len(es) : es[i] \in C
      BY <3>1, LenProperties, ElementOfSeq
    <3>3. QED BY <2>0, <3>2
  <2>2. Amounts(es) = [i \in 1..Len(es) |-> es[i].amount]
    BY <2>1 DEF Amounts
  <2>3. QED BY <2>1, <2>2
<1>2. Total(Amounts(es)) \in Int
  BY <1>1, TotalType
<1>3. QED BY <1>2

\* A sequence is over any set its elements are in.
LEMMA SeqNarrow ==
  ASSUME NEW S, NEW T, NEW s \in Seq(S), \A k \in 1..Len(s) : s[k] \in T
  PROVE  s \in Seq(T)
<1>1. Len(s) \in Nat /\ s = [k \in 1..Len(s) |-> s[k]]
  BY LenProperties
<1>2. QED BY <1>1

\* A sort leaves nobody out.
LEMMA SortReaches ==
  ASSUME NEW T, NEW s \in Seq(T), \A i \in DOMAIN s : s[i].account \in Int
  PROVE  \A i \in DOMAIN s : \E k \in DOMAIN SortByAccount(s) : SortByAccount(s)[k] = s[i]
<1> DEFINE o == AccountOrder(s)
           at == Ranked(o)
           n == Len(s)
<1>1. IsOrder(o) /\ DOMAIN o = DOMAIN s
  BY AccountsAreOrdered
<1>2. DOMAIN s = 1..n /\ n \in Nat
  BY LenProperties
<1>3. SortByAccount(s) = [k \in 1..n |-> s[at[k]]] /\ Len(SortByAccount(s)) = n
  BY SortKeeps
<1>4. Cardinality(1..n) = n
  <2>1. \A k \in Nat : IsFiniteSet(1..k) /\ Cardinality(1..k) = k
    BY FS_Interval
  <2>2. QED BY <1>2, <2>1
<1> HIDE DEF o, n
<1>5. \A x \in DOMAIN o : Place(o, x) + 1 \in 1..Cardinality(DOMAIN o) /\ at[Place(o, x) + 1] = x
  BY <1>1, RankedLists
<1>6. \A i \in DOMAIN s : Place(o, i) + 1 \in 1..n /\ at[Place(o, i) + 1] = i
  BY <1>1, <1>2, <1>4, <1>5
<1> HIDE DEF at
<1>7. QED BY <1>3, <1>6

RaidOf == [amount : Int \cup {None}, attendees : Seq(ShareOf)]

\* Rows of credits, none of them zero, for some of these accounts.
CreditsOf(es, who) ==
  /\ es \in Seq([account : Int, amount : Nat]) /\ es # <<>>
  /\ \A k \in DOMAIN es : es[k].amount # 0 /\ es[k].account \in who
Attending(shares) == {shares[i].account : i \in DOMAIN shares}

\* tick credits whoever attended, and the bank pays.
LEMMA TickCredits ==
  ASSUME NEW rule, rule.cfg.award \in Int, NEW ev \in RaidOf, TickAttendance(rule, ev) # NoPlan
  PROVE  \E es : CreditsOf(es, Attending(ev.attendees)) /\ TickAttendance(rule, ev).entries = FundedByBank(es)
<1> DEFINE p == TickAttendance(rule, ev)
           shares == SortByAccount(ev.attendees)
           amount == Worth(rule.cfg.award, ev)
           given == [i \in DOMAIN shares |-> Entry(shares[i].account, TickEarned(rule.cfg, amount, shares[i]))]
           credits == NonZero(given)
<1>1. /\ TickConfigValid(rule.cfg) /\ CheckedShares(ev.attendees) /\ credits # <<>>
      /\ \A i \in DOMAIN shares : TickEarns(rule.cfg, amount, shares[i])
      /\ p = Propose(rule, "attendance", None, None, FundedByBank(credits))
  BY DEF TickAttendance
<1>2. p.entries = FundedByBank(credits)
  <2> HIDE DEF p, credits
  <2>1. Propose(rule, "attendance", None, None, FundedByBank(credits)) # NoPlan
    BY <1>1 DEF p
  <2>2. QED BY <1>1, <2>1, ProposeLabels
<1>3. amount \in Int /\ ev.attendees \in Seq(ShareOf)
  BY DEF RaidOf, Worth
<1>4. \A i \in DOMAIN ev.attendees : ev.attendees[i].account \in Int /\ ev.attendees[i].weight \in Int
  <2>1. \A i \in DOMAIN ev.attendees : ev.attendees[i] \in ShareOf
    BY <1>3, ElementOfSeq, LenProperties
  <2>2. QED BY <1>1, <2>1, AccountsAssumption DEF ShareOf, Accounts, CheckedShares
<1> HIDE DEF amount
<1>5. shares \in Seq(ShareOf) /\ Len(shares) \in Nat /\ DOMAIN shares = 1..Len(shares)
      /\ \A i \in DOMAIN shares : \E k \in DOMAIN ev.attendees : shares[i] = ev.attendees[k]
  <2> DEFINE s == ev.attendees
             at == Ranked(AccountOrder(s))
  <2>1. DOMAIN s = 1..Len(s) /\ Len(s) \in Nat
    BY <1>3, LenProperties
  <2> HIDE DEF s
  <2>2. s \in Seq(ShareOf) /\ \A i \in DOMAIN s : s[i].account \in Int
    BY <1>3, <1>4 DEF s
  <2>3. /\ SortByAccount(s) \in Seq(ShareOf) /\ Len(SortByAccount(s)) = Len(s)
        /\ SortByAccount(s) = [k \in 1..Len(s) |-> s[at[k]]] /\ \A k \in 1..Len(s) : at[k] \in 1..Len(s)
    BY <2>2, SortKeeps
  <2>4. QED BY <2>1, <2>3 DEF s
<1> HIDE DEF shares
<1>6. \A i \in DOMAIN shares : given[i] \in [account : Int, amount : Nat]
  <2> SUFFICES ASSUME NEW i \in DOMAIN shares PROVE given[i] \in [account : Int, amount : Nat]
    OBVIOUS
  <2> DEFINE x == amount * shares[i].weight
             m == MultiplierFor(rule.cfg, shares[i].role)
  <2>1. shares[i].account \in Int /\ shares[i].weight \in Int
    BY <1>4, <1>5
  <2>2. Scalable(x, m)
    BY <1>1 DEF TickEarns
  <2>3. m \in Nat
    <3>1. m \in 0..MaxMultiplierBp
      BY <1>1 DEF MultiplierFor, TickConfigValid
    <3>2. QED BY <3>1, BoundsAssumption
  <2>4. x \in Nat
    BY <1>3, <2>1, <2>2 DEF Scalable
  <2>5. given[i] = Entry(shares[i].account, Scaled(x, m))
    BY DEF TickEarned
  <2> HIDE DEF x, m, given
  <2>6. x * m \in Nat
    BY <2>3, <2>4
  <2>7. PICK y \in Nat : y = x * m
    BY <2>6
  <2>8. y \div WholeBp \in Nat
    BY BoundsAssumption, Divided
  <2>9. Scaled(x, m) \in Nat
    BY <2>7, <2>8 DEF Scaled
  <2>10. QED BY <2>1, <2>5, <2>9 DEF Entry
<1>7. given \in Seq([account : Int, amount : Nat])
  <2>1. DOMAIN given = 1..Len(shares)
    BY <1>5
  <2>2. given = [i \in 1..Len(shares) |-> given[i]]
    BY <1>5
  <2> HIDE DEF given
  <2>3. QED BY <1>5, <1>6, <2>2
<1>8. \A i \in DOMAIN given : \E k \in DOMAIN ev.attendees : given[i].account = ev.attendees[k].account
  <2>1. \A i \in DOMAIN given : i \in DOMAIN shares /\ given[i].account = shares[i].account
    BY DEF Entry
  <2>2. QED BY <1>5, <2>1
<1> HIDE DEF given
<1>9. /\ credits \in Seq([account : Int, amount : Nat])
      /\ \A k \in DOMAIN credits : credits[k].amount # 0
      /\ \E r : Keeps(credits, given, r)
  BY <1>7, NonZeroKeeps
<1> HIDE DEF credits, p
<1>10. PICK r : Keeps(credits, given, r)
  BY <1>9
<1>11. \A k \in DOMAIN credits : r[k] \in DOMAIN given /\ credits[k] = given[r[k]]
  BY <1>10 DEF Keeps
<1>12. CreditsOf(credits, Attending(ev.attendees))
  BY <1>1, <1>8, <1>9, <1>11 DEF CreditsOf, Attending
<1>13. QED BY <1>2, <1>12 DEF p

\* So it takes from nobody.
LEMMA TickGives ==
  ASSUME NEW rule, rule.cfg.award \in Int, NEW ev \in RaidOf, TickAttendance(rule, ev) # NoPlan,
         NEW a, a # Bank
  PROVE  Moved(TickAttendance(rule, ev), a) >= 0
<1> DEFINE p == TickAttendance(rule, ev)
<1>1. PICK es : CreditsOf(es, Attending(ev.attendees)) /\ p.entries = FundedByBank(es)
  BY TickCredits
<1>2. es \in Seq([account : Int, amount : Nat]) /\ -Total(Amounts(es)) \in Int
  BY <1>1, CreditsTotal DEF CreditsOf
<1> HIDE DEF p
<1>3. QED BY <1>1, <1>2, FundedGives DEF FundedByBank, p

\* attendance_weighted splits its pot over whoever attended.
LEMMA WeightedGives ==
  ASSUME NEW rule, rule.cfg.pot \in Int, NEW ev \in RaidOf, WeightedAttendance(rule, ev) # NoPlan,
         NEW a, a # Bank
  PROVE  Moved(WeightedAttendance(rule, ev), a) >= 0
<1> DEFINE p == WeightedAttendance(rule, ev)
           shares == SortByAccount(ev.attendees)
           pot == Worth(rule.cfg.pot, ev)
           out == Allocate(pot, shares, Bank)
           es == <<Entry(Bank, -pot)>> \o out
<1>1. /\ pot > 0 /\ CheckedShares(ev.attendees) /\ NoSystemAccounts(shares) /\ AttendanceWeightsOk(shares)
      /\ p = Propose(rule, "attendance", None, None, es)
  BY DEF WeightedAttendance
<1>2. p.entries = es
  <2> HIDE DEF p, es
  <2>1. Propose(rule, "attendance", None, None, es) # NoPlan
    BY <1>1 DEF p
  <2>2. QED BY <1>1, <2>1, ProposeLabels
<1>3. pot \in Int /\ ev.attendees \in Seq(ShareOf)
  BY DEF RaidOf, Worth
<1>4. NoSystemAccounts(ev.attendees)
  <2>1. \A i \in DOMAIN ev.attendees : ev.attendees[i].account \in Int
    <3>1. \A i \in DOMAIN ev.attendees : ev.attendees[i] \in ShareOf
      BY <1>3, ElementOfSeq, LenProperties
    <3>2. QED BY <1>1, <3>1, AccountsAssumption DEF ShareOf, Accounts, CheckedShares
  <2>2. \A i \in DOMAIN ev.attendees : \E k \in DOMAIN shares : shares[k] = ev.attendees[i]
    BY <1>3, <2>1, SortReaches
  <2>3. QED BY <1>1, <2>2 DEF NoSystemAccounts
<1> HIDE DEF pot, shares
<1>5. IsShares(shares)
  BY <1>1, <1>3, <1>4, SortedShares DEF shares
<1>6. Total(Weights(shares)) > 0 /\ SummableWeights(shares)
  BY <1>1 DEF AttendanceWeightsOk
<1>7. out # Refused
  <2>1. shares # <<>>
    <3>1. Weights(<<>>) = <<>>
      BY DEF Weights
    <3>2. QED BY <1>6, <3>1, TotalEmpty
  <2>2. pot \notin {0, -MaxCp - 1}
    BY <1>1, <1>3, MaxCpAssumption
  <2>3. Total(Weights(shares)) # 0
    BY <1>6
  <2>4. out = Split(pot, shares)
    BY <1>6, <2>1, <2>2, <2>3 DEF Allocate
  <2>5. Split(pot, shares) # <<>>
    <3>1. Total(Amounts(Split(pot, shares))) = pot
      BY <1>3, <1>5, <1>6, SplitGives
    <3>2. Amounts(<<>>) = <<>>
      BY DEF Amounts
    <3>3. QED BY <1>1, <3>1, <3>2, TotalEmpty
  <2>6. QED BY <2>4, <2>5 DEF Refused
<1>8. out = Split(pot, shares)
  BY <1>3, <1>5, <1>6, <1>7, AllocateSplits
<1>9. Split(pot, shares) \in Seq([account : Int, amount : Int])
  BY <1>3, <1>5, <1>6, SplitKeeps
<1>10. \A k \in DOMAIN Split(pot, shares) : pot > 0 => Split(pot, shares)[k].amount > 0
  BY <1>3, <1>5, <1>6, SplitGives
<1>11. out \in Seq([account : Int, amount : Nat])
  <2>1. out \in Seq([account : Int, amount : Int]) /\ \A k \in DOMAIN out : out[k].amount > 0
    BY <1>1, <1>8, <1>9, <1>10
  <2> HIDE DEF out
  <2>2. DOMAIN out = 1..Len(out) /\ Len(out) \in Nat /\ \A k \in 1..Len(out) : out[k] \in [account : Int, amount : Int]
    BY <2>1, LenProperties, ElementOfSeq
  <2>3. \A k \in 1..Len(out) : out[k] \in [account : Int, amount : Nat]
    <3> TAKE k \in 1..Len(out)
    <3>1. out[k].amount \in Int /\ out[k].amount > 0 /\ out[k].account \in Int
      BY <2>1, <2>2
    <3>2. out[k].amount \in Nat
      BY <3>1
    <3>3. out[k] = [account |-> out[k].account, amount |-> out[k].amount]
      BY <2>2
    <3>4. QED BY <3>1, <3>2, <3>3
  <2>4. QED BY <2>1, <2>3, SeqNarrow
<1> HIDE DEF out, p
<1>12. p.entries = <<Entry(Bank, -pot)>> \o out /\ -pot \in Int
  BY <1>2, <1>3
<1>13. QED BY <1>11, <1>12, FundedGives DEF p

\* No attendance takes points from a member.
LEMMA AttendanceGives ==
  ASSUME RulesInv, NEW ledger, NEW ev \in Attendances \cup {Opening},
         AttendancePlan(rules.earn, ledger, ev) # NoPlan, NEW a, a # Bank
  PROVE  Moved(AttendancePlan(rules.earn, ledger, ev), a) >= 0
<1>1. rules.earn # None /\ rules.earn.id \in DOMAIN RuleKindOf /\ RuleKindOf[rules.earn.id] = "earn"
  BY DEF AttendancePlan, Can, RulesInv, Resolves
<1>2. rules.earn.id \in {"tick", "attendance_weighted"}
  BY <1>1 DEF RuleKindOf
<1>3. ev \in RaidOf
  BY EventsAssumption DEF RaidOf, ShareOf, Accounts
<1>4. CASE rules.earn.id = "tick"
  <2>1. rules.earn.cfg.award \in Int
    BY <1>1, <1>4, ConfigsAssumption DEF RulesInv
  <2>2. AttendancePlan(rules.earn, ledger, ev) = TickAttendance(rules.earn, ev)
    BY <1>4 DEF AttendancePlan
  <2>3. QED BY <1>3, <2>1, <2>2, TickGives
<1>5. CASE rules.earn.id = "attendance_weighted"
  <2>1. rules.earn.cfg.pot \in Int
    BY <1>1, <1>5, ConfigsAssumption DEF RulesInv
  <2>2. AttendancePlan(rules.earn, ledger, ev) = WeightedAttendance(rules.earn, ev)
    BY <1>5 DEF AttendancePlan
  <2>3. QED BY <1>3, <2>1, <2>2, WeightedGives
<1>6. QED BY <1>2, <1>4, <1>5

\* start_points credits some of its roster, and the bank pays.
LEMMA StartCredits ==
  ASSUME NEW rule, rule.cfg.grant \in Int, NEW ledger, NEW spec, spec.accounts = <<>>,
         NEW members \in SUBSET Nat, IsFiniteSet(members),
         StartPointsRun(rule, ledger, spec, members) # NoPlan
  PROVE  \E es : CreditsOf(es, members) /\ StartPointsRun(rule, ledger, spec, members).entries = FundedByBank(es)
<1> DEFINE p == StartPointsRun(rule, ledger, spec, members)
           S == {b \in Targets(spec, members) : Eligible(ledger, spec, b)}
           f == [b \in S |-> rule.cfg.grant]
           es == MovesOf(f)
<1>1. rule.cfg.grant > 0 /\ es # <<>> /\ p = Propose(rule, "start_points", spec.period, None, FundedByBank(es))
  BY DEF StartPointsRun
<1>2. p.entries = FundedByBank(es)
  <2> HIDE DEF p, es
  <2>1. Propose(rule, "start_points", spec.period, None, FundedByBank(es)) # NoPlan
    BY <1>1 DEF p
  <2>2. QED BY <1>1, <2>1, ProposeLabels
<1>3. S \in SUBSET Nat /\ S \in SUBSET members /\ IsFiniteSet(S)
  <2>1. S \in SUBSET members
    BY DEF Targets
  <2>2. QED BY <2>1, FS_Subset
<1>4. DOMAIN f = S /\ \A b \in S : f[b] = rule.cfg.grant
  OBVIOUS
<1> HIDE DEF S, f, p
<1>5. DOMAIN f \in SUBSET Nat /\ IsFiniteSet(DOMAIN f) /\ \A b \in DOMAIN f : f[b] \in Int
  BY <1>3, <1>4
<1>6. /\ es \in Seq([account : DOMAIN f, amount : Int])
      /\ \A i \in DOMAIN es : es[i].account \in Moving(f) /\ es[i].amount = f[es[i].account]
  BY <1>5, MovesType
<1> HIDE DEF es
<1>7. DOMAIN es = 1..Len(es) /\ Len(es) \in Nat /\ \A i \in 1..Len(es) : es[i] \in [account : DOMAIN f, amount : Int]
  BY <1>6, LenProperties, ElementOfSeq
<1>8. \A i \in 1..Len(es) : es[i].amount = rule.cfg.grant
  BY <1>4, <1>6, <1>7 DEF Moving
<1>9. \A i \in 1..Len(es) : es[i] \in [account : Int, amount : Nat]
  BY <1>1, <1>5, <1>7, <1>8
<1>10. es \in Seq([account : DOMAIN f, amount : Int])
  BY <1>6
<1>11. es \in Seq([account : Int, amount : Nat])
  <2> DEFINE A == [account : DOMAIN f, amount : Int]
             B == [account : Int, amount : Nat]
  <2>1. es \in Seq(A) /\ \A i \in 1..Len(es) : es[i] \in B
    BY <1>9, <1>10
  <2> HIDE DEF A, B
  <2>2. es \in Seq(B)
    BY <2>1, SeqNarrow
  <2>3. QED BY <2>2 DEF B
<1>12. \A k \in DOMAIN es : es[k].amount # 0 /\ es[k].account \in members
  <2>1. \A k \in DOMAIN es : es[k].amount = rule.cfg.grant /\ es[k].account \in DOMAIN f
    BY <1>6, <1>7, <1>8 DEF Moving
  <2>2. QED BY <1>1, <1>3, <1>4, <2>1
<1>13. CreditsOf(es, members)
  BY <1>1, <1>11, <1>12 DEF CreditsOf
<1>14. QED BY <1>2, <1>13 DEF p

\* So a grant takes from nobody.
LEMMA StartGives ==
  ASSUME NEW rule, rule.cfg.grant \in Int, NEW ledger, NEW spec, spec.accounts = <<>>,
         NEW members \in SUBSET Nat, IsFiniteSet(members),
         StartPointsRun(rule, ledger, spec, members) # NoPlan, NEW a, a # Bank
  PROVE  Moved(StartPointsRun(rule, ledger, spec, members), a) >= 0
<1> DEFINE p == StartPointsRun(rule, ledger, spec, members)
<1>1. PICK es : CreditsOf(es, members) /\ p.entries = FundedByBank(es)
  BY StartCredits
<1>2. es \in Seq([account : Int, amount : Nat]) /\ -Total(Amounts(es)) \in Int
  BY <1>1, CreditsTotal DEF CreditsOf
<1> HIDE DEF p
<1>3. QED BY <1>1, <1>2, FundedGives DEF FundedByBank, p

\* A plan that waits may leave somebody in debt only if it is a reversal or declares a floor.
MayTake(p) == p.kind = "reversal" \/ p.floor \in Int \/ \A a \in Members : Moved(p, a) >= 0
DebtInv == (\A p \in plans : MayTake(p)) /\ DebtNeedsAReversal

\* Members are not the guild's own accounts.
LEMMA MembersArePeople == \A a \in Members : a \in Nat /\ a \notin SystemAccounts /\ a # Bank
  BY AccountsAssumption DEF Members, SystemAccounts

\* Every planner makes such plans: the ones that declare no floor take from nobody.
LEMMA MadeMayTake ==
  ASSUME BaseInv, RunInv, [Next]_vars, NEW p, p # NoPlan, MadeBy(p)
  PROVE  MayTake(p)
<1>0. RulesInv
  BY DEF BaseInv
<1>1. ASSUME NEW ev \in Attendances, p = AttendancePlan(rules.earn, log, ev) PROVE MayTake(p)
  <2>1. \A a \in Members : Moved(p, a) >= 0
    BY <1>0, <1>1, AttendanceGives, MembersArePeople
  <2>2. QED BY <2>1 DEF MayTake
<1>2. ASSUME NEW ev \in Charged, p = AwardPlan(rules.spend, ev) PROVE MayTake(p)
  <2>1. rules.spend # None /\ p.floor = rules.spend.cfg.floor
    BY <1>2, AwardLabels DEF Labelled
  <2>2. QED BY <1>0, <2>1, ConfigsAssumption DEF RulesInv, MayTake
<1>3. ASSUME NEW ev \in Adjustments, rules.earn # None, p = AdjustmentPlan(rules.earn, ev) PROVE MayTake(p)
  <2>1. p.floor = rules.earn.cfg.floor
    BY <1>3, AdjustmentLabels DEF Labelled
  <2>2. QED BY <1>0, <1>3, <2>1, ConfigsAssumption DEF RulesInv, MayTake
<1>4. ASSUME NEW n \in DOMAIN log, p = PlanReversal(rules, log, n) PROVE MayTake(p)
  BY <1>4, ReversalLabels DEF MayTake
<1>5. ASSUME Can(rules.overTime, "run"), p = RunPlan(rules.overTime, log, run'.spec, roster) PROVE MayTake(p)
  <2> DEFINE rule == rules.overTime
             spec == run'.spec
  <2>1. /\ rule # None /\ rule.id \in DOMAIN RuleKindOf /\ RuleKindOf[rule.id] = "overTime"
    BY <1>0, <1>5 DEF RulesInv, Resolves, Can
  <2>2. p.floor = IF rule.id = "start_points" THEN None ELSE rule.cfg.floor
    BY <1>5, <2>1, RunLabels DEF Labelled
  <2>3. CASE rule.id # "start_points"
    BY <1>0, <2>1, <2>2, <2>3, ConfigsAssumption DEF RulesInv, MayTake
  <2>4. CASE rule.id = "start_points"
    <3>1. p = StartPointsRun(rule, log, spec, roster)
      BY <1>5, <2>4 DEF RunPlan
    <3>2. rule.cfg.grant \in Int
      BY <1>0, <2>1, <2>4, ConfigsAssumption DEF RulesInv
    <3>3. spec.accounts = <<>>
      BY RunNext DEF RunInv, SpecInv
    <3>4. roster \in SUBSET Nat /\ IsFiniteSet(roster)
      BY RosterFinite DEF BaseInv
    <3> HIDE DEF rule, spec
    <3>5. \A a \in Members : Moved(p, a) >= 0
      BY <3>1, <3>2, <3>3, <3>4, StartGives, MembersArePeople
    <3>6. QED BY <3>5 DEF MayTake
  <2>5. QED BY <2>3, <2>4
<1>6. QED BY <1>1, <1>2, <1>3, <1>4, <1>5 DEF MadeBy

\* Nobody starts in debt.
LEMMA DebtInit == Init => DebtInv
<1> SUFFICES ASSUME Init PROVE DebtInv
  OBVIOUS
<1> DEFINE p == AttendancePlan(rules.earn, <<>>, Opening)
<1>1. log = <<p>> /\ plans = {} /\ BaseInv /\ HeadSeq = 1 /\ p.entries # <<>>
  BY BaseInit, FirstBatch DEF Init, CommitAdmits
<1>2. p # NoPlan
  BY <1>1 DEF NoPlan
<1>3. \A a \in Members : Moved(p, a) >= 0
  BY <1>1, <1>2, AttendanceGives, MembersArePeople DEF BaseInv
<1> HIDE DEF p
<1>4. IsLog(log) /\ Len(log) = 1 /\ log[1] = p
  BY <1>1, LogIsLog DEF BaseInv
<1>5. ASSUME NEW a \in Members PROVE Holding(a) >= 0
  <2>1. Balance(log, a, 1) = Total(Movements(log, a, 1)) /\ Movements(log, a, 1) \in Seq(Int)
        /\ Len(Movements(log, a, 1)) = 1
    <3>1. 1 \in Nat /\ 1 <= Len(log)
      BY <1>4
    <3>2. QED BY <1>4, <3>1, BalanceType, ZenonT(60)
  <2>2. Movements(log, a, 1)[1] = Moved(p, a)
    BY <1>4 DEF Movements
  <2>3. Total(Movements(log, a, 1)) = Total(<<>>) + Movements(log, a, 1)[Len(Movements(log, a, 1))]
    <3> DEFINE s == Movements(log, a, 1)
               t == <<>>
    <3>1. Len(t) \in Nat /\ Len(t) = 0 /\ Len(s) = Len(t) + 1 /\ \A i \in 1..Len(t) : s[i] = t[i]
      BY <2>1 DEF t
    <3> HIDE DEF s, t
    <3>2. Total(s) = Total(t) + s[Len(s)]
      BY <3>1, TotalExtend
    <3>3. QED BY <3>2 DEF s, t
  <2>4. Moved(p, a) \in Int
    BY <1>4, ColumnType DEF IsLog
  <2>5. Balance(log, a, 1) = Moved(p, a)
    BY <2>1, <2>2, <2>3, <2>4, TotalEmpty
  <2>6. QED BY <1>1, <1>3, <2>5 DEF Holding
<1>6. \A a \in Members : ~(Holding(a) < 0)
  <2>1. \A a \in Members : Holding(a) \in Int
    BY <1>1, <1>4, BalanceType DEF Holding
  <2>2. QED BY <1>5, <2>1
<1>7. QED BY <1>1, <1>6 DEF DebtInv, DebtNeedsAReversal

\* A commit that leaves a member below zero takes from them, by a reversal or above its floor, or
\* adds to what they owe already.
LEMMA DebtNext == BaseInv /\ RunInv /\ DebtInv /\ [Next]_vars => DebtInv'
<1> SUFFICES ASSUME BaseInv, RunInv, DebtInv, [Next]_vars PROVE DebtInv'
  OBVIOUS
<1>1. \A p \in plans' : MayTake(p)
  BY PlansAreMade, MadeMayTake DEF DebtInv
<1>2. ASSUME log' = log PROVE DebtInv'
  BY <1>1, <1>2 DEF DebtInv, DebtNeedsAReversal, MayTake, Holding, HeadSeq
<1>3. ASSUME NEW p, Commits(p) PROVE DebtInv'
  <2> DEFINE H == HeadSeq
  <2>1. /\ H \in Nat /\ HeadSeq' = H + 1 /\ log'[H + 1] = p /\ IsEntries(p.entries) /\ IsLog(log)
        /\ \A n \in 1..H : log'[n] = log[n]
    BY <1>3, Committed
  <2>2. MayTake(p) /\ FloorAdmits(log, p) /\ log' = Append(log, p) /\ Len(log) = H
    BY <1>3 DEF Commits, CommitAdmits, DebtInv, HeadSeq
  <2>3. ASSUME NEW a \in Members, Holding(a)' < 0
        PROVE  \E n \in 1..HeadSeq' : /\ Moved(log'[n], a) < 0
                                      /\ log'[n].kind = "reversal" \/ (log'[n].floor # None /\ log'[n].floor < 0)
    <3>1. Holding(a)' = Holding(a) + Moved(p, a)
      <4>1. Balance(log', a, H + 1) = Balance(log, a, H) + Moved(p, a)
        BY <2>1, <2>2, BalanceAppend
      <4>2. QED BY <2>1, <4>1 DEF Holding
    <3>2. Holding(a) \in Int /\ Moved(p, a) \in Int
      <4>1. Balance(log, a, H) \in Int
        BY <2>1, <2>2, BalanceType
      <4>2. QED BY <2>1, <4>1, ColumnType DEF Holding
    <3>3. CASE Moved(p, a) >= 0
      <4>1. Holding(a) < 0
        BY <2>3, <3>1, <3>2, <3>3
      <4>2. PICK n \in 1..HeadSeq : /\ Moved(log[n], a) < 0
                                    /\ log[n].kind = "reversal" \/ (log[n].floor # None /\ log[n].floor < 0)
        BY <4>1 DEF DebtInv, DebtNeedsAReversal
      <4>3. n \in 1..HeadSeq' /\ log'[n] = log[n]
        BY <2>1, <4>2
      <4>4. QED BY <4>2, <4>3
    <3>4. CASE Moved(p, a) < 0
      <4>1. p.kind = "reversal" \/ p.floor \in Int
        BY <2>2, <3>2, <3>4 DEF MayTake
      <4>2. ASSUME p.floor \in Int PROVE p.floor # None /\ p.floor < 0
        <5>1. p.floor # None
          BY <4>2, NoneAssumption
        <5>2. PICK i \in DOMAIN p.entries : p.entries[i].account = a
          BY <2>1, <3>2, <3>4, MovedNothing
        <5>3. a \notin SystemAccounts
          BY MembersArePeople
        <5>4. Balance(log, a, Len(log)) + Net(p, a) >= p.floor
          BY <2>2, <3>4, <5>1, <5>2, <5>3 DEF FloorAdmits, Net
        <5>5. Holding(a) + Moved(p, a) >= p.floor
          BY <2>2, <5>4 DEF Holding, Net
        <5>6. QED BY <2>3, <3>1, <3>2, <4>2, <5>1, <5>5
      <4>3. H + 1 \in 1..HeadSeq' /\ log'[H + 1] = p
        BY <2>1
      <4>4. QED BY <3>4, <4>1, <4>2, <4>3
    <3>5. QED BY <3>2, <3>3, <3>4
  <2>4. DebtNeedsAReversal'
    BY <2>3 DEF DebtNeedsAReversal, Members
  <2>5. \A q \in plans' : MayTake(q)'
    BY <1>1 DEF MayTake
  <2>6. QED BY <2>4, <2>5 DEF DebtInv
<1>4. QED BY <1>2, <1>3, LogGrows

\* A member is in debt only through a reversal or a rule that allows it, however long plans waited
\* between PlanAward, PlanDecay or PlanAdjustment and Commit.
THEOREM DebtsCorrect == Spec => []DebtNeedsAReversal
<1>1. Init => BaseInv /\ RunInv /\ DebtInv
  BY BaseInit, RunInit, DebtInit
<1>2. BaseInv /\ RunInv /\ DebtInv /\ [Next]_vars => (BaseInv /\ RunInv /\ DebtInv)'
  BY BaseNext, RunNext, DebtNext
<1>3. DebtInv => DebtNeedsAReversal
  BY DEF DebtInv
<1>4. QED BY <1>1, <1>2, <1>3, PTL DEF Spec
-----------------------------------------------------------------------------
(* Bids in order: tier.go and the ranking half of spend.go.                  *)

\* A bid that ValidateBid has let in, and one with what ranks it.
BidRows == {b \in Bids : b.account \in Members /\ b.amount >= 0 /\ TierKnown(b)}
RankedRows == [bid : BidRows, rank : Int]

\* A bid stands on a rung of the ladder.
LEMMA RungType ==
  ASSUME NEW b, TierKnown(b)
  PROVE  TierRank(b) \in 1..4
<1>1. DOMAIN Ladder = 1..4 /\ Len(Ladder) = 4
  BY DEF Ladder
<1>2. \E i \in DOMAIN Ladder : Ladder[i] = TierOf(b)
  BY DEF TierKnown, Range
<1> DEFINE c == CHOOSE i \in DOMAIN Ladder : Ladder[i] = TierOf(b)
<1>3. c \in 1..4
  BY <1>1, <1>2
<1>4. TierRank(b) = Len(Ladder) + 1 - c
  BY DEF TierRank
<1> HIDE DEF c
<1>5. QED BY <1>1, <1>3, <1>4

\* Its account, amount and time are numbers.
LEMMA BidType ==
  ASSUME NEW b \in BidRows
  PROVE  b.account \in Members /\ b.account \in Int /\ b.amount \in Nat /\ b.at \in Int /\ TierRank(b) \in Int
<1>1. b.amount \in Int /\ b.at \in Int
  BY EventsAssumption DEF BidRows
<1>2. b.account \in Members /\ b.account \in Nat /\ b.amount >= 0 /\ TierKnown(b)
  BY MembersArePeople DEF BidRows
<1>3. TierRank(b) \in 1..4
  BY <1>2, RungType
<1>4. QED BY <1>1, <1>2, <1>3

\* rankBids' order is a weak one, with the ladder first, and bids of another account or another
\* time are never equal in it.
LEMMA BeatsOrders ==
  ASSUME NEW x \in RankedRows, NEW y \in RankedRows, NEW z \in RankedRows
  PROVE  /\ ~Beats(x, x)
         /\ Beats(x, y) => ~Beats(y, x)
         /\ Beats(x, y) /\ Beats(y, z) => Beats(x, z)
         /\ ~Beats(x, y) /\ ~Beats(y, z) => ~Beats(x, z)
         /\ ~Beats(x, y) => \/ TierRank(y.bid) > TierRank(x.bid)
                            \/ TierRank(y.bid) = TierRank(x.bid) /\ y.rank >= x.rank
         /\ x.bid.account # y.bid.account \/ x.bid.at # y.bid.at => Beats(x, y) \/ Beats(y, x)
<1> DEFINE a1 == TierRank(x.bid)
           a2 == TierRank(y.bid)
           a3 == TierRank(z.bid)
           b1 == x.rank
           b2 == y.rank
           b3 == z.rank
           c1 == x.bid.at
           c2 == y.bid.at
           c3 == z.bid.at
           d1 == x.bid.account
           d2 == y.bid.account
           d3 == z.bid.account
           B(p, q, r, s, t, u, v, w) ==
             p > q \/ (p = q /\ (r > s \/ (r = s /\ t < u) \/ (r = s /\ t = u /\ v < w)))
<1>1. /\ x.bid \in BidRows /\ y.bid \in BidRows /\ z.bid \in BidRows
      /\ b1 \in Int /\ b2 \in Int /\ b3 \in Int
  BY DEF RankedRows
<1>2. /\ a1 \in Int /\ a2 \in Int /\ a3 \in Int
      /\ c1 \in Int /\ c2 \in Int /\ c3 \in Int
      /\ d1 \in Int /\ d2 \in Int /\ d3 \in Int
  BY <1>1, BidType
<1>3. /\ Beats(x, x) <=> B(a1, a1, b1, b1, c1, c1, d1, d1)
      /\ Beats(x, y) <=> B(a1, a2, b1, b2, c1, c2, d1, d2)
      /\ Beats(y, x) <=> B(a2, a1, b2, b1, c2, c1, d2, d1)
      /\ Beats(y, z) <=> B(a2, a3, b2, b3, c2, c3, d2, d3)
      /\ Beats(x, z) <=> B(a1, a3, b1, b3, c1, c3, d1, d3)
  BY DEF Beats
<1> HIDE DEF a1, a2, a3, b1, b2, b3, c1, c2, c3, d1, d2, d3
<1>4. ~Beats(x, x) /\ (Beats(x, y) => ~Beats(y, x))
  BY <1>1, <1>2, <1>3
<1>5. Beats(x, y) /\ Beats(y, z) => Beats(x, z)
  BY <1>1, <1>2, <1>3
<1>6. ~Beats(x, y) /\ ~Beats(y, z) => ~Beats(x, z)
  BY <1>1, <1>2, <1>3
<1>7. ~Beats(x, y) => a2 > a1 \/ (a2 = a1 /\ b2 >= b1)
  BY <1>1, <1>2, <1>3
<1>8. d1 # d2 \/ c1 # c2 => Beats(x, y) \/ Beats(y, x)
  BY <1>1, <1>2, <1>3
<1>9. QED BY <1>4, <1>5, <1>6, <1>7, <1>8 DEF a1, a2, b1, b2, c1, c2, d1, d2

\* The order rankBids arranges by: stable where nothing separates two bids.
RankOrder(ranked) ==
  [i \in DOMAIN ranked |-> {j \in DOMAIN ranked : \/ Beats(ranked[j], ranked[i])
                                                  \/ ~Beats(ranked[i], ranked[j]) /\ j < i}]

\* It is a strict order of the rows.
LEMMA RankingIsAnOrder ==
  ASSUME NEW s \in Seq(RankedRows)
  PROVE  IsOrder(RankOrder(s)) /\ DOMAIN RankOrder(s) = DOMAIN s
<1> DEFINE o == RankOrder(s)
           D == DOMAIN s
           B(i, j) == Beats(s[i], s[j])
<1>1. D = 1..Len(s) /\ Len(s) \in Nat /\ IsFiniteSet(D)
  <2>1. D = 1..Len(s) /\ Len(s) \in Nat
    BY LenProperties
  <2>2. IsFiniteSet(1..Len(s))
    BY <2>1, FS_Interval
  <2>3. QED BY <2>1, <2>2
<1>2. DOMAIN o = D /\ \A i \in D : o[i] = {j \in D : B(j, i) \/ (~B(i, j) /\ j < i)}
  BY DEF RankOrder
<1>3. \A i, j, k \in D : /\ ~B(i, i) /\ (B(i, j) => ~B(j, i))
                         /\ B(i, j) /\ B(j, k) => B(i, k)
                         /\ ~B(i, j) /\ ~B(j, k) => ~B(i, k)
  <2>1. \A i \in D : s[i] \in RankedRows
    BY <1>1, ElementOfSeq
  <2>2. QED BY <2>1, BeatsOrders
<1>4. \A i \in D : i \in Int
  BY <1>1
<1> HIDE DEF o, D, B
<1>5. \A i \in D : o[i] \subseteq D \ {i}
  BY <1>2, <1>3, <1>4
<1>6. ASSUME NEW x \in D, NEW y \in D, y \in o[x] PROVE o[y] \subseteq o[x]
  <2> SUFFICES ASSUME NEW z \in o[y] PROVE z \in o[x]
    OBVIOUS
  <2>1. z \in D /\ (B(z, y) \/ (~B(y, z) /\ z < y))
    BY <1>2
  <2>2. B(y, x) \/ (~B(x, y) /\ y < x)
    BY <1>2, <1>6
  <2>3. z < y /\ y < x => z < x
    BY <1>4, <2>1
  <2>4. B(z, x) \/ (~B(x, z) /\ z < x)
    BY <1>3, <2>1, <2>2, <2>3
  <2>5. QED BY <1>2, <2>1, <2>4
<1>7. ASSUME NEW x \in D, NEW y \in D PROVE x = y \/ x \in o[y] \/ y \in o[x]
  <2>1. x = y \/ x < y \/ y < x
    BY <1>4
  <2>2. x \in o[y] <=> (B(x, y) \/ (~B(y, x) /\ x < y))
    BY <1>2
  <2>3. y \in o[x] <=> (B(y, x) \/ (~B(x, y) /\ y < x))
    BY <1>2
  <2>4. QED BY <2>1, <2>2, <2>3
<1>8. QED BY <1>1, <1>2, <1>5, <1>6, <1>7 DEF IsOrder, o, D

\* A ranking: somebody leads it, and nobody beats whoever stands before them.
IsRanking(o) ==
  /\ o \in Seq(RankedRows) /\ Len(o) \in Nat /\ DOMAIN o = 1..Len(o) /\ 1 \in DOMAIN o
  /\ \A k \in DOMAIN o : o[k] \in RankedRows
  /\ \A j, k \in DOMAIN o : j < k => ~Beats(o[k], o[j])

\* rankBids ranks the bids, all of them and no other.
LEMMA RankBidsRanks ==
  ASSUME NEW s \in Seq(RankedRows), s # <<>>
  PROVE  IsRanking(RankBids(s)) /\ \E f : Rearranges(RankBids(s), s, f)
<1> DEFINE o == RankBids(s)
           at == Ranked(RankOrder(s))
           n == Len(s)
<1>1. n \in Nat /\ DOMAIN s = 1..n /\ n >= 1
  BY LenProperties, EmptySeq
<1>2. o = Arranged(s, RankOrder(s))
  BY DEF RankBids, RankOrder
<1>3. IsOrder(RankOrder(s)) /\ DOMAIN RankOrder(s) = DOMAIN s
  BY RankingIsAnOrder
<1>4. /\ o \in Seq(RankedRows) /\ Len(o) = n /\ Rearranges(o, s, at)
      /\ \A j, k \in 1..n : j < k <=> at[j] \in RankOrder(s)[at[k]]
  BY <1>2, <1>3, ArrangedLists
<1> HIDE DEF o, at, n
<1>5. DOMAIN o = 1..n /\ \A k \in 1..n : o[k] \in RankedRows
  BY <1>1, <1>4, LenProperties, ElementOfSeq
<1>6. \A k \in 1..n : at[k] \in DOMAIN s /\ o[k] = s[at[k]]
  BY <1>4, <1>5 DEF Rearranges
<1>7. ASSUME NEW j \in 1..n, NEW k \in 1..n, j < k PROVE ~Beats(o[k], o[j])
  <2>1. at[j] \in RankOrder(s)[at[k]]
    BY <1>4, <1>7
  <2>2. Beats(s[at[j]], s[at[k]]) \/ ~Beats(s[at[k]], s[at[j]])
    BY <1>6, <2>1 DEF RankOrder
  <2>3. Beats(o[j], o[k]) \/ ~Beats(o[k], o[j])
    BY <1>6, <2>2
  <2>4. Beats(o[j], o[k]) => ~Beats(o[k], o[j])
    BY <1>5, BeatsOrders
  <2>5. QED BY <2>3, <2>4
<1>8. IsRanking(o)
  BY <1>1, <1>4, <1>5, <1>7 DEF IsRanking
<1>9. QED BY <1>4, <1>8 DEF o

\* If something separates every two bids, their order does not matter.
LEMMA RankBidsIgnoresOrder ==
  ASSUME NEW s \in Seq(RankedRows), NEW t \in Seq(RankedRows), NEW f, Rearranges(t, s, f),
         \A i, j \in DOMAIN s : i = j \/ Beats(s[i], s[j]) \/ Beats(s[j], s[i])
  PROVE  RankBids(t) = RankBids(s)
<1> DEFINE o == RankOrder(s)
           p == RankOrder(t)
<1>1. IsOrder(o) /\ DOMAIN o = DOMAIN s /\ IsOrder(p) /\ DOMAIN p = DOMAIN t
  BY RankingIsAnOrder
<1>2. Len(t) = Len(s)
  BY RearrangedLength
<1>3. \A i \in DOMAIN t : f[i] \in DOMAIN s /\ t[i] = s[f[i]]
  BY DEF Rearranges
<1>4. \A i, j \in DOMAIN t : f[i] = f[j] => i = j
  BY DEF Rearranges
<1>5. \A i \in DOMAIN s : s[i] \in RankedRows /\ i \in Int
  BY LenProperties, ElementOfSeq
<1>6. \A i \in DOMAIN t : i \in Int
  BY LenProperties
<1>7. \A i, j \in DOMAIN s : ~Beats(s[i], s[i]) /\ (Beats(s[i], s[j]) => ~Beats(s[j], s[i]))
  BY <1>5, BeatsOrders
<1>8. \A i, j \in DOMAIN s : j \in o[i] <=> Beats(s[j], s[i])
  <2> TAKE i, j \in DOMAIN s
  <2>1. j \in o[i] <=> (Beats(s[j], s[i]) \/ (~Beats(s[i], s[j]) /\ j < i))
    BY DEF RankOrder
  <2>2. i = j => ~(j < i)
    BY <1>5
  <2>3. QED BY <1>7, <2>1, <2>2
<1>9. \A i, j \in DOMAIN t : j \in p[i] <=> Beats(s[f[j]], s[f[i]])
  <2> TAKE i, j \in DOMAIN t
  <2>1. j \in p[i] <=> (Beats(t[j], t[i]) \/ (~Beats(t[i], t[j]) /\ j < i))
    BY DEF RankOrder
  <2>2. i = j => ~(j < i)
    BY <1>6
  <2>3. t[i] = s[f[i]] /\ t[j] = s[f[j]] /\ f[i] \in DOMAIN s /\ f[j] \in DOMAIN s
    BY <1>3
  <2>4. f[i] = f[j] \/ Beats(s[f[i]], s[f[j]]) \/ Beats(s[f[j]], s[f[i]])
    BY <2>3
  <2>5. ~Beats(s[f[i]], s[f[j]]) /\ j < i => Beats(s[f[j]], s[f[i]])
    BY <1>4, <2>2, <2>4
  <2>6. QED BY <2>1, <2>3, <2>5
<1>10. \A i, j \in DOMAIN t : j \in p[i] <=> f[j] \in o[f[i]]
  BY <1>3, <1>8, <1>9
<1>11. Arranged(t, p) = Arranged(s, o)
  <2> HIDE DEF o, p
  <2>1. QED BY <1>1, <1>2, <1>10, ArrangedIgnoresOrder
<1>12. QED BY <1>11 DEF RankBids, RankOrder


-----------------------------------------------------------------------------
(* Who may win, and who leads: the bids at a minimum, the highest rung of    *)
(* them, ranked by what they offer.                                          *)

\* A bid at the minimum, and one that no other such bid stands above.
Meets(b, min) == b.amount >= min /\ b.amount > 0
Tops(b, bids, min) ==
  Meets(b, min) /\ \A j \in DOMAIN bids : Meets(bids[j], min) => TierRank(bids[j]) <= TierRank(b)
SameRow(r, b) == r.bid = b /\ r.rank = b.amount

\* EligibleBids and WinningRung keep the bids of the highest rung at the minimum, and only them.
LEMMA TopBids ==
  ASSUME NEW bids \in Seq(BidRows), NEW min, EligibleBids(bids, min) # <<>>
  PROVE  LET w == WinningRung(EligibleBids(bids, min))
         IN  /\ w \in Seq(BidRows) /\ w # <<>> /\ DOMAIN w = 1..Len(w) /\ Len(w) \in Nat
             /\ \A k \in DOMAIN w : \E i \in DOMAIN bids : w[k] = bids[i] /\ Tops(bids[i], bids, min)
             /\ \A i \in DOMAIN bids : Tops(bids[i], bids, min) => \E k \in DOMAIN w : w[k] = bids[i]
<1> DEFINE S == {i \in DOMAIN bids : Meets(bids[i], min)}
           e == EligibleBids(bids, min)
           U == {i \in DOMAIN e : \A j \in DOMAIN e : TierRank(e[j]) <= TierRank(e[i])}
           w == WinningRung(e)
<1>1. e = Kept(bids, S) /\ w = Kept(e, U) /\ S \in SUBSET DOMAIN bids /\ U \in SUBSET DOMAIN e
  BY DEF EligibleBids, WinningRung, Meets
<1>2. S = {i \in DOMAIN bids : Meets(bids[i], min)}
  OBVIOUS
<1>3. U = {i \in DOMAIN e : \A j \in DOMAIN e : TierRank(e[j]) <= TierRank(e[i])}
  OBVIOUS
<1>4. e # <<>>
  OBVIOUS
<1> HIDE DEF S, e, U, w
<1>5. /\ e \in Seq(BidRows) /\ Len(e) \in Nat /\ DOMAIN e = 1..Len(e)
      /\ \A k \in 1..Len(e) : \E i \in S : e[k] = bids[i]
      /\ \A i \in S : \E k \in 1..Len(e) : e[k] = bids[i]
  BY <1>1, KeptReaches
<1>6. /\ w \in Seq(BidRows) /\ Len(w) \in Nat /\ DOMAIN w = 1..Len(w)
      /\ \A k \in 1..Len(w) : \E i \in U : w[k] = e[i]
      /\ \A i \in U : \E k \in 1..Len(w) : w[k] = e[i]
  <2>1. e \in Seq(BidRows)
    BY <1>5
  <2>2. QED BY <1>1, <2>1, KeptReaches
<1>7. Len(e) \in Nat \ {0}
  BY <1>4, <1>5, EmptySeq
<1>8. \E u \in DOMAIN e : u \in U
  <2> DEFINE T == {5 - TierRank(e[i]) : i \in DOMAIN e}
  <2>1. \A i \in DOMAIN e : TierRank(e[i]) \in 1..4
    <3> TAKE i \in DOMAIN e
    <3>1. e[i] \in BidRows
      BY <1>5, ElementOfSeq
    <3>2. TierKnown(e[i])
      BY <3>1 DEF BidRows
    <3>3. QED BY <3>2, RungType
  <2>2. T \in SUBSET Nat /\ 5 - TierRank(e[1]) \in T
    <3>1. \A i \in DOMAIN e : 5 - TierRank(e[i]) \in Nat
      BY <2>1
    <3>2. 1 \in DOMAIN e
      BY <1>5, <1>7
    <3>3. QED BY <3>1, <3>2
  <2>3. \E n \in T : \A m \in T : n <= m
    <3> HIDE DEF T
    <3>1. QED BY <2>2, LeastNatural
  <2>4. PICK i \in DOMAIN e : \A m \in T : 5 - TierRank(e[i]) <= m
    BY <2>3
  <2>5. \A j \in DOMAIN e : TierRank(e[j]) <= TierRank(e[i])
    <3> TAKE j \in DOMAIN e
    <3>1. 5 - TierRank(e[i]) <= 5 - TierRank(e[j])
      BY <2>4
    <3>2. QED BY <2>1, <3>1
  <2>6. QED BY <1>3, <2>5
<1>9. w # <<>>
  <2>1. PICK u \in U : TRUE
    BY <1>8
  <2>2. \E k \in 1..Len(w) : w[k] = e[u]
    BY <1>6
  <2>3. Len(w) # 0
    BY <2>2
  <2>4. QED BY <2>3, EmptySeq
<1>10. ASSUME NEW k \in DOMAIN e, NEW i \in DOMAIN bids, e[k] = bids[i], Meets(bids[i], min)
       PROVE  k \in U <=> Tops(bids[i], bids, min)
  <2>1. ASSUME k \in U, NEW j \in DOMAIN bids, Meets(bids[j], min)
        PROVE  TierRank(bids[j]) <= TierRank(bids[i])
    <3>1. j \in S
      BY <1>2, <2>1
    <3>2. PICK l \in DOMAIN e : e[l] = bids[j]
      BY <1>5, <3>1
    <3>3. QED BY <1>3, <1>10, <2>1, <3>2
  <2>2. ASSUME Tops(bids[i], bids, min), NEW l \in DOMAIN e
        PROVE  TierRank(e[l]) <= TierRank(e[k])
    <3>1. PICK j \in S : e[l] = bids[j]
      BY <1>5
    <3>2. j \in DOMAIN bids /\ Meets(bids[j], min)
      BY <1>2
    <3>3. QED BY <1>10, <2>2, <3>1, <3>2 DEF Tops
  <2>3. QED BY <1>3, <1>10, <2>1, <2>2 DEF Tops
<1>11. ASSUME NEW k \in DOMAIN w
       PROVE  \E i \in DOMAIN bids : w[k] = bids[i] /\ Tops(bids[i], bids, min)
  <2>1. PICK u \in U : w[k] = e[u]
    BY <1>6
  <2>2. u \in DOMAIN e
    BY <1>1
  <2>3. PICK i \in S : e[u] = bids[i]
    BY <1>5, <2>2
  <2>4. i \in DOMAIN bids /\ Meets(bids[i], min)
    BY <1>2
  <2>5. QED BY <1>10, <2>1, <2>2, <2>3, <2>4
<1>12. ASSUME NEW i \in DOMAIN bids, Tops(bids[i], bids, min)
       PROVE  \E k \in DOMAIN w : w[k] = bids[i]
  <2>1. Meets(bids[i], min) /\ i \in S
    BY <1>2, <1>12 DEF Tops
  <2>2. PICK l \in DOMAIN e : e[l] = bids[i]
    BY <1>5, <2>1
  <2>3. l \in U
    BY <1>10, <1>12, <2>1, <2>2
  <2>4. QED BY <1>6, <2>2, <2>3
<1>13. QED BY <1>6, <1>9, <1>11, <1>12 DEF w, e

\* Ranked by amount: whoever leads offered the most of the highest rung.
LEMMA TopRanking ==
  ASSUME NEW bids \in Seq(BidRows), NEW min, EligibleBids(bids, min) # <<>>
  PROVE  LET o == ByAmount(WinningRung(EligibleBids(bids, min)))
         IN  /\ IsRanking(o)
             /\ \A k \in DOMAIN o : \E i \in DOMAIN bids : SameRow(o[k], bids[i]) /\ Tops(bids[i], bids, min)
             /\ \A i \in DOMAIN bids : Tops(bids[i], bids, min) => \E k \in DOMAIN o : SameRow(o[k], bids[i])
             /\ \A k \in DOMAIN o : TierRank(o[k].bid) = TierRank(o[1].bid)
             /\ \A j, k \in DOMAIN o : j <= k => o[k].rank <= o[j].rank
<1> DEFINE w == WinningRung(EligibleBids(bids, min))
           r == [i \in DOMAIN w |-> [bid |-> w[i], rank |-> w[i].amount]]
           o == ByAmount(w)
<1>1. /\ w \in Seq(BidRows) /\ w # <<>> /\ DOMAIN w = 1..Len(w) /\ Len(w) \in Nat
      /\ \A k \in DOMAIN w : \E i \in DOMAIN bids : w[k] = bids[i] /\ Tops(bids[i], bids, min)
      /\ \A i \in DOMAIN bids : Tops(bids[i], bids, min) => \E k \in DOMAIN w : w[k] = bids[i]
  BY TopBids
<1>2. o = RankBids(r)
  BY DEF ByAmount
<1> HIDE DEF w
<1>3. DOMAIN r = DOMAIN w /\ \A i \in DOMAIN w : SameRow(r[i], w[i])
  BY DEF SameRow
<1>4. r \in Seq(RankedRows) /\ r # <<>>
  <2>1. \A i \in 1..Len(w) : w[i] \in BidRows
    BY <1>1, ElementOfSeq
  <2>2. \A i \in 1..Len(w) : [bid |-> w[i], rank |-> w[i].amount] \in RankedRows
    BY <2>1, BidType DEF RankedRows
  <2>3. r \in [1..Len(w) -> RankedRows]
    BY <1>1, <2>2
  <2>4. Len(w) # 0
    BY <1>1, EmptySeq
  <2>5. r \in Seq(RankedRows) /\ Len(r) = Len(w)
    BY <1>1, <2>3
  <2> HIDE DEF r
  <2>6. QED BY <2>4, <2>5, EmptySeq
<1> HIDE DEF r, o
<1>5. IsRanking(o) /\ \E f : Rearranges(o, r, f)
  BY <1>2, <1>4, RankBidsRanks
<1>6. PICK f : Rearranges(o, r, f)
  BY <1>5
<1>7. \A k \in DOMAIN o : f[k] \in DOMAIN w /\ SameRow(o[k], w[f[k]])
  BY <1>3, <1>6 DEF Rearranges
<1>8. ASSUME NEW k \in DOMAIN o
      PROVE  \E i \in DOMAIN bids : SameRow(o[k], bids[i]) /\ Tops(bids[i], bids, min)
  BY <1>1, <1>7
<1>9. ASSUME NEW i \in DOMAIN bids, Tops(bids[i], bids, min)
      PROVE  \E k \in DOMAIN o : SameRow(o[k], bids[i])
  <2>1. PICK l \in DOMAIN w : w[l] = bids[i]
    BY <1>1, <1>9
  <2>2. PICK k \in DOMAIN o : f[k] = l
    BY <1>3, <1>6, <2>1 DEF Rearranges
  <2>3. QED BY <1>7, <2>1, <2>2
<1>10. ASSUME NEW j \in DOMAIN o, NEW k \in DOMAIN o PROVE TierRank(o[k].bid) = TierRank(o[j].bid)
  <2>1. PICK a \in DOMAIN bids : SameRow(o[j], bids[a]) /\ Tops(bids[a], bids, min)
    BY <1>8
  <2>2. PICK b \in DOMAIN bids : SameRow(o[k], bids[b]) /\ Tops(bids[b], bids, min)
    BY <1>8
  <2>3. TierRank(bids[a]) <= TierRank(bids[b]) /\ TierRank(bids[b]) <= TierRank(bids[a])
    BY <2>1, <2>2 DEF Tops
  <2>4. bids[a] \in BidRows /\ bids[b] \in BidRows
    BY LenProperties, ElementOfSeq
  <2>5. TierRank(bids[a]) \in Int /\ TierRank(bids[b]) \in Int
    BY <2>4, BidType
  <2>6. QED BY <2>1, <2>2, <2>3, <2>5 DEF SameRow
<1>11. ASSUME NEW j \in DOMAIN o, NEW k \in DOMAIN o, j <= k PROVE o[k].rank <= o[j].rank
  <2>1. o[j] \in RankedRows /\ o[k] \in RankedRows /\ j \in Int /\ k \in Int
    BY <1>5 DEF IsRanking
  <2>2. o[j].rank \in Int /\ o[k].rank \in Int /\ o[j].bid \in BidRows
    BY <2>1 DEF RankedRows
  <2>3. CASE j = k
    BY <2>2, <2>3
  <2>4. CASE j # k
    <3>1. j < k
      BY <1>11, <2>1, <2>4
    <3>2. ~Beats(o[k], o[j])
      BY <1>5, <3>1 DEF IsRanking
    <3>3. \/ TierRank(o[j].bid) > TierRank(o[k].bid)
          \/ TierRank(o[j].bid) = TierRank(o[k].bid) /\ o[j].rank >= o[k].rank
      BY <2>1, <3>2, BeatsOrders
    <3>4. TierRank(o[k].bid) = TierRank(o[j].bid) /\ TierRank(o[j].bid) \in Int
      BY <1>10, <2>2, BidType
    <3>5. QED BY <2>2, <3>3, <3>4
  <2>5. QED BY <2>3, <2>4
<1>12. \A k \in DOMAIN o : TierRank(o[k].bid) = TierRank(o[1].bid)
  BY <1>5, <1>10 DEF IsRanking
<1>13. QED BY <1>5, <1>8, <1>9, <1>11, <1>12 DEF o, w

-----------------------------------------------------------------------------
(* Settlements.                                                              *)

\* A part of a ranking that its leader is in is led by them.
LEMMA LedPart ==
  ASSUME NEW o \in Seq(RankedRows), NEW S \in SUBSET DOMAIN o, 1 \in S
  PROVE  /\ Kept(o, S) \in Seq(RankedRows) /\ Len(Kept(o, S)) \in Nat /\ DOMAIN Kept(o, S) = 1..Len(Kept(o, S))
         /\ 1 \in DOMAIN Kept(o, S) /\ Kept(o, S)[1] = o[1]
         /\ \A k \in DOMAIN Kept(o, S) : \E i \in S : Kept(o, S)[k] = o[i]
<1> DEFINE t == Kept(o, S)
<1>1. /\ t \in Seq(RankedRows) /\ Len(t) \in Nat /\ DOMAIN t = 1..Len(t)
      /\ \A k \in 1..Len(t) : \E i \in S : t[k] = o[i]
  BY KeptReaches
<1>2. Len(t) >= 1 /\ \E i \in S : t[1] = o[i] /\ \A j \in S : i <= j
  <2>1. S # {}
    OBVIOUS
  <2>2. QED BY <2>1, KeptFirst
<1> HIDE DEF t
<1>3. PICK i \in S : t[1] = o[i] /\ \A j \in S : i <= j
  BY <1>2
<1>4. i = 1
  <2>1. i \in 1..Len(o) /\ Len(o) \in Nat
    BY LenProperties
  <2>2. i <= 1
    BY <1>3
  <2>3. QED BY <2>1, <2>2
<1>5. QED BY <1>1, <1>2, <1>3, <1>4 DEF t

\* What is tied on rank is tied with the leader.
LEMMA TiedRows ==
  ASSUME NEW o, IsRanking(o)
  PROVE  /\ TiedOnRank(o) \in Seq(RankedRows) /\ 1 \in DOMAIN TiedOnRank(o) /\ TiedOnRank(o)[1] = o[1]
         /\ DOMAIN TiedOnRank(o) = 1..Len(TiedOnRank(o)) /\ Len(TiedOnRank(o)) \in Nat
         /\ \A k \in DOMAIN TiedOnRank(o) : \E i \in DOMAIN o : TiedOnRank(o)[k] = o[i] /\ o[i].rank = o[1].rank
<1> DEFINE S == {i \in DOMAIN o : /\ TierRank(o[i].bid) = TierRank(o[1].bid)
                                  /\ o[i].rank = o[1].rank}
<1>1. TiedOnRank(o) = Kept(o, S)
  BY DEF TiedOnRank
<1>2. o \in Seq(RankedRows) /\ S \in SUBSET DOMAIN o /\ 1 \in S
  BY DEF IsRanking
<1>3. \A i \in S : i \in DOMAIN o /\ o[i].rank = o[1].rank
  OBVIOUS
<1> HIDE DEF S
<1>4. /\ Kept(o, S) \in Seq(RankedRows) /\ Len(Kept(o, S)) \in Nat /\ DOMAIN Kept(o, S) = 1..Len(Kept(o, S))
      /\ 1 \in DOMAIN Kept(o, S) /\ Kept(o, S)[1] = o[1]
      /\ \A k \in DOMAIN Kept(o, S) : \E i \in S : Kept(o, S)[k] = o[i]
  BY <1>2, LedPart
<1>5. QED BY <1>1, <1>3, <1>4

\* settleHighest awards to somebody who leads, at what they offered, and ties nobody.
LEMMA HighestWins ==
  ASSUME NEW o, IsRanking(o), NEW draws, draws[1] \in Nat
  PROVE  LET r == SettleHighest(o, draws)
         IN  /\ r.tie = {} /\ r.tieAt = None
             /\ \E i \in DOMAIN o : /\ r.winner = o[i].bid.account /\ r.price = o[i].bid.amount
                                    /\ o[i].rank = o[1].rank
<1> DEFINE t == TiedOnRank(o)
           S == {i \in DOMAIN t : t[i].bid.at = o[1].bid.at}
           u == TiedAtTop(o)
           U == {i \in DOMAIN u : \A j \in 1..(i - 1) : u[j].bid.account # u[i].bid.account}
           c == BidPerAccount(u)
           r == SettleHighest(o, draws)
           won == IF Len(c) > 1 THEN c[1 + IntN(draws, 1, Len(c))] ELSE c[1]
<1>1. u = Kept(t, S) /\ c = Kept(u, U) /\ r = [NoResolution EXCEPT !.winner = won.bid.account,
                                                     !.price = won.bid.amount, !.rolled = Len(c) > 1]
  BY DEF TiedAtTop, BidPerAccount, SettleHighest
<1>2. /\ t \in Seq(RankedRows) /\ 1 \in DOMAIN t /\ t[1] = o[1] /\ DOMAIN t = 1..Len(t) /\ Len(t) \in Nat
      /\ \A k \in DOMAIN t : \E i \in DOMAIN o : t[k] = o[i] /\ o[i].rank = o[1].rank
  BY TiedRows
<1>3. S \in SUBSET DOMAIN t /\ 1 \in S
  BY <1>2
<1>4. U \in SUBSET DOMAIN u /\ (1 \in DOMAIN u => 1 \in U)
  OBVIOUS
<1> HIDE DEF t, S, u, U, c
<1>5. /\ u \in Seq(RankedRows) /\ 1 \in DOMAIN u
      /\ \A k \in DOMAIN u : \E i \in S : u[k] = t[i]
  BY <1>1, <1>2, <1>3, LedPart
<1>6. 1 \in U
  BY <1>4, <1>5
<1>7. u \in Seq(RankedRows)
  BY <1>5
<1>8. /\ DOMAIN c = 1..Len(c) /\ Len(c) \in Nat /\ 1 \in DOMAIN c
      /\ \A k \in DOMAIN c : \E i \in U : c[k] = u[i]
  BY <1>1, <1>4, <1>6, <1>7, LedPart
<1>9. \E k \in DOMAIN c : won = c[k]
  <2>1. CASE ~(Len(c) > 1)
    BY <1>8, <2>1
  <2>2. CASE Len(c) > 1
    <3>1. draws[1] % Len(c) \in 0..(Len(c) - 1)
      BY <1>8, <2>2
    <3>2. 1 + IntN(draws, 1, Len(c)) \in 1..Len(c)
      BY <1>8, <3>1 DEF IntN
    <3>3. QED BY <1>8, <2>2, <3>2
  <2>3. QED BY <2>1, <2>2
<1> HIDE DEF won, r
<1>10. PICK k \in DOMAIN c : won = c[k]
  BY <1>9
<1>11. PICK i \in U : c[k] = u[i]
  BY <1>8
<1>12. PICK j \in S : u[i] = t[j]
  BY <1>4, <1>5
<1>13. PICK l \in DOMAIN o : t[j] = o[l] /\ o[l].rank = o[1].rank
  BY <1>2, <1>3
<1>14. won = o[l]
  BY <1>10, <1>11, <1>12, <1>13
<1>15. r.tie = {} /\ r.tieAt = None /\ r.winner = o[l].bid.account /\ r.price = o[l].bid.amount
  BY <1>1, <1>14 DEF NoResolution
<1>16. QED BY <1>13, <1>15 DEF r

\* A ranking by what is offered, all of it at a minimum.
Offers(o, min) ==
  /\ IsRanking(o)
  /\ \A k \in DOMAIN o : o[k].rank = o[k].bid.amount /\ o[k].rank \in Int /\ o[k].rank >= min
  /\ \A j, k \in DOMAIN o : j <= k => o[k].rank <= o[j].rank

\* settlePrice charges between the minimum and the winner's bid, no less than the runner-up's and
\* at most an increment more than it.
LEMMA RunnerUpPrice ==
  ASSUME NEW cfg, cfg.increment \in Int, cfg.increment > 0, NEW min \in Int, NEW o, Offers(o, min)
  PROVE  LET p == SecondPrice(cfg, o, min)
         IN  /\ p \in Int /\ p >= min /\ p <= o[1].rank
             /\ \A k \in DOMAIN o : o[k].bid.account # o[1].bid.account => p >= o[k].rank
             /\ p = min \/ \E k \in DOMAIN o : /\ o[k].bid.account # o[1].bid.account
                                               /\ p <= o[k].rank + cfg.increment
<1> DEFINE S == {i \in DOMAIN o : o[i].bid.account # o[1].bid.account}
           q == Kept(o, S)
           p == SecondPrice(cfg, o, min)
           raised == q[1].bid.amount + cfg.increment
<1>1. p = IF q = <<>> THEN min ELSE Least(raised, o[1].bid.amount)
  BY DEF SecondPrice
<1>2. \A i : i \in S <=> i \in DOMAIN o /\ o[i].bid.account # o[1].bid.account
  OBVIOUS
<1>3. o \in Seq(RankedRows) /\ S \in SUBSET DOMAIN o /\ 1 \in DOMAIN o
  BY DEF Offers, IsRanking
<1>4. /\ \A k \in DOMAIN o : o[k].rank = o[k].bid.amount /\ o[k].rank \in Int /\ o[k].rank >= min
      /\ \A j, k \in DOMAIN o : j <= k => o[k].rank <= o[j].rank
  BY DEF Offers
<1>5. \A i \in DOMAIN o : 1 <= i
  BY DEF Offers, IsRanking
<1> HIDE DEF S, q, p
<1>6. CASE S = {}
  <2>1. /\ q \in Seq(RankedRows) /\ Len(q) \in Nat
        /\ \A k \in 1..Len(q) : \E i \in S : q[k] = o[i]
    <3>1. Kept(o, S) \in Seq(RankedRows) /\ Len(Kept(o, S)) \in Nat
      BY <1>3, KeptReaches
    <3>2. \A k \in 1..Len(Kept(o, S)) : \E i \in S : Kept(o, S)[k] = o[i]
      BY <1>3, KeptReaches
    <3>3. QED BY <3>1, <3>2 DEF q
  <2>2. Len(q) = 0
    BY <1>6, <2>1
  <2>3. q = <<>>
    BY <2>1, <2>2, EmptySeq
  <2>4. p = min
    BY <1>1, <2>3
  <2>5. \A k \in DOMAIN o : o[k].bid.account = o[1].bid.account
    BY <1>2, <1>6
  <2>6. QED BY <1>3, <1>4, <2>4, <2>5 DEF p
<1>7. CASE S # {}
  <2>1. Len(q) >= 1 /\ \E i \in S : q[1] = o[i] /\ \A j \in S : i <= j
    <3>1. Len(Kept(o, S)) >= 1 /\ \E i \in S : Kept(o, S)[1] = o[i] /\ \A j \in S : i <= j
      BY <1>3, <1>7, KeptFirst
    <3>2. QED BY <3>1 DEF q
  <2>2. q # <<>>
    BY <2>1, EmptySeq
  <2>3. PICK i \in S : q[1] = o[i] /\ \A j \in S : i <= j
    BY <2>1
  <2>4. i \in DOMAIN o /\ o[i].bid.account # o[1].bid.account
    BY <1>2
  <2>5. raised = o[i].rank + cfg.increment
    BY <1>4, <2>3, <2>4
  <2>6. p = Least(raised, o[1].rank)
    BY <1>1, <1>3, <1>4, <2>2
  <2> HIDE DEF raised
  <2>7. o[i].rank <= o[1].rank /\ o[i].rank >= min /\ o[i].rank \in Int /\ o[1].rank \in Int
    BY <1>3, <1>4, <1>5, <2>4
  <2>8. p \in Int /\ p >= o[i].rank /\ p <= o[1].rank /\ p <= o[i].rank + cfg.increment
    BY <2>5, <2>6, <2>7 DEF Least
  <2>9. ASSUME NEW k \in DOMAIN o, o[k].bid.account # o[1].bid.account PROVE p >= o[k].rank
    <3>1. i <= k
      BY <1>2, <2>3, <2>9
    <3>2. o[k].rank <= o[i].rank /\ o[k].rank \in Int
      BY <1>4, <2>4, <3>1
    <3>3. QED BY <2>7, <2>8, <3>2
  <2>10. p >= min
    BY <2>7, <2>8
  <2>11. QED BY <2>4, <2>8, <2>9, <2>10 DEF p
<1>8. QED BY <1>6, <1>7

\* What a sealed auction may decide: nothing, a tie between people, or a winner and a price.
NamesATie(r, bids, min) ==
  /\ r.winner = None /\ ~r.rolled /\ Cardinality(r.tie) >= 2
  /\ \A a \in r.tie : \E i \in DOMAIN bids : bids[i].account = a /\ Tops(bids[i], bids, min)
  /\ r.tieAt \in Int /\ r.tieAt >= min
Rivals(r, bids, min) == {j \in DOMAIN bids : bids[j].account # r.winner /\ Tops(bids[j], bids, min)}
NamesAWinner(r, cfg, bids, min) ==
  /\ r.tie = {} /\ r.tieAt = None /\ r.price \in Int /\ r.price >= min
  /\ \E i \in DOMAIN bids : /\ bids[i].account = r.winner /\ Tops(bids[i], bids, min)
                            /\ r.price <= bids[i].amount
  /\ \A j \in Rivals(r, bids, min) : r.price >= bids[j].amount
  /\ cfg.pay = "second_price" =>
       r.price = min \/ \E j \in Rivals(r, bids, min) : r.price <= bids[j].amount + cfg.increment

\* SettleAuction of auction_sealed decides one of them.
LEMMA SealedDecides ==
  ASSUME NEW cfg, cfg.minBid \in Int, cfg.increment \in Int, AuctionSealedConfigValid(cfg),
         NEW session, session.min \in Int, NEW bids \in Seq(BidRows)
  PROVE  LET r   == SettleSealed(cfg, session, bids)
             min == SessionMinimum(session, cfg.minBid)
         IN  \/ r = NoResolution
             \/ NamesATie(r, bids, min)
             \/ NamesAWinner(r, cfg, bids, min)
<1> DEFINE r == SettleSealed(cfg, session, bids)
           min == SessionMinimum(session, cfg.minBid)
           e == EligibleBids(bids, min)
           o == ByAmount(WinningRung(e))
           price == SealedPrice(cfg, o, min)
<1>1. r = IF e = <<>> THEN NoResolution
          ELSE IF Contested(o)
               THEN [NoResolution EXCEPT !.tie = TiedAccounts(o), !.tieAt = o[1].bid.amount]
               ELSE [NoResolution EXCEPT !.winner = o[1].bid.account, !.price = price]
  BY DEF SettleSealed
<1>2. min \in Int /\ cfg.increment > 0
  BY DEF SessionMinimum, Greatest, AuctionSealedConfigValid
<1>3. SUFFICES ASSUME e # <<>> PROVE NamesATie(r, bids, min) \/ NamesAWinner(r, cfg, bids, min)
  BY <1>1
<1>4. /\ IsRanking(o)
      /\ \A k \in DOMAIN o : \E i \in DOMAIN bids : SameRow(o[k], bids[i]) /\ Tops(bids[i], bids, min)
      /\ \A i \in DOMAIN bids : Tops(bids[i], bids, min) => \E k \in DOMAIN o : SameRow(o[k], bids[i])
      /\ \A j, k \in DOMAIN o : j <= k => o[k].rank <= o[j].rank
  BY <1>3, TopRanking
<1> HIDE DEF e, o, r, min, price
<1>5. \A k \in DOMAIN o : o[k].rank = o[k].bid.amount /\ o[k].rank \in Int /\ o[k].rank >= min
  <2> TAKE k \in DOMAIN o
  <2>1. PICK i \in DOMAIN bids : SameRow(o[k], bids[i]) /\ Tops(bids[i], bids, min)
    BY <1>4
  <2>2. o[k] \in RankedRows
    BY <1>4 DEF IsRanking
  <2>3. o[k].rank \in Int
    BY <2>2 DEF RankedRows
  <2>4. QED BY <2>1, <2>3 DEF SameRow, Tops, Meets
<1>6. Offers(o, min)
  BY <1>4, <1>5 DEF Offers
<1>7. 1 \in DOMAIN o
  BY <1>4 DEF IsRanking
<1>8. CASE Contested(o)
  <2> DEFINE t == TiedOnRank(o)
  <2>1. /\ t \in Seq(RankedRows) /\ DOMAIN t = 1..Len(t) /\ Len(t) \in Nat
        /\ \A k \in DOMAIN t : \E i \in DOMAIN o : t[k] = o[i] /\ o[i].rank = o[1].rank
    BY <1>4, TiedRows
  <2>2. TiedAccounts(o) = {t[k].bid.account : k \in DOMAIN t}
    BY DEF TiedAccounts
  <2> HIDE DEF t
  <2>3. IsFiniteSet(DOMAIN t)
    <3>1. IsFiniteSet(1..Len(t))
      BY <2>1, FS_Interval
    <3>2. QED BY <2>1, <3>1
  <2>4. IsFiniteSet(TiedAccounts(o))
    <3> DEFINE g == [k \in DOMAIN t |-> t[k].bid.account]
    <3>1. g \in [DOMAIN t -> TiedAccounts(o)] /\ \A a \in TiedAccounts(o) : \E k \in DOMAIN t : g[k] = a
      BY <2>2
    <3> HIDE DEF g
    <3>2. g \in Surjection(DOMAIN t, TiedAccounts(o))
      BY <3>1 DEF Surjection
    <3>3. QED BY <2>3, <3>2, FS_Surjection
  <2>5. Cardinality(TiedAccounts(o)) \in Nat
    BY <2>4, FS_CardinalityType
  <2>6. Cardinality(TiedAccounts(o)) >= 2
    BY <1>8, <2>5 DEF Contested
  <2>7. /\ r.tie = TiedAccounts(o) /\ r.tieAt = o[1].bid.amount /\ r.winner = None /\ ~r.rolled
    BY <1>1, <1>3, <1>8 DEF NoResolution
  <2>8. ASSUME NEW a \in r.tie
        PROVE  \E i \in DOMAIN bids : bids[i].account = a /\ Tops(bids[i], bids, min)
    <3>1. PICK k \in DOMAIN t : t[k].bid.account = a
      BY <2>2, <2>7
    <3>2. PICK j \in DOMAIN o : t[k] = o[j]
      BY <2>1
    <3>3. PICK i \in DOMAIN bids : SameRow(o[j], bids[i]) /\ Tops(bids[i], bids, min)
      BY <1>4
    <3>4. QED BY <3>1, <3>2, <3>3 DEF SameRow
  <2>9. NamesATie(r, bids, min)
    BY <1>5, <1>7, <2>6, <2>7, <2>8 DEF NamesATie
  <2>10. QED BY <2>9
<1>9. CASE ~Contested(o)
  <2>1. /\ r.tie = {} /\ r.tieAt = None /\ r.winner = o[1].bid.account /\ r.price = price
    BY <1>1, <1>3, <1>9 DEF NoResolution
  <2>2. price = o[1].rank \/ (cfg.pay # "first_price" /\ price = SecondPrice(cfg, o, min))
    BY <1>5, <1>7 DEF price, SealedPrice
  <2>3. cfg.pay = "second_price" => price = SecondPrice(cfg, o, min)
    BY DEF price, SealedPrice
  <2> DEFINE p == SecondPrice(cfg, o, min)
  <2>4. /\ p \in Int /\ p >= min /\ p <= o[1].rank
        /\ \A k \in DOMAIN o : o[k].bid.account # o[1].bid.account => p >= o[k].rank
        /\ p = min \/ \E k \in DOMAIN o : /\ o[k].bid.account # o[1].bid.account
                                          /\ p <= o[k].rank + cfg.increment
    BY <1>2, <1>6, RunnerUpPrice
  <2> HIDE DEF p
  <2>5. price \in Int /\ price >= min /\ price <= o[1].rank
    BY <1>5, <1>7, <2>2, <2>4 DEF p
  <2>6. \A k \in DOMAIN o : o[k].bid.account # o[1].bid.account => price >= o[k].rank
    <3> SUFFICES ASSUME NEW k \in DOMAIN o, o[k].bid.account # o[1].bid.account PROVE price >= o[k].rank
      OBVIOUS
    <3>1. k \in Nat /\ 1 <= k
      BY <1>4 DEF IsRanking
    <3>2. o[k].rank <= o[1].rank
      BY <1>4, <1>7, <3>1
    <3>3. price = o[1].rank \/ price = p
      BY <2>2 DEF p
    <3>4. QED BY <2>4, <3>2, <3>3
  <2>7. \E i \in DOMAIN bids : /\ bids[i].account = r.winner /\ Tops(bids[i], bids, min)
                               /\ r.price <= bids[i].amount
    BY <1>4, <1>7, <2>1, <2>5 DEF SameRow
  <2>8. ASSUME NEW j \in Rivals(r, bids, min) PROVE r.price >= bids[j].amount
    <3>1. j \in DOMAIN bids /\ bids[j].account # r.winner /\ Tops(bids[j], bids, min)
      BY DEF Rivals
    <3>2. PICK k \in DOMAIN o : SameRow(o[k], bids[j])
      BY <1>4, <3>1
    <3>3. QED BY <2>1, <2>6, <3>1, <3>2 DEF SameRow
  <2>9. ASSUME NEW k \in DOMAIN o, o[k].bid.account # o[1].bid.account
        PROVE  \E j \in Rivals(r, bids, min) : bids[j].amount = o[k].rank
    <3>1. PICK j \in DOMAIN bids : SameRow(o[k], bids[j]) /\ Tops(bids[j], bids, min)
      BY <1>4
    <3>2. j \in Rivals(r, bids, min)
      BY <2>1, <2>9, <3>1 DEF Rivals, SameRow
    <3>3. QED BY <3>1, <3>2 DEF SameRow
  <2>10. ASSUME cfg.pay = "second_price"
         PROVE  r.price = min \/ \E j \in Rivals(r, bids, min) : r.price <= bids[j].amount + cfg.increment
    <3>1. r.price = p
      BY <2>1, <2>3, <2>10 DEF p
    <3>2. ASSUME NEW k \in DOMAIN o, o[k].bid.account # o[1].bid.account, p <= o[k].rank + cfg.increment
          PROVE  \E j \in Rivals(r, bids, min) : r.price <= bids[j].amount + cfg.increment
      BY <2>9, <3>1, <3>2
    <3>3. QED BY <2>4, <3>1, <3>2
  <2>11. NamesAWinner(r, cfg, bids, min)
    BY <2>1, <2>5, <2>7, <2>8, <2>10 DEF NamesAWinner
  <2>12. QED BY <2>11
<1>10. QED BY <1>8, <1>9

\* The rows of a ranking are the bids of w with their ranks.
RanksOf(o, w, R) ==
  /\ \A k \in DOMAIN o : \E i \in DOMAIN w : o[k].bid = w[i] /\ o[k].rank = R[i]
  /\ \A i \in DOMAIN w : \E k \in DOMAIN o : o[k].bid = w[i]

\* Bids with any numbers for ranks are ranked, each of them once.
LEMMA RowsRanked ==
  ASSUME NEW w \in Seq(BidRows), w # <<>>, NEW R, \A i \in DOMAIN w : R[i] \in Int,
         NEW rows, rows = [i \in DOMAIN w |-> [bid |-> w[i], rank |-> R[i]]]
  PROVE  /\ rows \in Seq(RankedRows) /\ IsRanking(RankBids(rows))
         /\ RanksOf(RankBids(rows), w, R)
<1> DEFINE o == RankBids(rows)
<1>1. DOMAIN w = 1..Len(w) /\ Len(w) \in Nat /\ \A i \in 1..Len(w) : w[i] \in BidRows
  BY LenProperties, ElementOfSeq
<1>2. Len(w) # 0
  BY EmptySeq
<1>3. \A i \in 1..Len(w) : [bid |-> w[i], rank |-> R[i]] \in RankedRows
  BY <1>1 DEF RankedRows
<1>4. rows \in [1..Len(w) -> RankedRows]
  BY <1>1, <1>3
<1>5. rows \in Seq(RankedRows) /\ Len(rows) = Len(w)
  BY <1>1, <1>4
<1>6. rows # <<>>
  BY <1>2, <1>5, EmptySeq
<1>7. DOMAIN rows = DOMAIN w /\ \A i \in DOMAIN w : rows[i].bid = w[i] /\ rows[i].rank = R[i]
  OBVIOUS
<1>8. IsRanking(o) /\ \E f : Rearranges(o, rows, f)
  BY <1>5, <1>6, RankBidsRanks
<1> HIDE DEF o
<1>9. PICK f : Rearranges(o, rows, f)
  BY <1>8
<1>10. \A k \in DOMAIN o : f[k] \in DOMAIN w /\ o[k] = rows[f[k]]
  BY <1>7, <1>9 DEF Rearranges
<1>11. \A k \in DOMAIN o : \E i \in DOMAIN w : o[k].bid = w[i] /\ o[k].rank = R[i]
  <2> TAKE k \in DOMAIN o
  <2>1. f[k] \in DOMAIN w /\ o[k].bid = rows[f[k]].bid /\ o[k].rank = rows[f[k]].rank
    BY <1>10
  <2>2. rows[f[k]].bid = w[f[k]] /\ rows[f[k]].rank = R[f[k]]
    BY <1>7, <2>1
  <2>3. QED BY <2>1, <2>2
<1>12. \A i \in DOMAIN w : \E k \in DOMAIN o : f[k] = i
  BY <1>7, <1>9 DEF Rearranges
<1>13. \A i \in DOMAIN w : \E k \in DOMAIN o : o[k].bid = w[i]
  <2> TAKE i \in DOMAIN w
  <2>1. PICK k \in DOMAIN o : f[k] = i
    BY <1>12
  <2>2. o[k].bid = rows[i].bid
    BY <1>10, <2>1
  <2>3. o[k].bid = w[i]
    BY <1>7, <2>2
  <2>4. QED BY <2>3
<1>14. RanksOf(o, w, R)
  BY <1>11, <1>13 DEF RanksOf
<1>15. QED BY <1>5, <1>8, <1>14 DEF o

\* The seeded numbers reach as far as the bids do.
DrawsFit(draws, bids) == \A i \in DOMAIN bids : draws[i] \in Nat

\* An open auction awards, if anything, a highest bid on the highest rung, at its amount.
LEMMA OpenDecides ==
  ASSUME NEW cfg, NEW session, NEW bids \in Seq(BidRows), NEW draws, DrawsFit(draws, bids)
  PROVE  LET r   == SettleOpen(cfg, session, bids, draws)
             min == SessionMinimum(session, cfg.minBid)
         IN  /\ r.tie = {} /\ r.tieAt = None
             /\ r = NoResolution \/ \E i \in DOMAIN bids : /\ bids[i].account = r.winner /\ r.price = bids[i].amount
                                                           /\ Tops(bids[i], bids, min)
<1> DEFINE r == SettleOpen(cfg, session, bids, draws)
           min == SessionMinimum(session, cfg.minBid)
           e == EligibleBids(bids, min)
           o == ByAmount(WinningRung(e))
<1>1. r = IF e = <<>> THEN NoResolution ELSE SettleHighest(o, draws)
  BY DEF SettleOpen
<1>2. CASE e = <<>>
  BY <1>1, <1>2 DEF NoResolution
<1>3. CASE e # <<>>
  <2>1. /\ IsRanking(o)
        /\ \A k \in DOMAIN o : \E i \in DOMAIN bids : SameRow(o[k], bids[i]) /\ Tops(bids[i], bids, min)
    BY <1>3, TopRanking
  <2> HIDE DEF e, o, r, min
  <2>2. 1 \in DOMAIN o
    BY <2>1 DEF IsRanking
  <2>3. 1 \in DOMAIN bids
    <3>1. PICK i \in DOMAIN bids : SameRow(o[1], bids[i])
      BY <2>1, <2>2
    <3>2. DOMAIN bids = 1..Len(bids) /\ Len(bids) \in Nat
      BY LenProperties
    <3>3. QED BY <3>2
  <2>4. draws[1] \in Nat
    BY <2>3 DEF DrawsFit
  <2> DEFINE s == SettleHighest(o, draws)
  <2>5. /\ s.tie = {} /\ s.tieAt = None
        /\ \E k \in DOMAIN o : s.winner = o[k].bid.account /\ s.price = o[k].bid.amount
    BY <2>1, <2>4, HighestWins
  <2> HIDE DEF s
  <2>6. r = s
    BY <1>1, <1>3 DEF s
  <2>7. PICK k \in DOMAIN o : s.winner = o[k].bid.account /\ s.price = o[k].bid.amount
    BY <2>5
  <2>8. PICK i \in DOMAIN bids : SameRow(o[k], bids[i]) /\ Tops(bids[i], bids, min)
    BY <2>1
  <2>9. bids[i].account = r.winner /\ r.price = bids[i].amount
    BY <2>6, <2>7, <2>8 DEF SameRow
  <2>10. QED BY <2>5, <2>6, <2>8, <2>9 DEF r, min
<1>4. QED BY <1>2, <1>3

\* Somebody gets it for a bid that meets the minimum, at its amount.
AwardsShare(r, bids, min) ==
  /\ r.tie = {} /\ r.tieAt = None
  /\ \E i \in DOMAIN bids : /\ bids[i].account = r.winner /\ r.price = bids[i].amount
                            /\ Meets(bids[i], min)

\* A relative auction awards, if anything, a bid that meets the session's minimum, at its amount.
LEMMA RelativeDecides ==
  ASSUME NEW cfg, NEW frozen, NEW session, NEW bids \in Seq(BidRows), NEW draws, DrawsFit(draws, bids)
  PROVE  LET r == SettleRelative(cfg, frozen, session, bids, draws)
         IN  r = NoResolution \/ AwardsShare(r, bids, session.min)
<1> DEFINE r == SettleRelative(cfg, frozen, session, bids, draws)
           S == {i \in DOMAIN bids : Meets(bids[i], session.min)}
           e == EligibleBids(bids, session.min)
           U == {i \in DOMAIN e : ShareOk(cfg, e[i].amount, frozen[e[i].account])}
           w == Kept(e, U)
           R == [i \in DOMAIN w |-> ShareBp(w[i].amount, frozen[w[i].account])]
           rows == [i \in DOMAIN w |-> [bid |-> w[i], rank |-> ShareBp(w[i].amount, frozen[w[i].account])]]
           o == RankBids(rows)
<1>1. r = IF w = <<>> THEN NoResolution ELSE SettleHighest(o, draws)
  BY DEF SettleRelative
<1>2. e = Kept(bids, S)
  BY DEF EligibleBids, Meets
<1>3. S \in SUBSET DOMAIN bids /\ U \in SUBSET DOMAIN e
  OBVIOUS
<1>4. \A i \in S : Meets(bids[i], session.min)
  OBVIOUS
<1>5. \A i \in U : ShareBp(e[i].amount, frozen[e[i].account]) \in Int
  BY DEF ShareOk
<1>6. rows = [i \in DOMAIN w |-> [bid |-> w[i], rank |-> R[i]]]
  OBVIOUS
<1>7. \A i \in DOMAIN w : R[i] = ShareBp(w[i].amount, frozen[w[i].account])
  OBVIOUS
<1> HIDE DEF S, e, U, R, rows, r
<1>8. /\ e \in Seq(BidRows) /\ DOMAIN e = 1..Len(e)
      /\ \A k \in 1..Len(e) : \E i \in S : e[k] = bids[i]
  BY <1>2, <1>3, KeptReaches
<1>9. e \in Seq(BidRows)
  BY <1>8
<1>10. /\ w \in Seq(BidRows) /\ DOMAIN w = 1..Len(w)
       /\ \A k \in 1..Len(w) : \E i \in U : w[k] = e[i]
  BY <1>3, <1>9, KeptReaches
<1> HIDE DEF w
<1>11. CASE w = <<>>
  BY <1>1, <1>11 DEF r
<1>12. CASE w # <<>>
  <2>1. \A i \in DOMAIN w : R[i] \in Int
    BY <1>5, <1>7, <1>10
  <2>2. /\ IsRanking(o)
        /\ \A k \in DOMAIN o : \E i \in DOMAIN w : o[k].bid = w[i] /\ o[k].rank = R[i]
    <3>1. w \in Seq(BidRows)
      BY <1>10
    <3>2. IsRanking(RankBids(rows))
      BY <1>6, <1>12, <2>1, <3>1, RowsRanked
    <3>3. RanksOf(RankBids(rows), w, R)
      BY <1>6, <1>12, <2>1, <3>1, RowsRanked
    <3>4. QED BY <3>2, <3>3 DEF RanksOf
  <2> HIDE DEF o
  <2>3. ASSUME NEW k \in DOMAIN o
        PROVE  \E i \in DOMAIN bids : o[k].bid = bids[i] /\ Meets(bids[i], session.min)
    <3>1. PICK l \in DOMAIN w : o[k].bid = w[l]
      BY <2>2
    <3>2. PICK u \in U : w[l] = e[u]
      BY <1>10
    <3>3. PICK i \in S : e[u] = bids[i]
      BY <1>3, <1>8
    <3>4. QED BY <1>3, <1>4, <3>1, <3>2, <3>3
  <2>4. 1 \in DOMAIN bids
    <3>1. 1 \in DOMAIN o
      BY <2>2 DEF IsRanking
    <3>2. PICK i \in DOMAIN bids : o[1].bid = bids[i]
      BY <2>3, <3>1
    <3>3. DOMAIN bids = 1..Len(bids) /\ Len(bids) \in Nat
      BY LenProperties
    <3>4. QED BY <3>3
  <2>5. draws[1] \in Nat
    BY <2>4 DEF DrawsFit
  <2> DEFINE s == SettleHighest(o, draws)
  <2>6. /\ s.tie = {} /\ s.tieAt = None
        /\ \E k \in DOMAIN o : s.winner = o[k].bid.account /\ s.price = o[k].bid.amount
    BY <2>2, <2>5, HighestWins
  <2> HIDE DEF s
  <2>7. r = s
    BY <1>1, <1>12 DEF s
  <2>8. PICK k \in DOMAIN o : s.winner = o[k].bid.account /\ s.price = o[k].bid.amount
    BY <2>6
  <2>9. PICK i \in DOMAIN bids : o[k].bid = bids[i] /\ Meets(bids[i], session.min)
    BY <2>3
  <2>10. bids[i].account = r.winner /\ r.price = bids[i].amount
    BY <2>7, <2>8, <2>9
  <2>11. QED BY <2>6, <2>7, <2>9, <2>10 DEF r, AwardsShare
<1>13. QED BY <1>11, <1>12

\* Nobody in a ranking stands on a higher rung than its leader.
LEMMA LeaderStandsHighest ==
  ASSUME NEW o, IsRanking(o), NEW k \in DOMAIN o
  PROVE  TierRank(o[k].bid) <= TierRank(o[1].bid)
<1>1. o[k] \in RankedRows /\ o[1] \in RankedRows /\ 1 \in DOMAIN o /\ k \in Nat /\ k >= 1
  BY DEF IsRanking
<1>2. TierRank(o[k].bid) \in Int /\ TierRank(o[1].bid) \in Int
  <2>1. o[k].bid \in BidRows /\ o[1].bid \in BidRows
    BY <1>1 DEF RankedRows
  <2>2. QED BY <2>1, BidType
<1>3. CASE k = 1
  BY <1>2, <1>3
<1>4. CASE k # 1
  <2>1. ~Beats(o[k], o[1])
    BY <1>1, <1>4 DEF IsRanking
  <2>2. \/ TierRank(o[1].bid) > TierRank(o[k].bid)
        \/ TierRank(o[1].bid) = TierRank(o[k].bid) /\ o[1].rank >= o[k].rank
    BY <1>1, <2>1, BeatsOrders
  <2>3. QED BY <1>2, <2>2
<1>5. QED BY <1>3, <1>4

\* sortedEntrants: the entries, in an order of their own.
LEMMA SortRearranges ==
  ASSUME NEW bids \in Seq(BidRows)
  PROVE  /\ SortByAccount(bids) \in Seq(BidRows) /\ Len(SortByAccount(bids)) = Len(bids)
         /\ \E f : Rearranges(SortByAccount(bids), bids, f)
<1>1. \A i \in DOMAIN bids : bids[i].account \in Int
  <2> TAKE i \in DOMAIN bids
  <2>1. bids[i] \in BidRows
    BY LenProperties, ElementOfSeq
  <2>2. QED BY <2>1, BidType
<1>2. IsOrder(AccountOrder(bids)) /\ DOMAIN AccountOrder(bids) = DOMAIN bids
  BY <1>1, AccountsAreOrdered
<1>3. SortByAccount(bids) = Arranged(bids, AccountOrder(bids))
  BY DEF SortByAccount, AccountOrder
<1> DEFINE p == AccountOrder(bids)
<1>4. /\ Arranged(bids, p) \in Seq(BidRows) /\ Len(Arranged(bids, p)) = Len(bids)
      /\ Rearranges(Arranged(bids, p), bids, Ranked(p))
  <2>1. IsOrder(p) /\ DOMAIN p = DOMAIN bids
    BY <1>2
  <2> HIDE DEF p
  <2>2. QED BY <2>1, ArrangedLists
<1>5. QED BY <1>3, <1>4

\* A roll is won, if at all, on the highest rung anybody entered on.
LEMMA RollDecides ==
  ASSUME NEW cfg, RollConfigValid(cfg), NEW bids \in Seq(BidRows), NEW draws, DrawsFit(draws, bids)
  PROVE  LET r == SettleRoll(cfg, bids, draws)
         IN  /\ r.tie = {} /\ r.tieAt = None
             /\ r.winner = None \/ \E i \in DOMAIN bids :
                  /\ bids[i].account = r.winner
                  /\ \A j \in DOMAIN bids : TierRank(bids[j]) <= TierRank(bids[i])
<1> DEFINE r == SettleRoll(cfg, bids, draws)
           w == SortByAccount(bids)
           R == [i \in DOMAIN w |-> cfg.low + IntN(draws, i, cfg.high - cfg.low + 1)]
           rows == [i \in DOMAIN w |-> [bid |-> w[i],
                      rank |-> cfg.low + IntN(draws, i, cfg.high - cfg.low + 1)]]
           o == RankBids(rows)
<1>1. /\ r.tie = {} /\ r.tieAt = None
      /\ r.winner = None \/ (bids # <<>> /\ r.winner = o[1].bid.account)
  BY DEF SettleRoll, NoResolution
<1>2. w \in Seq(BidRows) /\ Len(w) = Len(bids) /\ \E f : Rearranges(w, bids, f)
  BY SortRearranges
<1>3. rows = [i \in DOMAIN w |-> [bid |-> w[i], rank |-> R[i]]]
  OBVIOUS
<1>4. \A i \in DOMAIN w : R[i] = cfg.low + IntN(draws, i, cfg.high - cfg.low + 1)
  OBVIOUS
<1> HIDE DEF r, w, R, rows
<1>5. SUFFICES ASSUME bids # <<>>, r.winner = o[1].bid.account
               PROVE  \E i \in DOMAIN bids :
                  /\ bids[i].account = r.winner
                  /\ \A j \in DOMAIN bids : TierRank(bids[j]) <= TierRank(bids[i])
  BY <1>1 DEF r
<1>6. DOMAIN w = DOMAIN bids /\ DOMAIN bids = 1..Len(bids) /\ Len(bids) \in Nat \ {0}
  BY <1>2, <1>5, LenProperties, EmptySeq
<1>7. w # <<>>
  BY <1>2, <1>6, EmptySeq
<1>8. \A i \in DOMAIN w : R[i] \in Int
  <2> TAKE i \in DOMAIN w
  <2>1. draws[i] \in Nat
    BY <1>6 DEF DrawsFit
  <2>2. cfg.low \in Int /\ cfg.high \in Int /\ cfg.high - cfg.low + 1 > 0
    BY DEF RollConfigValid
  <2> DEFINE n == cfg.high - cfg.low + 1
  <2>3. n \in Nat \ {0}
    BY <2>2
  <2> HIDE DEF n
  <2>4. draws[i] % n \in Int
    BY <2>1, <2>3
  <2>5. R[i] = cfg.low + (draws[i] % n)
    BY <1>4 DEF IntN, n
  <2>6. QED BY <2>2, <2>4, <2>5
<1>9. w \in Seq(BidRows)
  BY <1>2
<1>10. IsRanking(o)
  BY <1>3, <1>7, <1>8, <1>9, RowsRanked
<1>11. RanksOf(o, w, R)
  BY <1>3, <1>7, <1>8, <1>9, RowsRanked
<1>12. \A i \in DOMAIN w : \E k \in DOMAIN o : o[k].bid = w[i]
  BY <1>11 DEF RanksOf
<1> HIDE DEF o
<1>13. PICK f : Rearranges(w, bids, f)
  BY <1>2
<1>14. 1 \in DOMAIN o
  BY <1>10 DEF IsRanking
<1>15. PICK l \in DOMAIN w : o[1].bid = w[l]
  BY <1>11, <1>14 DEF RanksOf
<1>16. f[l] \in DOMAIN bids /\ o[1].bid = bids[f[l]]
  BY <1>13, <1>15 DEF Rearranges
<1>17. ASSUME NEW j \in DOMAIN bids PROVE TierRank(bids[j]) <= TierRank(o[1].bid)
  <2>1. PICK m \in DOMAIN w : f[m] = j
    BY <1>13 DEF Rearranges
  <2>2. w[m] = bids[j]
    BY <1>13, <2>1 DEF Rearranges
  <2>3. PICK k \in DOMAIN o : o[k].bid = w[m]
    BY <1>12
  <2>4. TierRank(o[k].bid) <= TierRank(o[1].bid)
    BY <1>10, LeaderStandsHighest
  <2>5. QED BY <2>2, <2>3, <2>4
<1>18. QED BY <1>5, <1>16, <1>17

-----------------------------------------------------------------------------
(* A session's bids.                                                         *)

\* No account has two bids of one instant.
Separate(s) == \A i, j \in DOMAIN s : s[i].account = s[j].account /\ s[i].at = s[j].at => i = j

\* What is open: validated bids of its parties, above the tie it is to break.
AuctionInv ==
  /\ {"bids", "parties", "min", "tieAt"} \subseteq DOMAIN auction
  /\ auction.bids \in Seq(BidRows) /\ Len(auction.bids) <= MaxBids
  /\ auction.parties \subseteq roster
  /\ \A i \in DOMAIN auction.bids : auction.bids[i].account \in auction.parties
  /\ auction.min \in Int
  /\ auction.tieAt # None => auction.tieAt \in Int /\ auction.min = auction.tieAt + 1
  /\ OneBidPerInstant => Separate(auction.bids)

\* The other ways SettleAuction decides.
AwardsTop(r, bids, min) ==
  /\ r.tie = {} /\ r.tieAt = None
  /\ \E i \in DOMAIN bids : /\ bids[i].account = r.winner /\ r.price = bids[i].amount
                            /\ Tops(bids[i], bids, min)
AwardsRoll(r, bids) ==
  /\ r.tie = {} /\ r.tieAt = None
  /\ r.winner = None \/ \E i \in DOMAIN bids :
       /\ bids[i].account = r.winner
       /\ \A j \in DOMAIN bids : TierRank(bids[j]) <= TierRank(bids[i])
HasMinimum(cfg, session, min) ==
  /\ cfg.minBid \in Int /\ cfg.increment \in Int
  /\ min = SessionMinimum(session, cfg.minBid) /\ min \in Int /\ min >= 1 /\ min >= session.min
DecidesAuction(r, rule, session, bids, min) ==
  /\ HasMinimum(rule.cfg, session, min)
  /\ \/ rule.id = "auction_open" /\ AwardsTop(r, bids, min)
     \/ rule.id = "auction_sealed" /\ NamesATie(r, bids, min)
     \/ rule.id = "auction_sealed" /\ NamesAWinner(r, rule.cfg, bids, min)

\* Whatever the rules, a settlement is one of these.
LEMMA Decides ==
  ASSUME BaseInv, AuctionInv, rules.spend # None, NEW draws \in Draws
  PROVE  LET r == Outcome(draws) IN
         \/ r = NoResolution
         \/ \E min \in Int : DecidesAuction(r, rules.spend, auction, auction.bids, min)
         \/ rules.spend.id = "relative_bid" /\ AwardsShare(r, auction.bids, auction.min)
         \/ rules.spend.id = "roll" /\ AwardsRoll(r, auction.bids)
<1> DEFINE rule == rules.spend
           cfg == rule.cfg
           bids == auction.bids
           r == Outcome(draws)
           min == SessionMinimum(auction, cfg.minBid)
<1>1. bids \in Seq(BidRows) /\ auction.min \in Int /\ Len(bids) <= MaxBids
  BY DEF AuctionInv
<1>2. DrawsFit(draws, bids)
  <2>1. \A i \in DOMAIN bids : i \in 1..MaxBids
    <3>1. DOMAIN bids = 1..Len(bids) /\ Len(bids) \in Nat
      BY <1>1, LenProperties
    <3>2. QED BY <1>1, <3>1, BoundsAssumption
  <2>2. draws \in [1..MaxBids -> Nat]
    BY EventsAssumption
  <2>3. QED BY <2>1, <2>2 DEF DrawsFit
<1>3. rule.id \in {"auction_open", "auction_sealed"} => cfg.minBid \in Int /\ cfg.increment \in Int
  BY ConfigsAssumption DEF BaseInv, RulesInv
<1>4. r = SettleAuction(rule, log, auction, bids, draws)
  BY DEF Outcome, Resolution
<1> HIDE DEF rule, bids, r, cfg, min
<1>5. ASSUME rule.id \in {"auction_open", "auction_sealed"}, cfg.minBid > 0
      PROVE  HasMinimum(cfg, auction, min) /\ min \in Int
  BY <1>1, <1>3, <1>5 DEF HasMinimum, min, SessionMinimum, Greatest
<1>6. CASE rule.id = "auction_open" /\ AuctionOpenConfigValid(cfg)
  <2>1. r = SettleOpen(cfg, auction, bids, draws)
    BY <1>4, <1>6 DEF SettleAuction, cfg
  <2> DEFINE s == SettleOpen(cfg, auction, bids, draws)
  <2>2. /\ s.tie = {} /\ s.tieAt = None
        /\ s = NoResolution \/ \E i \in DOMAIN bids : /\ bids[i].account = s.winner /\ s.price = bids[i].amount
                                                      /\ Tops(bids[i], bids, min)
    BY <1>1, <1>2, OpenDecides DEF min
  <2> HIDE DEF s
  <2>3. r = s
    BY <2>1 DEF s
  <2>4. r = NoResolution \/ AwardsTop(r, bids, min)
    BY <2>2, <2>3 DEF AwardsTop
  <2>5. cfg.minBid > 0
    BY <1>6 DEF AuctionOpenConfigValid
  <2>6. HasMinimum(cfg, auction, min) /\ min \in Int
    BY <1>5, <1>6, <2>5
  <2>7. r = NoResolution \/ DecidesAuction(r, rule, auction, bids, min)
    BY <1>6, <2>4, <2>6 DEF DecidesAuction, cfg
  <2>8. QED BY <2>6, <2>7 DEF r, rule, bids
<1>7. CASE rule.id = "auction_sealed" /\ AuctionSealedConfigValid(cfg)
  <2>1. r = SettleSealed(cfg, auction, bids)
    BY <1>4, <1>7 DEF SettleAuction, cfg
  <2>2. cfg.minBid \in Int /\ cfg.increment \in Int /\ AuctionSealedConfigValid(cfg)
    BY <1>3, <1>7
  <2> DEFINE s == SettleSealed(cfg, auction, bids)
  <2>3. s = NoResolution \/ NamesATie(s, bids, min) \/ NamesAWinner(s, cfg, bids, min)
    BY <1>1, <2>2, SealedDecides DEF min
  <2> HIDE DEF s
  <2>4. r = NoResolution \/ NamesATie(r, bids, min) \/ NamesAWinner(r, cfg, bids, min)
    BY <2>1, <2>3 DEF s
  <2>5. cfg.minBid > 0
    BY <1>7 DEF AuctionSealedConfigValid
  <2>6. HasMinimum(cfg, auction, min) /\ min \in Int
    BY <1>5, <1>7, <2>5
  <2>7. r = NoResolution \/ DecidesAuction(r, rule, auction, bids, min)
    BY <1>7, <2>4, <2>6 DEF DecidesAuction, cfg
  <2>8. QED BY <2>6, <2>7 DEF r, rule, bids
<1>8. CASE rule.id = "relative_bid" /\ RelativeBidConfigValid(cfg)
  <2> DEFINE frozen == FrozenBalances(log, auction, bids)
             s == SettleRelative(cfg, frozen, auction, bids, draws)
  <2>1. r = s
    BY <1>4, <1>8 DEF SettleAuction, cfg
  <2>2. s = NoResolution \/ AwardsShare(s, bids, auction.min)
    <3> HIDE DEF frozen
    <3>1. QED BY <1>1, <1>2, RelativeDecides
  <2> HIDE DEF s
  <2>3. r = NoResolution \/ AwardsShare(r, bids, auction.min)
    BY <2>1, <2>2
  <2>4. QED BY <1>8, <2>3 DEF r, rule, bids
<1>9. CASE rule.id = "roll" /\ RollConfigValid(cfg)
  <2> DEFINE s == SettleRoll(cfg, bids, draws)
  <2>1. r = s
    BY <1>4, <1>9 DEF SettleAuction, cfg
  <2>2. /\ s.tie = {} /\ s.tieAt = None
        /\ s.winner = None \/ \E i \in DOMAIN bids :
             /\ bids[i].account = s.winner
             /\ \A j \in DOMAIN bids : TierRank(bids[j]) <= TierRank(bids[i])
    BY <1>1, <1>2, <1>9, RollDecides
  <2> HIDE DEF s
  <2>3. AwardsRoll(r, bids)
    BY <2>1, <2>2 DEF AwardsRoll
  <2>4. QED BY <1>9, <2>3 DEF r, rule, bids
<1>10. CASE /\ ~(rule.id = "auction_open" /\ AuctionOpenConfigValid(cfg))
            /\ ~(rule.id = "auction_sealed" /\ AuctionSealedConfigValid(cfg))
            /\ ~(rule.id = "relative_bid" /\ RelativeBidConfigValid(cfg))
            /\ ~(rule.id = "roll" /\ RollConfigValid(cfg))
  <2>1. r = NoResolution
    BY <1>4, <1>10 DEF SettleAuction, cfg
  <2>2. QED BY <2>1 DEF r
<1>11. QED BY <1>6, <1>7, <1>8, <1>9, <1>10

\* Nothing has been opened.
LEMMA AuctionInit == Init => AuctionInv
<1> SUFFICES ASSUME Init PROVE AuctionInv
  OBVIOUS
<1>1. auction = NoAuction
  BY DEF Init
<1>2. auction.bids \in Seq(BidRows) /\ Len(auction.bids) = 0 /\ DOMAIN auction.bids = {}
  BY <1>1, EmptySeq DEF NoAuction
<1>3. QED BY <1>1, <1>2, BoundsAssumption DEF AuctionInv, NoAuction, Separate

\* ValidateBid lets in a party's bid on the ladder, of no less than nothing.
LEMMA ValidBid ==
  ASSUME BaseInv, AuctionInv, NEW bid \in Bids, bid.account \in auction.parties, rules.spend # None,
         ValidateBid(rules.spend, log, bid)
  PROVE  bid \in BidRows
<1>1. bid.account \in Members /\ bid.amount \in Int /\ TierKnown(bid)
  BY EventsAssumption DEF AuctionInv, BaseInv, RosterInv, ValidateBid, BidIdentityOk
<1> DEFINE rule == rules.spend
           cfg == rule.cfg
<1>2. rule.id \in {"auction_open", "auction_sealed"} => cfg.minBid \in Int
  BY ConfigsAssumption DEF BaseInv, RulesInv
<1>3. \/ rule.id = "auction_open" /\ AuctionOpenConfigValid(cfg) /\ AuctionOpenBidOk(cfg, log, bid)
      \/ rule.id = "auction_sealed" /\ AuctionSealedConfigValid(cfg) /\ AuctionSealedBidOk(cfg, log, bid)
      \/ rule.id = "relative_bid" /\ RelativeBidOk(cfg, log, bid)
      \/ rule.id = "roll" /\ RollEntryOk(cfg, log, bid)
  BY DEF ValidateBid
<1> HIDE DEF rule, cfg
<1>4. bid.amount >= 0
  <2>1. CASE rule.id = "auction_open" /\ AuctionOpenConfigValid(cfg) /\ AuctionOpenBidOk(cfg, log, bid)
    BY <1>1, <1>2, <2>1 DEF AuctionOpenConfigValid, AuctionOpenBidOk
  <2>2. CASE rule.id = "auction_sealed" /\ AuctionSealedConfigValid(cfg) /\ AuctionSealedBidOk(cfg, log, bid)
    BY <1>1, <1>2, <2>2 DEF AuctionSealedConfigValid, AuctionSealedBidOk
  <2>3. CASE RelativeBidOk(cfg, log, bid)
    BY <1>1, <2>3 DEF RelativeBidOk
  <2>4. CASE RollEntryOk(cfg, log, bid)
    BY <1>1, <2>4 DEF RollEntryOk
  <2>5. QED BY <1>3, <2>1, <2>2, <2>3, <2>4
<1>5. QED BY <1>1, <1>4 DEF BidRows

\* A settlement with a tie to break is a sealed auction's.
LEMMA TiesDecided ==
  ASSUME BaseInv, AuctionInv, rules.spend # None, NEW draws \in Draws,
         Outcome(draws).tie # {} \/ Outcome(draws).tieAt # None
  PROVE  \E min \in Int : HasMinimum(rules.spend.cfg, auction, min) /\ NamesATie(Outcome(draws), auction.bids, min)
<1> DEFINE r == Outcome(draws)
<1>1. \/ r = NoResolution
      \/ \E min \in Int : DecidesAuction(r, rules.spend, auction, auction.bids, min)
      \/ AwardsShare(r, auction.bids, auction.min)
      \/ AwardsRoll(r, auction.bids)
  BY Decides
<1> HIDE DEF r
<1>2. r.tie # {} \/ r.tieAt # None
  BY DEF r
<1>3. r # NoResolution /\ ~AwardsShare(r, auction.bids, auction.min) /\ ~AwardsRoll(r, auction.bids)
  BY <1>2 DEF NoResolution, AwardsShare, AwardsRoll
<1>4. PICK min \in Int : DecidesAuction(r, rules.spend, auction, auction.bids, min)
  BY <1>1, <1>3
<1>5. HasMinimum(rules.spend.cfg, auction, min) /\ NamesATie(r, auction.bids, min)
  BY <1>2, <1>4 DEF DecidesAuction, AwardsTop, NamesAWinner
<1>6. QED BY <1>5 DEF r

\* Bids are appended as they are validated, and a tie opens a session of its own bidders.
LEMMA AuctionNext == BaseInv /\ AuctionInv /\ [Next]_vars => AuctionInv'
<1> SUFFICES ASSUME BaseInv, AuctionInv, [Next]_vars PROVE AuctionInv'
  OBVIOUS
<1>1. roster \subseteq roster'
  BY OthersMove
<1>2. /\ auction.bids \in Seq(BidRows) /\ Len(auction.bids) <= MaxBids
      /\ auction.parties \subseteq roster
      /\ \A i \in DOMAIN auction.bids : auction.bids[i].account \in auction.parties
  BY DEF AuctionInv
<1>3. <<>> \in Seq(BidRows) /\ Len(<<>>) <= MaxBids /\ DOMAIN <<>> = {}
  BY EmptySeq, BoundsAssumption
<1>4. CASE auction' = auction
  BY <1>1, <1>4 DEF AuctionInv
<1>5. CASE auction' = [NoAuction EXCEPT !.phase = "settled"]
  <2>1. /\ auction'.bids = <<>> /\ auction'.parties = {} /\ auction'.min = 0 /\ auction'.tieAt = None
        /\ {"bids", "parties", "min", "tieAt"} \subseteq DOMAIN auction'
    BY <1>5 DEF NoAuction
  <2>2. QED BY <1>3, <2>1 DEF AuctionInv, Separate
<1>6. CASE OpenAuction
  <2>1. /\ auction'.bids = <<>> /\ auction'.parties = roster /\ auction'.min = 0 /\ auction'.tieAt = None
        /\ {"bids", "parties", "min", "tieAt"} \subseteq DOMAIN auction'
    BY <1>6 DEF OpenAuction, NoAuction
  <2>2. QED BY <1>1, <1>3, <2>1 DEF AuctionInv, Separate
<1>7. CASE PlaceBid
  <2>1. PICK bid \in Bids :
          /\ bid.account \in auction.parties
          /\ ValidateBid(rules.spend, log, bid)
          /\ OneBidPerInstant => \A i \in DOMAIN auction.bids :
               auction.bids[i].account = bid.account => auction.bids[i].at # bid.at
          /\ auction' = [auction EXCEPT !.bids = Append(@, bid)]
    BY <1>7 DEF PlaceBid
  <2>2. rules.spend # None /\ Len(auction.bids) < MaxBids
    BY <1>7 DEF PlaceBid, Can
  <2>3. bid \in BidRows
    BY <2>1, <2>2, ValidBid
  <2> DEFINE s == auction.bids
             t == Append(s, bid)
  <2>4. /\ auction'.bids = t /\ auction'.parties = auction.parties /\ auction'.min = auction.min
        /\ auction'.tieAt = auction.tieAt /\ DOMAIN auction' = DOMAIN auction
    BY <2>1 DEF AuctionInv
  <2>5. Len(s) \in Nat /\ DOMAIN s = 1..Len(s)
    BY <1>2, LenProperties
  <2>6. /\ t \in Seq(BidRows) /\ Len(t) = Len(s) + 1 /\ t[Len(s) + 1] = bid
        /\ \A i \in 1..Len(s) : t[i] = s[i]
    BY <1>2, <2>3, AppendProperties
  <2> HIDE DEF s, t
  <2>7. DOMAIN t = 1..(Len(s) + 1)
    BY <2>6, LenProperties
  <2>8. \A i \in DOMAIN t : (i \in DOMAIN s /\ t[i] = s[i]) \/ (i = Len(s) + 1 /\ t[i] = bid)
    BY <2>5, <2>6, <2>7
  <2>9. \A i \in DOMAIN t : t[i].account \in auction.parties
    BY <1>2, <2>1, <2>8 DEF s
  <2>10. Len(t) <= MaxBids
    BY <2>2, <2>5, <2>6, BoundsAssumption DEF s
  <2>11. OneBidPerInstant => Separate(t)
    <3> SUFFICES ASSUME OneBidPerInstant PROVE Separate(t)
      OBVIOUS
    <3>1. Separate(s)
      BY DEF AuctionInv, s
    <3>2. \A i \in DOMAIN s : s[i].account = bid.account => s[i].at # bid.at
      BY <2>1 DEF s
    <3>3. QED BY <2>8, <3>1, <3>2 DEF Separate
  <2>12. QED BY <1>1, <2>4, <2>6, <2>9, <2>10, <2>11 DEF AuctionInv
<1>8. ASSUME NEW draws \in Draws, rules.spend # None, UNCHANGED roster, Outcome(draws).tieAt # None,
             auction' = RebidSession(auction, Outcome(draws), log)
      PROVE  AuctionInv'
  <2> DEFINE r == Outcome(draws)
  <2>1. PICK min \in Int : NamesATie(r, auction.bids, min)
    BY <1>8, TiesDecided
  <2>2. /\ auction'.bids = <<>> /\ auction'.parties = r.tie /\ auction'.min = r.tieAt + 1
        /\ auction'.tieAt = r.tieAt /\ {"bids", "parties", "min", "tieAt"} \subseteq DOMAIN auction'
    BY <1>8 DEF RebidSession, MinRebid, AuctionInv
  <2> HIDE DEF r
  <2>3. r.tieAt \in Int
    BY <2>1 DEF NamesATie
  <2>4. r.tie \subseteq roster
    BY <1>2, <2>1 DEF NamesATie
  <2>5. QED BY <1>1, <1>3, <2>2, <2>3, <2>4 DEF AuctionInv, Separate
<1>9. CASE Settle
  <2>1. rules.spend # None /\ UNCHANGED roster
    BY <1>9 DEF Settle, Can
  <2>2. PICK draws \in Draws :
          \/ Outcome(draws).tieAt # None /\ auction' = RebidSession(auction, Outcome(draws), log)
          \/ auction' = [NoAuction EXCEPT !.phase = "settled"]
    BY <1>9 DEF Settle, Outcome
  <2>3. QED BY <1>5, <1>8, <2>1, <2>2
<1>10. auction' = auction \/ OpenAuction \/ PlaceBid \/ Settle
  BY DEF Next, RecordAttendance, Sell, Adjust, ReverseBatch, OpenRun, RetryRun, Commit, Join,
         ChangeRules, vars
<1>11. QED BY <1>4, <1>6, <1>7, <1>9, <1>10

-----------------------------------------------------------------------------
(* What a settlement may decide.                                             *)

\* What is open at the minimum of an auction is what the properties call standing.
LEMMA TopStands ==
  ASSUME AuctionInv, NEW min \in Int, min >= 1, NEW i \in DOMAIN auction.bids,
         Tops(auction.bids[i], auction.bids, min)
  PROVE  /\ auction.bids[i].amount >= min
         /\ \A rank \in StandingRungs(min) : TierRank(auction.bids[i]) >= rank
<1>1. auction.bids[i].amount >= min
  BY DEF Tops, Meets
<1>2. ASSUME NEW j \in DOMAIN auction.bids, auction.bids[j].amount >= min
      PROVE  TierRank(auction.bids[i]) >= TierRank(auction.bids[j])
  <2>1. auction.bids[j] \in BidRows /\ auction.bids[i] \in BidRows
    BY LenProperties, ElementOfSeq DEF AuctionInv
  <2>2. auction.bids[j].amount \in Int /\ TierRank(auction.bids[j]) \in Int /\ TierRank(auction.bids[i]) \in Int
    BY <2>1, BidType
  <2>3. Meets(auction.bids[j], min)
    BY <1>2, <2>2 DEF Meets
  <2>4. TierRank(auction.bids[j]) <= TierRank(auction.bids[i])
    BY <2>3 DEF Tops
  <2>5. QED BY <2>2, <2>4
<1>3. QED BY <1>1, <1>2 DEF StandingRungs

\* And what is standing on its highest rung is on top.
LEMMA StandsTop ==
  ASSUME AuctionInv, NEW min \in Int, min >= 1, NEW i \in DOMAIN auction.bids,
         auction.bids[i].amount >= min, \A rank \in StandingRungs(min) : TierRank(auction.bids[i]) >= rank
  PROVE  Tops(auction.bids[i], auction.bids, min)
<1>1. \A j \in DOMAIN auction.bids : auction.bids[j] \in BidRows
  <2> TAKE j \in DOMAIN auction.bids
  <2>1. QED BY LenProperties, ElementOfSeq DEF AuctionInv
<1>2. \A j \in DOMAIN auction.bids : auction.bids[j].amount \in Int /\ TierRank(auction.bids[j]) \in Int
  BY <1>1, BidType
<1>3. Meets(auction.bids[i], min)
  BY <1>2 DEF Meets
<1>4. ASSUME NEW j \in DOMAIN auction.bids, Meets(auction.bids[j], min)
      PROVE  TierRank(auction.bids[j]) <= TierRank(auction.bids[i])
  <2>1. TierRank(auction.bids[j]) \in StandingRungs(min)
    BY <1>4 DEF StandingRungs, Meets
  <2>2. QED BY <1>2, <2>1
<1>5. QED BY <1>3, <1>4 DEF Tops

\* A tie is between at least two of the session's parties, awards nobody and rolls nothing
\* (TiesAreBetweenPeople), whatever was bid and drawn: rebidResolution over tiedAccounts.
LEMMA TiesHold == BaseInv /\ AuctionInv => TiesAreBetweenPeople
<1> SUFFICES ASSUME BaseInv, AuctionInv, Bidding, NEW draws \in Draws, Outcome(draws).tie # {}
             PROVE  LET r == Outcome(draws)
                    IN  /\ Cardinality(r.tie) >= 2 /\ r.tie \subseteq auction.parties
                        /\ r.winner = None /\ ~r.rolled
  BY DEF TiesAreBetweenPeople
<1> DEFINE r == Outcome(draws)
<1>1. rules.spend # None
  BY DEF Bidding, Can
<1>2. PICK min \in Int : NamesATie(r, auction.bids, min)
  BY <1>1, TiesDecided
<1> HIDE DEF r
<1>3. r.tie \subseteq auction.parties
  BY <1>2 DEF NamesATie, AuctionInv
<1>4. QED BY <1>2, <1>3 DEF NamesATie, r

\* The round a tie asks for can only tie higher, and awards above what everybody already offered
\* (RebidBeatsTheTie), under any rules but a roll.
LEMMA RebidHolds == BaseInv /\ AuctionInv => RebidBeatsTheTie
<1> SUFFICES ASSUME BaseInv, AuctionInv, Bidding, auction.tieAt # None, rules.spend.id # "roll",
                    NEW draws \in Draws
             PROVE  LET r == Outcome(draws)
                    IN  /\ r.tieAt # None => r.tieAt > auction.tieAt
                        /\ r.winner # None => r.price > auction.tieAt
  BY DEF RebidBeatsTheTie
<1> DEFINE r == Outcome(draws)
           bids == auction.bids
<1>1. rules.spend # None
  BY DEF Bidding, Can
<1>2. auction.tieAt \in Int /\ auction.min = auction.tieAt + 1 /\ auction.min \in Int
  BY DEF AuctionInv
<1>3. \/ r = NoResolution
      \/ \E min \in Int : DecidesAuction(r, rules.spend, auction, bids, min)
      \/ AwardsShare(r, bids, auction.min)
  BY <1>1, Decides
<1>4. \A i \in DOMAIN bids : bids[i].amount \in Int
  <2> TAKE i \in DOMAIN bids
  <2>1. bids[i] \in BidRows
    BY LenProperties, ElementOfSeq DEF AuctionInv
  <2>2. QED BY <2>1, BidType
<1> HIDE DEF r, bids
<1>5. CASE r = NoResolution
  BY <1>5 DEF NoResolution, r
<1>6. CASE AwardsShare(r, bids, auction.min)
  BY <1>2, <1>4, <1>6 DEF AwardsShare, Meets, r
<1>7. ASSUME NEW min \in Int, DecidesAuction(r, rules.spend, auction, bids, min)
      PROVE  /\ r.tieAt # None => r.tieAt > auction.tieAt
             /\ r.winner # None => r.price > auction.tieAt
  <2>1. min >= auction.min
    BY <1>7 DEF DecidesAuction, HasMinimum
  <2>2. CASE AwardsTop(r, bids, min)
    BY <1>2, <1>4, <2>1, <2>2 DEF AwardsTop, Tops, Meets
  <2>3. CASE NamesATie(r, bids, min)
    BY <1>2, <2>1, <2>3 DEF NamesATie
  <2>4. CASE NamesAWinner(r, rules.spend.cfg, bids, min)
    BY <1>2, <2>1, <2>4 DEF NamesAWinner
  <2>5. QED BY <1>7, <2>2, <2>3, <2>4 DEF DecidesAuction
<1>8. QED BY <1>3, <1>5, <1>6, <1>7 DEF r

\* Whoever wins or ties stands on the highest rung anybody met the minimum on, whatever was
\* offered or rolled below it (HigherRungWins): resolveTier, and the first key of rankBids.
LEMMA RungsHold == BaseInv /\ AuctionInv => HigherRungWins
<1> DEFINE Least0 == IF rules.spend.id = "roll" THEN 0 ELSE SessionMinimum(auction, rules.spend.cfg.minBid)
           Leads(a, min) == \E i \in DOMAIN auction.bids :
             /\ auction.bids[i].account = a /\ auction.bids[i].amount >= min
             /\ \A rank \in StandingRungs(min) : TierRank(auction.bids[i]) >= rank
<1> SUFFICES ASSUME BaseInv, AuctionInv, Bidding,
                    rules.spend.id \in {"auction_open", "auction_sealed", "roll"}, NEW draws \in Draws,
                    NEW a \in ({Outcome(draws).winner} \ {None}) \cup Outcome(draws).tie
             PROVE  Leads(a, Least0)
  BY DEF HigherRungWins
<1> DEFINE r == Outcome(draws)
           bids == auction.bids
<1>1. rules.spend # None
  BY DEF Bidding, Can
<1>2. \/ r = NoResolution
      \/ \E min \in Int : DecidesAuction(r, rules.spend, auction, bids, min)
      \/ rules.spend.id = "roll" /\ AwardsRoll(r, bids)
  BY <1>1, Decides
<1>3. a \in ({r.winner} \ {None}) \cup r.tie
  OBVIOUS
<1> HIDE DEF r
<1>4. CASE r = NoResolution
  BY <1>3, <1>4 DEF NoResolution
<1>5. CASE rules.spend.id = "roll" /\ AwardsRoll(r, bids)
  <2>1. PICK i \in DOMAIN bids : /\ bids[i].account = a
                                 /\ \A j \in DOMAIN bids : TierRank(bids[j]) <= TierRank(bids[i])
    BY <1>3, <1>5 DEF AwardsRoll
  <2>2. \A j \in DOMAIN bids : bids[j] \in BidRows
    <3> TAKE j \in DOMAIN bids
    <3>1. QED BY LenProperties, ElementOfSeq DEF AuctionInv
  <2>3. \A j \in DOMAIN bids : bids[j].amount \in Nat /\ TierRank(bids[j]) \in Int
    BY <2>2, BidType
  <2>4. \A rank \in StandingRungs(0) : TierRank(bids[i]) >= rank
    BY <2>1, <2>3 DEF StandingRungs
  <2>5. Leads(a, 0)
    BY <2>1, <2>3, <2>4
  <2>6. Least0 = 0
    BY <1>5
  <2>7. QED BY <2>5, <2>6
<1>6. ASSUME NEW min \in Int, DecidesAuction(r, rules.spend, auction, bids, min)
      PROVE  Leads(a, Least0)
  <2>1. min = Least0 /\ min >= 1
    BY <1>6 DEF DecidesAuction, HasMinimum
  <2>2. \E i \in DOMAIN bids : bids[i].account = a /\ Tops(bids[i], bids, min)
    <3>1. CASE AwardsTop(r, bids, min)
      BY <1>3, <3>1 DEF AwardsTop
    <3>2. CASE NamesATie(r, bids, min)
      BY <1>3, <3>2 DEF NamesATie
    <3>3. CASE NamesAWinner(r, rules.spend.cfg, bids, min)
      BY <1>3, <3>3 DEF NamesAWinner
    <3>4. QED BY <1>6, <3>1, <3>2, <3>3 DEF DecidesAuction
  <2>3. PICK i \in DOMAIN bids : bids[i].account = a /\ Tops(bids[i], bids, min)
    BY <2>2
  <2>4. bids[i].amount >= min /\ \A rank \in StandingRungs(min) : TierRank(bids[i]) >= rank
    BY <2>1, <2>3, TopStands
  <2>5. Leads(a, min)
    BY <2>3, <2>4
  <2>6. QED BY <2>1, <2>5
<1>7. QED BY <1>2, <1>4, <1>5, <1>6

\* A sealed auction's winner pays between the minimum and their own bid, no less than anybody else
\* of their rung offered, and by the second price at most an increment over the best of them
\* (WinnerPaysTheRunnerUp): settlePrice skips the winner's own earlier bids.
LEMMA PricesHold == BaseInv /\ AuctionInv => WinnerPaysTheRunnerUp
<1> DEFINE least == SessionMinimum(auction, rules.spend.cfg.minBid)
           own(w, d) == {auction.bids[i].amount : i \in {j \in Rung(w, d) : auction.bids[j].account = w}}
           rival(w, d) == {auction.bids[i].amount : i \in {j \in Rung(w, d) : auction.bids[j].account # w}}
<1> SUFFICES ASSUME BaseInv, AuctionInv, Bidding, rules.spend.id = "auction_sealed", NEW draws \in Draws,
                    Outcome(draws).winner # None
             PROVE  LET r == Outcome(draws)
                    IN  /\ r.price >= least /\ \E x \in own(r.winner, draws) : r.price <= x
                        /\ \A x \in rival(r.winner, draws) : r.price >= x
                        /\ rules.spend.cfg.pay = "second_price" =>
                             \/ r.price = least
                             \/ \E x \in rival(r.winner, draws) : r.price <= x + rules.spend.cfg.increment
  BY DEF WinnerPaysTheRunnerUp
<1> DEFINE r == Outcome(draws)
           bids == auction.bids
           cfg == rules.spend.cfg
<1>1. rules.spend # None
  BY DEF Bidding, Can
<1>2. r = NoResolution \/ \E min \in Int : DecidesAuction(r, rules.spend, auction, bids, min)
  BY <1>1, Decides
<1>3. r.winner # None
  OBVIOUS
<1> HIDE DEF r
<1>4. PICK min \in Int : DecidesAuction(r, rules.spend, auction, bids, min)
  BY <1>2, <1>3 DEF NoResolution
<1>5. min = least /\ min >= 1
  BY <1>4 DEF DecidesAuction, HasMinimum
<1>6. NamesAWinner(r, cfg, bids, min)
  BY <1>3, <1>4 DEF DecidesAuction, NamesATie
<1>7. \A i \in DOMAIN bids : Tops(bids[i], bids, min) <=> i \in Rung(r.winner, draws)
  <2> TAKE i \in DOMAIN bids
  <2>1. i \in Rung(r.winner, draws) <=>
          bids[i].amount >= min /\ \A k \in StandingRungs(min) : TierRank(bids[i]) >= k
    BY <1>5 DEF Rung
  <2>2. Tops(bids[i], bids, min) =>
          bids[i].amount >= min /\ \A k \in StandingRungs(min) : TierRank(bids[i]) >= k
    BY <1>5, TopStands
  <2>3. (bids[i].amount >= min /\ \A k \in StandingRungs(min) : TierRank(bids[i]) >= k) =>
          Tops(bids[i], bids, min)
    BY <1>5, StandsTop
  <2>4. QED BY <2>1, <2>2, <2>3
<1>8. \A i \in Rung(r.winner, draws) : i \in DOMAIN bids
  BY DEF Rung
<1> DEFINE mine == own(r.winner, draws)
           theirs == rival(r.winner, draws)
<1>9. \A i \in DOMAIN bids : Tops(bids[i], bids, min) /\ bids[i].account = r.winner => bids[i].amount \in mine
  BY <1>7
<1>10. /\ \A x \in theirs : \E j \in Rivals(r, bids, min) : x = bids[j].amount
       /\ \A j \in Rivals(r, bids, min) : bids[j].amount \in theirs
  BY <1>7, <1>8 DEF Rivals
<1> HIDE DEF mine, theirs, bids, cfg
<1>11. r.price >= min
  BY <1>6 DEF NamesAWinner
<1>12. \E x \in mine : r.price <= x
  BY <1>6, <1>9 DEF NamesAWinner
<1>13. \A x \in theirs : r.price >= x
  BY <1>6, <1>10 DEF NamesAWinner
<1>14. cfg.pay = "second_price" => r.price = min \/ \E x \in theirs : r.price <= x + cfg.increment
  BY <1>6, <1>10 DEF NamesAWinner
<1>15. QED BY <1>5, <1>11, <1>12, <1>13, <1>14 DEF r, mine, theirs, cfg

\* What the auctions rest on is invariant.
LEMMA AuctionsHold == Spec => [](BaseInv /\ AuctionInv)
<1>1. Init => BaseInv /\ AuctionInv
  BY BaseInit, AuctionInit
<1>2. BaseInv /\ AuctionInv /\ [Next]_vars => (BaseInv /\ AuctionInv)'
  BY BaseNext, AuctionNext
<1>3. QED BY <1>1, <1>2, PTL DEF Spec

\* No settlement of any bids, rules and draws ties anybody with themselves (TiesAreBetweenPeople).
THEOREM TiesCorrect == Spec => []TiesAreBetweenPeople
  BY AuctionsHold, TiesHold, PTL

\* The rebid a tie asks for gets somewhere (RebidBeatsTheTie).
THEOREM RebidsCorrect == Spec => []RebidBeatsTheTie
  BY AuctionsHold, RebidHolds, PTL

\* The ladder comes before amounts, in whatever order the bids came (HigherRungWins).
THEOREM RungsCorrect == Spec => []HigherRungWins
  BY AuctionsHold, RungsHold, PTL

\* A sealed auction charges the runner-up's price (WinnerPaysTheRunnerUp).
THEOREM PricesCorrect == Spec => []WinnerPaysTheRunnerUp
  BY AuctionsHold, PricesHold, PTL

-----------------------------------------------------------------------------
(* The order in which bids arrive.                                           *)

\* Bids that are kept are kept with their times.
LEMMA KeptSeparate ==
  ASSUME NEW s \in Seq(BidRows), NEW S \in SUBSET DOMAIN s, Separate(s)
  PROVE  Separate(Kept(s, S))
<1> DEFINE k == Kept(s, S)
           a == InOrder(S)
           m == Cardinality(S)
<1>1. DOMAIN k = 1..m /\ \A i \in 1..m : a[i] \in S /\ k[i] = s[a[i]]
  BY KeptLists
<1>2. \A i, j \in 1..m : a[i] = a[j] => i = j
  BY KeptLists
<1> HIDE DEF k, a, m
<1>3. \A i \in DOMAIN k : a[i] \in DOMAIN s /\ k[i] = s[a[i]]
  BY <1>1
<1>4. ASSUME NEW i \in DOMAIN k, NEW j \in DOMAIN k, k[i].account = k[j].account, k[i].at = k[j].at
      PROVE  i = j
  <2>1. a[i] = a[j]
    BY <1>3, <1>4 DEF Separate
  <2>2. QED BY <1>1, <1>2, <2>1
<1>5. QED BY <1>4 DEF Separate, k

\* Bids listed otherwise are none only if there are none.
LEMMA RearrangedNone ==
  ASSUME NEW s \in Seq(BidRows), NEW t \in Seq(BidRows), NEW f, Rearranges(t, s, f)
  PROVE  t = <<>> <=> s = <<>>
<1>1. Len(t) = Len(s)
  BY RearrangedLength
<1>2. t = <<>> <=> Len(t) = 0
  BY EmptySeq
<1>3. s = <<>> <=> Len(s) = 0
  BY EmptySeq
<1>4. QED BY <1>1, <1>2, <1>3

\* The same bids, listed otherwise, with something to separate every two of one account.
Relisted(t, s, f) == s \in Seq(BidRows) /\ t \in Seq(BidRows) /\ Rearranges(t, s, f) /\ Separate(s)

\* A selection of bids by what each of them is.
LEMMA SelectedRelists ==
  ASSUME NEW s, NEW t, NEW f, Relisted(t, s, f),
         NEW S \in SUBSET DOMAIN s, NEW U \in SUBSET DOMAIN t, \A i \in DOMAIN t : i \in U <=> f[i] \in S
  PROVE  \E g : Relisted(Kept(t, U), Kept(s, S), g)
<1>1. s \in Seq(BidRows) /\ t \in Seq(BidRows) /\ Rearranges(t, s, f) /\ Separate(s)
  BY DEF Relisted
<1>2. Kept(s, S) \in Seq(BidRows)
  BY <1>1, KeptReaches
<1>3. Kept(t, U) \in Seq(BidRows)
  BY <1>1, KeptReaches
<1>4. Separate(Kept(s, S))
  BY <1>1, KeptSeparate
<1>5. \E g : Rearranges(Kept(t, U), Kept(s, S), g)
  BY <1>1, KeptRearranges
<1>6. QED BY <1>2, <1>3, <1>4, <1>5 DEF Relisted

\* The rows to rank of bids, and ranks that follow a relisting.
RowsOf(x, s, R) == x = [i \in DOMAIN s |-> [bid |-> s[i], rank |-> R[i]]]
Reranked(Q, R, t, s, f) == (\A i \in DOMAIN s : R[i] \in Int) /\ \A i \in DOMAIN t : Q[i] = R[f[i]]

\* Bids that something separates are ranked the same however they are listed.
LEMMA RanksIgnoreOrder ==
  ASSUME NEW s, NEW t, NEW f, Relisted(t, s, f), NEW R, NEW Q, Reranked(Q, R, t, s, f),
         NEW x, RowsOf(x, s, R), NEW y, RowsOf(y, t, Q)
  PROVE  RankBids(y) = RankBids(x)
<1>0. /\ s \in Seq(BidRows) /\ t \in Seq(BidRows) /\ Rearranges(t, s, f) /\ Separate(s)
      /\ (\A i \in DOMAIN s : R[i] \in Int) /\ (\A i \in DOMAIN t : Q[i] = R[f[i]])
      /\ x = [i \in DOMAIN s |-> [bid |-> s[i], rank |-> R[i]]]
      /\ y = [i \in DOMAIN t |-> [bid |-> t[i], rank |-> Q[i]]]
  BY DEF Relisted, Reranked, RowsOf
<1>1. DOMAIN s = 1..Len(s) /\ Len(s) \in Nat /\ \A i \in 1..Len(s) : s[i] \in BidRows
  BY <1>0, LenProperties, ElementOfSeq
<1>2. DOMAIN t = 1..Len(t) /\ Len(t) \in Nat /\ \A i \in 1..Len(t) : t[i] \in BidRows
  BY <1>0, LenProperties, ElementOfSeq
<1>3. \A i \in DOMAIN t : f[i] \in DOMAIN s /\ t[i] = s[f[i]]
  BY <1>0 DEF Rearranges
<1>4. \A i \in 1..Len(s) : [bid |-> s[i], rank |-> R[i]] \in RankedRows
  BY <1>0, <1>1 DEF RankedRows
<1>5. \A i \in 1..Len(t) : [bid |-> t[i], rank |-> Q[i]] \in RankedRows
  BY <1>0, <1>2, <1>3 DEF RankedRows
<1>6. x \in [1..Len(s) -> RankedRows] /\ y \in [1..Len(t) -> RankedRows]
  BY <1>0, <1>1, <1>2, <1>4, <1>5
<1>7. x \in Seq(RankedRows) /\ y \in Seq(RankedRows)
  BY <1>1, <1>2, <1>6
<1>8. DOMAIN x = DOMAIN s /\ \A i \in DOMAIN s : x[i] = [bid |-> s[i], rank |-> R[i]]
  BY <1>0
<1>9. DOMAIN y = DOMAIN t /\ \A i \in DOMAIN t : y[i] = [bid |-> t[i], rank |-> Q[i]]
  BY <1>0
<1>10. \A i \in DOMAIN t : y[i] = x[f[i]]
  <2> TAKE i \in DOMAIN t
  <2>1. f[i] \in DOMAIN s /\ t[i] = s[f[i]] /\ Q[i] = R[f[i]]
    BY <1>0, <1>3
  <2>2. x[f[i]] = [bid |-> s[f[i]], rank |-> R[f[i]]]
    BY <1>8, <2>1
  <2>3. y[i] = [bid |-> t[i], rank |-> Q[i]]
    BY <1>9
  <2>4. QED BY <2>1, <2>2, <2>3
<1>11. Rearranges(y, x, f)
  <2>1. \A i \in DOMAIN y : f[i] \in DOMAIN x /\ y[i] = x[f[i]]
    BY <1>3, <1>8, <1>9, <1>10
  <2>2. \A i, j \in DOMAIN y : f[i] = f[j] => i = j
    BY <1>0, <1>9 DEF Rearranges
  <2>3. \A j \in DOMAIN x : \E i \in DOMAIN y : f[i] = j
    BY <1>0, <1>8, <1>9 DEF Rearranges
  <2>4. QED BY <2>1, <2>2, <2>3 DEF Rearranges
<1>12. ASSUME NEW i \in DOMAIN x, NEW j \in DOMAIN x PROVE i = j \/ Beats(x[i], x[j]) \/ Beats(x[j], x[i])
  <2>1. i \in 1..Len(s) /\ j \in 1..Len(s)
    BY <1>1, <1>8
  <2>2. x[i] \in RankedRows /\ x[j] \in RankedRows
    BY <1>6, <2>1
  <2>3. x[i].bid = s[i] /\ x[j].bid = s[j]
    BY <1>1, <1>8, <2>1
  <2>4. i = j \/ s[i].account # s[j].account \/ s[i].at # s[j].at
    BY <1>0, <1>1, <2>1 DEF Separate
  <2>5. QED BY <2>2, <2>3, <2>4, BeatsOrders
<1>13. QED BY <1>7, <1>11, <1>12, RankBidsIgnoresOrder

\* EligibleBids takes the same bids.
LEMMA EligibleRelists ==
  ASSUME NEW s, NEW t, NEW f, Relisted(t, s, f), NEW min
  PROVE  \E g : Relisted(EligibleBids(t, min), EligibleBids(s, min), g)
<1> DEFINE S == {i \in DOMAIN s : Meets(s[i], min)}
           U == {i \in DOMAIN t : Meets(t[i], min)}
<1>1. EligibleBids(s, min) = Kept(s, S) /\ EligibleBids(t, min) = Kept(t, U)
  BY DEF EligibleBids, Meets
<1>2. S \in SUBSET DOMAIN s /\ U \in SUBSET DOMAIN t
  OBVIOUS
<1>3. s \in Seq(BidRows) /\ t \in Seq(BidRows) /\ Rearranges(t, s, f) /\ Separate(s)
  BY DEF Relisted
<1>4. \A i \in DOMAIN t : f[i] \in DOMAIN s /\ t[i] = s[f[i]]
  BY <1>3 DEF Rearranges
<1>5. \A i \in DOMAIN t : i \in U <=> f[i] \in S
  BY <1>4
<1> HIDE DEF S, U
<1>6. \E g : Relisted(Kept(t, U), Kept(s, S), g)
  BY <1>2, <1>5, SelectedRelists
<1>7. QED BY <1>1, <1>6

\* resolveTier takes the same bids.
LEMMA RungRelists ==
  ASSUME NEW s, NEW t, NEW f, Relisted(t, s, f)
  PROVE  \E g : Relisted(WinningRung(t), WinningRung(s), g)
<1> DEFINE S == {i \in DOMAIN s : \A j \in DOMAIN s : TierRank(s[j]) <= TierRank(s[i])}
           U == {i \in DOMAIN t : \A j \in DOMAIN t : TierRank(t[j]) <= TierRank(t[i])}
<1>1. WinningRung(s) = Kept(s, S) /\ WinningRung(t) = Kept(t, U)
  BY DEF WinningRung
<1>2. S \in SUBSET DOMAIN s /\ U \in SUBSET DOMAIN t
  OBVIOUS
<1>3. s \in Seq(BidRows) /\ t \in Seq(BidRows) /\ Rearranges(t, s, f) /\ Separate(s)
  BY DEF Relisted
<1>4. /\ \A i \in DOMAIN t : f[i] \in DOMAIN s /\ t[i] = s[f[i]]
      /\ \A j \in DOMAIN s : \E i \in DOMAIN t : f[i] = j
  BY <1>3 DEF Rearranges
<1>5. ASSUME NEW i \in DOMAIN t PROVE i \in U <=> f[i] \in S
  <2>1. f[i] \in DOMAIN s /\ t[i] = s[f[i]]
    BY <1>4
  <2>2. (\A j \in DOMAIN t : TierRank(t[j]) <= TierRank(t[i])) <=>
          \A j \in DOMAIN s : TierRank(s[j]) <= TierRank(s[f[i]])
    <3>1. ASSUME \A j \in DOMAIN t : TierRank(t[j]) <= TierRank(t[i]), NEW j \in DOMAIN s
          PROVE  TierRank(s[j]) <= TierRank(s[f[i]])
      <4>1. PICK k \in DOMAIN t : f[k] = j
        BY <1>4
      <4>2. t[k] = s[j]
        BY <1>4, <4>1
      <4>3. QED BY <2>1, <3>1, <4>2
    <3>2. ASSUME \A j \in DOMAIN s : TierRank(s[j]) <= TierRank(s[f[i]]), NEW j \in DOMAIN t
          PROVE  TierRank(t[j]) <= TierRank(t[i])
      <4>1. f[j] \in DOMAIN s /\ t[j] = s[f[j]]
        BY <1>4
      <4>2. QED BY <2>1, <3>2, <4>1
    <3>3. QED BY <3>1, <3>2
  <2>3. QED BY <2>1, <2>2
<1> HIDE DEF S, U
<1>6. \E g : Relisted(Kept(t, U), Kept(s, S), g)
  <2>1. \A i \in DOMAIN t : i \in U <=> f[i] \in S
    BY <1>5
  <2>2. QED BY <1>2, <2>1, SelectedRelists
<1>7. QED BY <1>1, <1>6

\* Ranking by amount gives the same ranking.
LEMMA AmountsIgnoreOrder ==
  ASSUME NEW s, NEW t, NEW f, Relisted(t, s, f)
  PROVE  ByAmount(t) = ByAmount(s)
<1> DEFINE R == [i \in DOMAIN s |-> s[i].amount]
           Q == [i \in DOMAIN t |-> t[i].amount]
           x == [i \in DOMAIN s |-> [bid |-> s[i], rank |-> s[i].amount]]
           y == [i \in DOMAIN t |-> [bid |-> t[i], rank |-> t[i].amount]]
<1>1. s \in Seq(BidRows) /\ t \in Seq(BidRows) /\ Rearranges(t, s, f) /\ Separate(s)
  BY DEF Relisted
<1>2. \A i \in DOMAIN s : R[i] \in Int
  <2> TAKE i \in DOMAIN s
  <2>1. s[i] \in BidRows
    BY <1>1, LenProperties, ElementOfSeq
  <2>2. s[i].amount \in Nat
    BY <2>1, BidType
  <2>3. QED BY <2>2
<1>3. \A i \in DOMAIN t : Q[i] = R[f[i]]
  BY <1>1 DEF Rearranges
<1>4. RowsOf(x, s, R) /\ RowsOf(y, t, Q)
  BY DEF RowsOf
<1>5. Reranked(Q, R, t, s, f)
  BY <1>2, <1>3 DEF Reranked
<1>6. RankBids(y) = RankBids(x)
  <2> HIDE DEF R, Q, x, y
  <2>1. QED BY <1>4, <1>5, RanksIgnoreOrder
<1>7. QED BY <1>6 DEF ByAmount

\* So the two auctions rank the same bids the same.
LEMMA TopIgnoresOrder ==
  ASSUME NEW s, NEW t, NEW f, Relisted(t, s, f), NEW min
  PROVE  /\ EligibleBids(t, min) = <<>> <=> EligibleBids(s, min) = <<>>
         /\ ByAmount(WinningRung(EligibleBids(t, min))) = ByAmount(WinningRung(EligibleBids(s, min)))
<1> DEFINE d == EligibleBids(s, min)
           e == EligibleBids(t, min)
<1>1. PICK g : Relisted(e, d, g)
  BY EligibleRelists
<1> HIDE DEF d, e
<1>2. e = <<>> <=> d = <<>>
  BY <1>1, RearrangedNone DEF Relisted
<1>3. PICK h : Relisted(WinningRung(e), WinningRung(d), h)
  BY <1>1, RungRelists
<1>4. ByAmount(WinningRung(e)) = ByAmount(WinningRung(d))
  BY <1>3, AmountsIgnoreOrder
<1>5. QED BY <1>2, <1>4 DEF d, e

\* auction_open and auction_sealed settle the same.
LEMMA AuctionsIgnoreOrder ==
  ASSUME NEW s, NEW t, NEW f, Relisted(t, s, f), NEW cfg, NEW session, NEW draws
  PROVE  /\ SettleOpen(cfg, session, t, draws) = SettleOpen(cfg, session, s, draws)
         /\ SettleSealed(cfg, session, t) = SettleSealed(cfg, session, s)
<1> DEFINE min == SessionMinimum(session, cfg.minBid)
<1>1. /\ EligibleBids(t, min) = <<>> <=> EligibleBids(s, min) = <<>>
      /\ ByAmount(WinningRung(EligibleBids(t, min))) = ByAmount(WinningRung(EligibleBids(s, min)))
  BY TopIgnoresOrder
<1> HIDE DEF min
<1>2. SettleOpen(cfg, session, t, draws) = SettleOpen(cfg, session, s, draws)
  BY <1>1 DEF SettleOpen, min
<1>3. SettleSealed(cfg, session, t) = SettleSealed(cfg, session, s)
  BY <1>1 DEF SettleSealed, min
<1>4. QED BY <1>2, <1>3

\* relative_bid settles the same.
LEMMA SharesIgnoreOrder ==
  ASSUME NEW s, NEW t, NEW f, Relisted(t, s, f), NEW cfg, NEW frozen, NEW session, NEW draws
  PROVE  SettleRelative(cfg, frozen, session, t, draws) = SettleRelative(cfg, frozen, session, s, draws)
<1> DEFINE d == EligibleBids(s, session.min)
           e == EligibleBids(t, session.min)
           Share(b) == ShareBp(b.amount, frozen[b.account])
           S == {i \in DOMAIN d : ShareOk(cfg, d[i].amount, frozen[d[i].account])}
           U == {i \in DOMAIN e : ShareOk(cfg, e[i].amount, frozen[e[i].account])}
           v == Kept(d, S)
           w == Kept(e, U)
           R == [i \in DOMAIN v |-> Share(v[i])]
           Q == [i \in DOMAIN w |-> Share(w[i])]
           x == [i \in DOMAIN v |-> [bid |-> v[i], rank |-> ShareBp(v[i].amount, frozen[v[i].account])]]
           y == [i \in DOMAIN w |-> [bid |-> w[i], rank |-> ShareBp(w[i].amount, frozen[w[i].account])]]
<1>1. /\ SettleRelative(cfg, frozen, session, s, draws) =
           IF v = <<>> THEN NoResolution ELSE SettleHighest(RankBids(x), draws)
      /\ SettleRelative(cfg, frozen, session, t, draws) =
           IF w = <<>> THEN NoResolution ELSE SettleHighest(RankBids(y), draws)
  BY DEF SettleRelative
<1>2. \A i \in S : i \in DOMAIN d /\ Share(d[i]) \in Int
  BY DEF ShareOk
<1>3. S \in SUBSET DOMAIN d /\ U \in SUBSET DOMAIN e
  OBVIOUS
<1>4. PICK g : Relisted(e, d, g)
  BY EligibleRelists
<1>5. \A i \in DOMAIN e : i \in U <=> g[i] \in S
  <2>1. \A i \in DOMAIN e : g[i] \in DOMAIN d /\ e[i] = d[g[i]]
    BY <1>4 DEF Relisted, Rearranges
  <2> HIDE DEF d, e
  <2>2. QED BY <2>1
<1>6. RowsOf(x, v, R) /\ RowsOf(y, w, Q)
  BY DEF RowsOf
<1>7. (\A i \in DOMAIN v : R[i] = Share(v[i])) /\ \A i \in DOMAIN w : Q[i] = Share(w[i])
  OBVIOUS
<1> HIDE DEF d, e, S, U, R, Q, x, y, Share
<1>8. \E h : Relisted(w, v, h)
  BY <1>3, <1>4, <1>5, SelectedRelists
<1>9. \A i \in DOMAIN v : \E j \in S : v[i] = d[j]
  <2>1. d \in Seq(BidRows)
    BY <1>4 DEF Relisted
  <2>2. /\ DOMAIN Kept(d, S) = 1..Len(Kept(d, S))
        /\ \A k \in 1..Len(Kept(d, S)) : \E i \in S : Kept(d, S)[k] = d[i]
    BY <1>3, <2>1, KeptReaches
  <2>3. QED BY <2>2
<1> HIDE DEF v, w
<1>10. PICK h : Relisted(w, v, h)
  BY <1>8
<1>11. w = <<>> <=> v = <<>>
  BY <1>10, RearrangedNone DEF Relisted
<1>12. Reranked(Q, R, w, v, h)
  <2>1. \A i \in DOMAIN v : R[i] \in Int
    BY <1>2, <1>7, <1>9
  <2>2. \A i \in DOMAIN w : h[i] \in DOMAIN v /\ w[i] = v[h[i]]
    BY <1>10 DEF Relisted, Rearranges
  <2>3. \A i \in DOMAIN w : Q[i] = R[h[i]]
    BY <1>7, <2>2
  <2>4. QED BY <2>1, <2>3 DEF Reranked
<1>13. RankBids(y) = RankBids(x)
  BY <1>6, <1>10, <1>12, RanksIgnoreOrder
<1>14. QED BY <1>1, <1>11, <1>13

\* roll settles the same: entries of distinct accounts are sorted by id, and no others roll.
LEMMA RollsIgnoreOrder ==
  ASSUME NEW s, NEW t, NEW f, Relisted(t, s, f), NEW cfg, NEW draws
  PROVE  SettleRoll(cfg, t, draws) = SettleRoll(cfg, s, draws)
<1>1. s \in Seq(BidRows) /\ t \in Seq(BidRows) /\ Rearranges(t, s, f)
  BY DEF Relisted
<1>2. t = <<>> <=> s = <<>>
  BY <1>1, RearrangedNone
<1>3. /\ \A i \in DOMAIN t : f[i] \in DOMAIN s /\ t[i] = s[f[i]]
      /\ \A i, j \in DOMAIN t : f[i] = f[j] => i = j
      /\ \A j \in DOMAIN s : \E i \in DOMAIN t : f[i] = j
  BY <1>1 DEF Rearranges
<1>4. Distinct(t) <=> Distinct(s)
  <2>1. ASSUME Distinct(s), NEW i \in DOMAIN t, NEW j \in DOMAIN t, t[i].account = t[j].account PROVE i = j
    <3>1. f[i] = f[j]
      BY <1>3, <2>1 DEF Distinct
    <3>2. QED BY <1>3, <3>1
  <2>2. ASSUME Distinct(t), NEW i \in DOMAIN s, NEW j \in DOMAIN s, s[i].account = s[j].account PROVE i = j
    <3>1. PICK k \in DOMAIN t : f[k] = i
      BY <1>3
    <3>2. PICK l \in DOMAIN t : f[l] = j
      BY <1>3
    <3>3. t[k].account = t[l].account
      BY <1>3, <2>2, <3>1, <3>2
    <3>4. k = l
      BY <2>2, <3>3 DEF Distinct
    <3>5. QED BY <3>1, <3>2, <3>4
  <2>3. QED BY <2>1, <2>2 DEF Distinct
<1>5. CASE ~Distinct(s)
  BY <1>4, <1>5 DEF SettleRoll
<1>6. CASE Distinct(s)
  <2>1. \A i \in DOMAIN s : s[i].account \in Int
    <3> TAKE i \in DOMAIN s
    <3>1. s[i] \in BidRows
      BY <1>1, LenProperties, ElementOfSeq
    <3>2. QED BY <3>1, BidType
  <2>2. Len(t) = Len(s)
    BY <1>1, RearrangedLength
  <2>3. AccountsDiffer(s)
    BY <1>6 DEF Distinct, AccountsDiffer
  <2>4. SortByAccount(t) = SortByAccount(s)
    BY <1>1, <2>1, <2>2, <2>3, SortIgnoresOrder
  <2>5. QED BY <1>2, <1>4, <2>4 DEF SettleRoll
<1>7. QED BY <1>5, <1>6

\* Every strategy settles the same.
LEMMA SettlementsIgnoreOrder ==
  ASSUME NEW s, NEW t, NEW f, Relisted(t, s, f), NEW rule, NEW ledger, NEW session, NEW draws
  PROVE  SettleAuction(rule, ledger, session, t, draws) = SettleAuction(rule, ledger, session, s, draws)
<1> DEFINE cfg == rule.cfg
           frozen == FrozenBalances(ledger, session, s)
<1>1. FrozenBalances(ledger, session, t) = frozen
  <2>1. Rearranges(t, s, f)
    BY DEF Relisted
  <2>2. {t[i].account : i \in DOMAIN t} = {s[i].account : i \in DOMAIN s}
    BY <2>1 DEF Rearranges
  <2>3. QED BY <2>2 DEF FrozenBalances
<1> HIDE DEF cfg, frozen
<1>2. SettleOpen(cfg, session, t, draws) = SettleOpen(cfg, session, s, draws)
  BY AuctionsIgnoreOrder
<1>3. SettleSealed(cfg, session, t) = SettleSealed(cfg, session, s)
  BY AuctionsIgnoreOrder
<1>4. SettleRelative(cfg, frozen, session, t, draws) = SettleRelative(cfg, frozen, session, s, draws)
  BY SharesIgnoreOrder
<1>5. SettleRoll(cfg, t, draws) = SettleRoll(cfg, s, draws)
  BY RollsIgnoreOrder
<1>6. QED BY <1>1, <1>2, <1>3, <1>4, <1>5 DEF SettleAuction, cfg, frozen

\* While the bids are open, the order they are handed to SettleAuction in changes neither winner,
\* price nor tie (SettlementIgnoresArrival), if no account bids twice in one microsecond: run
\* MCPoolInstant has the counterexample where one does.
THEOREM ArrivalIgnored ==
  ASSUME OneBidPerInstant
  PROVE  Spec => []SettlementIgnoresArrival
<1>1. ASSUME AuctionInv, NEW f \in Bijection(DOMAIN auction.bids, DOMAIN auction.bids)
      PROVE  Relisted(Permuted(auction.bids, f), auction.bids, f)
  <2> DEFINE s == auction.bids
             D == DOMAIN s
             t == Permuted(s, f)
  <2>1. s \in Seq(BidRows) /\ Separate(s)
    BY <1>1 DEF AuctionInv
  <2>2. D = 1..Len(s) /\ Len(s) \in Nat /\ \A i \in D : s[i] \in BidRows
    BY <2>1, LenProperties, ElementOfSeq
  <2>3. DOMAIN t = D /\ \A i \in D : t[i] = s[f[i]]
    BY DEF Permuted
  <2>4. f \in Bijection(D, D)
    BY <1>1
  <2> HIDE DEF s, D, t
  <2>5. /\ f \in [D -> D] /\ (\A j \in D : \E i \in D : f[i] = j)
        /\ \A i, j \in D : f[i] = f[j] => i = j
    BY <2>4 DEF Bijection, Injection, Surjection, IsInjective
  <2>6. Rearranges(t, s, f)
    BY <2>3, <2>5 DEF Rearranges, D
  <2>7. t \in Seq(BidRows)
    <3>1. \A i \in 1..Len(s) : t[i] \in BidRows
      BY <2>2, <2>3, <2>5
    <3>2. t = [i \in 1..Len(s) |-> t[i]]
      BY <2>2, <2>3 DEF t, Permuted, s, D
    <3>3. t \in [1..Len(s) -> BidRows]
      BY <3>1, <3>2
    <3>4. QED BY <2>2, <3>3
  <2>8. QED BY <2>1, <2>6, <2>7 DEF Relisted, s, t
<1>2. AuctionInv => SettlementIgnoresArrival
  <2> SUFFICES ASSUME AuctionInv, NEW f \in Bijection(DOMAIN auction.bids, DOMAIN auction.bids), NEW draws \in Draws
               PROVE  SettleAuction(rules.spend, log, auction, Permuted(auction.bids, f), draws) = Outcome(draws)
    BY DEF SettlementIgnoresArrival
  <2>1. Relisted(Permuted(auction.bids, f), auction.bids, f)
    BY <1>1
  <2>2. SettleAuction(rules.spend, log, auction, Permuted(auction.bids, f), draws)
          = SettleAuction(rules.spend, log, auction, auction.bids, draws)
    BY <2>1, SettlementsIgnoreOrder
  <2>3. QED BY <2>2 DEF Outcome, Resolution
<1>3. QED BY <1>2, AuctionsHold, PTL

-----------------------------------------------------------------------------
(* Proposals: what every planner may put into one.                           *)

Known == Members \cup SystemAccounts
IsRow(e) == e = Entry(e.account, e.amount) /\ e.account \in Known /\ e.amount # 0
KnownRows(es) == (\E S : es \in Seq(S)) /\ \A i \in DOMAIN es : IsRow(es[i])
KnownPlan(p) == p.entries \in Seq(Rows(Members))

\* What a plan of known rows says of each.
LEMMA KnownEach ==
  ASSUME NEW p, KnownPlan(p)
  PROVE  /\ IsEntries(p.entries)
         /\ \A i \in DOMAIN p.entries : p.entries[i].account \in Known /\ p.entries[i].amount \in Cp \ {0}
<1> DEFINE es == p.entries
<1>1. es \in Seq(Rows(Members))
  BY DEF KnownPlan
<1>2. \A i \in DOMAIN es : es[i] \in Rows(Members)
  BY <1>1, ElementOfSeq, LenProperties
<1>3. IsEntries(es)
  BY <1>1, RowsAreEntries DEF Rows
<1> HIDE DEF es
<1>4. \A i \in DOMAIN es : es[i].account \in Known /\ es[i].amount \in Cp \ {0}
  BY <1>2 DEF Rows, Known
<1>5. QED BY <1>3, <1>4 DEF es

\* Rows of integers for accounts that exist, none of them zero, are known rows.
LEMMA RowsKnown ==
  ASSUME NEW S, NEW es \in Seq(S), S \subseteq [account : Int, amount : Int],
         \A i \in DOMAIN es : es[i].account \in Known /\ es[i].amount # 0
  PROVE  KnownRows(es)
<1>1. \A i \in DOMAIN es : es[i] \in [account : Int, amount : Int]
  BY ElementOfSeq, LenProperties
<1>2. \A i \in DOMAIN es : es[i] = Entry(es[i].account, es[i].amount)
  BY <1>1 DEF Entry
<1>3. QED BY <1>2 DEF KnownRows, IsRow

\* A row on each side.
LEMMA PairKnown ==
  ASSUME NEW a \in Known, NEW b \in Known, NEW x, NEW y, x # 0, y # 0
  PROVE  KnownRows(<<Entry(a, x), Entry(b, y)>>)
<1> DEFINE e == Entry(a, x)
           f == Entry(b, y)
           es == <<e, f>>
<1>1. IsRow(e) /\ IsRow(f)
  BY DEF IsRow, Entry
<1> HIDE DEF e, f
<1>2. es \in Seq({e, f}) /\ \A i \in DOMAIN es : es[i] = e \/ es[i] = f
  OBVIOUS
<1>3. KnownRows(es)
  BY <1>1, <1>2 DEF KnownRows
<1>4. QED BY <1>3 DEF e, f

\* proposeZeroSum lets no unrepresentable amount through.
LEMMA ProposedKnown ==
  ASSUME NEW rule, NEW kind, NEW period, NEW floor, NEW es, KnownRows(es),
         NEW p, p = Propose(rule, kind, period, floor, es), p # NoPlan
  PROVE  KnownPlan(p)
<1>1. p.entries = es /\ \A i \in DOMAIN es : es[i].amount \in Cp
  BY DEF Propose
<1>2. \A i \in DOMAIN es : es[i] \in Rows(Members)
  BY <1>1 DEF KnownRows, IsRow, Entry, Rows, Known
<1>3. PICK S : es \in Seq(S)
  BY DEF KnownRows
<1>4. es \in Seq(Rows(Members))
  <2>1. \A k \in 1..Len(es) : es[k] \in Rows(Members)
    BY <1>2, <1>3, LenProperties
  <2>2. QED BY <1>3, <2>1, SeqNarrow
<1>5. QED BY <1>1, <1>4 DEF KnownPlan

\* One row more, before the others or after them.
LEMMA OneRowMore ==
  ASSUME NEW es, KnownRows(es), NEW e, IsRow(e)
  PROVE  KnownRows(<<e>> \o es) /\ KnownRows(Append(es, e))
<1>0. PICK S : es \in Seq(S)
  BY DEF KnownRows
<1> DEFINE n == Len(es)
           before == <<e>> \o es
           after == Append(es, e)
           T == S \cup {e}
<1>1. n \in Nat /\ DOMAIN es = 1..n
  BY <1>0, LenProperties
<1>2. es \in Seq(T) /\ e \in T
  <2>1. S \subseteq T
    OBVIOUS
  <2>2. QED BY <1>0, <2>1, SeqWiden
<1> HIDE DEF T, n
<1>3. before \in Seq(T) /\ DOMAIN before = 1..(n + 1) /\ before[1] = e /\ \A i \in 2..(n + 1) : before[i] = es[i - 1]
  BY <1>1, <1>2 DEF n
<1>4. after \in Seq(T) /\ DOMAIN after = 1..(n + 1) /\ after[n + 1] = e /\ \A i \in 1..n : after[i] = es[i]
  BY <1>1, <1>2, AppendProperties DEF n
<1> HIDE DEF before, after
<1>5. \A i \in 1..(n + 1) : (i = 1 \/ (i \in 2..(n + 1) /\ i - 1 \in 1..n)) /\ (i = n + 1 \/ i \in 1..n)
  BY <1>1
<1>6. KnownRows(before)
  <2> SUFFICES ASSUME NEW i \in 1..(n + 1) PROVE IsRow(before[i])
    BY <1>3 DEF KnownRows
  <2>1. CASE i = 1
    BY <1>3, <2>1
  <2>2. CASE i \in 2..(n + 1) /\ i - 1 \in 1..n
    BY <1>1, <1>3, <2>2 DEF KnownRows
  <2>3. QED BY <1>5, <2>1, <2>2
<1>7. KnownRows(after)
  <2> SUFFICES ASSUME NEW i \in 1..(n + 1) PROVE IsRow(after[i])
    BY <1>4 DEF KnownRows
  <2>1. CASE i = n + 1
    BY <1>4, <2>1
  <2>2. CASE i \in 1..n
    BY <1>1, <1>4, <2>2 DEF KnownRows
  <2>3. QED BY <1>5, <2>1, <2>2
<1>8. QED BY <1>6, <1>7 DEF before, after

\* What the bank pays for credits is not nothing.
LEMMA FundedKnown ==
  ASSUME NEW who, who \subseteq Known, NEW es, CreditsOf(es, who)
  PROVE  KnownRows(FundedByBank(es))
<1> DEFINE C == [account : Int, amount : Nat]
           x == Amounts(es)
           ones == [k \in 1..Len(es) |-> 1]
<1>1. es \in Seq(C) /\ es # <<>> /\ \A k \in DOMAIN es : es[k].amount # 0 /\ es[k].account \in who
  BY DEF CreditsOf
<1>2. DOMAIN es = 1..Len(es) /\ Len(es) \in Nat /\ Len(es) # 0 /\ \A k \in 1..Len(es) : es[k].amount \in Nat
  <2>1. \A c \in C : c.amount \in Nat
    OBVIOUS
  <2> HIDE DEF C
  <2>2. QED BY <1>1, <2>1, LenProperties, ElementOfSeq, EmptySeq
<1>3. x \in Seq(Int) /\ Len(x) = Len(es) /\ \A k \in 1..Len(es) : x[k] >= 1
  <2>1. x = [k \in 1..Len(es) |-> es[k].amount]
    BY <1>2 DEF Amounts
  <2>2. \A k \in 1..Len(es) : es[k].amount \in Int /\ es[k].amount >= 1
    BY <1>1, <1>2
  <2> HIDE DEF x
  <2>3. QED BY <1>2, <2>1, <2>2
<1>4. ones \in Seq(Int) /\ Len(ones) = Len(es) /\ \A k \in 1..Len(ones) : ones[k] = 1
  BY <1>2
<1> HIDE DEF x, ones
<1>5. Total(ones) = 1 * Len(ones)
  BY <1>4, TotalConstant
<1>6. Total(ones) <= Total(x) /\ Total(x) \in Int
  BY <1>3, <1>4, TotalMonotone, TotalType
<1>7. -Total(x) # 0
  BY <1>2, <1>4, <1>5, <1>6
<1> DEFINE e == Entry(Bank, -Total(x))
<1>8. IsRow(e)
  BY <1>7 DEF IsRow, Entry, Known, SystemAccounts
<1>9. KnownRows(es)
  <2>1. C \subseteq [account : Int, amount : Int]
    OBVIOUS
  <2> HIDE DEF C
  <2>2. QED BY <1>1, <2>1, RowsKnown
<1>10. FundedByBank(es) = <<e>> \o es
  BY DEF FundedByBank, x
<1> HIDE DEF e, C
<1>11. QED BY <1>8, <1>9, <1>10, OneRowMore

\* A run moves only its targets, and nobody by nothing.
LEMMA MovesKnown ==
  ASSUME NEW f, DOMAIN f \in SUBSET Nat, IsFiniteSet(DOMAIN f), DOMAIN f \subseteq Known
  PROVE  KnownRows(MovesOf(f)) /\ KnownRows(PaidToBank(MovesOf(f)))
<1> DEFINE S == Moving(f)
           L == Cardinality(S)
           who == InOrder(S)
           es == MovesOf(f)
           T == {Entry(a, f[a]) : a \in S}
<1>1. S \in SUBSET Int /\ IsFiniteSet(S) /\ S \subseteq Known /\ \A a \in S : f[a] # 0
  <2>1. S \in SUBSET DOMAIN f
    BY DEF Moving
  <2>2. IsFiniteSet(S)
    BY <2>1, FS_Subset
  <2>3. QED BY <2>1, <2>2 DEF Moving
<1>2. DOMAIN who = 1..L /\ L \in Nat /\ \A k \in 1..L : who[k] \in S
  <2> HIDE DEF S
  <2>1. QED BY <1>1, OrderLists
<1>3. es = [k \in 1..L |-> Entry(who[k], f[who[k]])]
  <2>1. es = [k \in DOMAIN who |-> Entry(who[k], f[who[k]])]
    BY DEF MovesOf, Moving
  <2> HIDE DEF es, who, L, S
  <2>2. QED BY <1>2, <2>1
<1> HIDE DEF S, L, who, es
<1>4. es \in Seq(T)
  BY <1>2, <1>3
<1>5. \A k \in DOMAIN es : /\ k \in 1..L /\ es[k] = Entry(who[k], f[who[k]])
                            /\ es[k].account = who[k] /\ es[k].amount = f[who[k]]
  BY <1>3 DEF Entry
<1>6. KnownRows(es)
  <2> HIDE DEF T
  <2>1. QED BY <1>1, <1>2, <1>4, <1>5 DEF KnownRows, IsRow
<1> DEFINE paid == -Total(Amounts(es))
           e == Entry(Bank, paid)
<1>7. PaidToBank(es) = IF paid = 0 THEN es ELSE Append(es, e)
  BY DEF PaidToBank
<1>8. paid # 0 => IsRow(e)
  BY DEF IsRow, Entry, Known, SystemAccounts
<1> HIDE DEF paid, e, T
<1>9. KnownRows(PaidToBank(es))
  <2>1. CASE paid = 0
    BY <1>6, <1>7, <2>1
  <2>2. CASE paid # 0
    <3>1. KnownRows(Append(es, e))
      BY <1>6, <1>8, <2>2, OneRowMore
    <3>2. QED BY <1>7, <2>2, <3>1
  <2>3. QED BY <2>1, <2>2
<1>10. QED BY <1>6, <1>9 DEF es

\* A list of checked shares names accounts that exist, sorted or not.
LEMMA SharesKnown ==
  ASSUME NEW s \in Seq(ShareOf), CheckedShares(s)
  PROVE  /\ Attending(s) \subseteq Known
         /\ NoSystemAccounts(s) => \A k \in 1..Len(SortByAccount(s)) : SortByAccount(s)[k].account \in Known
<1>1. DOMAIN s = 1..Len(s) /\ Len(s) \in Nat /\ \A i \in DOMAIN s : s[i] \in ShareOf
  BY LenProperties, ElementOfSeq
<1>2. \A i \in DOMAIN s : s[i].account \in Known
  BY <1>1 DEF ShareOf, Accounts, CheckedShares, Known, Members
<1>3. \A i \in DOMAIN s : s[i].account \in Int
  BY <1>2, AccountsAssumption DEF Known, Members
<1>4. /\ SortByAccount(s) = [k \in 1..Len(s) |-> s[Ranked(AccountOrder(s))[k]]] /\ Len(SortByAccount(s)) = Len(s)
      /\ \A k \in 1..Len(s) : Ranked(AccountOrder(s))[k] \in 1..Len(s)
  BY <1>3, SortKeeps
<1>5. \A k \in 1..Len(SortByAccount(s)) : SortByAccount(s)[k].account \in Known
  BY <1>1, <1>2, <1>4
<1>6. QED BY <1>2, <1>5 DEF Attending

\* Weights that are not negative do not add up to less than nothing.
LEMMA WeightsAddUp ==
  ASSUME NEW shares, IsShares(shares)
  PROVE  Total(Weights(shares)) \in Nat
<1> DEFINE w == Weights(shares)
           z == [i \in 1..Len(shares) |-> 0]
<1>1. Len(shares) \in Nat /\ w = [i \in 1..Len(shares) |-> shares[i].weight]
      /\ \A i \in 1..Len(shares) : shares[i].weight \in Nat
  BY DEF IsShares, Weights
<1>2. z \in Seq(Int) /\ Len(z) = Len(shares) /\ \A i \in 1..Len(z) : z[i] = 0
  BY <1>1
<1> HIDE DEF w, z
<1>3. w \in Seq(Int) /\ Len(w) = Len(shares) /\ \A i \in 1..Len(z) : z[i] <= w[i]
  BY <1>1, <1>2
<1>4. Total(z) = 0 /\ Total(z) <= Total(w) /\ Total(w) \in Int
  BY <1>2, <1>3, TotalZero, TotalMonotone, TotalType
<1>5. QED BY <1>4 DEF w

AnyRows == Seq([account : Int, amount : Int])

\* ledger.Allocate gives to the accounts of the split, to the residue or to the account it is
\* told to for a list of nobody.
LEMMA AllocatedKnown ==
  ASSUME NEW total \in Int, total > 0, NEW s \in Seq(ShareOf), CheckedShares(s), NoSystemAccounts(s),
         NEW empty \in SystemAccounts, NEW out, out = Allocate(total, SortByAccount(s), empty)
  PROVE  KnownRows(out) /\ out \in AnyRows
<1> DEFINE shares == SortByAccount(s)
<1>1. IsShares(shares) /\ \A k \in 1..Len(shares) : shares[k].account \in Known
  BY SortedShares, SharesKnown
<1>2. out = Allocate(total, shares, empty)
  OBVIOUS
<1> HIDE DEF shares
<1>3. ASSUME NEW a \in SystemAccounts, out = <<[account |-> a, amount |-> total]>>
      PROVE  KnownRows(out) /\ out \in AnyRows
  <2> DEFINE e == [account |-> a, amount |-> total]
  <2>1. e.account \in Known /\ e.amount # 0 /\ out = <<e>>
    BY <1>3 DEF Known
  <2>2. e \in [account : Int, amount : Int]
    BY AccountsAssumption
  <2> HIDE DEF e
  <2>3. DOMAIN out = 1..1 /\ out[1] = e
    BY <2>1
  <2>4. \A i \in DOMAIN out : out[i] = e
    BY <2>3
  <2>5. out \in AnyRows
    BY <2>1, <2>2 DEF AnyRows
  <2>6. KnownRows(out)
    BY <2>1, <2>4, <2>5, RowsKnown DEF AnyRows
  <2>7. QED BY <2>5, <2>6
<1>4. CASE out = Refused
  <2>1. DOMAIN out = {} /\ out \in AnyRows
    BY <1>4, EmptySeq DEF Refused, AnyRows
  <2>2. KnownRows(out)
    BY <2>1, RowsKnown DEF AnyRows
  <2>3. QED BY <2>1, <2>2
<1>5. CASE out # Refused /\ shares = <<>>
  <2>1. out = <<[account |-> empty, amount |-> total]>>
    BY <1>2, <1>5 DEF Allocate
  <2>2. QED BY <1>3, <2>1
<1>6. CASE out # Refused /\ shares # <<>> /\ Total(Weights(shares)) = 0
  <2>1. Residue \in SystemAccounts
    BY DEF SystemAccounts
  <2>2. out = <<[account |-> Residue, amount |-> total]>>
    BY <1>2, <1>6 DEF Allocate
  <2>3. QED BY <1>3, <2>1, <2>2
<1>7. CASE out # Refused /\ shares # <<>> /\ Total(Weights(shares)) # 0
  <2>1. Total(Weights(shares)) > 0
    BY <1>1, <1>7, WeightsAddUp
  <2>2. out = Split(total, shares)
    BY <1>1, <1>2, <1>7, <2>1, AllocateSplits
  <2>3. out \in AnyRows
    BY <1>1, <2>1, <2>2, SplitKeeps DEF AnyRows
  <2>4. \A k \in DOMAIN Split(total, shares) :
          /\ Split(total, shares)[k].amount > 0
          /\ \E i \in 1..Len(shares) : Split(total, shares)[k].account = shares[i].account
    BY <1>1, <2>1, SplitGives
  <2>5. \A k \in DOMAIN out : out[k].amount # 0 /\ out[k].account \in Known
    <3> SUFFICES ASSUME NEW k \in DOMAIN out PROVE out[k].amount # 0 /\ out[k].account \in Known
      OBVIOUS
    <3>1. out[k].amount > 0 /\ \E i \in 1..Len(shares) : out[k].account = shares[i].account
      BY <2>2, <2>4
    <3>2. QED BY <1>1, <3>1
  <2>6. QED BY <2>3, <2>5, RowsKnown DEF AnyRows
<1>8. QED BY <1>4, <1>5, <1>6, <1>7

\* An attendance names who attended and the bank.
LEMMA AttendanceKnown ==
  ASSUME RulesInv, NEW ledger, NEW ev \in Attendances \cup {Opening},
         NEW p, p = AttendancePlan(rules.earn, ledger, ev), p # NoPlan
  PROVE  KnownPlan(p)
<1>1. rules.earn # None /\ rules.earn.id \in DOMAIN RuleKindOf /\ RuleKindOf[rules.earn.id] = "earn"
  BY DEF AttendancePlan, Can, RulesInv, Resolves
<1>2. rules.earn.id \in {"tick", "attendance_weighted"}
  BY <1>1 DEF RuleKindOf
<1>3. ev \in RaidOf /\ ev.attendees \in Seq(ShareOf)
  BY EventsAssumption DEF RaidOf, ShareOf, Accounts
<1>4. CASE rules.earn.id = "tick"
  <2>1. rules.earn.cfg.award \in Int
    BY <1>1, <1>4, ConfigsAssumption DEF RulesInv
  <2>2. p = TickAttendance(rules.earn, ev)
    BY <1>4 DEF AttendancePlan
  <2>3. PICK es : CreditsOf(es, Attending(ev.attendees)) /\ TickAttendance(rules.earn, ev).entries = FundedByBank(es)
    BY <1>3, <2>1, <2>2, TickCredits
  <2>4. CheckedShares(ev.attendees) /\ \E rows : p = Propose(rules.earn, "attendance", None, None, rows)
    BY <2>2 DEF TickAttendance
  <2>5. PICK rows : p = Propose(rules.earn, "attendance", None, None, rows)
    BY <2>4
  <2>6. rows = FundedByBank(es)
    BY <2>2, <2>3, <2>5, ProposeLabels
  <2>7. Attending(ev.attendees) \subseteq Known
    BY <1>3, <2>4, SharesKnown
  <2>8. KnownRows(FundedByBank(es))
    BY <2>3, <2>7, FundedKnown
  <2>9. QED BY <2>5, <2>6, <2>8, ProposedKnown
<1>5. CASE rules.earn.id = "attendance_weighted"
  <2> DEFINE pot == Worth(rules.earn.cfg.pot, ev)
             shares == SortByAccount(ev.attendees)
             e == Entry(Bank, -pot)
             out == Allocate(pot, shares, Bank)
  <2>1. rules.earn.cfg.pot \in Int /\ p = WeightedAttendance(rules.earn, ev)
    BY <1>1, <1>5, ConfigsAssumption DEF RulesInv, AttendancePlan
  <2>2. /\ pot > 0 /\ CheckedShares(ev.attendees) /\ NoSystemAccounts(shares)
        /\ p = Propose(rules.earn, "attendance", None, None, <<e>> \o out)
    BY <2>1 DEF WeightedAttendance
  <2>3. pot \in Int
    BY <1>3, <2>1 DEF RaidOf, Worth
  <2>4. NoSystemAccounts(ev.attendees)
    <3>1. \A i \in DOMAIN ev.attendees : ev.attendees[i].account \in Int
      <4>1. \A i \in DOMAIN ev.attendees : ev.attendees[i] \in ShareOf
        BY <1>3, ElementOfSeq, LenProperties
      <4>2. QED BY <2>2, <4>1, AccountsAssumption DEF ShareOf, Accounts, CheckedShares
    <3>2. \A i \in DOMAIN ev.attendees : \E k \in DOMAIN shares : shares[k] = ev.attendees[i]
      BY <1>3, <3>1, SortReaches
    <3>3. QED BY <2>2, <3>2 DEF NoSystemAccounts
  <2>5. Bank \in SystemAccounts /\ Bank \in Known
    BY DEF SystemAccounts, Known
  <2>6. KnownRows(out) /\ out \in AnyRows
    BY <1>3, <2>2, <2>3, <2>4, <2>5, AllocatedKnown
  <2>7. IsRow(e)
    BY <2>2, <2>3, <2>5 DEF IsRow, Entry
  <2> HIDE DEF e, out, pot, shares
  <2>8. KnownRows(<<e>> \o out)
    BY <2>6, <2>7, OneRowMore
  <2>9. QED BY <2>2, <2>8, ProposedKnown
<1>6. QED BY <1>2, <1>4, <1>5

\* A sale debits its buyer and credits whom the proceeds are routed to.
LEMMA SpendKnown ==
  ASSUME NEW rule, NEW proceeds, NEW solo, NEW floor, NEW price \in Int,
         NEW ev, ev.buyer \in Accounts, ev.shares \in Seq(ShareOf),
         NEW p, p = SpendAward(rule, proceeds, solo, floor, ev, price), p # NoPlan
  PROVE  KnownPlan(p)
<1> DEFINE credits == RouteProceeds(proceeds, solo, ev.shares, price)
           e == Entry(ev.buyer, -price)
<1>1. /\ BuyerOk(ev.buyer) /\ price > 0 /\ credits # Refused
      /\ p = Propose(rule, "award", None, floor, <<e>> \o credits)
  BY DEF SpendAward
<1>2. IsRow(e)
  BY <1>1 DEF IsRow, BuyerOk, Accounts, Known, Members, Entry
<1>3. Bank \in SystemAccounts /\ SoloAccount(solo) \in SystemAccounts
  BY DEF SystemAccounts, SoloAccount
<1>4. KnownRows(credits) /\ credits \in AnyRows
  <2>1. CASE proceeds = "guild_bank"
    <3> DEFINE b == Entry(Bank, price)
    <3>1. credits = <<b>>
      BY <2>1 DEF RouteProceeds
    <3>2. b.account \in Known /\ b.amount # 0 /\ b \in [account : Int, amount : Int]
      BY <1>1, <1>3, AccountsAssumption DEF Entry, Known
    <3> HIDE DEF b, credits
    <3>3. credits \in AnyRows /\ \A i \in DOMAIN credits : credits[i] = b
      BY <3>1, <3>2 DEF AnyRows
    <3>4. QED BY <3>2, <3>3, RowsKnown DEF AnyRows
  <2>2. CASE proceeds = "attendees"
    <3>1. CheckedShares(ev.shares) /\ NoSystemAccounts(ev.shares)
      BY <1>1, <2>2 DEF RouteProceeds
    <3>2. credits = Allocate(price, SortByAccount(ev.shares), SoloAccount(solo))
      BY <2>2, <3>1 DEF RouteProceeds
    <3> HIDE DEF credits
    <3>3. QED BY <1>1, <1>3, <3>1, <3>2, AllocatedKnown
  <2>3. CASE proceeds \notin {"guild_bank", "attendees"}
    BY <1>1, <2>3 DEF RouteProceeds
  <2>4. QED BY <2>1, <2>2, <2>3
<1> HIDE DEF e, credits
<1>5. KnownRows(<<e>> \o credits)
  BY <1>2, <1>4, OneRowMore
<1>6. QED BY <1>1, <1>5, ProposedKnown

\* Whichever rule plans it.
LEMMA AwardKnown ==
  ASSUME RulesInv, NEW ev \in SaleOf, NEW p, p = AwardPlan(rules.spend, ev), p # NoPlan
  PROVE  KnownPlan(p)
<1> DEFINE rule == rules.spend
           cfg == rule.cfg
<1>1. rule # None /\ Can(rule, "award")
  BY DEF AwardPlan, Can
<1>2. /\ rule.id \in {"fixed_price", "zero_sum"} => cfg.default \in Int
      /\ rule.id = "roll" => cfg.cost \in Int
  BY <1>1, ConfigsAssumption DEF RulesInv
<1>3. /\ ev.buyer \in Accounts /\ ev.shares \in Seq(ShareOf)
      /\ ev.price \in Int \cup {None} /\ ev.itemPrice \in Int \cup {None}
  BY DEF SaleOf
<1> HIDE DEF rule, cfg
<1>4. p = AwardPlan(rule, ev)
  BY DEF rule
<1>5. CASE rule.id = "fixed_price"
  <2> DEFINE price == ResolvedPrice(cfg.default, ev)
  <2>1. price \in Int
    BY <1>2, <1>3, <1>5 DEF ResolvedPrice
  <2>2. p = FixedPriceAward(rule, ev)
    BY <1>1, <1>4, <1>5 DEF AwardPlan
  <2>3. p = SpendAward(rule, cfg.proceeds, cfg.solo, cfg.floor, ev, price)
    BY <2>2 DEF FixedPriceAward, cfg
  <2> HIDE DEF price
  <2>4. QED BY <1>3, <2>1, <2>3, SpendKnown
<1>6. CASE rule.id = "zero_sum"
  <2> DEFINE price == ResolvedPrice(cfg.default, ev)
             solo == IF cfg.solo = "free" THEN "guild_bank" ELSE cfg.solo
             sold == [ev EXCEPT !.shares = ZeroSumShares(cfg, ev)]
  <2>1. price \in Int
    BY <1>2, <1>3, <1>6 DEF ResolvedPrice
  <2>2. p = ZeroSumAward(rule, ev)
    BY <1>1, <1>4, <1>6 DEF AwardPlan
  <2>3. p = SpendAward(rule, "attendees", solo, cfg.floor, sold, price)
    BY <2>2 DEF ZeroSumAward, cfg
  <2>4. ZeroSumShares(cfg, ev) \in Seq(ShareOf)
    <3> DEFINE S == {i \in DOMAIN ev.shares : ev.shares[i].account # ev.buyer}
    <3>1. S \in SUBSET DOMAIN ev.shares
      OBVIOUS
    <3>2. ZeroSumShares(cfg, ev) = ev.shares \/ ZeroSumShares(cfg, ev) = Kept(ev.shares, S)
      BY DEF ZeroSumShares
    <3> HIDE DEF S
    <3>3. Kept(ev.shares, S) \in Seq(ShareOf)
      BY <1>3, <3>1, KeptLists
    <3>4. QED BY <1>3, <3>2, <3>3
  <2>5. sold.buyer = ev.buyer /\ sold.shares = ZeroSumShares(cfg, ev)
    BY DEF SaleOf
  <2>6. sold.buyer \in Accounts /\ sold.shares \in Seq(ShareOf)
    BY <1>3, <2>4, <2>5
  <2> HIDE DEF price, solo, sold
  <2>7. QED BY <2>1, <2>3, <2>6, SpendKnown
<1>7. CASE rule.id = "loot_council"
  <2> DEFINE charge == CouncilCharge(cfg, ev)
             es == <<Entry(ev.buyer, -charge), Entry(Bank, charge)>>
  <2>1. p = LootCouncilAward(rule, ev)
    BY <1>1, <1>4, <1>7 DEF AwardPlan
  <2>2. BuyerOk(ev.buyer) /\ charge > 0 /\ p = Propose(rule, "award", None, cfg.floor, es)
    BY <2>1 DEF LootCouncilAward, cfg
  <2>3. es[1].account = ev.buyer /\ es[2].account = Bank /\ es[1].amount = -charge /\ es[2].amount = charge
        /\ DOMAIN es = {1, 2}
    BY DEF Entry
  <2> HIDE DEF charge, es
  <2>4. charge \in Int
    <3>1. es[2].amount \in Cp
      BY <2>2, <2>3 DEF Propose
    <3>2. QED BY <2>3, <3>1, MaxCpAssumption DEF Cp
  <2>5. charge # 0 /\ -charge # 0
    BY <2>2, <2>4
  <2>6. ev.buyer \in Known /\ Bank \in Known
    BY <1>3, <2>2 DEF BuyerOk, Accounts, Known, Members, SystemAccounts
  <2>7. KnownRows(es)
    BY <2>5, <2>6, PairKnown DEF es
  <2>8. QED BY <2>2, <2>7, ProposedKnown
<1>8. CASE rule.id = "roll"
  <2> DEFINE cost == IF ev.price = None THEN cfg.cost ELSE ev.price
  <2>1. cost \in Int
    BY <1>2, <1>3, <1>8
  <2>2. p = RollAward(rule, ev)
    BY <1>1, <1>4, <1>8 DEF AwardPlan
  <2>3. p = SpendAward(rule, cfg.proceeds, cfg.solo, cfg.floor, ev, cost)
    BY <2>2 DEF RollAward, cfg
  <2> HIDE DEF cost
  <2>4. QED BY <1>3, <2>1, <2>3, SpendKnown
<1>9. CASE rule.id \notin {"fixed_price", "zero_sum", "loot_council", "roll"}
  <2>1. p = AuctionAward(rule, ev)
    BY <1>1, <1>4, <1>9 DEF AwardPlan
  <2>2. ev.price \in Int /\ p = SpendAward(rule, cfg.proceeds, cfg.solo, cfg.floor, ev, ev.price)
    BY <1>3, <2>1 DEF AuctionAward, cfg
  <2>3. QED BY <1>3, <2>2, SpendKnown
<1>10. QED BY <1>5, <1>6, <1>7, <1>8, <1>9


\* Nobody is sold anything without being named.
LEMMA BuyerNamed ==
  ASSUME NEW rule, NEW ev, AwardPlan(rule, ev) # NoPlan
  PROVE  rule # None /\ ev.buyer # None
<1> DEFINE p == AwardPlan(rule, ev)
<1>1. rule # None /\ Can(rule, "award")
  BY DEF AwardPlan, Can
<1>2. ASSUME NEW proceeds, NEW solo, NEW floor, NEW price, SpendAward(rule, proceeds, solo, floor, ev, price) # NoPlan
      PROVE  ev.buyer # None
  BY <1>2 DEF SpendAward, BuyerOk
<1>3. CASE rule.id = "fixed_price"
  <2>1. p = FixedPriceAward(rule, ev)
    BY <1>1, <1>3 DEF AwardPlan
  <2>2. QED BY <1>1, <1>2, <2>1 DEF FixedPriceAward
<1>4. CASE rule.id = "zero_sum"
  <2>1. p = ZeroSumAward(rule, ev)
    BY <1>1, <1>4 DEF AwardPlan
  <2>2. QED BY <1>1, <2>1 DEF ZeroSumAward, BuyerOk
<1>5. CASE rule.id = "loot_council"
  <2>1. p = LootCouncilAward(rule, ev)
    BY <1>1, <1>5 DEF AwardPlan
  <2>2. QED BY <1>1, <2>1 DEF LootCouncilAward, BuyerOk
<1>6. CASE rule.id = "roll"
  <2>1. p = RollAward(rule, ev)
    BY <1>1, <1>6 DEF AwardPlan
  <2>2. QED BY <1>1, <1>2, <2>1 DEF RollAward
<1>7. CASE rule.id \notin {"fixed_price", "zero_sum", "loot_council", "roll"}
  <2>1. p = AuctionAward(rule, ev)
    BY <1>1, <1>7 DEF AwardPlan
  <2>2. QED BY <1>1, <1>2, <2>1 DEF AuctionAward
<1>8. QED BY <1>3, <1>4, <1>5, <1>6, <1>7

\* Whoever wins an auction is a member, and charged an amount of the bids or of the rule.
LEMMA ChargeType ==
  ASSUME BaseInv, AuctionInv, rules.spend # None, NEW draws \in Draws, Outcome(draws).winner # None
  PROVE  WonItem(Outcome(draws)) \in SaleOf
<1> DEFINE r == Outcome(draws)
           bids == auction.bids
<1>1. \/ r = NoResolution
      \/ \E min \in Int : DecidesAuction(r, rules.spend, auction, bids, min)
      \/ AwardsShare(r, bids, auction.min)
      \/ rules.spend.id = "roll" /\ AwardsRoll(r, bids)
  BY Decides
<1>2. \A i \in DOMAIN bids : bids[i].account \in Members /\ bids[i].amount \in Int
  <2>1. bids \in Seq(BidRows)
    BY DEF AuctionInv
  <2>2. \A i \in DOMAIN bids : bids[i] \in BidRows
    BY <2>1, ElementOfSeq, LenProperties
  <2>3. QED BY <2>2, EventsAssumption DEF BidRows
<1>3. rules.spend.id = "roll" => r.price \in Int
  <2> SUFFICES ASSUME rules.spend.id = "roll" PROVE r.price \in Int
    OBVIOUS
  <2>1. rules.spend.cfg.cost \in Int
    BY ConfigsAssumption DEF BaseInv, RulesInv
  <2>2. r = NoResolution \/ r = SettleRoll(rules.spend.cfg, bids, draws)
    BY DEF Outcome, Resolution, SettleAuction
  <2>3. SettleRoll(rules.spend.cfg, bids, draws).price \in {0, rules.spend.cfg.cost}
    BY DEF SettleRoll, NoResolution
  <2>4. QED BY <2>1, <2>2, <2>3 DEF NoResolution
<1> HIDE DEF r
<1>4. r.winner # None
  BY DEF r
<1>5. r # NoResolution
  BY <1>4 DEF NoResolution
<1>6. r.winner \in Members /\ r.price \in Int
  <2>1. ASSUME NEW min \in Int, DecidesAuction(r, rules.spend, auction, bids, min)
        PROVE  r.winner \in Members /\ r.price \in Int
    <3>1. AwardsTop(r, bids, min) \/ NamesAWinner(r, rules.spend.cfg, bids, min)
      BY <1>4, <2>1 DEF DecidesAuction, NamesATie
    <3>2. QED BY <1>2, <3>1 DEF AwardsTop, NamesAWinner
  <2>2. CASE AwardsShare(r, bids, auction.min)
    BY <1>2, <2>2 DEF AwardsShare
  <2>3. CASE rules.spend.id = "roll" /\ AwardsRoll(r, bids)
    BY <1>2, <1>3, <1>4, <2>3 DEF AwardsRoll
  <2>4. QED BY <1>1, <1>5, <2>1, <2>2, <2>3
<1>7. Opening.attendees \in Seq(ShareOf)
  BY EventsAssumption DEF ShareOf, Accounts
<1>8. WonItem(r) \in SaleOf
  BY <1>6, <1>7 DEF WonItem, SaleOf, Accounts, Members
<1>9. QED BY <1>8 DEF r

\* An adjustment moves points between two accounts that exist.
LEMMA AdjustmentKnown ==
  ASSUME NEW rule, NEW ev \in Adjustments, NEW p, p = AdjustmentPlan(rule, ev), p # NoPlan
  PROVE  KnownPlan(p)
<1> DEFINE other == IF ev.counterparty = None THEN Bank ELSE ev.counterparty
           es == <<Entry(ev.account, ev.amount), Entry(other, -ev.amount)>>
<1>1. ev.account \in Accounts /\ ev.counterparty \in Accounts /\ ev.amount \in Int
  BY EventsAssumption DEF Accounts
<1>2. ev.account # None /\ ev.amount # 0 /\ p = Propose(rule, "adjustment", None, rule.cfg.floor, es)
  BY DEF AdjustmentPlan
<1>3. ev.account \in Known /\ other \in Known
  BY <1>1, <1>2 DEF Accounts, Known, Members, SystemAccounts
<1>4. -ev.amount # 0
  BY <1>1, <1>2
<1> HIDE DEF other
<1>5. KnownRows(es)
  BY <1>2, <1>3, <1>4, PairKnown
<1>6. QED BY <1>2, <1>5, ProposedKnown

\* A run moves accounts of the roster and the bank.
LEMMA RunKnown ==
  ASSUME RulesInv, RosterInv, rules.overTime # None, NEW ledger, NEW spec, spec.accounts = <<>>,
         NEW p, p = RunPlan(rules.overTime, ledger, spec, roster), p # NoPlan
  PROVE  KnownPlan(p)
<1> DEFINE rule == rules.overTime
           who == Targets(spec, roster)
<1>1. rule.id \in {"decay_percent", "decay_window", "cap", "start_points"}
  BY WhoAnswers DEF RulesInv, Resolves
<1>2. who \in SUBSET Nat /\ IsFiniteSet(who) /\ who \subseteq Known /\ roster \subseteq Known
      /\ roster \in SUBSET Nat /\ IsFiniteSet(roster)
  <2>1. who \subseteq roster /\ roster \subseteq Known
    BY DEF Targets, RosterInv, Known
  <2>2. QED BY <2>1, RosterFinite
<1>3. rule.id = "start_points" => rule.cfg.grant \in Int
  BY ConfigsAssumption DEF RulesInv
<1> HIDE DEF rule, who
<1>4. ASSUME NEW f, DOMAIN f = who, NEW kind, p = Propose(rule, kind, spec.period, rule.cfg.floor, PaidToBank(MovesOf(f)))
      PROVE  KnownPlan(p)
  <2>1. KnownRows(PaidToBank(MovesOf(f)))
    BY <1>2, <1>4, MovesKnown
  <2>2. QED BY <1>4, <2>1, ProposedKnown
<1>5. CASE rule.id = "decay_percent"
  <2> DEFINE balance == [a \in who |-> Balance(ledger, a, spec.asOf)]
             f == [a \in DOMAIN balance |-> Decayable(rule.cfg, balance[a])]
  <2>1. p = DecayPercentRun(rule, ledger, spec, roster)
    BY <1>1, <1>5 DEF RunPlan, rule
  <2>2. p = Propose(rule, "decay", spec.period, rule.cfg.floor, PaidToBank(MovesOf(f)))
    BY <2>1 DEF DecayPercentRun, who
  <2>3. DOMAIN f = who
    OBVIOUS
  <2> HIDE DEF f
  <2>4. QED BY <1>4, <2>2, <2>3
<1>6. CASE rule.id = "decay_window"
  <2> DEFINE f == [a \in who |-> -Expired(rule.cfg, ledger, spec, a)]
  <2>1. p = DecayWindowRun(rule, ledger, spec, roster)
    BY <1>1, <1>6 DEF RunPlan, rule
  <2>2. p = Propose(rule, "decay", spec.period, rule.cfg.floor, PaidToBank(MovesOf(f)))
    BY <2>1 DEF DecayWindowRun, who
  <2>3. DOMAIN f = who
    OBVIOUS
  <2> HIDE DEF f
  <2>4. QED BY <1>4, <2>2, <2>3
<1>7. CASE rule.id = "cap"
  <2> DEFINE f == [a \in who |-> -Greatest(Balance(ledger, a, spec.asOf) - rule.cfg.hard, 0)]
  <2>1. p = CapRun(rule, ledger, spec, roster)
    BY <1>1, <1>7 DEF RunPlan, rule
  <2>2. p = Propose(rule, "cap", spec.period, rule.cfg.floor, PaidToBank(MovesOf(f)))
    BY <2>1 DEF CapRun, who
  <2>3. DOMAIN f = who
    OBVIOUS
  <2> HIDE DEF f
  <2>4. QED BY <1>4, <2>2, <2>3
<1>8. CASE rule.id = "start_points"
  <2>1. p = StartPointsRun(rule, ledger, spec, roster)
    BY <1>1, <1>8 DEF RunPlan, rule
  <2>2. PICK rows : p = Propose(rule, "start_points", spec.period, None, rows)
    BY <2>1 DEF StartPointsRun
  <2>3. PICK es : CreditsOf(es, roster) /\ p.entries = FundedByBank(es)
    BY <1>2, <1>3, <1>8, <2>1, StartCredits
  <2>4. rows = FundedByBank(es)
    BY <2>2, <2>3, ProposeLabels
  <2>5. KnownRows(rows)
    BY <1>2, <2>3, <2>4, FundedKnown
  <2>6. QED BY <2>2, <2>5, ProposedKnown
<1>9. QED BY <1>1, <1>5, <1>6, <1>7, <1>8

\* A reversal moves back what the batch moved.
LEMMA ReversalKnown ==
  ASSUME LogInv, RosterInv, NEW n \in DOMAIN log, NEW p, p = PlanReversal(rules, log, n), p # NoPlan
  PROVE  KnownPlan(p)
<1> DEFINE es == log[n].entries
<1>1. /\ \A i \in DOMAIN es : -es[i].amount \in Cp
      /\ p.entries = [i \in DOMAIN es |-> Entry(es[i].account, -es[i].amount)]
  BY DEF PlanReversal, ReversePlan, Negated
<1>2. n \in 1..HeadSeq
  BY DEF LogInv, HeadSeq
<1>3. es \in Seq(Rows(roster))
  BY <1>2 DEF LogInv
<1> HIDE DEF es
<1>4. \A i \in DOMAIN es : es[i] \in Rows(roster)
  BY <1>3, ElementOfSeq, LenProperties
<1>5. \A i \in DOMAIN es : /\ es[i].account \in Known
                           /\ es[i].amount \in Int /\ es[i].amount # 0
  BY <1>4, MaxCpAssumption DEF Rows, RosterInv, Known, Cp
<1>6. DOMAIN p.entries = DOMAIN es
      /\ \A i \in DOMAIN es : p.entries[i].account = es[i].account /\ p.entries[i].amount = -es[i].amount
  BY <1>1 DEF Entry
<1>7. \A i \in DOMAIN es : -es[i].amount # 0
  BY <1>5
<1>8. p.entries \in Seq(Rows(Members))
  <2>1. Len(es) \in Nat /\ DOMAIN es = 1..Len(es)
    BY <1>3, LenProperties
  <2>2. \A i \in DOMAIN es : Entry(es[i].account, -es[i].amount) \in Rows(Members)
    BY <1>1, <1>5, <1>7 DEF Entry, Rows, Known
  <2>3. p.entries \in [1..Len(es) -> Rows(Members)]
    BY <1>1, <2>1, <2>2
  <2>4. QED BY <2>1, <2>3
<1>9. QED BY <1>8 DEF KnownPlan

\* So every planner, whatever rules are in force.
LEMMA MadeKnown ==
  ASSUME BaseInv, RunInv, AuctionInv, [Next]_vars, NEW p, p # NoPlan, MadeBy(p)
  PROVE  KnownPlan(p)
<1>0. RulesInv /\ RosterInv /\ LogInv
  BY DEF BaseInv
<1>1. ASSUME NEW ev \in Attendances, p = AttendancePlan(rules.earn, log, ev) PROVE KnownPlan(p)
  BY <1>0, <1>1, AttendanceKnown
<1>2. ASSUME NEW ev \in Charged, p = AwardPlan(rules.spend, ev) PROVE KnownPlan(p)
  <2>1. rules.spend # None /\ ev.buyer # None
    BY <1>2, BuyerNamed
  <2>2. ev \in SaleOf
    <3>1. CASE ev \in Sales
      BY <3>1, EventsAssumption DEF SaleOf, ShareOf, Accounts
    <3>2. CASE ev \notin Sales
      <4>1. PICK draws \in Draws : ev = WonItem(Outcome(draws))
        BY <3>2 DEF Charged, Outcome
      <4>2. Outcome(draws).winner # None
        BY <2>1, <4>1 DEF WonItem
      <4>3. QED BY <2>1, <4>1, <4>2, ChargeType
    <3>3. QED BY <3>1, <3>2
  <2>3. QED BY <1>0, <1>2, <2>2, AwardKnown
<1>3. ASSUME NEW ev \in Adjustments, p = AdjustmentPlan(rules.earn, ev) PROVE KnownPlan(p)
  BY <1>3, AdjustmentKnown
<1>4. ASSUME NEW n \in DOMAIN log, p = PlanReversal(rules, log, n) PROVE KnownPlan(p)
  BY <1>0, <1>4, ReversalKnown
<1>5. ASSUME Can(rules.overTime, "run"), p = RunPlan(rules.overTime, log, run'.spec, roster) PROVE KnownPlan(p)
  <2>1. rules.overTime # None
    BY <1>5 DEF Can
  <2>2. run'.spec.accounts = <<>>
    BY RunNext DEF RunInv, SpecInv
  <2>3. QED BY <1>0, <1>5, <2>1, <2>2, RunKnown
<1>6. QED BY <1>1, <1>2, <1>3, <1>4, <1>5 DEF MadeBy

\* A proposal is of a kind there is.
LEMMA MadeKinds ==
  ASSUME RulesInv, [Next]_vars, NEW p, p # NoPlan, MadeBy(p)
  PROVE  p.kind \in KindsOfPlan
<1>1. RunKind(rules.overTime.id) \in KindsOfPlan
  BY DEF RunKind, KindsOfPlan
<1>2. QED BY <1>1, MadeLabels DEF Labelled, KindsOfPlan

\* What waits and what is committed has the form ledger.Commit asks for.
FormInv ==
  /\ \A n \in 1..HeadSeq : KnownPlan(log[n]) /\ log[n].kind \in KindsOfPlan
  /\ \A p \in plans : KnownPlan(p) /\ p.kind \in KindsOfPlan
  /\ IsFiniteSet(plans) /\ Cardinality(plans) <= MaxPlans

\* The first raid is planned like any other.
LEMMA FormInit == Init => FormInv
<1> SUFFICES ASSUME Init PROVE FormInv
  OBVIOUS
<1> DEFINE p == AttendancePlan(rules.earn, <<>>, Opening)
<1>1. log = <<p>> /\ plans = {} /\ BaseInv /\ HeadSeq = 1 /\ p.entries # <<>>
  BY BaseInit, FirstBatch DEF Init, CommitAdmits
<1>2. p # NoPlan
  BY <1>1 DEF NoPlan
<1>3. KnownPlan(p)
  BY <1>1, <1>2, AttendanceKnown DEF BaseInv
<1>4. p.kind \in KindsOfPlan
  <2>1. rules.earn # None => rules.earn.id \in DOMAIN RuleKindOf
    BY <1>1 DEF BaseInv, RulesInv, Resolves
  <2>2. QED BY <1>2, <2>1, AttendanceLabels DEF Labelled, KindsOfPlan
<1> HIDE DEF p
<1>5. log[1] = p
  BY <1>1
<1>6. IsFiniteSet(plans) /\ Cardinality(plans) = 0
  BY <1>1, FS_EmptySet
<1>7. QED BY <1>1, <1>3, <1>4, <1>5, <1>6, BoundsAssumption DEF FormInv

\* One more plan waits, or one fewer.
LEMMA PlansCounted ==
  ASSUME [Next]_vars, IsFiniteSet(plans), Cardinality(plans) <= MaxPlans
  PROVE  IsFiniteSet(plans') /\ Cardinality(plans') <= MaxPlans
<1>1. Cardinality(plans) \in Nat /\ MaxPlans \in Nat
  BY FS_CardinalityType, BoundsAssumption
<1>2. ASSUME NEW q, Offer(q) PROVE IsFiniteSet(plans') /\ Cardinality(plans') <= MaxPlans
  <2>1. plans' = plans \cup {q} /\ q \notin plans /\ Cardinality(plans) < MaxPlans
    BY <1>2 DEF Offer
  <2>2. IsFiniteSet(plans') /\ Cardinality(plans') = Cardinality(plans) + 1
    BY <2>1, FS_AddElement
  <2>3. QED BY <1>1, <2>1, <2>2
<1>3. ASSUME plans' \subseteq plans PROVE IsFiniteSet(plans') /\ Cardinality(plans') <= MaxPlans
  <2>1. plans' \in SUBSET plans
    BY <1>3
  <2>2. IsFiniteSet(plans') /\ Cardinality(plans') <= Cardinality(plans) /\ Cardinality(plans') \in Nat
    BY <2>1, FS_Subset, FS_CardinalityType
  <2>3. QED BY <1>1, <2>2
<1>4. plans' \subseteq plans \/ \E q : Offer(q)
  BY DEF Next, RecordAttendance, Sell, Adjust, ReverseBatch, OpenRun, RetryRun, Commit, Join,
         ChangeRules, OpenAuction, PlaceBid, Settle, vars
<1>5. QED BY <1>2, <1>3, <1>4

\* A plan is of this form when it starts to wait, and is committed as it waited.
LEMMA FormNext == BaseInv /\ RunInv /\ AuctionInv /\ FormInv /\ [Next]_vars => FormInv'
<1> SUFFICES ASSUME BaseInv, RunInv, AuctionInv, FormInv, [Next]_vars PROVE FormInv'
  OBVIOUS
<1>1. \A p \in plans' : KnownPlan(p) /\ p.kind \in KindsOfPlan
  <2> SUFFICES ASSUME NEW p \in plans' PROVE KnownPlan(p) /\ p.kind \in KindsOfPlan
    OBVIOUS
  <2>1. CASE p \in plans
    BY <2>1 DEF FormInv
  <2>2. CASE p \notin plans
    <3>1. p # NoPlan /\ MadeBy(p)
      BY <2>2, PlansAreMade
    <3>2. KnownPlan(p)
      BY <3>1, MadeKnown
    <3>3. RulesInv
      BY DEF BaseInv
    <3>4. QED BY <3>1, <3>2, <3>3, MadeKinds
  <2>3. QED BY <2>1, <2>2
<1>2. IsFiniteSet(plans') /\ Cardinality(plans') <= MaxPlans
  BY PlansCounted DEF FormInv
<1>3. \A n \in 1..HeadSeq' : KnownPlan(log'[n]) /\ log'[n].kind \in KindsOfPlan
  <2>1. CASE log' = log
    BY <2>1 DEF FormInv, HeadSeq
  <2>2. ASSUME NEW p, Commits(p) PROVE \A n \in 1..HeadSeq' : KnownPlan(log'[n]) /\ log'[n].kind \in KindsOfPlan
    <3>1. /\ HeadSeq \in Nat /\ HeadSeq' = HeadSeq + 1 /\ log'[HeadSeq + 1] = p
          /\ \A n \in 1..HeadSeq : log'[n] = log[n]
      BY <2>2, Committed
    <3>2. p \in plans
      BY <2>2 DEF Commits
    <3>3. \A n \in 1..(HeadSeq + 1) : n = HeadSeq + 1 \/ n \in 1..HeadSeq
      BY <3>1
    <3>4. QED BY <3>1, <3>2, <3>3 DEF FormInv
  <2>3. QED BY <2>1, <2>2, LogGrows
<1>4. QED BY <1>1, <1>2, <1>3 DEF FormInv

\* The types, for any rules, roster, events and bounds: nothing waits or is committed that has a
\* zero row, an amount that is not a centipoint, an account nobody has, or a link that leads nowhere.
THEOREM PoolTypes == Spec => []TypeOK
<1>1. BaseInv /\ LinkInv /\ AuctionInv /\ FormInv => TypeOK
  <2> SUFFICES ASSUME BaseInv, LinkInv, AuctionInv, FormInv PROVE TypeOK
    OBVIOUS
  <2>1. HeadSeq \in 1..MaxBatches /\ HeadSeq \in Nat /\ Founders \subseteq roster /\ roster \subseteq Members
    BY BoundsAssumption DEF BaseInv, LogInv, RosterInv
  <2>2. \A p \in plans : ProposalOk(p)
    <3> SUFFICES ASSUME NEW p \in plans PROVE ProposalOk(p)
      OBVIOUS
    <3>1. KnownPlan(p) /\ p.kind \in KindsOfPlan /\ Linked(p, HeadSeq)
      BY DEF FormInv, LinkInv
    <3>2. QED BY <3>1, KnownEach DEF Linked, ProposalOk, Known, KindsOfPlan
  <2>3. \A n \in 1..HeadSeq : ProposalOk(log[n])
    <3> SUFFICES ASSUME NEW n \in 1..HeadSeq PROVE ProposalOk(log[n])
      OBVIOUS
    <3>1. KnownPlan(log[n]) /\ log[n].kind \in KindsOfPlan /\ Linked(log[n], n - 1)
      BY DEF FormInv, LinkInv
    <3>2. log[n].reverses \in {None} \cup 1..HeadSeq
      BY <2>1, <3>1 DEF Linked
    <3>3. QED BY <3>1, <3>2, KnownEach DEF ProposalOk, Known, KindsOfPlan
  <2>4. auction.parties \subseteq roster /\ Len(auction.bids) <= MaxBids
    BY DEF AuctionInv
  <2>5. QED BY <2>1, <2>2, <2>3, <2>4 DEF FormInv, TypeOK
<1>2. Init => BaseInv /\ RunInv /\ LinkInv /\ AuctionInv /\ FormInv
  BY BaseInit, RunInit, LinkInit, AuctionInit, FormInit
<1>3. BaseInv /\ RunInv /\ LinkInv /\ AuctionInv /\ FormInv /\ [Next]_vars
        => (BaseInv /\ RunInv /\ LinkInv /\ AuctionInv /\ FormInv)'
  BY BaseNext, RunNext, LinkNext, AuctionNext, FormNext
<1>4. QED BY <1>1, <1>2, <1>3, PTL DEF Spec

-----------------------------------------------------------------------------
(* What the pool takes ledger.Commit to decide.                              *)

\* What has a period has that of a run the scheduler opened.
OfARun(p) == p.period \in 0..MaxRuns \cup {None}
PeriodInv ==
  run.spec.period \in 0..MaxRuns /\ (\A p \in plans : OfARun(p)) /\ \A n \in 1..HeadSeq : OfARun(log[n])

\* The first raid has none, and no run was opened.
LEMMA PeriodInit == Init => PeriodInv
<1> SUFFICES ASSUME Init PROVE PeriodInv
  OBVIOUS
<1> DEFINE p == AttendancePlan(rules.earn, <<>>, Opening)
<1>1. plans = {} /\ run = NoRun /\ HeadSeq = 1 /\ log = <<p>> /\ BaseInv /\ p.entries # <<>>
  BY FirstBatch, BaseInit DEF Init, CommitAdmits
<1>2. p # NoPlan /\ (rules.earn # None => rules.earn.id \in DOMAIN RuleKindOf)
  BY <1>1 DEF NoPlan, BaseInv, RulesInv, Resolves
<1>3. p.period = None
  BY <1>2, AttendanceLabels DEF Labelled
<1> HIDE DEF p
<1>4. run.spec.period = 0 /\ log[1] = p
  BY <1>1 DEF NoRun
<1>5. QED BY <1>1, <1>3, <1>4, BoundsAssumption DEF PeriodInv, OfARun

\* The scheduler opens MaxRuns runs at most, and a plan is committed as it waited.
LEMMA PeriodNext == BaseInv /\ RunInv /\ PeriodInv /\ [Next]_vars => PeriodInv'
<1> SUFFICES ASSUME BaseInv, RunInv, PeriodInv, [Next]_vars PROVE PeriodInv'
  OBVIOUS
<1>1. run'.spec.period \in 0..MaxRuns
  <2>1. CASE OpenRun
    <3>1. run.spec.period < MaxRuns /\ run'.spec.period = run.spec.period + 1
      BY <2>1, RunOpened DEF OpenRun
    <3>2. QED BY <3>1, BoundsAssumption DEF PeriodInv
  <2>2. QED BY <2>1, OthersMove DEF PeriodInv
<1>2. ASSUME NEW p \in plans' PROVE OfARun(p)
  <2>1. CASE p \in plans
    BY <2>1 DEF PeriodInv
  <2>2. CASE p \notin plans
    <3>1. p # NoPlan /\ MadeBy(p) /\ RulesInv
      BY <2>2, PlansAreMade DEF BaseInv
    <3>2. p.period = None \/ p.period = run'.spec.period
      BY <3>1, MadeLabels DEF Labelled
    <3>3. QED BY <1>1, <3>2 DEF OfARun
  <2>3. QED BY <2>1, <2>2
<1>3. \A n \in 1..HeadSeq' : OfARun(log'[n])
  <2>1. CASE log' = log
    BY <2>1 DEF PeriodInv, HeadSeq
  <2>2. ASSUME NEW p, Commits(p) PROVE \A n \in 1..HeadSeq' : OfARun(log'[n])
    <3>1. /\ HeadSeq \in Nat /\ HeadSeq' = HeadSeq + 1 /\ log'[HeadSeq + 1] = p
          /\ \A n \in 1..HeadSeq : log'[n] = log[n]
      BY <2>2, Committed
    <3>2. p \in plans
      BY <2>2 DEF Commits
    <3>3. \A n \in 1..(HeadSeq + 1) : n = HeadSeq + 1 \/ n \in 1..HeadSeq
      BY <3>1
    <3>4. QED BY <3>1, <3>2, <3>3 DEF PeriodInv
  <2>3. QED BY <2>1, <2>2, LogGrows
<1>4. QED BY <1>1, <1>2, <1>3 DEF PeriodInv, OfARun

\* In one balance kind, what a batch moves for a holder is what it moves for the account.
LEMMA OneKind ==
  ASSUME NEW b, IsEntries(b.entries)
  PROVE  /\ DOMAIN InKind(b.entries) = DOMAIN b.entries
         /\ InKind(b.entries) = <<>> <=> DOMAIN b.entries = {}
         /\ \A i \in DOMAIN b.entries :
              /\ InKind(b.entries)[i].account = b.entries[i].account
              /\ InKind(b.entries)[i].amount = b.entries[i].amount
              /\ HolderOf(InKind(b.entries)[i]) = <<b.entries[i].account, "dkp">>
         /\ Amounts(InKind(b.entries)) = Amounts(b.entries)
         /\ AmountsOfKind(InKind(b.entries), "dkp") = Amounts(b.entries)
         /\ \A a : AmountsOf(InKind(b.entries), <<a, "dkp">>) = Column(b, a)
         /\ \A a : Delta(InKind(b.entries), <<a, "dkp">>) = Moved(b, a)
         /\ Touched(InKind(b.entries)) = {<<b.entries[i].account, "dkp">> : i \in DOMAIN b.entries}
         /\ DOMAIN b.entries # {} => KindsIn(InKind(b.entries)) = {"dkp"}
<1> DEFINE es == b.entries
           ks == InKind(es)
<1>1. DOMAIN es = 1..Len(es) /\ Len(es) \in Nat
  BY DEF IsEntries
<1>2. /\ DOMAIN ks = DOMAIN es /\ ks = [i \in 1..Len(es) |-> ks[i]]
      /\ \A i \in DOMAIN es : /\ ks[i].account = es[i].account /\ ks[i].amount = es[i].amount
                              /\ ks[i].kind = "dkp" /\ HolderOf(ks[i]) = <<es[i].account, "dkp">>
  BY <1>1 DEF InKind, HolderOf
<1>3. ks = <<>> <=> DOMAIN es = {}
  <2>1. ks \in Seq({ks[i] : i \in DOMAIN es}) /\ Len(ks) = Len(es)
    BY <1>1, <1>2
  <2>2. QED BY <1>1, <2>1, EmptySeq
<1> HIDE DEF ks
<1>4. Amounts(ks) = Amounts(es) /\ AmountsOfKind(ks, "dkp") = Amounts(es)
  BY <1>2 DEF Amounts, AmountsOfKind
<1>5. ASSUME NEW a PROVE AmountsOf(ks, <<a, "dkp">>) = Column(b, a)
  <2>1. \A i \in DOMAIN es : HolderOf(ks[i]) = <<a, "dkp">> <=> es[i].account = a
    BY <1>2
  <2>2. QED BY <1>2, <2>1 DEF AmountsOf, Column
<1>6. Touched(ks) = {<<es[i].account, "dkp">> : i \in DOMAIN es}
  BY <1>2 DEF Touched
<1>7. DOMAIN es # {} => KindsIn(ks) = {"dkp"}
  BY <1>2 DEF KindsIn
<1>8. ASSUME NEW a PROVE Delta(ks, <<a, "dkp">>) = Moved(b, a)
  <2>1. CASE <<a, "dkp">> \in Touched(ks)
    BY <1>5, <2>1, ColumnType DEF Delta
  <2>2. CASE <<a, "dkp">> \notin Touched(ks)
    <3>1. \A i \in DOMAIN es : es[i].account # a
      BY <1>6, <2>2
    <3>2. Moved(b, a) = 0
      BY <3>1, MovedNothing
    <3>3. QED BY <2>2, <3>2 DEF Delta
  <2>3. QED BY <2>1, <2>2
<1>9. QED BY <1>2, <1>3, <1>4, <1>5, <1>6, <1>7, <1>8 DEF ks

\* A batch without rows is the empty one.
LEMMA KnownNothing ==
  ASSUME NEW p, KnownPlan(p)
  PROVE  p.entries = <<>> <=> DOMAIN p.entries = {}
<1> DEFINE es == p.entries
<1>1. es \in Seq(Rows(Members))
  BY DEF KnownPlan
<1> HIDE DEF es
<1>2. DOMAIN es = 1..Len(es) /\ Len(es) \in Nat
  BY <1>1, LenProperties
<1>3. DOMAIN es = {} <=> Len(es) = 0
  BY <1>2
<1>4. QED BY <1>1, <1>3, EmptySeq DEF es

\* The history of a pool in one kind is its log.
LEMMA HeldAtHead ==
  ASSUME LogInv, NEW a
  PROVE  HeldBy(History, <<a, "dkp">>) = Holding(a)
<1>1. IsLog(log) /\ HeadSeq \in Nat /\ HeadSeq = Len(log)
  BY LogIsLog DEF HeadSeq
<1>2. Len(History) = HeadSeq /\ \A n \in 1..HeadSeq : History[n].entries = InKind(log[n].entries)
  BY <1>1 DEF History
<1>3. \A n \in 1..HeadSeq : Delta(History[n].entries, <<a, "dkp">>) = Moved(log[n], a)
  BY <1>1, <1>2, OneKind DEF IsLog
<1>4. [n \in 1..Len(History) |-> Delta(History[n].entries, <<a, "dkp">>)] = [n \in 1..HeadSeq |-> Moved(log[n], a)]
  BY <1>2, <1>3
<1>5. QED BY <1>4 DEF HeldBy, Holding, Balance

\* The links and the keys, one by one.
LEMMA LinksAgree ==
  ASSUME LogInv, NEW p, p.kind \in KindsOfPlan, p.period \in Int \cup {None}
  PROVE  LinkAdmits(log, p) /\ PeriodFree(log, p) <=>
           NamesItsTarget(History, RequestOf(p)) /\ UsesNothingTwice(History, RequestOf(p))
<1> DEFINE r == RequestOf(p)
<1>1. /\ r.kind = p.kind /\ r.reverses = p.reverses /\ r.ref = None /\ r.key = KeyOf(p)
      /\ DOMAIN log = 1..HeadSeq /\ DOMAIN History = 1..HeadSeq
      /\ \A n \in 1..HeadSeq : /\ History[n].id = n /\ History[n].reverses = log[n].reverses
                               /\ History[n].key = KeyOf(log[n])
  BY LogIsLog DEF RequestOf, History, LogInv, HeadSeq
<1> HIDE DEF r
<1>2. NamesItsTarget(History, r) <=>
        (p.kind = "reversal" <=> p.reverses # None) /\ (p.reverses # None => p.reverses \in DOMAIN log)
  BY <1>1 DEF NamesItsTarget
<1>3. p.period # None => KeyOf(p) # None
  BY KeyAssumption DEF KeyOf
<1>4. ASSUME NEW n \in 1..HeadSeq, p.period # None
      PROVE  KeyOf(log[n]) = KeyOf(p) <=> log[n].kind = p.kind /\ log[n].period = p.period
  BY <1>3, <1>4 DEF KeyOf
<1>5. UsesNothingTwice(History, r) <=>
        /\ p.period # None => \A n \in 1..HeadSeq : KeyOf(log[n]) # KeyOf(p)
        /\ p.reverses # None => \A n \in 1..HeadSeq : log[n].reverses # p.reverses
  <2>1. p.period # None <=> r.key # None
    BY <1>1, <1>3 DEF KeyOf
  <2>2. QED BY <1>1, <2>1 DEF UsesNothingTwice
<1>6. PeriodFree(log, p) <=> (p.period # None => \A n \in 1..HeadSeq : KeyOf(log[n]) # KeyOf(p))
  BY <1>1, <1>4 DEF PeriodFree
<1>7. LinkAdmits(log, p) <=>
        /\ p.kind = "reversal" <=> p.reverses # None
        /\ p.reverses # None => p.reverses \in DOMAIN log
        /\ p.reverses # None => \A n \in 1..HeadSeq : log[n].reverses # p.reverses
  BY <1>1 DEF LinkAdmits, IsReversed
<1>8. QED BY <1>2, <1>5, <1>6, <1>7 DEF r

\* The declared rules.
LEMMA RulesAgree ==
  ASSUME LogInv, NEW p, KnownPlan(p), p.entries # <<>>
  PROVE  (RunsInRange(Amounts(p.entries)) /\ Total(Amounts(p.entries)) = 0 /\ FloorAdmits(log, p)) <=>
           /\ RunsInRange(Amounts(p.entries))
           /\ \A inv \in Declares(p) : RuleAdmits(History, Members, InKind(p.entries), inv)
<1> DEFINE ks == InKind(p.entries)
           scoped(inv) == {k \in KindsIn(ks) : inv.scope \in {None, k}}
           sums == [rule |-> "SumZero", scope |-> "dkp", floor |-> None]
           above(f) == [rule |-> "NonNegative", scope |-> "dkp", floor |-> f]
           kept(f) == \A h \in Touched(ks) : h[1] \in Members /\ Delta(ks, h) < 0 =>
                        HeldBy(History, h) + Delta(ks, h) >= f
<1>1. /\ KindsIn(ks) = {"dkp"} /\ AmountsOfKind(ks, "dkp") = Amounts(p.entries)
      /\ Touched(ks) = {<<p.entries[i].account, "dkp">> : i \in DOMAIN p.entries}
      /\ \A a : Delta(ks, <<a, "dkp">>) = Moved(p, a)
  BY KnownEach, KnownNothing, OneKind
<1> HIDE DEF ks
<1>2. scoped(sums) = {"dkp"} /\ \A f : scoped(above(f)) = {"dkp"}
  BY <1>1
<1>3. RuleAdmits(History, Members, ks, sums) <=>
        RunsInRange(Amounts(p.entries)) /\ Total(Amounts(p.entries)) = 0
  BY <1>1, <1>2 DEF RuleAdmits
<1>4. ASSUME NEW f, f # None PROVE RuleAdmits(History, Members, ks, above(f)) <=> kept(f)
  <2>1. \A h \in Touched(ks) : h[2] = "dkp"
    BY <1>1
  <2>2. QED BY <1>2, <1>4, <2>1 DEF RuleAdmits
<1>5. ASSUME p.floor # None PROVE FloorAdmits(log, p) <=> kept(p.floor)
  <2>1. \A i \in DOMAIN p.entries : p.entries[i].account \notin SystemAccounts <=> p.entries[i].account \in Members
    BY KnownEach, MembersArePeople DEF Known
  <2>2. ASSUME NEW i \in DOMAIN p.entries, NEW h, h = <<p.entries[i].account, "dkp">>
        PROVE  /\ h \in Touched(ks) /\ h[1] = p.entries[i].account
               /\ Delta(ks, h) = Net(p, p.entries[i].account)
               /\ HeldBy(History, h) = Balance(log, p.entries[i].account, Len(log))
    <3>1. HeldBy(History, h) = Balance(log, p.entries[i].account, Len(log))
      BY <2>2, HeldAtHead DEF Holding, HeadSeq
    <3>2. QED BY <1>1, <2>2, <3>1 DEF Net
  <2>3. \A h \in Touched(ks) : \E i \in DOMAIN p.entries : h = <<p.entries[i].account, "dkp">>
    BY <1>1
  <2>4. ASSUME kept(p.floor) PROVE FloorAdmits(log, p)
    BY <2>1, <2>2, <2>4 DEF FloorAdmits
  <2>5. ASSUME FloorAdmits(log, p) PROVE kept(p.floor)
    BY <1>5, <2>1, <2>2, <2>3, <2>5 DEF FloorAdmits
  <2>6. QED BY <2>4, <2>5
<1>6. Declares(p) = {sums} \cup {above(f) : f \in {p.floor} \ {None}}
  BY DEF Declares
<1>7. (\A inv \in Declares(p) : RuleAdmits(History, Members, ks, inv)) <=>
        /\ RuleAdmits(History, Members, ks, sums)
        /\ p.floor # None => RuleAdmits(History, Members, ks, above(p.floor))
  <2> HIDE DEF sums, above
  <2>1. QED BY <1>6
<1>8. p.floor = None => FloorAdmits(log, p)
  BY DEF FloorAdmits
<1> HIDE DEF sums, above, kept
<1>9. QED BY <1>3, <1>4, <1>5, <1>7, <1>8 DEF ks

\* What the sums of a batch come to.
LEMMA SumsAgree ==
  ASSUME LogInv, NEW p, KnownPlan(p)
  PROVE  Representable(History, InKind(p.entries)) <=>
           /\ RunsInRange(Amounts(p.entries))
           /\ \A i \in DOMAIN p.entries : RunsInRange(PartOf(p, p.entries[i].account))
           /\ \A i \in DOMAIN p.entries :
                Balance(log, p.entries[i].account, Len(log)) + Net(p, p.entries[i].account) \in Cp
<1> DEFINE ks == InKind(p.entries)
<1>1. /\ Amounts(ks) = Amounts(p.entries)
      /\ Touched(ks) = {<<p.entries[i].account, "dkp">> : i \in DOMAIN p.entries}
      /\ \A a : AmountsOf(ks, <<a, "dkp">>) = PartOf(p, a) /\ Delta(ks, <<a, "dkp">>) = Net(p, a)
  <2>1. \A a : Column(p, a) = PartOf(p, a)
    BY DEF Column, PartOf
  <2>2. QED BY <2>1, KnownEach, OneKind DEF Net
<1>2. ASSUME NEW a PROVE HeldBy(History, <<a, "dkp">>) = Balance(log, a, Len(log))
  BY HeldAtHead DEF Holding, HeadSeq
<1>3. (\A h \in Touched(ks) : RunsInRange(AmountsOf(ks, h)))
        <=> \A i \in DOMAIN p.entries : RunsInRange(PartOf(p, p.entries[i].account))
  <2> HIDE DEF ks
  <2>1. QED BY <1>1
<1>4. (\A h \in Touched(ks) : HeldBy(History, h) + Delta(ks, h) \in Cp)
        <=> \A i \in DOMAIN p.entries :
              Balance(log, p.entries[i].account, Len(log)) + Net(p, p.entries[i].account) \in Cp
  <2> HIDE DEF ks
  <2>1. QED BY <1>1, <1>2
<1> HIDE DEF ks
<1>5. QED BY <1>1, <1>3, <1>4 DEF Representable, ks

\* Rows of accounts that exist now are rows ledger.Commit takes.
LEMMA LiveRows ==
  ASSUME NEW p, KnownPlan(p), \A i \in DOMAIN p.entries : p.entries[i].account \in roster \cup SystemAccounts
  PROVE  p.entries \in Seq([account : roster \cup SystemAccounts, amount : Cp \ {0}])
<1> DEFINE es == p.entries
<1>1. es \in Seq(Rows(Members))
  BY DEF KnownPlan
<1>2. \A i \in 1..Len(es) : es[i] \in Rows(Members) /\ es[i].account \in roster \cup SystemAccounts
  BY <1>1, ElementOfSeq, LenProperties
<1>3. \A i \in 1..Len(es) : es[i] \in [account : roster \cup SystemAccounts, amount : Cp \ {0}]
  BY <1>2 DEF Rows
<1>4. QED BY <1>1, <1>3, SeqNarrow

\* The pool's one step is the decision Ledger is shown to make: of every proposal that waits, in
\* every reachable state, for any rules and any roster.
THEOREM CommitsMatch == Spec => []CommitsAsTheLedger
<1>1. BaseInv /\ FormInv /\ PeriodInv => CommitsAsTheLedger
  <2> SUFFICES ASSUME BaseInv, FormInv, PeriodInv, NEW p \in plans
               PROVE  CommitAdmits(log, roster, p)
                        <=> Admits(History, roster \cup SystemAccounts, Members, RequestOf(p))
    BY DEF CommitsAsTheLedger
  <2> DEFINE live == \A i \in DOMAIN p.entries : p.entries[i].account \in roster \cup SystemAccounts
             es == p.entries
             r == RequestOf(p)
  <2>1. LogInv /\ KnownPlan(p) /\ p.kind \in KindsOfPlan /\ p.period \in Int \cup {None}
    <3>1. KnownPlan(p) /\ p.kind \in KindsOfPlan /\ p.period \in Int \cup {None}
      BY BoundsAssumption DEF FormInv, PeriodInv, OfARun
    <3>2. QED BY <3>1 DEF BaseInv
  <2>2. r.entries = InKind(es) /\ r.rules = Declares(p)
    BY DEF RequestOf
  <2>3. es \in Seq([account : roster \cup SystemAccounts, amount : Cp \ {0}]) \ {<<>>} <=> es # <<>> /\ live
    <3>1. ASSUME es \in Seq([account : roster \cup SystemAccounts, amount : Cp \ {0}]) PROVE live
      BY <3>1, RowsAreEntries
    <3>2. ASSUME live PROVE es \in Seq([account : roster \cup SystemAccounts, amount : Cp \ {0}])
      BY <2>1, <3>2, LiveRows
    <3>3. QED BY <3>1, <3>2
  <2>4. (r.entries # <<>> <=> es # <<>>)
        /\ (live <=> \A i \in DOMAIN r.entries :
                       r.entries[i].amount # 0 /\ r.entries[i].account \in roster \cup SystemAccounts)
    <3>1. IsEntries(es) /\ (es = <<>> <=> DOMAIN es = {}) /\ \A i \in DOMAIN es : es[i].amount # 0
      BY <2>1, KnownEach, KnownNothing
    <3>2. QED BY <2>2, <3>1, OneKind
  <2>5. Representable(History, r.entries) <=>
           /\ RunsInRange(Amounts(es)) /\ \A i \in DOMAIN es : RunsInRange(PartOf(p, es[i].account))
           /\ \A i \in DOMAIN es : Balance(log, es[i].account, Len(log)) + Net(p, es[i].account) \in Cp
    BY <2>1, <2>2, SumsAgree
  <2>6. LinkAdmits(log, p) /\ PeriodFree(log, p) <=> NamesItsTarget(History, r) /\ UsesNothingTwice(History, r)
    BY <2>1, LinksAgree
  <2>7. es # <<>> =>
          ((RunsInRange(Amounts(es)) /\ Total(Amounts(es)) = 0 /\ FloorAdmits(log, p)) <=>
             /\ RunsInRange(Amounts(es))
             /\ \A inv \in r.rules : RuleAdmits(History, Members, r.entries, inv))
    BY <2>1, <2>2, RulesAgree
  <2> HIDE DEF live, es, r
  <2>8. CommitAdmits(log, roster, p) <=>
          /\ es # <<>> /\ live
          /\ \A i \in DOMAIN es : Balance(log, es[i].account, Len(log)) + Net(p, es[i].account) \in Cp
          /\ RunsInRange(Amounts(es)) /\ Total(Amounts(es)) = 0
          /\ \A i \in DOMAIN es : RunsInRange(PartOf(p, es[i].account))
          /\ LinkAdmits(log, p) /\ PeriodFree(log, p) /\ FloorAdmits(log, p)
    BY <2>3 DEF CommitAdmits, es
  <2>9. QED BY <2>4, <2>5, <2>6, <2>7, <2>8 DEF Admits, r
<1>2. Init => BaseInv /\ RunInv /\ AuctionInv /\ FormInv /\ PeriodInv
  BY BaseInit, RunInit, AuctionInit, FormInit, PeriodInit
<1>3. BaseInv /\ RunInv /\ AuctionInv /\ FormInv /\ PeriodInv /\ [Next]_vars
        => (BaseInv /\ RunInv /\ AuctionInv /\ FormInv /\ PeriodInv)'
  BY BaseNext, RunNext, AuctionNext, FormNext, PeriodNext
<1>4. QED BY <1>1, <1>2, <1>3, PTL DEF Spec

-----------------------------------------------------------------------------
(* What is never refused.                                                    *)

\* Where there is room, no sum that a commit computes leaves an int64.
LEMMA RoomSums ==
  ASSUME LogInv, NEW p, KnownPlan(p), p.entries # <<>>, RoomFor(p)
  PROVE  /\ RunsInRange(Amounts(p.entries))
         /\ \A i \in DOMAIN p.entries :
              LET a == p.entries[i].account
              IN  /\ RunsInRange(PartOf(p, a)) /\ Holding(a) + Net(p, a) \in Cp
                  /\ -p.entries[i].amount \in Cp
<1> DEFINE es == p.entries
           u == [i \in DOMAIN es |-> Magnitude(es[i].amount)]
           size == Total(u)
<1>1. /\ DOMAIN es = 1..Len(es) /\ Len(es) \in Nat
      /\ \A i \in DOMAIN es : es[i].amount \in Int /\ es[i].account \in Known
  BY KnownEach DEF IsEntries
<1>2. /\ u \in Seq(Int) /\ Len(u) = Len(es) /\ DOMAIN es # {}
      /\ \A i \in 1..Len(es) : u[i] \in Nat /\ -u[i] <= es[i].amount /\ es[i].amount <= u[i]
  <2>1. \A i \in 1..Len(es) : u[i] \in Nat /\ -u[i] <= es[i].amount /\ es[i].amount <= u[i]
    BY <1>1 DEF Magnitude
  <2>2. DOMAIN es # {}
    BY KnownNothing
  <2>3. DOMAIN u = 1..Len(es) /\ u = [i \in DOMAIN u |-> u[i]]
    BY <1>1
  <2> HIDE DEF u, es
  <2>4. u \in Seq(Int) /\ Len(u) = Len(es)
    <3>1. \A i \in 1..Len(es) : u[i] \in Int
      BY <2>1
    <3>2. u \in [1..Len(es) -> Int]
      BY <2>3, <3>1
    <3>3. QED BY <1>1, <3>2 DEF es
  <2>5. QED BY <2>1, <2>2, <2>4 DEF es
<1>3. ASSUME NEW i \in DOMAIN es
      PROVE  LET held == Holding(es[i].account) IN held \in Int /\ held - size \in Cp /\ held + size \in Cp
  <2>1. Holding(es[i].account) \in Int
    BY LogIsLog, BalanceType DEF Holding, HeadSeq
  <2>2. QED BY <1>3, <2>1 DEF RoomFor
<1>4. Amounts(es) \in Seq(Int) /\ Len(Amounts(es)) = Len(es)
      /\ \A i \in 1..Len(es) : Amounts(es)[i] = es[i].amount
  BY <1>1 DEF Amounts
<1>5. ASSUME NEW a
      PROVE  /\ PartOf(p, a) \in Seq(Int) /\ Len(PartOf(p, a)) = Len(es) /\ Net(p, a) = Total(PartOf(p, a))
             /\ \A i \in 1..Len(es) : PartOf(p, a)[i] = es[i].amount \/ PartOf(p, a)[i] = 0
  BY <1>1, KnownEach, ColumnType DEF Column, PartOf, Net
<1> HIDE DEF u
<1>6. size \in Nat /\ size <= MaxCp /\ -size \in Cp
  <2>1. size \in Int
    BY <1>2, TotalType
  <2>2. PICK i \in DOMAIN es : TRUE
    BY <1>2
  <2>3. PICK held \in Int : held - size \in Cp /\ held + size \in Cp
    BY <1>3, <2>2
  <2>4. 0 <= size
    <3>1. 1 \in 1..Len(es)
      BY <1>1, <1>2
    <3>2. -size <= Total(SubSeq(u, 1, 1)) /\ Total(SubSeq(u, 1, 1)) <= size
      <4>1. \A k \in 1..Len(u) : -u[k] <= u[k] /\ u[k] <= u[k]
        BY <1>2
      <4>2. QED BY <1>2, <3>1, <4>1, RunsBounded
    <3>3. Total(SubSeq(u, 1, 1)) \in Int
      <4>1. \A k \in 1..1 : u[k] \in Int
        BY <1>2, <3>1
      <4>2. SubSeq(u, 1, 1) \in Seq(Int)
        BY <4>1, SubSeqProperties
      <4>3. QED BY <4>2, TotalType
    <3> HIDE DEF size
    <3>4. QED BY <2>1, <3>2, <3>3
  <2> HIDE DEF size
  <2>5. QED BY <2>1, <2>3, <2>4, MaxCpAssumption DEF Cp
<1>7. ASSUME NEW s \in Seq(Int), Len(s) = Len(es), \A i \in 1..Len(es) : s[i] = es[i].amount \/ s[i] = 0
      PROVE  /\ RunsInRange(s) /\ -size <= Total(s) /\ Total(s) <= size
  <2>1. \A i \in 1..Len(s) : -u[i] <= s[i] /\ s[i] <= u[i]
    <3> SUFFICES ASSUME NEW i \in 1..Len(es) PROVE -u[i] <= s[i] /\ s[i] <= u[i]
      BY <1>7
    <3>1. u[i] \in Nat /\ -u[i] <= es[i].amount /\ es[i].amount <= u[i]
      BY <1>2
    <3>2. s[i] = es[i].amount \/ s[i] = 0
      BY <1>7
    <3> HIDE DEF es
    <3>3. QED BY <3>1, <3>2
  <2>2. ASSUME NEW k \in 1..Len(s)
        PROVE  -size <= Total(SubSeq(s, 1, k)) /\ Total(SubSeq(s, 1, k)) <= size /\ Total(SubSeq(s, 1, k)) \in Int
    <3>1. -size <= Total(SubSeq(s, 1, k)) /\ Total(SubSeq(s, 1, k)) <= size
      BY <1>2, <1>7, <2>1, RunsBounded
    <3>2. \A i \in 1..k : s[i] \in Int
      BY <1>7, ElementOfSeq
    <3>3. SubSeq(s, 1, k) \in Seq(Int)
      BY <3>2, SubSeqProperties
    <3>4. QED BY <3>1, <3>3, TotalType
  <2> HIDE DEF size
  <2>3. \A k \in 1..Len(s) : Total(SubSeq(s, 1, k)) \in Cp
    BY <1>6, <2>2, MaxCpAssumption DEF Cp
  <2>4. Total(SubSeq(s, 1, Len(s))) = Total(s) /\ Len(s) \in 1..Len(s)
    <3>1. Len(s) \in 1..Len(s)
      BY <1>1, <1>2, <1>7
    <3>2. QED BY <1>7, <3>1, SubSeqFull
  <2>5. QED BY <2>2, <2>3, <2>4 DEF RunsInRange
<1>8. RunsInRange(Amounts(es))
  BY <1>4, <1>7
<1>9. ASSUME NEW i \in DOMAIN es
      PROVE  /\ RunsInRange(PartOf(p, es[i].account)) /\ Holding(es[i].account) + Net(p, es[i].account) \in Cp
             /\ -es[i].amount \in Cp
  <2> DEFINE a == es[i].account
             x == es[i].amount
             net == Net(p, a)
             held == Holding(a)
  <2>1. RunsInRange(PartOf(p, a)) /\ -size <= net /\ net <= size /\ net \in Int
    BY <1>5, <1>7, TotalType
  <2>2. held \in Int /\ held - size \in Cp /\ held + size \in Cp
    BY <1>3
  <2>3. x \in Int /\ -size <= x /\ x <= size
    <3> DEFINE s == [k \in 1..Len(es) |-> IF k = i THEN x ELSE 0]
               z == [k \in 1..Len(es) |-> 0]
    <3>1. x \in Int /\ i \in 1..Len(es)
      BY <1>1
    <3>2. /\ s \in Seq(Int) /\ Len(s) = Len(es)
          /\ \A k \in 1..Len(es) : s[k] = es[k].amount \/ s[k] = 0
      BY <1>1, <3>1
    <3>3. z \in Seq(Int) /\ Len(z) = Len(es) /\ \A k \in 1..Len(z) : z[k] = 0
      BY <1>1
    <3>4. s[i] = z[i] + x /\ \A k \in 1..Len(z) : k # i => s[k] = z[k]
      BY <3>1, <3>3
    <3> HIDE DEF s, z, size, x
    <3>5. Total(s) = Total(z) + x /\ Total(z) = 0
      BY <3>1, <3>2, <3>3, <3>4, TotalPoint, TotalZero
    <3>6. QED BY <1>7, <3>1, <3>2, <3>5
  <2> HIDE DEF size, x, net, held
  <2>4. held + net \in Cp /\ -x \in Cp
    BY <1>6, <2>1, <2>2, <2>3, MaxCpAssumption DEF Cp
  <2>5. QED BY <2>1, <2>4 DEF x, net, held
<1>10. QED BY <1>8, <1>9

\* Where there is room, a balanced plan is refused only for a link, a key or a floor.
LEMMA RoomAdmits ==
  ASSUME LogInv, NEW p, KnownPlan(p), Balanced(p), RoomFor(p),
         \A i \in DOMAIN p.entries : p.entries[i].account \in roster \cup SystemAccounts,
         LinkAdmits(log, p), PeriodFree(log, p), FloorAdmits(log, p)
  PROVE  CommitAdmits(log, roster, p)
<1>1. p.entries \in Seq([account : roster \cup SystemAccounts, amount : Cp \ {0}])
  BY LiveRows
<1>2. p.entries # <<>> /\ Total(Amounts(p.entries)) = 0
  BY DEF Balanced
<1>3. /\ RunsInRange(Amounts(p.entries))
      /\ \A i \in DOMAIN p.entries : RunsInRange(PartOf(p, p.entries[i].account))
      /\ \A i \in DOMAIN p.entries :
           Balance(log, p.entries[i].account, Len(log)) + Net(p, p.entries[i].account) \in Cp
  BY <1>2, RoomSums DEF Holding, HeadSeq
<1>4. QED BY <1>1, <1>2, <1>3 DEF CommitAdmits

\* Every committed batch moves something, from somebody to somebody.
BalancedInv == \A n \in 1..HeadSeq : Balanced(log[n])

\* The first raid did.
LEMMA BalancedInit == Init => BalancedInv
<1> SUFFICES ASSUME Init PROVE BalancedInv
  OBVIOUS
<1> DEFINE p == AttendancePlan(rules.earn, <<>>, Opening)
<1>1. log = <<p>> /\ HeadSeq = 1 /\ CommitAdmits(<<>>, roster, p)
  BY FirstBatch DEF Init
<1>2. Balanced(p)
  BY <1>1 DEF CommitAdmits, Balanced
<1> HIDE DEF p
<1>3. log[1] = p
  BY <1>1
<1>4. QED BY <1>1, <1>2, <1>3 DEF BalancedInv

\* What does not is not admitted.
LEMMA BalancedNext == BaseInv /\ BalancedInv /\ [Next]_vars => BalancedInv'
<1> SUFFICES ASSUME BaseInv, BalancedInv, [Next]_vars PROVE BalancedInv'
  OBVIOUS
<1>1. CASE log' = log
  BY <1>1 DEF BalancedInv, Balanced, HeadSeq
<1>2. ASSUME NEW p, Commits(p) PROVE BalancedInv'
  <2>1. /\ HeadSeq \in Nat /\ HeadSeq' = HeadSeq + 1 /\ log'[HeadSeq + 1] = p
        /\ \A n \in 1..HeadSeq : log'[n] = log[n]
    BY <1>2, Committed
  <2>2. Balanced(p)
    BY <1>2 DEF Commits, CommitAdmits, Balanced
  <2>3. \A n \in 1..(HeadSeq + 1) : n = HeadSeq + 1 \/ n \in 1..HeadSeq
    BY <2>1
  <2>4. QED BY <2>1, <2>2, <2>3 DEF BalancedInv, Balanced
<1>3. QED BY <1>1, <1>2, LogGrows

\* The negation of a batch is as large as the batch, moves the same accounts and is balanced.
LEMMA NegationFits ==
  ASSUME NEW b, KnownPlan(b), Balanced(b), NEW p, p.entries = Negated(b.entries)
  PROVE  /\ DOMAIN p.entries = DOMAIN b.entries /\ Balanced(p) /\ (RoomFor(b) <=> RoomFor(p))
         /\ \A i \in DOMAIN b.entries : p.entries[i].account = b.entries[i].account
<1> DEFINE es == b.entries
           ns == p.entries
<1>1. DOMAIN es = 1..Len(es) /\ Len(es) \in Nat /\ \A i \in DOMAIN es : es[i].amount \in Int
  BY KnownEach DEF IsEntries
<1>2. /\ DOMAIN ns = DOMAIN es /\ Len(ns) = Len(es)
      /\ \A i \in DOMAIN es : ns[i].account = es[i].account /\ ns[i].amount = -es[i].amount
  BY <1>1 DEF Negated, Entry
<1>3. es # <<>> /\ Total(Amounts(es)) = 0
  BY DEF Balanced
<1>4. ns # <<>>
  <2>1. DOMAIN es # {}
    BY <1>3, KnownNothing
  <2>2. QED BY <1>2, <2>1
<1>5. \A i \in DOMAIN es : Magnitude(ns[i].amount) = Magnitude(es[i].amount)
  BY <1>1, <1>2 DEF Magnitude
<1>6. [i \in DOMAIN ns |-> Magnitude(ns[i].amount)] = [i \in DOMAIN es |-> Magnitude(es[i].amount)]
  BY <1>2, <1>5
<1>7. RoomFor(b) <=> RoomFor(p)
  BY <1>2, <1>6 DEF RoomFor
<1>8. Total(Amounts(ns)) = -Total(Amounts(es))
  <2>1. /\ Amounts(es) = [i \in 1..Len(es) |-> es[i].amount]
        /\ Amounts(ns) = [i \in 1..Len(es) |-> -es[i].amount]
    BY <1>1, <1>2 DEF Amounts
  <2>2. /\ Amounts(es) \in Seq(Int) /\ Len(Amounts(es)) = Len(es)
        /\ Amounts(ns) \in Seq(Int) /\ Len(Amounts(ns)) = Len(es)
        /\ \A i \in 1..Len(es) : Amounts(ns)[i] = -Amounts(es)[i]
    <3> HIDE DEF es, ns
    <3>1. QED BY <1>1, <2>1
  <2>3. QED BY <2>2, TotalNegated
<1>9. Balanced(p)
  <2>1. Total(Amounts(es)) \in Int /\ Total(Amounts(ns)) \in Int
    BY <1>3, <1>8
  <2>2. Total(Amounts(es)) + Total(Amounts(ns)) = 0
    <3> HIDE DEF es, ns
    <3>1. QED BY <1>8, <2>1
  <2>3. Total(Amounts(ns)) = 0
    <3> HIDE DEF es, ns
    <3>1. QED BY <1>3, <2>1, <2>2
  <2>4. QED BY <1>4, <2>3 DEF Balanced
<1>10. QED BY <1>2, <1>7, <1>9

\* A mistake can be fixed: whatever was spent since and whatever rules are in force, every batch
\* not yet reversed can be reversed now, unless a balance stands at the limit of an int64.
THEOREM ReversalsCommit ==
  Spec => []((\A n \in 1..HeadSeq : RoomFor(log[n])) => EveryBatchCanBeReversed)
<1>1. BaseInv /\ FormInv /\ BalancedInv => ((\A n \in 1..HeadSeq : RoomFor(log[n])) => EveryBatchCanBeReversed)
  <2> SUFFICES ASSUME BaseInv, FormInv, BalancedInv, NEW n \in 1..HeadSeq, RoomFor(log[n]), ~IsReversed(log, n)
               PROVE  PlanReversal(rules, log, n) # NoPlan /\ CommitAdmits(log, roster, PlanReversal(rules, log, n))
    BY DEF EveryBatchCanBeReversed
  <2> DEFINE p == PlanReversal(rules, log, n)
             b == log[n]
  <2>1. LogInv /\ RosterInv /\ n \in DOMAIN log /\ KnownPlan(b) /\ Balanced(b) /\ b.entries # <<>>
        /\ \A i \in DOMAIN b.entries : b.entries[i].account \in roster \cup SystemAccounts
    BY LogIsLog DEF BaseInv, LogInv, FormInv, BalancedInv, Balanced, HeadSeq
  <2>2. \A i \in DOMAIN b.entries : -b.entries[i].amount \in Cp
    BY <2>1, RoomSums
  <2>3. p = [kind |-> "reversal", strategy |-> b.strategy, cfg |-> b.cfg, period |-> None,
             reverses |-> n, floor |-> None, entries |-> Negated(b.entries)]
    BY <2>1, <2>2 DEF PlanReversal, ReversePlan
  <2>4. p.kind = "reversal" /\ p.period = None /\ p.reverses = n /\ p.floor = None
        /\ p.entries = Negated(b.entries)
    BY <2>3
  <2>5. p # NoPlan
    BY <2>4 DEF NoPlan
  <2>6. KnownPlan(p)
    BY <2>1, <2>5, ReversalKnown
  <2> HIDE DEF p
  <2>7. Balanced(p) /\ RoomFor(p) /\ \A i \in DOMAIN p.entries : p.entries[i].account \in roster \cup SystemAccounts
    BY <2>1, <2>4, NegationFits
  <2>8. LinkAdmits(log, p) /\ PeriodFree(log, p) /\ FloorAdmits(log, p)
    <3>1. n # None
      BY LogIsLog, NoneAssumption DEF BaseInv
    <3>2. QED BY <2>1, <2>4, <3>1 DEF LinkAdmits, PeriodFree, FloorAdmits
  <2>9. CommitAdmits(log, roster, p)
    BY <2>1, <2>6, <2>7, <2>8, RoomAdmits
  <2>10. QED BY <2>5, <2>9 DEF p
<1>2. Init => BaseInv /\ RunInv /\ AuctionInv /\ FormInv /\ BalancedInv
  BY BaseInit, RunInit, AuctionInit, FormInit, BalancedInit
<1>3. BaseInv /\ RunInv /\ AuctionInv /\ FormInv /\ BalancedInv /\ [Next]_vars
        => (BaseInv /\ RunInv /\ AuctionInv /\ FormInv /\ BalancedInv)'
  BY BaseNext, RunNext, AuctionNext, FormNext, BalancedNext
<1>4. QED BY <1>1, <1>2, <1>3, PTL DEF Spec

\* A sale whose buyer can pay it down to the floor is never refused, whoever else is in debt,
\* unless a balance stands at the limit of an int64.
THEOREM SalesCommit ==
  Spec => []((\A ev \in Sales : RoomFor(AwardPlan(rules.spend, ev))) => AffordableSalesCommit)
<1>1. BaseInv => ((\A ev \in Sales : RoomFor(AwardPlan(rules.spend, ev))) => AffordableSalesCommit)
  <2> SUFFICES ASSUME BaseInv, NEW ev \in Sales, RoomFor(AwardPlan(rules.spend, ev)),
                      AwardPlan(rules.spend, ev) # NoPlan,
                      \A i \in DOMAIN AwardPlan(rules.spend, ev).entries :
                        AwardPlan(rules.spend, ev).entries[i].account \in roster \cup SystemAccounts,
                      \A a \in roster : Net(AwardPlan(rules.spend, ev), a) < 0 =>
                        Holding(a) + Net(AwardPlan(rules.spend, ev), a) >= AwardPlan(rules.spend, ev).floor
               PROVE  CommitAdmits(log, roster, AwardPlan(rules.spend, ev))
    BY DEF AffordableSalesCommit
  <2> DEFINE p == AwardPlan(rules.spend, ev)
  <2>1. LogInv /\ RulesInv /\ ev \in SaleOf
    BY EventsAssumption DEF BaseInv, SaleOf, ShareOf, Accounts
  <2>2. KnownPlan(p)
    BY <2>1, AwardKnown
  <2>3. p.kind = "award" /\ p.period = None /\ p.reverses = None /\ Balanced(p)
    BY AwardLabels DEF Labelled
  <2>4. LinkAdmits(log, p) /\ PeriodFree(log, p)
    BY <2>3 DEF LinkAdmits, PeriodFree
  <2>5. FloorAdmits(log, p)
    BY DEF FloorAdmits, Holding, HeadSeq
  <2> HIDE DEF p
  <2>6. QED BY <2>1, <2>2, <2>3, <2>4, <2>5, RoomAdmits DEF p
<1>2. QED BY <1>1, BaseInit, BaseNext, PTL DEF Spec

\* A rate of something is something or nothing.
LEMMA DecayIsNatural ==
  ASSUME NEW x \in Nat, NEW bp \in Nat
  PROVE  DecayAmount(x, bp) \in Nat
<1>1. x * bp \in Nat /\ WholeBp \in Nat \ {0}
  BY BoundsAssumption
<1>2. (x * bp) \div WholeBp \in Nat
  <2> DEFINE y == x * bp
  <2>1. y \in Nat
    BY <1>1
  <2> HIDE DEF y
  <2>2. y \div WholeBp \in Nat
    BY <1>1, <2>1, Divided
  <2>3. QED BY <2>2 DEF y
<1>3. QED BY <1>2 DEF DecayAmount

\* decay_percent takes nobody below its floor, and from nobody who is below it.
LEMMA DecayKeepsFloor ==
  ASSUME NEW cfg, DecayPercentConfigValid(cfg), cfg.floor \in Int, NEW x \in Int
  PROVE  /\ Decayable(cfg, x) \in Int
         /\ Decayable(cfg, x) < 0 => x + Decayable(cfg, x) >= cfg.floor
<1> DEFINE d == DecayAmount(x, cfg.decay)
           e == DecayAmount(-x, cfg.decay)
           floor == cfg.floor
<1>1. cfg.decay \in Nat /\ cfg.negative \in {"skip", "toward_zero", "preserve_sign"}
  BY BoundsAssumption DEF DecayPercentConfigValid
<1>2. x > 0 => d \in Nat
  <2> SUFFICES ASSUME x > 0 PROVE d \in Nat
    OBVIOUS
  <2>1. x \in Nat
    OBVIOUS
  <2>2. QED BY <1>1, <2>1, DecayIsNatural
<1>3. x < 0 => e \in Nat
  <2> SUFFICES ASSUME x < 0 PROVE e \in Nat
    OBVIOUS
  <2>1. -x \in Nat
    OBVIOUS
  <2>2. QED BY <1>1, <2>1, DecayIsNatural
<1> HIDE DEF d, e, floor
<1>4. CASE x > 0 /\ x > floor
  <2>1. Decayable(cfg, x) = -Least(d, x - floor)
    BY <1>4 DEF Decayable, d, floor
  <2>2. floor \in Int
    BY DEF floor
  <2>3. QED BY <1>2, <1>4, <2>1, <2>2 DEF Least, floor
<1>5. CASE x > 0 /\ x <= floor
  <2>1. Decayable(cfg, x) = 0
    BY <1>5 DEF Decayable, floor
  <2>2. QED BY <2>1
<1>6. CASE x = 0
  <2>1. Decayable(cfg, x) = 0
    BY <1>6 DEF Decayable
  <2>2. QED BY <2>1
<1>7. CASE x < 0 /\ cfg.negative = "skip"
  <2>1. Decayable(cfg, x) = 0
    BY <1>7 DEF Decayable
  <2>2. QED BY <2>1
<1>8. CASE x < 0 /\ cfg.negative = "toward_zero"
  <2>1. Decayable(cfg, x) = e
    BY <1>8 DEF Decayable, e
  <2>2. QED BY <1>3, <1>8, <2>1
<1>9. CASE x < 0 /\ cfg.negative = "preserve_sign"
  <2>1. Decayable(cfg, x) = -Least(e, Greatest(x - floor, 0))
    BY <1>9 DEF Decayable, e, floor
  <2>2. floor \in Int /\ e \in Nat
    BY <1>3, <1>9 DEF floor
  <2>3. Decayable(cfg, x) \in Int /\ (Decayable(cfg, x) < 0 => x + Decayable(cfg, x) >= floor)
    BY <2>1, <2>2 DEF Least, Greatest
  <2>4. QED BY <2>3 DEF floor
<1>10. x > 0 \/ x = 0 \/ x < 0
  OBVIOUS
<1>11. x > 0 => x > floor \/ x <= floor
  BY DEF floor
<1>12. QED BY <1>1, <1>4, <1>5, <1>6, <1>7, <1>8, <1>9, <1>10, <1>11

\* What a run moves: of whom it looks at, and nobody below the floor of its rule.
StaysAbove(f, spec, ledger, floor) ==
  \A a \in DOMAIN f : f[a] \in Int /\ (f[a] < 0 => Balance(ledger, a, spec.asOf) + f[a] >= floor)

\* What a run plans keeps its floor, whichever of the over-time rules plans it.
LEMMA RunMoves ==
  ASSUME NEW rule, rule.id \in {"decay_percent", "decay_window", "cap"}, rule.cfg.floor \in Int,
         rule.id = "cap" => rule.cfg.hard \in Int,
         NEW ledger, IsLog(ledger), NEW spec, spec.asOf \in Nat, spec.asOf <= Len(ledger), NEW members,
         spec.from \in Nat, spec.to \in Nat, RunPlan(rule, ledger, spec, members) # NoPlan
  PROVE  \E f : /\ DOMAIN f = Targets(spec, members) /\ StaysAbove(f, spec, ledger, rule.cfg.floor)
                /\ RunPlan(rule, ledger, spec, members).entries = PaidToBank(MovesOf(f))
<1> DEFINE p == RunPlan(rule, ledger, spec, members)
           who == Targets(spec, members)
           cfg == rule.cfg
<1>0. Can(rule, "run") /\ \A a : Balance(ledger, a, spec.asOf) \in Int
  BY BalanceType DEF RunPlan
<1> HIDE DEF who
<1>1. CASE rule.id = "decay_percent"
  <2> DEFINE balance == [a \in who |-> Balance(ledger, a, spec.asOf)]
             f == [a \in DOMAIN balance |-> Decayable(cfg, balance[a])]
  <2>1. p = DecayPercentRun(rule, ledger, spec, members)
    BY <1>0, <1>1 DEF RunPlan
  <2>2. p = Propose(rule, "decay", spec.period, cfg.floor, PaidToBank(MovesOf(f))) /\ DecayPercentConfigValid(cfg)
    BY <2>1 DEF DecayPercentRun, who
  <2>3. p.entries = PaidToBank(MovesOf(f))
    BY <2>2, ProposeLabels
  <2>4. DOMAIN f = who /\ \A a \in who : f[a] = Decayable(cfg, Balance(ledger, a, spec.asOf))
    OBVIOUS
  <2>5. StaysAbove(f, spec, ledger, cfg.floor)
    <3> HIDE DEF f, cfg
    <3>1. cfg.floor \in Int
      BY DEF cfg
    <3>2. QED BY <1>0, <2>2, <2>4, <3>1, DecayKeepsFloor DEF StaysAbove
  <2> HIDE DEF f
  <2>6. QED BY <2>3, <2>4, <2>5 DEF who
<1>2. CASE rule.id = "decay_window"
  <2> DEFINE f == [a \in who |-> -Expired(cfg, ledger, spec, a)]
  <2>1. p = DecayWindowRun(rule, ledger, spec, members)
    BY <1>0, <1>2 DEF RunPlan
  <2>2. p = Propose(rule, "decay", spec.period, cfg.floor, PaidToBank(MovesOf(f))) /\ WindowOk(cfg, spec)
    BY <2>1 DEF DecayWindowRun, who
  <2>3. p.entries = PaidToBank(MovesOf(f))
    BY <2>2, ProposeLabels
  <2>4. ASSUME NEW a \in who
        PROVE  f[a] \in Int /\ (f[a] < 0 => Balance(ledger, a, spec.asOf) + f[a] >= cfg.floor)
    <3> DEFINE earned == EarnedBetween(ledger, a, spec.from, spec.to)
               held == Balance(ledger, a, spec.asOf)
               floor == cfg.floor
    <3>1. earned \in Nat
      <4>1. spec.from <= spec.to /\ spec.to <= spec.asOf /\ Len(ledger) \in Nat
        BY <2>2, LenProperties DEF WindowOk, IsLog
      <4>2. spec.to <= Len(ledger)
        BY <4>1
      <4>3. QED BY <4>1, <4>2, SliceType
    <3>2. f[a] = -Least(Greatest(earned, 0), Greatest(held - floor, 0)) /\ held \in Int /\ floor \in Int
      BY <1>0, <2>4 DEF Expired
    <3> HIDE DEF earned, held, floor, f
    <3>3. f[a] \in Int /\ (f[a] < 0 => held + f[a] >= floor)
      BY <3>1, <3>2 DEF Least, Greatest
    <3>4. QED BY <3>3 DEF held, floor
  <2>5. DOMAIN f = who
    OBVIOUS
  <2> HIDE DEF f
  <2>6. QED BY <2>3, <2>4, <2>5 DEF who, StaysAbove
<1>3. CASE rule.id = "cap"
  <2> DEFINE f == [a \in who |-> -Greatest(Balance(ledger, a, spec.asOf) - cfg.hard, 0)]
  <2>1. p = CapRun(rule, ledger, spec, members)
    BY <1>0, <1>3 DEF RunPlan
  <2>2. p = Propose(rule, "cap", spec.period, cfg.floor, PaidToBank(MovesOf(f))) /\ cfg.floor <= cfg.hard
    BY <2>1 DEF CapRun, CapConfigValid, who
  <2>3. p.entries = PaidToBank(MovesOf(f))
    BY <2>2, ProposeLabels
  <2>4. ASSUME NEW a \in who
        PROVE  f[a] \in Int /\ (f[a] < 0 => Balance(ledger, a, spec.asOf) + f[a] >= cfg.floor)
    <3> DEFINE held == Balance(ledger, a, spec.asOf)
               hard == cfg.hard
               floor == cfg.floor
    <3>1. f[a] = -Greatest(held - hard, 0) /\ held \in Int /\ hard \in Int /\ floor \in Int /\ floor <= hard
      BY <1>0, <1>3, <2>2, <2>4
    <3> HIDE DEF held, hard, floor, f
    <3>2. f[a] \in Int /\ (f[a] < 0 => held + f[a] >= floor)
      BY <3>1 DEF Greatest
    <3>3. QED BY <3>2 DEF held, floor
  <2>5. DOMAIN f = who
    OBVIOUS
  <2> HIDE DEF f
  <2>6. QED BY <2>3, <2>4, <2>5 DEF who, StaysAbove
<1>4. QED BY <1>1, <1>2, <1>3

\* Moves the bank is paid for have rows of whom they move and of the bank, and move them so.
LEMMA PaidMoves ==
  ASSUME NEW f, DOMAIN f \in SUBSET Nat, IsFiniteSet(DOMAIN f), \A a \in DOMAIN f : f[a] \in Int,
         NEW c, c.entries = PaidToBank(MovesOf(f))
  PROVE  /\ \A i \in DOMAIN c.entries : c.entries[i].account \in DOMAIN f \cup {Bank}
         /\ \A a \in DOMAIN f : a # Bank => Moved(c, a) = f[a]
<1> DEFINE es == MovesOf(f)
           b == [entries |-> es]
           e == Entry(Bank, -Total(Amounts(es)))
<1>1. /\ IsEntries(es) /\ es \in Seq([account : DOMAIN f, amount : Int])
      /\ \A i \in DOMAIN es : es[i].account \in DOMAIN f
  BY MovesType DEF Moving
<1>2. c.entries = es \/ c.entries = Append(es, e)
  BY DEF PaidToBank
<1>3. e.account = Bank
  BY DEF Entry
<1>4. ASSUME NEW a \in DOMAIN f, a # Bank PROVE Moved(c, a) = f[a]
  <2>1. IsEntries(b.entries) /\ Moved(b, a) = f[a] /\ b.entries = es
    <3>1. b.entries = MovesOf(f)
      OBVIOUS
    <3> HIDE DEF b, es
    <3>2. IsEntries(b.entries) /\ Moved(b, a) = IF a \in DOMAIN f THEN f[a] ELSE 0
      BY <3>1, MovesMove
    <3>3. QED BY <1>4, <3>1, <3>2 DEF es
  <2>2. es \in Seq([account : Nat, amount : Int])
    <3> DEFINE R == [account : DOMAIN f, amount : Int]
               T == [account : Nat, amount : Int]
    <3>1. R \subseteq T
      OBVIOUS
    <3> HIDE DEF es, R, T
    <3>2. es \in Seq(R) => es \in Seq(T)
      BY <3>1, SeqWiden
    <3>3. QED BY <1>1, <3>2 DEF R, T
  <2>3. c.entries = PaidToBank(es)
    OBVIOUS
  <2> HIDE DEF b, es
  <2>4. Moved(c, a) = Moved(b, a)
    BY <1>1, <1>4, <2>1, <2>2, <2>3, PaidMovesOthersNot
  <2>5. QED BY <2>1, <2>4
<1> HIDE DEF b, e, es
<1>5. ASSUME NEW i \in DOMAIN c.entries PROVE c.entries[i].account \in DOMAIN f \cup {Bank}
  <2>1. CASE c.entries = es
    BY <1>1, <2>1
  <2>2. CASE c.entries = Append(es, e)
    <3>1. Len(es) \in Nat /\ DOMAIN es = 1..Len(es) /\ DOMAIN c.entries = 1..(Len(es) + 1)
          /\ c.entries[Len(es) + 1] = e /\ \A k \in 1..Len(es) : c.entries[k] = es[k]
      BY <1>1, <2>2, AppendProperties DEF IsEntries
    <3>2. i = Len(es) + 1 \/ i \in 1..Len(es)
      BY <3>1
    <3>3. QED BY <1>1, <1>3, <3>1, <3>2
  <2>3. QED BY <1>2, <2>1, <2>2
<1>6. QED BY <1>4, <1>5

\* A run planned now names accounts of today's roster, and takes nobody below its floor.
LEMMA RunFits ==
  ASSUME BaseInv, rules.overTime # None,
         NEW spec, spec.accounts = <<>>, spec.asOf = HeadSeq, spec.from \in Nat, spec.to \in Nat,
         NEW p, p = RunPlan(rules.overTime, log, spec, roster), p # NoPlan
  PROVE  /\ \A i \in DOMAIN p.entries : p.entries[i].account \in roster \cup SystemAccounts
         /\ FloorAdmits(log, p)
<1> DEFINE rule == rules.overTime
<1>1. RulesInv /\ RosterInv /\ IsLog(log) /\ HeadSeq \in Nat /\ HeadSeq = Len(log) /\ Bank \in SystemAccounts
  BY LogIsLog DEF BaseInv, HeadSeq, SystemAccounts
<1>2. /\ rule.id \in DOMAIN RuleKindOf /\ RuleKindOf[rule.id] = "overTime"
      /\ rule.id \in {"decay_percent", "decay_window", "cap", "start_points"}
      /\ rule.id # "start_points" => rule.cfg.floor \in Int
      /\ rule.id = "cap" => rule.cfg.hard \in Int
      /\ rule.id = "start_points" => rule.cfg.grant \in Int
  BY <1>1, WhoAnswers, ConfigsAssumption DEF RulesInv, Resolves
<1>3. p.floor = IF rule.id = "start_points" THEN None ELSE rule.cfg.floor
  BY <1>2, RunLabels DEF Labelled
<1>4. roster \in SUBSET Nat /\ IsFiniteSet(roster)
  BY <1>1, RosterFinite
<1> HIDE DEF rule
<1>5. p = RunPlan(rule, log, spec, roster)
  BY DEF rule
<1>6. CASE rule.id = "start_points"
  <2>1. p = StartPointsRun(rule, log, spec, roster)
    BY <1>5, <1>6 DEF RunPlan
  <2>2. PICK es : CreditsOf(es, roster) /\ p.entries = FundedByBank(es)
    BY <1>2, <1>4, <1>6, <2>1, StartCredits
  <2>3. es \in Seq([account : Int, amount : Nat]) /\ \A k \in DOMAIN es : es[k].account \in roster
    BY <2>2 DEF CreditsOf
  <2> DEFINE e == Entry(Bank, -Total(Amounts(es)))
  <2>4. p.entries = <<e>> \o es /\ e.account = Bank
    BY <2>2 DEF FundedByBank, Entry
  <2> HIDE DEF e
  <2>5. /\ Len(es) \in Nat /\ DOMAIN es = 1..Len(es) /\ DOMAIN p.entries = 1..(Len(es) + 1)
        /\ p.entries[1] = e /\ \A k \in 2..(Len(es) + 1) : p.entries[k] = es[k - 1]
    BY <2>3, <2>4, LenProperties
  <2>6. ASSUME NEW i \in DOMAIN p.entries PROVE p.entries[i].account \in roster \cup SystemAccounts
    <3>1. i = 1 \/ (i \in 2..(Len(es) + 1) /\ i - 1 \in DOMAIN es)
      BY <2>5
    <3>2. QED BY <1>1, <2>3, <2>4, <2>5, <3>1
  <2>7. QED BY <1>3, <1>6, <2>6 DEF FloorAdmits
<1>7. CASE rule.id # "start_points"
  <2> DEFINE who == Targets(spec, roster)
  <2>1. PICK f : /\ DOMAIN f = who /\ StaysAbove(f, spec, log, rule.cfg.floor)
                 /\ p.entries = PaidToBank(MovesOf(f))
    <3>1. RunPlan(rule, log, spec, roster) # NoPlan
      BY <1>5
    <3>2. spec.asOf \in Nat /\ spec.asOf <= Len(log)
      BY <1>1
    <3>3. QED BY <1>1, <1>2, <1>5, <1>7, <3>1, <3>2, RunMoves
  <2>2. who \in SUBSET roster
    BY DEF Targets
  <2>3. DOMAIN f \in SUBSET Nat /\ IsFiniteSet(DOMAIN f) /\ DOMAIN f \subseteq roster
    BY <1>4, <2>1, <2>2, FS_Subset
  <2> HIDE DEF who
  <2>4. /\ \A i \in DOMAIN p.entries : p.entries[i].account \in DOMAIN f \cup {Bank}
        /\ \A a \in DOMAIN f : a # Bank => Moved(p, a) = f[a]
    BY <2>1, <2>3, PaidMoves DEF StaysAbove
  <2>5. ASSUME NEW i \in DOMAIN p.entries, p.entries[i].account \notin SystemAccounts,
               Net(p, p.entries[i].account) < 0
        PROVE  Balance(log, p.entries[i].account, Len(log)) + Net(p, p.entries[i].account) >= p.floor
    <3> DEFINE a == p.entries[i].account
    <3>1. a \in DOMAIN f /\ a # Bank /\ Net(p, a) = f[a]
      BY <1>1, <2>4, <2>5 DEF Net
    <3>2. f[a] < 0
      BY <2>5, <3>1
    <3>3. Balance(log, a, spec.asOf) + f[a] >= rule.cfg.floor
      BY <2>1, <3>1, <3>2 DEF StaysAbove
    <3>4. QED BY <1>1, <1>3, <1>7, <3>1, <3>3
  <2>6. QED BY <1>1, <2>3, <2>4, <2>5 DEF FloorAdmits
<1>8. QED BY <1>6, <1>7

\* A run planned at the head is never refused: one member who spent what was to expire, or who is
\* below the floor already, costs nobody else their expiry, trim or grant, unless a balance stands
\* at the limit of an int64.
THEOREM RunsCommit ==
  Spec => []((rules.overTime # None => RoomFor(RunPlan(rules.overTime, log, NextRun, roster)))
               => FreshRunsCommit)
<1>1. BaseInv /\ RunInv /\ PeriodInv =>
        ((rules.overTime # None => RoomFor(RunPlan(rules.overTime, log, NextRun, roster))) => FreshRunsCommit)
  <2> SUFFICES ASSUME BaseInv, RunInv, PeriodInv, rules.overTime # None,
                      RoomFor(RunPlan(rules.overTime, log, NextRun, roster)),
                      RunPlan(rules.overTime, log, NextRun, roster) # NoPlan
               PROVE  CommitAdmits(log, roster, RunPlan(rules.overTime, log, NextRun, roster))
    BY DEF FreshRunsCommit
  <2> DEFINE spec == NextRun
             p == RunPlan(rules.overTime, log, spec, roster)
  <2>1. LogInv /\ RulesInv /\ RosterInv /\ HeadSeq \in Nat /\ DOMAIN log = 1..HeadSeq
    BY LogIsLog DEF BaseInv, LogInv, HeadSeq
  <2>2. /\ spec.accounts = <<>> /\ spec.asOf = HeadSeq /\ spec.from \in Nat /\ spec.to \in Nat
        /\ spec.period = MaxRuns + 1
    BY <2>1 DEF NextRun, RunInv, SpecInv
  <2> HIDE DEF spec
  <2>3. rules.overTime.id \in DOMAIN RuleKindOf /\ RuleKindOf[rules.overTime.id] = "overTime"
    BY <2>1 DEF RulesInv, Resolves
  <2>4. p # NoPlan /\ RoomFor(p)
    BY DEF spec
  <2>5. p.kind \in {"decay", "cap", "start_points"} /\ p.period = MaxRuns + 1 /\ p.reverses = None /\ Balanced(p)
    BY <2>2, <2>3, <2>4, RunLabels DEF Labelled, RunKind
  <2> HIDE DEF p
  <2>6. /\ \A i \in DOMAIN p.entries : p.entries[i].account \in roster \cup SystemAccounts
        /\ FloorAdmits(log, p)
    BY <2>2, <2>4, RunFits DEF p
  <2>7. KnownPlan(p)
    BY <2>1, <2>2, <2>4, RunKnown DEF p
  <2>8. LinkAdmits(log, p)
    BY <2>5 DEF LinkAdmits
  <2>9. PeriodFree(log, p)
    <3>1. \A n \in 1..HeadSeq : log[n].period # MaxRuns + 1
      BY BoundsAssumption, NoneAssumption DEF PeriodInv, OfARun
    <3>2. QED BY <2>1, <2>5, <3>1 DEF PeriodFree
  <2>10. CommitAdmits(log, roster, p)
    BY <2>1, <2>4, <2>5, <2>6, <2>7, <2>8, <2>9, RoomAdmits
  <2>11. QED BY <2>10 DEF p, spec
<1>2. Init => BaseInv /\ RunInv /\ PeriodInv
  BY BaseInit, RunInit, PeriodInit
<1>3. BaseInv /\ RunInv /\ PeriodInv /\ [Next]_vars => (BaseInv /\ RunInv /\ PeriodInv)'
  BY BaseNext, RunNext, PeriodNext
<1>4. QED BY <1>1, <1>2, <1>3, PTL DEF Spec
=============================================================================
