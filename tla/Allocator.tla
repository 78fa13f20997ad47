------------------------------ MODULE Allocator ------------------------------
(***************************************************************************)
(* ledger.Allocate (src/internal/ledger/allocate.go): an amount split over *)
(* weighted shares by largest remainder.  A share is a record with the     *)
(* fields account and weight; account ids are numbers, ordered as the ULIDs*)
(* they stand for.  A refused split is the empty sequence, which no        *)
(* accepted one is: the amounts of an accepted split add up to the total.  *)
(***************************************************************************)
EXTENDS Money, FiniteSets

CONSTANT Residue                     \* AccountIDResidue

Refused == <<>>

\* A sort, given what comes before each element: the k-th is the one with k - 1 before it.
Ranked(before) ==
  [k \in 1..Cardinality(DOMAIN before) |->
     CHOOSE x \in DOMAIN before : Cardinality(before[x]) = k - 1]

\* The elements of s at the indices before is about, in that order.
Arranged(s, before) == LET at == Ranked(before) IN [k \in DOMAIN at |-> s[at[k]]]

\* sortedAccounts: the accounts of a set, by id.
InOrder(S) == Ranked([a \in S |-> {b \in S : b < a}])
\* A filter: the elements of s at the indices of S, in their own order.
Kept(s, S) == Arranged(s, [i \in S |-> {j \in S : j < i}])
\* A row of zero is dropped, not written.
NonZero(entries) == Kept(entries, {i \in DOMAIN entries : entries[i].amount # 0})

SortedBefore(s, i) == {j \in DOMAIN s : \/ s[j].account < s[i].account
                                        \/ s[j].account = s[i].account /\ j < i}
SortByAccount(s) == Arranged(s, [i \in DOMAIN s |-> SortedBefore(s, i)])
Weights(shares) == [i \in DOMAIN shares |-> shares[i].weight]

\* magnitudeOf
Magnitude(v) == IF v < 0 THEN -v ELSE v

\* sumWeights: no weight is negative and the sum is an int64
SummableWeights(shares) ==
  (\A i \in DOMAIN shares : shares[i].weight >= 0) /\ RunsInRange(Weights(shares))

\* The 128-bit quotient and remainder of total * weight by the sum of the weights.
Quota(total, shares, i) == (Magnitude(total) * shares[i].weight) \div Total(Weights(shares))
Remainder(total, shares, i) == (Magnitude(total) * shares[i].weight) % Total(Weights(shares))

\* The shares rounded up before share i: larger remainder first, then smaller account id.
RoundedBefore(total, shares, i) ==
  {j \in DOMAIN shares :
     \/ Remainder(total, shares, j) > Remainder(total, shares, i)
     \/ /\ Remainder(total, shares, j) = Remainder(total, shares, i)
        /\ shares[j].account < shares[i].account}

Shortfall(total, shares) ==
  Magnitude(total) - Total([i \in DOMAIN shares |-> Quota(total, shares, i)])

\* The last cents to the largest weights instead of the largest remainders.
Portion_ByWeight(total, shares, i) ==
  LET before == {j \in DOMAIN shares : \/ shares[j].weight > shares[i].weight
                                       \/ shares[j].weight = shares[i].weight /\ j < i}
  IN  Quota(total, shares, i) + IF Cardinality(before) < Shortfall(total, shares) THEN 1 ELSE 0

Portion(total, shares, i) ==
  LET up == Cardinality(RoundedBefore(total, shares, i)) < Shortfall(total, shares)
  IN  Quota(total, shares, i) + IF up THEN 1 ELSE 0

Split(total, shares) ==
  LET sign == IF total < 0 THEN -1 ELSE 1
      portions == [i \in DOMAIN shares |-> [account |-> shares[i].account,
                                            amount  |-> sign * Portion(total, shares, i)]]
  IN  NonZero(SortByAccount(portions))

Allocate(total, shares, empty) ==
  IF total \in {0, -MaxCp - 1} \/ ~SummableWeights(shares) THEN Refused
  ELSE IF shares = <<>> THEN <<[account |-> empty, amount |-> total]>>
  ELSE IF Total(Weights(shares)) = 0 THEN <<[account |-> Residue, amount |-> total]>>
  ELSE Split(total, shares)
=============================================================================
