-------------------------------- MODULE Money --------------------------------
(***************************************************************************)
(* Centipoint arithmetic over the entries of a batch: sums that refuse to  *)
(* wrap (addCentipoints), per-holder and per-kind subtotals.  An entry is  *)
(* any record with the fields account, kind and amount; a holder is a pair *)
(* <<account, balance kind>>.                                              *)
(***************************************************************************)
EXTENDS Integers, SequencesExt

CONSTANT MaxCp                       \* math.MaxInt64 in miniature
ASSUME MaxCpAssumption == MaxCp \in Nat

Cp == (-MaxCp - 1)..MaxCp            \* core.Centipoints, an int64

Total(s) ==
  LET sum[n \in 0..Len(s)] == IF n = 0 THEN 0 ELSE sum[n - 1] + s[n] IN sum[Len(s)]

\* addCentipoints folded over s: every running sum is representable.
RunsInRange(s) == \A n \in 1..Len(s) : Total(SubSeq(s, 1, n)) \in Cp

HolderOf(e) == <<e.account, e.kind>>
Touched(es) == {HolderOf(es[i]) : i \in DOMAIN es}
KindsIn(es) == {es[i].kind : i \in DOMAIN es}

\* The amounts of a batch, of one holder in it, and of one balance kind in it: the other
\* entries count 0, which changes neither the sum nor any running sum.
Amounts(es) == [i \in DOMAIN es |-> es[i].amount]
AmountsOf(es, h) == [i \in DOMAIN es |-> IF HolderOf(es[i]) = h THEN es[i].amount ELSE 0]
AmountsOfKind(es, k) == [i \in DOMAIN es |-> IF es[i].kind = k THEN es[i].amount ELSE 0]

\* What es moves for one holder.
Delta(es, h) == IF h \in Touched(es) THEN Total(AmountsOf(es, h)) ELSE 0
=============================================================================
