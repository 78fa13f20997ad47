---------------------------- MODULE MCLedgerVerify ----------------------------
(* Four requests over two pools, with one that overflows on the way, for TLC. *)
EXTENDS LedgerVerify

CONSTANTS p1, p2, a, bank, k1, s1

entry(acct, n) == [account |-> acct, kind |-> "dkp", amount |-> n]
request(p, es) ==
  [pool |-> p, kind |-> "award", reverses |-> None, key |-> None, ref |-> None,
   entries |-> es, rules |-> {}]

Award == [request(p1, <<entry(a, 1), entry(bank, -1)>>) EXCEPT !.key = k1]
Bonus == request(p1, <<entry(a, 2)>>)
Wobble == request(p1, <<entry(a, 1), entry(a, -1)>>)
Elsewhere == request(p2, <<entry(a, -1)>>)

MCPools == {p1, p2}
MCPersons == {a}
MCSystemAccounts == {bank}
MCKeys == {k1}
MCSourceRefs == {s1}
MCBalanceKinds == {"dkp"}
MCRequests == {Award, Bonus, Wobble, Elsewhere}
=============================================================================
