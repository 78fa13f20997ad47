------------------------------ MODULE MCLedger ------------------------------
(* The requests that exercise every guard of the commit path, for TLC. *)
EXTENDS LedgerProperties

CONSTANTS p1, p2, ann, bob, bank, k1, s1

entry(acct, kind, n) == [account |-> acct, kind |-> kind, amount |-> n]
request(p, es, rules) ==
  [pool |-> p, kind |-> "award", reverses |-> None, key |-> None, ref |-> None,
   entries |-> es, rules |-> rules]
reversal(r, p, n) == [r EXCEPT !.kind = KindReversal, !.reverses = <<p, n>>]
rule(name, kind, floor) == [rule |-> name, scope |-> kind, floor |-> floor]

SumZero == rule("SumZero", None, None)
Award == [request(p1, <<entry(ann, "ep", 2), entry(bank, "ep", -2)>>, {SumZero}) EXCEPT !.key = k1]
Spend == request(p1, <<entry(ann, "ep", -1), entry(ann, "ep", -1)>>, {rule("NonNegative", "ep", 0)})
KeyReused == [request(p1, <<entry(bob, "gp", 1)>>, {}) EXCEPT !.key = k1]
OtherPool == [request(p2, <<entry(ann, "ep", 1)>>, {}) EXCEPT !.key = k1]
Debt == request(p1, <<entry(ann, "ep", -3)>>, {})
Relief == request(p1, <<entry(ann, "ep", 1), entry(bob, "gp", 1)>>, {rule("NonNegative", None, 0)})
Undo == reversal(request(p1, <<entry(ann, "ep", -2), entry(bank, "ep", 2)>>, {}), p1, 1)
CrossUndo == reversal(request(p2, <<entry(ann, "ep", -2)>>, {}), p1, 1)
Strike == [Undo EXCEPT !.kind = "award"]
Imported == [request(p1, <<entry(bob, "gp", 3)>>, {}) EXCEPT !.ref = s1]
Seesaw == request(p1, <<entry(ann, "ep", 3), entry(bank, "ep", -3), entry(ann, "ep", 3)>>, {})
Crossing == request(p1, <<entry(ann, "ep", 1), entry(ann, "gp", -1)>>, {SumZero})
Unscoped == request(p1, <<entry(ann, "ep", 1)>>, {rule("LargestRemainderSumsToDebit", "gp", None)})
Unchecked == request(p1, <<entry(ann, "ep", 1)>>, {rule("Conserved", None, None)})
Empty == request(p1, <<>>, {})
BadKey == [Award EXCEPT !.key = EmptyKey]

MCPools == {p1, p2}
MCPersons == {ann, bob}
MCSystemAccounts == {bank}
MCKeys == {k1}
MCSourceRefs == {s1}
MCBalanceKinds == {"ep", "gp"}
MCRequests ==
  {Award, Spend, Debt, Relief, KeyReused, OtherPool, Undo, CrossUndo, Strike, Imported, Seesaw, Crossing,
   Unscoped, Unchecked, Empty, BadKey}
=============================================================================
