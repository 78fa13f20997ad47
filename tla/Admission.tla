------------------------------ MODULE Admission ------------------------------
(***************************************************************************)
(* What ledger.Commit decides of a request, read over the history of its   *)
(* pool alone: no cache, no index, no transaction and no order of checks.  *)
(* A batch of a history is [id, key, ref, reverses, entries]; a request is *)
(* [kind, key, ref, reverses, entries, rules], a rule [rule, scope, floor].*)
(* Ledger is shown to decide this way and Pool to rely on no more.         *)
(***************************************************************************)
EXTENDS Money

CONSTANT None        \* the nil pointer, a NULL column, an absent floor or scope

\* What holder h has after every batch of a history.
HeldBy(history, h) == Total([n \in 1..Len(history) |-> Delta(history[n].entries, h)])

\* Every sum the batch makes anybody compute fits an int64: its own, each holder's part of it,
\* and what that holder has afterwards.
Representable(history, es) ==
  /\ RunsInRange(Amounts(es))
  /\ \A h \in Touched(es) : /\ RunsInRange(AmountsOf(es, h))
                            /\ HeldBy(history, h) + Delta(es, h) \in Cp

\* A reversal, and nothing else, names a batch of this history.
NamesItsTarget(history, r) ==
  /\ r.kind = "reversal" <=> r.reverses # None
  /\ r.reverses # None => \E n \in DOMAIN history : history[n].id = r.reverses

\* A key, a source reference and a reversal target are each used once.
UsesNothingTwice(history, r) ==
  \A n \in DOMAIN history : /\ r.key # None      => history[n].key # r.key
                            /\ r.ref # None      => history[n].ref # r.ref
                            /\ r.reverses # None => history[n].reverses # r.reverses

\* A declared rule, over the balance kinds it is about.  A rule about none, or of a kind the
\* engine has no checker for, admits nothing; a floor is about persons the batch takes from.
RuleAdmits(history, persons, es, inv) ==
  LET scope == {k \in KindsIn(es) : inv.scope \in {None, k}}
  IN  /\ inv.scope # None => scope # {}
      /\ \/ /\ inv.rule \in {"SumZero", "LargestRemainderSumsToDebit"}
            /\ \A k \in scope : RunsInRange(AmountsOfKind(es, k)) /\ Total(AmountsOfKind(es, k)) = 0
         \/ /\ inv.rule = "NonNegative" /\ inv.floor # None
            /\ \A h \in Touched(es) : h[1] \in persons /\ h[2] \in scope /\ Delta(es, h) < 0 =>
                 HeldBy(history, h) + Delta(es, h) >= inv.floor

Admits(history, live, persons, r) ==
  /\ r.entries # <<>>
  /\ \A i \in DOMAIN r.entries : r.entries[i].amount # 0 /\ r.entries[i].account \in live
  /\ Representable(history, r.entries)
  /\ NamesItsTarget(history, r) /\ UsesNothingTwice(history, r)
  /\ \A inv \in r.rules : RuleAdmits(history, persons, r.entries, inv)
=============================================================================
