----------------------------- MODULE PointsLedger -----------------------------
(***************************************************************************)
(* What the ledger promises, with no transaction, cache or hash in it: an  *)
(* append-only history per pool in which a key, a source reference and a   *)
(* reversal target are each used once; standings that always equal what    *)
(* the history moved; and a trail that names every batch once, in the order*)
(* they were accepted.  Each batch changes all three in one step.          *)
(***************************************************************************)
EXTENDS Integers, Sequences

CONSTANTS
  Pools, Holders, None,
  Batches,        \* [kind, key, ref, reverses, entries]: what may be posted
  Moves(_, _)     \* what a sequence of entries moves for one holder

VARIABLES history, standings, trail

pointsVars == <<history, standings, trail>>

\* No earlier batch of pool p used the value b carries in that column.
UnusedKey(p, b) == b.key # None => \A n \in DOMAIN history[p] : history[p][n].key # b.key
UnusedRef(p, b) == b.ref # None => \A n \in DOMAIN history[p] : history[p][n].ref # b.ref

\* A reversal, and nothing else, names an earlier batch of its own pool that nothing has
\* reversed.
Reversible(p, b) ==
  /\ b.kind = "reversal" <=> b.reverses # None
  /\ b.reverses # None =>
       /\ \E n \in DOMAIN history[p] : b.reverses = <<p, n>>
       /\ \A n \in DOMAIN history[p] : history[p][n].reverses # b.reverses

Init ==
  /\ history = [p \in Pools |-> <<>>]
  /\ standings = [p \in Pools |-> [h \in Holders |-> 0]]
  /\ trail = <<>>

Post(p, b) ==
  /\ b.entries # <<>>
  /\ UnusedKey(p, b) /\ UnusedRef(p, b) /\ Reversible(p, b)
  /\ history' = [history EXCEPT ![p] = Append(@, b)]
  /\ standings' = [standings EXCEPT ![p] =
                     [h \in Holders |-> standings[p][h] + Moves(b.entries, h)]]
  /\ trail' = Append(trail, <<p, Len(history[p]) + 1>>)

Next == \E p \in Pools, b \in Batches : Post(p, b)

Spec == Init /\ [][Next]_pointsVars
=============================================================================
