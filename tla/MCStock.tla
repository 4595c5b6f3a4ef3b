------------------------------ MODULE MCStock ------------------------------
(* Small instances of the stock: a sale, its refund, a delivery and waste; *)
(* counts and an opening balance by two callers.                            *)
EXTENDS Stock, TLC

CONSTANTS s1, f1, d1, a1, keyed, dated, opening, c1, c2

SaleAndDelivery == {s1, d1}
OneOfEach       == {s1, f1, d1, a1}
KindOf == [x \in Happenings |-> CASE x = s1 -> "sale" [] x = f1 -> "refund"
                               [] x = a1 -> "waste" [] OTHER -> "receive"]
EffectOf == [x \in Happenings |-> CASE x = s1 -> -1 [] x = f1 -> 1
                                 [] x = a1 -> -2 [] OTHER -> 2]
ReversedBy == [x \in Happenings |-> s1]
AllRequests == {keyed, dated, opening}
Counts      == {keyed, dated}
TaskOf == [r \in Requests |-> IF r = opening THEN "opening" ELSE "count"]
OnlyKeyed   == {keyed}
OnlyDated   == {dated}
OneCaller   == {c1}
TwoCallers  == {c1, c2}
Alike       == Permutations(TwoCallers)
=============================================================================
