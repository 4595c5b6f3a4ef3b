--------------------------- MODULE MCSalePipeline ---------------------------
(* Small instances of the sale pipeline: one order with one or two lines,  *)
(* handled by the deployed worker or by the two that overlap.              *)
EXTENDS SalePipeline, TLC

CONSTANTS w1, w2, o1, l1, l2

OnlyUpdate == {"UPDATE"}
OneOrder   == {o1}
OneLine    == {l1}
TwoLines   == {l1, l2}
SameOrder  == [l \in Lines |-> o1]
FirstLine  == {l1}
SecondLine == {l2}
NoLines    == {}
OneWorker  == {w1}
TwoWorkers == {w1, w2}
Overlap    == Permutations(TwoWorkers)

Doc(locked, pay, refunded) ==
  [locked |-> locked, pay |-> pay, refunded |-> refunded]

(* Still open; paid; then l1 refunded, in a document without its payments. *)
SaleThenRefund == {Doc(FALSE, "OPEN", {}), Doc(TRUE, "PAID", {}), Doc(TRUE, "OPEN", {l1})}

(* Paid; then l1 refunded.                                                 *)
PaidThenRefund == {Doc(TRUE, "PAID", {}),
                   Doc(TRUE, "PARTIALLY_REFUNDED", {l1})}

BaseTwice  == [kind \in Kinds |-> IF kind = "base" THEN 2 ELSE 0]
BothOnce   == [kind \in Kinds |-> 1]
BaseTwiceModOnce == [kind \in Kinds |-> IF kind = "base" THEN 2 ELSE 1]
BaseOnce   == [kind \in Kinds |-> IF kind = "base" THEN 1 ELSE 0]

AllConvert   == Sources
NoModConvert == {s \in Sources : s[1] = "base"}
=============================================================================
