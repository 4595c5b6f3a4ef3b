----------------------------- MODULE MCReceipts -----------------------------
(* Small instances of the receipt: one or two workers, one or two requests *)
(* at the same time.                                                       *)
EXTENDS Receipts, TLC

CONSTANTS w1, w2, c1, c2

OneWorker  == {w1}
TwoWorkers == {w1, w2}
OneCaller  == {c1}
TwoCallers == {c1, c2}
Alike      == Permutations(TwoWorkers) \cup Permutations(TwoCallers)

NoEdits   == Endpoints \ {"edit"}
NoDismiss == Endpoints \ {"dismiss"}

AnyLines    == {"lines", "rejected"}
SomeAnswers == {"lines", "nothing"}
=============================================================================
