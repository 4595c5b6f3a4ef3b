------------------------------ MODULE MCInbox ------------------------------
(* Small instances of the event queue: one order, with the deployed        *)
(* worker or the two that overlap while a release is rolled out.           *)
EXTENDS Inbox

CONSTANTS w1, w2

OnlyUpdate == {"UPDATE"}
OneWorker  == {w1}
TwoWorkers == {w1, w2}
=============================================================================
