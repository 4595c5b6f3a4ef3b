----------------------------- MODULE SaleLedger -----------------------------
(***************************************************************************)
(* What the sale pipeline promises of each sold line, with no workers,     *)
(* events or transactions: it takes stock at most once, and a line the     *)
(* customer returned has taken none, whether the refund came first or the  *)
(* depletion did.  SalePipeline with its single worker implements this.    *)
(***************************************************************************)
CONSTANT Lines

VARIABLES fate, returned

ledgerVars == <<fate, returned>>

(* applied: its stock is taken; reversed: taken and given back; closed:    *)
(* decided that it takes none.                                             *)
Fates == {"unseen", "open", "applied", "reversed", "closed"}

LedgerInit ==
  /\ fate = [l \in Lines |-> "unseen"]
  /\ returned = [l \in Lines |-> FALSE]

(* The first document that lists the lines S, with R of them refunded.     *)
See(S, R) ==
  /\ \A l \in S : fate[l] = "unseen"
  /\ fate' = [l \in Lines |-> IF l \in S THEN "open" ELSE fate[l]]
  /\ returned' = [l \in Lines |-> IF l \in S THEN l \in R ELSE returned[l]]

Apply(l) ==
  /\ fate[l] = "open"
  /\ ~returned[l]
  /\ fate' = [fate EXCEPT ![l] = "applied"]
  /\ UNCHANGED returned

Close(l) ==
  /\ fate[l] = "open"
  /\ fate' = [fate EXCEPT ![l] = "closed"]
  /\ UNCHANGED returned

Refund(l) ==
  /\ fate[l] # "unseen"
  /\ returned' = [returned EXCEPT ![l] = TRUE]
  /\ fate' = [fate EXCEPT ![l] = IF @ = "applied" THEN "reversed" ELSE @]

LedgerNext ==
  \/ \E S \in SUBSET Lines : \E R \in SUBSET S : See(S, R)
  \/ \E l \in Lines : Apply(l) \/ Close(l) \/ Refund(l)

LedgerSpec == LedgerInit /\ [][LedgerNext]_ledgerVars
=============================================================================
