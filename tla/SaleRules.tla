----------------------------- MODULE SaleRules -----------------------------
(* The pure decisions of the sale pipeline: how an order's payment state   *)
(* is merged with the one a later document carries, and whether a sale     *)
(* line may take stock.                                                    *)
EXTENDS Naturals

PayStates == {"OPEN", "PAID", "CREDITED", "PARTIALLY_REFUNDED", "REFUNDED"}

Priority(p) == CASE p = "REFUNDED"           -> 5
                 [] p = "PARTIALLY_REFUNDED" -> 4
                 [] p = "CREDITED"           -> 3
                 [] p = "PAID"               -> 2
                 [] OTHER                    -> 1

(* Mutant: the document that comes last wins.                              *)
MergePayment_Latest(stored, incoming) == incoming

(* The CASE of _upsert_order: a stored state of higher priority stays.     *)
MergePayment(stored, incoming) ==
  IF Priority(stored) > Priority(incoming) THEN stored ELSE incoming

EligiblePayments == {"PAID", "PARTIALLY_REFUNDED"}

(* Mutant: the gate is opened without the line's own flag.                 *)
Ineligibility_OrderOnly(pay, locked, voided, refunded) ==
  IF pay \notin EligiblePayments \/ ~locked \/ voided THEN "sale_ineligible"
  ELSE "none"

(* resolve_eligibility as the worker calls it, partial_refunds_enabled     *)
(* being the literal True; "none" stands for eligible.  Order-level checks *)
(* come first, so a refunded line of an ineligible order is                *)
(* sale_ineligible.                                                        *)
Ineligibility(pay, locked, voided, refunded) ==
  IF pay \notin EligiblePayments \/ ~locked \/ voided THEN "sale_ineligible"
  ELSE IF refunded THEN "line_refunded"
  ELSE "none"
=============================================================================
