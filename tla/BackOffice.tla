----------------------------- MODULE BackOffice -----------------------------
(***************************************************************************)
(* The four components around the sale side by side: connections,          *)
(* reconciliation, catalog syncs and tenancy.  None of them writes what    *)
(* another one of them reads here, so a behaviour is one of a single part, *)
(* chosen at the start; the parts that rest start from one state.          *)
(***************************************************************************)
EXTENDS Connections, Reconciliation, Catalog, Tenancy

VARIABLE part  \* the component that moves

Init ==
  /\ part \in {"connections", "reconciliation", "catalog", "tenancy"}
  /\ ConnectionsInit /\ ReconciliationInit /\ CatalogInit /\ TenancyInit
  /\ part = "catalog" \/ catalog = {}
  /\ part = "tenancy" \/ address = CHOOSE a \in [People -> Emails] :
                                     \A p, q \in People : a[p] = a[q] => p = q

Next ==
  \/ /\ part = "connections" /\ ConnectionsNext
     /\ UNCHANGED <<part, reconciliationVars, catalogVars, tenancyVars>>
  \/ /\ part = "reconciliation" /\ ReconciliationNext
     /\ UNCHANGED <<part, connectionsVars, catalogVars, tenancyVars>>
  \/ /\ part = "catalog" /\ CatalogNext
     /\ UNCHANGED <<part, connectionsVars, reconciliationVars, tenancyVars>>
  \/ /\ part = "tenancy" /\ TenancyNext
     /\ UNCHANGED <<part, connectionsVars, reconciliationVars, catalogVars>>

BackOfficeVars ==
  <<part, connectionsVars, reconciliationVars, catalogVars, tenancyVars>>

(* The fairness of the parts, asked of the part that moves.                *)
Fairness ==
  /\ \A p \in Refreshers : WF_connectionsVars(part = "connections" /\ JobStep(p))
  /\ \A p \in Runners    : WF_reconciliationVars(part = "reconciliation" /\ RunStep(p))

Spec == Init /\ [][Next]_BackOfficeVars /\ Fairness

(* The type invariants of the four parts. *)
BackOfficeTypeOK ==
  ConnectionsTypeOK /\ ReconciliationTypeOK /\ CatalogTypeOK /\ TenancyTypeOK
=============================================================================
