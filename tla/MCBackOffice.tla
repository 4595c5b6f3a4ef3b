---------------------------- MODULE MCBackOffice ----------------------------
(* A small instance of the components around the sale.                     *)
EXTENDS BackOffice, TLC

CONSTANTS ra, rb, ma, mb, pa, pb

TwoTenants   == {ra, rb}
TwoMerchants == {ma, mb}

FourItems    == 1 .. 4
=============================================================================
