------------------------------ MODULE MCScreener ------------------------------
(* Screener over small sets of mints and wallets.                             *)
EXTENDS Screener

CONSTANTS m1, m2, w1, w2
=============================================================================
