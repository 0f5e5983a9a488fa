----------------------------- MODULE MCFigures -----------------------------
(* Figures on small instances: half and whole units, a third of one;       *)
(* prices with which half cents occur in lines and in tax.                 *)
EXTENDS Figures

MCQuantities == {50, 100, 33}
MCPrices == {1, 10, 199}
MCVatRates == {0, 5, 23}
=============================================================================
