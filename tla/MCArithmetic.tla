---------------------------- MODULE MCArithmetic ----------------------------
(* Three locations, the showroom in the middle: "showroom first" and "by    *)
(* id" visit them in different orders. Prices and percentages that hit      *)
(* exact halves, thirds and both ends.                                      *)
EXTENDS Arithmetic

MCLocations == {1, 2, 3}
MCShowroom == 2
MCPrices == {1, 50, 333, 1999}
MCPercents == {0, 333, 5000, 10000}
=============================================================================
