------------------------------ MODULE MC_FeeHelper ------------------------------
(* A small instance of FeeHelper for TLC, with prices that do not divide   *)
(* each other, so that every division rounds.                              *)
EXTENDS FeeHelper

BalancesAround == -2 .. 78
LengthsSmall == 0 .. 1
ExtraSmall == {0, 9}
================================================================================
