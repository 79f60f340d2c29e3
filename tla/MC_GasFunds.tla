------------------------------- MODULE MC_GasFunds -------------------------------
(* A small instance of GasFunds for TLC, in units of 0.1 REWA.             *)
EXTENDS GasFunds

(* One that the reserve can pay, and one that it cannot.                   *)
SmallAndLarge == << [token |-> "REWA", amount |-> 1], [token |-> "REWA", amount |-> 2] >>
================================================================================
