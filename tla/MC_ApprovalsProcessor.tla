------------------------- MODULE MC_ApprovalsProcessor -------------------------
(* Small instances of ApprovalsProcessor for TLC.                          *)
EXTENDS ApprovalsProcessor

(* A row to store, a task of a type the code ignores, then a refund        *)
(* between two gateway transactions whose follow-ups meet in Redis.        *)
TypesFollowUps == [t \in Tasks |-> CASE t = 1 -> "EXECUTE" [] t = 2 -> "OTHER"
                                     [] t = 4 -> "REFUND" [] OTHER -> "GATEWAY_TX"]

(* A refund, a row to store, then gateway transactions.                    *)
TypesRetries == [t \in Tasks |-> CASE t = 1 -> "REFUND" [] t = 2 -> "EXECUTE" [] OTHER -> "GATEWAY_TX"]

(* Gateway transactions only.                                              *)
TypesGateway == [t \in Tasks |-> "GATEWAY_TX"]
================================================================================
