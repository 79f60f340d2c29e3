---------------------- MODULE MC_MessageApprovedProcessor ----------------------
(* Small instances of MessageApprovedProcessor for TLC.                    *)
EXTENDS MessageApprovedProcessor

CONSTANTS a, b, c   \* the messages

(* A token deployment and a message to an ordinary contract.               *)
KindsDeployPlain == [m \in Messages |-> IF m = a THEN "deploy" ELSE "plain"]

(* A deployment, a message whose payload is garbled, and a plain one.      *)
KindsGarbled == [m \in Messages |-> CASE m = a -> "deploy" [] m = b -> "garbled"
                                      [] OTHER -> "plain"]

(* A message without payload, a deployment and a plain one.                *)
KindsMixed == [m \in Messages |-> CASE m = a -> "deploy" [] m = b -> "empty"
                                    [] OTHER -> "plain"]
================================================================================
