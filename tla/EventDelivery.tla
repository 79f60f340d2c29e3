----------------------------- MODULE EventDelivery -----------------------------
(***************************************************************************)
(* What the relayer promises about the transactions whose events it        *)
(* forwards to Axelar: one it has noticed is owed until there is nothing   *)
(* left to tell about it, and nothing that was told is untold.             *)
(***************************************************************************)
CONSTANT Txs

VARIABLES
  owed,  \* transactions noticed and not finished with
  told   \* transactions there is nothing left to tell about

Init == owed = {} /\ told \subseteq Txs

Notice == /\ \E S \in SUBSET Txs : owed' = owed \cup S
          /\ told' = told

Tell == /\ \E S \in SUBSET Txs : told' = told \cup S
        /\ owed' = owed

Discharge(t) == /\ t \in owed \cap told
                /\ owed' = owed \ {t}
                /\ told' = told

Next == Notice \/ Tell \/ \E t \in Txs : Discharge(t)

Spec == Init /\ [][Next]_<<owed, told>>
==============================================================================
