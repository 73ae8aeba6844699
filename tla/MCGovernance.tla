---------------------------- MODULE MCGovernance ----------------------------
(* TLC instances of Governance: revenue reads a field, orders none; one row  *)
(* filter names a claim, the other does not.                                 *)
EXTENDS Governance

MCUses == [m \in Metric |-> IF m = "revenue" THEN {"sales.amount"} ELSE {}]
MCMatches == [p \in Pattern |->
    CASE p = "rev*" -> {"revenue"} [] p = "ord*" -> {"orders"}
      [] p = "*" -> Metric [] OTHER -> {}]
MCMalformed == {"["} \cap Pattern
MCNames == [f \in RowFilter |-> IF f = "mine" THEN {"region"} ELSE {}]
MCAdmits == [f \in RowFilter |-> [c \in Claims |->
    IF f = "mine" THEN {c["region"]} \cap Row ELSE {"west"} \cap Row]]
=============================================================================
