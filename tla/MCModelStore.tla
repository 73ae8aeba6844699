---------------------------- MODULE MCModelStore ----------------------------
(* TLC instances of ModelStore                                               *)
EXTENDS ModelStore

CONSTANTS sales1, sales

\* a sales model, which the caller may use, and one of another name
MCNameOf == [m \in Model |->
    IF m = sales1 THEN sales ELSE CHOOSE n \in Name : n # sales]
MCAccessible == {sales1}
=============================================================================
