----------------------------- MODULE MCReconciler -----------------------------
(* Finite instances of Reconciler for TLC.                                  *)
EXTENDS Reconciler

\* wide declares two views; trim one of them, and slim one in another database;
\* the others fail at one of the steps.
MCViewsOf == [d \in Doc |->
    CASE d \in {"wide", "unbuildable"} -> <<"va", "vb">>
      [] d \in {"trim", "slim"} -> <<"va">>
      [] OTHER -> <<>>]

MCDatasetsOf == [d \in Doc |-> Dataset]
MCValid == Doc \ {"invalid"}
MCCompilable == Doc \ {"uncompilable"}
MCFits == Doc \ {"oversized"}
MCBuilds == (Doc \X View) \ {<<"unbuildable", "vb">>}
MCDbOf == [d \in Doc |-> IF d = "slim" THEN "db2" ELSE "db1"]

\* int and text both have the columns, with different types.
MCAccepts == {<<d, t, s>> \in Doc \X Dataset \X Shape : s \in {"int", "text"}}
=============================================================================
