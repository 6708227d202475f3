----------------------------- MODULE MCEvalContext -----------------------------
(***************************************************************************)
(* The small pipelines on which TLC checks EvalContext.                    *)
(***************************************************************************)
EXTENDS EvalContext

\* Two locals and a stage, then a daemon beside a data block and a module with a
\* local of its own, then a stage.
SharedBlock == {"l1", "l2", "t", "db", "d1", "m", "ml", "s"}
SharedContext == {"root", "child"}
SharedKind == [b \in SharedBlock |->
    CASE b \in {"l1", "l2", "ml"} -> "local"
      [] b = "d1" -> "data"
      [] b \in {"t", "db", "s"} -> "stage"
      [] b = "m" -> "module"]
SharedIn == [b \in SharedBlock |-> IF b = "ml" THEN "child" ELSE "root"]
SharedLayer == [b \in SharedBlock |->
    CASE b \in {"l1", "l2", "t", "ml"} -> 1
      [] b \in {"db", "d1", "m"} -> 2
      [] b = "s" -> 3]
SharedDaemon == {"db"}
SharedChild == [m \in {"m"} |-> "child"]
NoPorts == [s \in {"t", "db", "s"} |-> 0]
OnePort == [NoPorts EXCEPT !["db"] = 1]
AnyPorts == {NoPorts, OnePort}
SomePorts == {OnePort}
===============================================================================
