------------------------------- MODULE MCModules -------------------------------
(* Instances of Modules for TLC. *)
EXTENDS Modules

\* The closure of Up, for instances.
ClosureOf(up, units) ==
    [u \in units |->
        LET below[n \in 0..Cardinality(units), v \in units] ==
              IF n = 0 THEN {}
              ELSE LET members == {m \in DOMAIN up : up[m] = v}
                   IN members \cup UNION {below[n - 1, m] : m \in members}
        IN below[Cardinality(units), u]]

\* The root runs a module for two items and beside it another module, then a
\* stage. The pipeline of an item has a module with a stage, in that of the
\* first one after another stage.
NestedStage == {"s", "i.s", "i.d.s", "j.d.s", "n.s"}
NestedModule == {"m", "i", "j", "i.d", "j.d", "n"}
NestedUnits == NestedStage \cup NestedModule \cup {"root"}
NestedUp ==
    [u \in NestedUnits \ {"root"} |->
        CASE u \in {"s", "m", "n"} -> "root"
          [] u = "n.s" -> "n"
          [] u \in {"i", "j"} -> "m"
          [] u \in {"i.s", "i.d"} -> "i"
          [] u = "j.d" -> "j"
          [] u = "i.d.s" -> "i.d"
          [] u = "j.d.s" -> "j.d"]
NestedForEach == {"m"}
NestedLayer == [u \in NestedUnits |-> IF u \in {"s", "i.d"} THEN 2 ELSE 1]
NestedPhases ==
    [u \in NestedUnits |->
        CASE u \in {"m", "i", "j"} -> <<"build">>
          [] u \in {"i.d", "j.d"} -> <<"test">>
          [] u = "n" -> <<"lint", "build">>
          [] OTHER -> <<>>]
NestedPhase == {"build", "test", "lint"}
NestedUnder == ClosureOf(NestedUp, NestedUnits)

\* A module with three phases, and two modules with a phase each inside it.
SharedStage == {"c.s", "d.s"}
SharedModule == {"m", "c", "d"}
SharedUnits == SharedStage \cup SharedModule \cup {"root"}
SharedUp ==
    [u \in SharedUnits \ {"root"} |->
        CASE u = "m" -> "root"
          [] u \in {"c", "d"} -> "m"
          [] u = "c.s" -> "c"
          [] u = "d.s" -> "d"]
SharedLayer == [u \in SharedUnits |-> 1]
SharedPhases ==
    [u \in SharedUnits |->
        CASE u = "m" -> <<"build", "test", "release">>
          [] u = "c" -> <<"canary">>
          [] u = "d" -> <<"deploy">>
          [] OTHER -> <<>>]
SharedPhase == {"build", "test", "release", "canary", "deploy"}
SharedUnder == ClosureOf(SharedUp, SharedUnits)
===============================================================================
