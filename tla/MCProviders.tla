------------------------------ MODULE MCProviders ------------------------------
(***************************************************************************)
(* The small layers on which TLC checks Providers: questions, terraform,   *)
(* and the rest, each beside a block of a module.                          *)
(***************************************************************************)
EXTENDS Providers

MCBlock == {"v1", "v2", "vm", "p", "e", "g1", "g2", "g3", "t1", "t2", "tm"}
MCConductor == {"root", "module"}
MCKind == [b \in MCBlock |->
    CASE b \in {"v1", "v2", "vm"} -> "var"
      [] b = "p" -> "prompt"
      [] b = "e" -> "env"
      [] b \in {"g1", "g2", "g3"} -> "git"
      [] b \in {"t1", "t2", "tm"} -> "tf"]
MCIn == [b \in MCBlock |-> IF b \in {"vm", "tm"} THEN "module" ELSE "root"]
MCDestination == [b \in MCBlock |->
    CASE b \in {"g1", "g2"} -> "checkout"
      [] b = "g3" -> "memory"
      [] OTHER -> ""]
MCAllowApply == {"t1"}

\* Questions with any way of setting the values, ...
Asking == [layer : {{"v1", "v2", "p"}, {"v1", "vm", "p"}, {"e", "v1"}},
           given : {[b \in MCBlock |-> g] : g \in SUBSET {"env", "cli", "default"}}]
\* ... and sources: two of a directory, and two of directories of their own.
Fetching == [layer : {{"t1", "t2"}, {"t2", "tm"}, {"g1", "g2", "g3"}},
             given : {[b \in MCBlock |-> {}]}]
MCScenarios == Asking \cup Fetching
===============================================================================
