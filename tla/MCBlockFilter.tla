---------------------------- MODULE MCBlockFilter -----------------------------
(***************************************************************************)
(* A pre stage, a stage of phase "build", a stage without a phase that     *)
(* depends on it, and a module that depends on both, under every command   *)
(* line of up to MaxRules rules.                                           *)
(***************************************************************************)
EXTENDS BlockFilter

MCBlocks == <<"var.tag", "togomak.pre", "stage.build", "stage.test", "module.ship">>

MCKind ==
    [b \in {MCBlocks[i] : i \in DOMAIN MCBlocks} |->
        CASE b = "var.tag" -> "variable"
          [] b = "module.ship" -> "module"
          [] OTHER -> "stage"]

MCDependency ==
    {<<"stage.build", "togomak.pre">>, <<"stage.test", "togomak.pre">>,
     <<"module.ship", "togomak.pre">>, <<"togomak.pre", "var.tag">>,
     <<"stage.build", "var.tag">>, <<"stage.test", "var.tag">>,
     <<"module.ship", "var.tag">>, <<"stage.test", "stage.build">>,
     <<"module.ship", "stage.test">>, <<"module.ship", "stage.build">>}

MCPhases ==
    [b \in {MCBlocks[i] : i \in DOMAIN MCBlocks} |->
        IF b = "stage.build" THEN {"build"} ELSE {}]

\* The pipeline on its own, and as the module of a stage of phase "deploy".
MCInherited == {{}, {"deploy"}}

MCRules ==
    {[op |-> "add", id |-> "stage.build"], [op |-> "sub", id |-> "stage.build"],
     [op |-> "and", id |-> "stage.test"], [op |-> "and", id |-> "module.ship"],
     [op |-> "and", id |-> "build"], [op |-> "and", id |-> "deploy"],
     [op |-> "and", id |-> "default"], [op |-> "and", id |-> "all"]}
===============================================================================
