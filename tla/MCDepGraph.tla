------------------------------ MODULE MCDepGraph ------------------------------
(***************************************************************************)
(* A pipeline with a block of every kind, and every set of references that *)
(* its blocks may hold among MCMayRefer: chains and cycles over all kinds. *)
(***************************************************************************)
EXTENDS DepGraph

MCBlocks == <<"local.dir", "local.name", "macro.say", "data.env", "var.tag",
              "stage.build", "module.ship">>

MCKind ==
    [b \in {MCBlocks[i] : i \in DOMAIN MCBlocks} |->
        CASE b \in {"local.dir", "local.name"} -> "local"
          [] b = "macro.say" -> "macro"
          [] b = "data.env" -> "data"
          [] b = "var.tag" -> "variable"
          [] b = "stage.build" -> "stage"
          [] b = "module.ship" -> "module"]

MCMayRefer ==
    {<<"local.dir", "local.name">>, <<"local.name", "data.env">>,
     <<"local.name", "local.name">>, <<"macro.say", "local.dir">>,
     <<"macro.say", "stage.gone">>, <<"data.env", "var.tag">>,
     <<"data.env", "stage.build">>, <<"var.tag", "local.dir">>,
     <<"stage.build", "macro.say">>, <<"stage.build", "module.ship">>,
     <<"module.ship", "stage.build">>}
===============================================================================
