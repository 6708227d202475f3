------------------------------ MODULE MCPipeline ------------------------------
(***************************************************************************)
(* The small pipelines on which TLC checks Pipeline.                       *)
(***************************************************************************)
EXTENDS Pipeline

\* A decision for every block, with exceptions: f @@ default.
Default(blocks, value, except) ==
    [b \in blocks |-> IF b \in DOMAIN except THEN except[b] ELSE value]

\* build: a local value, two stages side by side of which one is retried
\* twice, and a module after them, beside a daemon that ends by itself.
\* Anything may be skipped, rejected or fail.
BuildBlock == {"local.dir", "stage.cache", "stage.lint", "stage.build", "module.ship"}
BuildLayers ==
    <<{"local.dir", "stage.cache"}, {"stage.lint", "stage.build"}, {"module.ship"}>>
BuildStage == {"stage.cache", "stage.lint", "stage.build"}
BuildDaemon == {"stage.cache"}
BuildStops == [d \in BuildDaemon |-> {"stage.build"}]
BuildRetries == Default(BuildBlock, 0,
                        [b \in {"stage.build"} |-> 2])
BuildIdentifier == [b \in BuildBlock |-> b]
BuildVerdicts == Default(BuildBlock, {"run", "skip", "error"},
                         [b \in {"local.dir", "stage.cache"} |-> {"run"}])
BuildOutcomes == [b \in BuildBlock |-> Result]

\* service: two daemons beside three stages. The database serves until it is
\* killed and is to stop after the tests; the mock server ends by itself.
ServiceBlock == {"stage.db", "stage.migrate", "stage.mock", "stage.test"}
ServiceLayers == <<{"stage.db", "stage.migrate"}, {"stage.mock", "stage.test"}>>
ServiceDaemon == {"stage.db", "stage.mock"}
ServiceRetries == Default(ServiceBlock, 0,
                          [b \in {"stage.migrate", "stage.mock"} |-> 1])
ServiceStops == [d \in ServiceDaemon |->
                    IF d = "stage.db" THEN {"stage.test", "stage.migrate"}
                                      ELSE {"stage.test"}]
ServiceIdentifier == [b \in ServiceBlock |-> b]
ServiceVerdicts == Default(ServiceBlock, {"run", "skip", "error"},
                           [b \in {"stage.db"} |-> {"run"}])
EndlessOutcomes == Default(ServiceBlock, Result, [b \in {"stage.db"} |-> {}])
===============================================================================
