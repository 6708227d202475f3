# A verification development for togomak

togomak is a command line program that runs a CI/CD pipeline written in HCL.
`Pipeline.Run` builds a dependency graph of the blocks of the pipeline, peels it into
layers, and runs the blocks of a layer in goroutines of their own, with retries, with
daemons that serve beside later layers, and with handlers for signals. A filter given on
the command line decides which blocks run at all. A module block runs a pipeline of its
own inside a block of its parent's.

The modules here model that core, from the files a configuration is put together from to
the exit code. TLC checks them on small pipelines, and TLAPS proves the properties that
matter most for every pipeline.

## Inventory

| part (source) | state it keeps | operations | interacts with |
|---|---|---|---|
| Pipeline run (`ci/pipeline_run.go`, `orchestra/orchestra.go`) | place in the layer loop, the run's context | ExpandImports, GraphTopoSort, one visit per block (Resolve, BlockCanRun, Prepare, launch), waits, exit code | everything below |
| Handler and Tracker (`ci/handler.go`, `dg/wrapper.go`) | launched runnables and daemons, two wait groups, completion channel of one place, shared diagnostics, a second context | AppendRunnable/Daemon/Completed, waits, Daemons (watchdog), Interrupt, Kill | called by the loop and by every block's goroutine; watchdog and handlers are goroutines |
| Block runner (`ci/run.go` 14-73) | attempts and their diagnostics | BlockRunWithRetries: run, signal, back off, retry, report, release | Tracker, Handler.Diags |
| Daemon life cycle (`ci/daemon.go`, `ci/stage_lifecycle.go`, `ci/stage_terminate.go`) | `terminated`, the command's process | ExecutionOptions, Terminate, Kill | watchdog, interrupt handler |
| Dependency graph (`ci/graph.go`, `ci/runnable.go`, depgraph library) | nodes and edges | DependOn, GraphResolve, TopoSortedLayers | layer loop, filter (DependsOn) |
| Block filter (`ci/run.go` 75-183, `ci/query_*.go`, `rules/`) | rules, queries, inherited phases | BlockCanRun | layer loop, graph, evaluation context |
| Stage execution (`ci/stage_run.go`, `ci/stage_hooks.go`) | process, container, status given to hooks | Prepare, expandMacros, Run (for_each), run, BeforeRun, AfterRun, docker | evaluation context, block runner |
| Module execution (`ci/module_run.go`, `behavior/models.go`) | a child conductor, the phases handed down | Run (for_each), run | a whole pipeline below |
| Evaluation context, conductor (`ci/conductor.go`, `ci/conductor_hcl.go`, `pipeline_outputs.go`, `stage_containers_hcl.go`) | variables map behind an RWMutex, a lock for the terminal | Eval, Update, Child, ExpandOutputs, Nat | every evaluation of every block |
| Value blocks (`ci/locals_run.go`, `variable_run.go`, `data_run.go`, `macro_run.go`) | their entry in the variables map, a process-wide mutex for each kind | Run | evaluation context, providers |
| Data providers (`blocks/data/`) | directories with sources, plan files; the infrastructure outside | DecodeBody, Value, Attributes of env, prompt, git, tf | data blocks, the terminal, git, terraform |
| Reading, Merge, imports (`ci/pipeline_read.go`, `pipeline_meta.go`, `import*.go`) | the pipeline being put together | Read, Merge, ExpandImports | before the run |
| Command line, list/init/fmt/clean, user interface | none across calls | input and output | |

What is hard in it:

* **Concurrency.** The main loop, one goroutine per block, the watchdog and two signal
  handlers share the Tracker. Completion of a block is signalled, reported and released
  in three steps, and the loop may look between any two.
* **Failure.** A block may fail before or after the loop has gone on (daemons); a failed
  layer must end the run, wait for what still runs, and be visible in the exit code.
* **Retries.** The signal to the watchdog, the diagnostics and the wait group have to
  agree on what a failed first attempt means.
* **Daemons.** Someone must stop them, and only when it is right; a wait for a daemon
  may never end.
* **Shared values.** Value blocks copy a part of the variables map, add a name, and write
  it back under another lock than the one they read it with; the loop writes the outputs
  of stages into it; modules evaluate in the context of their parent.
* **Outside.** Blocks of one layer ask questions on one terminal and run terraform in one
  directory.
* **Nesting.** A module is a whole pipeline inside an attempt of a block: its waits, its
  errors and the phases it inherits pass through every level.
* **Order.** Edges are added one by one and refused one by one; rules of the command
  line are applied in order, and the last one that fits counts.

What makes each part correct: a block runs only after what it depends on (loop, graph);
success means that everything succeeded (loop, runner, diagnostics); nothing outlives
the run (wait groups); every run that can end does (channel, waits); the graph is
acyclic and its layers complete (graph); rules mean what they say (filter); no value is
lost and none is read before it is there (evaluation context); a block tells of the
source it named, and changes nothing it may not (providers); a module is over when all
of it is, with all its errors (modules); no contradiction between two files goes
unnoticed (reading).
`PROJECT.json` lists under `hazards` each place in the code where one of these could go
wrong, and the property that would show it.

## Modules

### Schedule, Pipeline

`Schedule` is what a run promises, without loops or goroutines: a block starts once,
after the blocks before it have succeeded or were passed over, and the run succeeds only
when no block failed. Services (daemons) may stay busy beside later blocks.

`Pipeline` is the run as the code does it. Its parts and the code:

| in `Pipeline` | in the code |
|---|---|
| `pc`, `layer`, `todo`; `StartLayer` ... `Return` | the layer loop of `Pipeline.Run` and the exit code of `Perform` |
| `runnables`, `daemons` | `Tracker.runnables`, `Tracker.daemons`; a wait group is at zero when all of them are `"done"` |
| `work[b]`, `attempts[b]`, `result[b]`, `failed`; `Attempt`, `AppendCompleted`, `Retry`, `Report`, `Done` | the goroutine of a block in `BlockRunWithRetries`, one action for each point at which others can see its progress |
| `errors` | `h.Diags.HasErrors()` |
| `completedSignal` | the channel; its capacity is `SignalCapacity`, and `completedMu` is held by the goroutine that waits for a place |
| `completed`, `watchdog`, `due`; `Receive`, `Scan` | `Handler.Daemons` |
| `interrupt`; `HandleInterrupt`, `ForceQuit` | `Handler.Interrupt` |
| `cancelled` | the context of the run, under which commands are started |
| `exit` | how the process ended, `"panic"` included |

Abstracted: what an attempt does (a constant says what it may return, `{}` for a command
that serves until it is killed), what is decided about a block when it is visited
(`BlockFilter` models that; here it is any of the verdicts a constant allows), how long
a back-off takes. A panic in a goroutine ends a Go process, so it is a value of `exit`.
Errors in the prelude of `Run` (imports, locals, the graph) return before any goroutine
of a block exists and are not part of this module; `DepGraph` has the graph's.

Reads of `Tracker.daemons` and of the diagnostics that take no lock are modelled as
atomic.

The refinement of `Schedule` is the instance `Promise`: a block is `waiting` until the
loop has visited it, then `skipped` or `busy`, and `good` or `bad` once it is done, by
its last attempt. `BlocksBefore` is the union of the earlier layers.

### DepGraph

The pipeline is an arbitrary set of references among its blocks (`Init` chooses it).
A reference is one that `Variables()` of a block returns (`Traversals`). For stages that
leaves out `for_each`, the image, the ports, the shell and the phase, and for modules the
inputs: what only they refer to is no edge, and `RunsInOrder` says nothing of it.
`Variables()` of a data block panics when no provider has the name it gives, or its
arguments are not those the provider knows (`VariablesPanics`).

`TakeUp` begins a turn of one of `GraphTopoSort`'s loops, `Anchor` adds a fixed edge (or
panics when it is refused), `Refer` is one turn of `GraphResolve`, `Built` is the check
of the diagnostics in `Pipeline.Run`, `Peel` takes off one layer. The depgraph library
is not in the repository: `MayDepend`, `Dependencies` and `Leaves` model it from how it
is used (`DependOn` refuses an edge that closes a cycle, `DependsOn` is transitive, a
layer is what has no dependency left) and are marked external. `Dependencies` is the
recursive function `Grown`, which adds the parents of a set until nothing is added.

The layers that come out are the constant `Layers` of `Pipeline`: `Layered`,
`NothingLeftOut` and `RunsInOrder` are what `LayersAssumption` there, and the
meaning of a layer, rest on.

### BlockFilter

`BlockCanRun` for one block after the other: `Condition` (CanRun, which may fail, and
the kinds that rules are not for), `Query` (`QueryEngines.Eval`), `Select` (all that
comes before the loop over the rules), one `Apply` per rule, `Conclude`. The rules and
the phases that a parent module hands down are chosen in `Init`; what conditions and
queries evaluate to is chosen in the actions. `Allowed` is the body of the loop: of
several tests that apply to a block the last one counts. The flag `overridden` is only
logged and left out. A lifecycle without `phase` is not modelled (the value library
decides what happens).

### StageRun

One call of `Stage.Run`, which `Pipeline` sees as one `Attempt`. A stage with `for_each`
makes one further call per item, each in a goroutine; a hook is a stage that is run in
the goroutine of its caller, and may have hooks itself. So a state is a function from
calls (`Run`) to how far each has come, and one action is one step of any call.

| in `StageRun` | in the code |
|---|---|
| `at[r]`, `next[r]` | the place of a call in `Run`, `run` and `executeDocker`, and the hook or item that comes next |
| `Expand`, `Returned` | `expandMacros`: what a `use` block leads to is one of the kinds in `Use`, by what becomes of the call |
| `RunOnce`, `RejectItems`, `Iterate`, `LaunchItem`, `JoinItems` | `for_each` in `Run`, with the wait group in and after the loop |
| `PreHook`, `PostHook`, `Leave` | `BeforeRun`, `AfterRun` and the deferred function: `Leave` fixes the result, and the post hooks run after it |
| `Unwind`, `PreHookPanics`, `EvaluationPanics`, `InspectFails`, `PostHookPanics` | a panic in `run`: the deferred function runs the post hooks, with a status from the `diags` it finds, and then the panic goes on to the caller (`"unwind"`, then `"panicked"`) |
| `options[r]`, `Config` | the options a call is made with; those of the caller come after its own and the last one counts, so the hook of a hook sees what the outermost stage was told |
| `errs[r]` | `diags.HasErrors()` inside `run` |
| `Prepare`, `NoCommand` | parameters, environment and command are evaluated, and may be in error |
| `Start`, `Finish`, `process[r]` | `cmd.Run()` |
| `FindImage` ... `Remove`, `container[r]` | `executeDocker`, one action for each call to the docker daemon; each may fail (`DockerFails`, `InspectFails`, `LogsFail`), and a cancelled run breaks off the logs (`LogsCancelled`) |
| `ExpansionPanics` | a macro that is not found (`expandMacros` returns nil), a hook that uses a macro of files (a type assertion on nil): `Run` has nothing deferred, but the stage whose hook the call is has |
| `Crash`, `exit = "panic"` | a panic has left the goroutine of the stage or of an item, and nobody recovers it; until then other items go on |

Abstracted: what is evaluated (a Boolean chosen when it is asked for), output, paths and
environment. After a macro that is a stage was merged, the constants stand for the
merged stage. `Terminated()` is false throughout: `Terminate` panics before it sets it
(its callers pass a nil conductor). In a container `process` is what the command came to, whether
anybody asks or not.

### Definitions, EvalContext

`Definitions` is what blocks may rely on when they share variables: a value block defines
its name at once, outputs appear at once, nothing that is defined goes away, and an
evaluation sees what is defined at one moment.

`EvalContext` is how the code gets there, with the locks and the copies. A section of the
map (`local`, `data`, `var`, the outputs) holds the names of blocks of one kind, so the
map of a context is the set of the blocks whose names are in it.

| in `EvalContext` | in the code |
|---|---|
| `variables[c]`, `Section` | `evalContext.Variables` of the root or of a module's conductor, and one entry of it |
| `readers`, `queued`, `writer`; `RLock`, `Lock`, `Locked`, `Unlock` | `Eval().Mutex()`, a Go RWMutex: a writer that has called `Lock` keeps out readers that come later, and `Unlock` lets in those that queued |
| `section[k]`; `EnterSection` | `global.LocalBlockEvalContextMutex` and its like, one for all conductors of the process |
| `Begin`, `Read`, `Provide`, `Write` | `Run` of a local (mutex first), a data block or a variable (value first); `Read` is the evaluation or the copy of the section, `Write` puts the copy back with one more name |
| `Read`, `PortsParsed`, `Command` | what a stage evaluates, `Nat` with its two `RLock`s for each port, the command with its outputs |
| `Inputs`, `Throw`, `ModuleReturns` | a module's inputs, evaluated without the lock (the Go runtime may notice), and the run of its pipeline in a context of its own |
| `ReadOutputs`, `WriteOutputs`, `NextLayer` | `ExpandOutputs` at the head of a layer, the waits at its end; when the file cannot be parsed the run fails, when it cannot be opened the layer goes on with the outputs of an earlier reading or with none |
| `unread[c]` | the layers at whose head the file could not be opened. The code keeps no record but a line in its log; `SeesEarlierLayers` needs it to say which outputs a block may lack (`NeverRead`) |

Abstracted: what values are, retries and the filter (`Pipeline`, `BlockFilter`: here every
block runs once, or fails), `for_each` of a module, several evaluations of a stage under
one lock each (they are one). A file of outputs a daemon writes to while it is parsed is
read as it was at one moment. `Macro.Run` is not there: `Macro.CanRun` always says no.

### Providers

The data and variable blocks of one layer, modules of the layer included, each in a
goroutine of its own: where they get their values, and what they share on the way. A
source is named by the block it belongs to.

| in `Providers` | in the code |
|---|---|
| `Begin`, `Decode`, `DecodePanics`, `Conclude`, `diags` | `Data.Run`, which goes on to `Value` and `Attributes` after errors of `DecodeBody` and tests for errors at the end |
| `errors[b]` | at which steps the block met an error, whether `diags` was told or not. The code has no such variable: without it an error that nobody records could not be missed |
| `given`; `EnvValue`, `PromptValue`, `Resolve`, `Convert` | where a value is set: environment, command line or module input, default; `resolveVar` and the conversion to the type of a variable |
| `stdin`, `StdinLock`; `Answer` | `StdinLock`, of one conductor, which variables take and prompts do not; the user |
| `content[d]`, `Directory`; `Clone`, `ReadRepository`, `Get` | the directories git clones into and the one all terraform blocks of a conductor share |
| `TfInit`, `plan`, `PlanFile`, `Plan`, `Apply`, `Show` | `TfProvider.Attributes`: the plan file has a name of its own, the directory has not |
| `drift`, `applied` | the infrastructure that differs from what a source says, and who changed some |
| `exit` | panics of `x.Must` and of type assertions, `log.Fatalf`, a terraform state without values |

`Apply` may fail with a part of its changes made, and the block goes on to `Show` as if
it had not: `Forgiven` names that step and the question of a prompt as the two whose
errors do not keep a block from being done. The provider that is not found is not here:
`Data.Run` has an error for it (`data_run.go:54`), but `Variables()` has panicked before.

### Modules

Pipelines inside pipelines. The units are stages, module blocks, the items of `for_each`
and the root; each has a place, and a pipeline is its layers.

| in `Modules` | in the code |
|---|---|
| `Up`, `Layer`, `Phases`, `ForEach` | the configuration: which block is in which module, at which layer, with which phases |
| `Source`, `Iterate`, `StartItem`, `JoinItems` | `Module.Run` |
| `Get`, `AppendPhase`, `PhasesPanic`, `ReadChild`, `ReadFatal` | `Module.run` up to the run of the child pipeline |
| `Decide`, `Refused`, `StageEnds`, `NextLayer`, `PipelineEnds` | `Pipeline.Run` at every level: visits, launches, waits, the end |
| `failed`, `Errors` | the diagnostics that `Run` returns, those of items and of the child pipeline among them |
| `heap`, `slice`, `Appending` | Go slices of phases: an array and a length, written in place when there is room |
| `seen[b]` | the inherited phases `BlockCanRun` reads for a block |
| `dryRun`, `serial` | `Pipeline.DryRun`, which children inherit, and `Behavior.DisableConcurrency`, which they do not |

Abstracted: what the filter makes of the phases (`BlockFilter`), retries, daemons and the
waits of a layer under `disable_concurrency` (`Pipeline`), inputs (`EvalContext`).

### Configuration

How a pipeline is put together: `Read`, `ReadFile`, `MergeFiles` are `Read` and
`ReadDirFromPath`, `Fetch` and `MergeImports` are `Import.Expand` and `ExpandImports`. The
recursion of the code is a stack of directories; `Merge` takes up one pipeline after the
other, as the loop in the code does (a recursive function over the list). A
file is one of `Contents`, chosen in `Init` with its imports; whether a fetch works is
chosen in `Fetch`. `ReadsAllOrRefuses` compares the outcome with `Sound` and `Reached`,
which speak of the files and not of any order of work.

Abstracted: parsing (a file is `broken` or not), what is inside blocks, the `behavior`
block. A source names the same directory wherever it occurs, and imports do not form a
cycle: over a cycle `Expand` does not come back. `MaxDepth` bounds the stack.

### Proofs

`PipelineProofs` (with the refinement of `Schedule`), `DepGraphProofs`,
`BlockFilterProofs`, `StageRunProofs`, `EvalContextProofs`, `ProvidersProofs`,
`ModulesProofs` and `ConfigurationProofs` extend the modules above with TLAPS. The MC
modules give TLC its small pipelines.

How the modules fit together: `DepGraph` makes the `Layers` of `Pipeline`, `EvalContext`
and `Modules`; `BlockFilter` makes the verdicts of `Pipeline` and of `Decide` in
`Modules`, from the phases `Modules` hands down; `StageRun` is one `Attempt` of a stage
and `Modules` that of a module; `Providers` is `Provide` of `EvalContext`;
`Configuration` makes the blocks of all of them.

Operators named `X_Y` beside an operator `X` are faults of `X`, the way a slip in the
code would have it; each property is known to fail under one of them (`mutants` in
`PROJECT.json`).

## Runs

| run | what it asks | bounds |
|---|---|---|
| `stage_run` | a stage with items, hooks, macros and a container | 9 calls: a stage, two items, a post hook for each, a pre hook in a container for the stage, and one without and one in a container for an item; a stage without macro, one whose macro is rejected (its post hooks panic), one whose macro is missing; dry run and disabled concurrency as the run chooses |
| `pipeline_build` | layers, success, retries, termination without endless daemons | 5 blocks in 3 layers, two of them side by side, one retried up to twice, a daemon that ends by itself; every block of the later layers may be skipped, rejected or fail; the outputs file may be bad |
| `pipeline_daemons` | orphans, one block at a time, unattended failure, liveness of the channel, and the refinement of `Schedule` | 2 daemons and 2 stages in 2 layers, a stage and a daemon with one retry; one daemon serves for ever; interrupts; with and without concurrency |
| `graph_layers` | the graph and its layers | 7 blocks of all kinds and every subset of 11 references (2048 pipelines), with cycles, self references and an undefined id |
| `filter_rules` | the rules | 5 blocks, every command line of up to 2 of 8 rules, one query, with and without inherited phases |
| `eval_context` | the locks and the variables map | 2 locals and a stage side by side, then a daemon, a data block and a module with a local, then a stage; no ports or one; the file of outputs may be bad or not open at any layer |
| `providers` | where values come from | 6 layers of two or three of 11 blocks: questions beside a module's, with every way to set a value for all of them; sources in one directory, in different ones, with every drift |
| `modules` | waits, errors and phases at three levels | a module with 2 items, each with a pipeline and a module inside it, beside another module, then a stage: 12 units; dry run and disabled concurrency as the run chooses |
| `configuration` | reading and merging | 5 files in 4 directories and an empty one, 24 ways to import, 6 contents for each file, any fetch may fail; imports nest to depth 3 |
| `nat_returns`, `phases_shared`, `modules_dry_run` | one statement of a doc or comment each that the code does not keep | the instance of `eval_context` with a port; a module with three phases around two with one each |

The bounds are enough for the cases that matter to happen: a channel of one place needs
two blocks that complete together and a third that waits; a barrier needs three layers,
one of them with two blocks; a retry that succeeds, one that fails and an exhausted
retry need two further attempts; rules of two elements are the shortest in which one
undoes another; two items show an item that is waited for and one that is not, and a
stage that does not iterate runs its own hooks and command. A lost update needs two
locals of one layer, and a local of another context shows which mutex they share; a
writer that waits while a reader asks again needs a daemon beside a local. Two terraform
blocks of a conductor share a directory, one of a module does not. An error that does not
come back needs a module inside an item. A contradiction that only the second merge can
see needs an import on either side, and one found twice an import of both. No counter
needs a cap: `Retries` bounds `attempts` (and `RetriesAreEarned` says so), ports bound
`readers`, `Phases` the slices. In the graph every pair of kinds that the fixed edges
treat differently is joined by a reference in some pipeline, cycles of length one, two
and more included. Symmetry is not used: the blocks of an instance differ in kind,
retries and place.

`CHECK_DEADLOCK FALSE` is set where the system may really stop. In `pipeline_daemons` a
daemon that serves until it is killed keeps a run that succeeds from ending; in
`eval_context` and `nat_returns` it is `Nat`, which may wait for ever with the context
locked. `LocksComeBack` is asked of the runs without ports, where nothing else may.

**Fairness.** `Fairness` of `Pipeline` asks weak fairness of the main loop, of each
block's goroutine and of the watchdog: the Go scheduler runs every goroutine that can
run. A fair goroutine in `"running"` returns as soon as its command may return by itself
(or was cancelled); that a command in `Outcomes` returns at some time is an assumption,
and a command that need not return has `Outcomes[b] = {}`. Nothing is asked of the user.
`Fairness` of `StageRun` asks it of the goroutine of the stage and of each call: of the
goroutines that are runnable, and of commands and docker calls, that they return.
`Fairness` of `EvalContext` asks it of each goroutine and each loop. Weak fairness is
enough for its locks: a Go mutex does not starve (a goroutine that has waited long is
handed the mutex), an RWMutex lets the waiting readers in before the next writer, as
`Unlock` has it, and in a run whose blocks each lock a few times a thread that waits is
left alone in the end. `FairSpec` of `Providers` asks it of the goroutines only: downloads
and commands return, a user need not answer, so `EndsUnlessAsked` excepts a question that
is open. `Modules` and `Configuration` state safety only.

### What the failing runs show

* `nat_returns`: `StageContainerPorts.Nat` calls `RLock` where it should call `RUnlock`.
  A block that writes a value in between waits for it, and it for the writer; without one
  the stage goes on, but no value is ever written again (`LocksComeBack` is stated of
  runs without ports because of this).
* `phases_shared`: `append` to the slice of the parent's phases writes into an array two
  modules share, so one sees the phase of the other. `modules` checks the same property
  on a configuration whose slices have no room, where it holds.
* `modules_dry_run`: the behavior made for a module forgets `DryRun`, so a dry run starts
  the commands of the module's stages.

### Where else the code deviates

The models have the code as it is; these differ from what its docs say, and no property
here is about them:

* `stageDiags` collects the errors of all attempts (`run.go:54`), so a stage that succeeds
  on a retry still fails the pipeline, where `stage_schema.go:79` speaks of failing
  permanently. `SuccessIsComplete` holds of it: it fails too often, not too seldom.
* Ctrl+C cancels a context that neither commands nor loop look at (`handler.go:312`).
* Stopping a daemon, or a runnable at Ctrl+C, calls `Terminate` with a nil conductor and
  panics (`handler.go:241`, `266`, `303`); a daemon without a lifecycle is due at the first
  completion of any block.
* A data or variable block that refers to a stage makes a fixed edge close a cycle, and
  `GraphTopoSort` panics where it could report (`graph.go:124`).
* `^id` is undone by a later rule that fits the stage (`run.go:150`).
* The exit code of a container is never read (`stage_run.go:703`): a command that fails in
  one counts as success. `HooksSeeFailure` and `ErrorsReachResult` except it by name.
* An unattended run asks for the value of a variable that has none
  (`variable_run.go:47`); `Pending` excepts it by name.
* The error of `terraform apply` is overwritten by that of `terraform show`
  (`terraform.go:250`), so a block is done whose infrastructure was not changed, or only
  in part; `DoneIsOwn` excepts that step by name (`Forgiven`), and no other of a `tf`
  block.
* A file of outputs that cannot be opened costs a line in the log
  (`pipeline_outputs.go:38`), and the blocks of the layer lack what stages before them
  put out; `SeesEarlierLayers` excepts outputs that were never read since by name
  (`NeverRead`).
* A data block with a provider nobody offers ends the process in `GraphTopoSort`
  (`data_hcl.go:14`), not with the diagnostic of `data_run.go:55`.
* The errors of pre hooks reach `diags` only when all of them have returned
  (`stage_run.go:440`). When one fails and a later one panics, the deferred function finds
  no error and tells the post hooks success, where `stage_schema.go:116` says the status
  decides if the stage failed. `HooksSeeFailure` excepts it by name (`PreHookPanicked`): no
  other panic, and nothing else, hides a failure of a pre hook or of a command outside a
  container from a post hook.
* A container that cannot be inspected is a panic (`stage_run.go:678`): the post hooks
  are told success while the command still runs, and the container is left behind.
* Two terraform blocks of one layer work in one directory (`terraform.go:157`) and may
  tell of each other's source; `DoneIsOwn` excepts them by `Alone`.

## Proofs

The theorems hold for every value of the constants that satisfies the ASSUMEs: any
number of blocks, layers, daemons, retries, rules, hooks, files and imports, any flags,
and modules nested to any depth. Every safety invariant and action property of the
passing runs is the conclusion of a theorem, without a further hypothesis but for
`PhasesInherited` (below). The assumptions that say more than what type a constant has:

* the ids that no block has are finitely many (`DepGraph`: a pipeline is a file);
* no call of a stage is a hook of itself or of two others, nor an item (`StageRun`: each
  name stands for one call of `Run`, and a hook is a new one);
* `Under` is the closure of `Up` (`Modules`: a recursion over data, so it is given as a
  constant), the units are finitely many and none is inside itself (without it `Handed`,
  which recurses to the root, means nothing);
* `MaxDepth` is positive (`Configuration`; any bound will do, and the imports of an
  instance nest no deeper).

* `Invariance` (PipelineProofs). The properties of a run are not inductive: that a layer
  starts only after the earlier ones says nothing of a goroutine that has left its wait
  group without having reported. `IInv` adds what ties the parts together: what is
  launched is tracked and lies behind the loop (`Tracked`, `Placed`), what was passed
  over was skipped (`Passed`), the earlier layers are settled (`Settled`), a failure is
  reported before the wait group is released (`Reported`), and the loop leaves a layer
  complete (`Complete`) and the run at rest (`Quiet`, `Returned`). `TypeCorrect`,
  `Barrier`, `NothingLeft`, `SuccessMeansAll` follow from it.
* `RetriesAreBounded` is an action property, from `IInv` and `Earned` (a goroutine that
  backs off has failed and has attempts left).
* `Sequentially` needs `Alone`: between two launches nothing is at work.
* `Refinement` (PipelineProofs): each action of `Pipeline` is a step of `Schedule`
  under the refinement mapping or leaves it unchanged, under `IInv`.
* `GraphTypeCorrect`, `LayersRespectEdges`, `EveryReferenceIsAnEdge` (DepGraphProofs):
  from `GInv`, which says that no layer is taken off while edges are still added, and
  that the references already taken up are edges unless there is an error.
  `NothingIsLeftOut` and `BlocksRunInOrder` need that the sort ends only when every node
  has a layer: `Acyclic` says that every set of nodes that is not empty has one that
  depends on none of them, which `DependOn` keeps up because it refuses what would close
  a cycle, and `Exhausted` that the sort goes on while there is such a node. So each block
  has a layer, no layer is empty, and a reference is to an earlier one: what `Pipeline`
  assumes of `Layers` is proved of `DepGraph`.
* `FilterInvariance` (BlockFilterProofs): `FInv` says of the loop over the rules that
  what it holds is earned (`Earned`) and that a rule which brings the block along is
  either still to come or has had its effect (`Brought`). `FilterTypeCorrect`,
  `OnlyAdded` and `DependenciesAlong` follow, for command lines of any length.
* `AndRulesSum` says what a command line of `and` rules comes to: a block runs just when
  its condition allows it and some rule selects it, wherever in the line it stands. `AInv`
  has to speak of a loop under way: a verdict of TRUE is for a block that is asked for,
  and one that is asked for has it or has a selecting rule to come (`Summed`), where the
  rules to come are a tail of the list (`Drawn`).
* `StageInvariance` (StageRunProofs): that a command runs only behind its pre hooks says
  nothing of a call that has not come so far. `SInv` adds to `TypeOK` what the place of
  a call tells (`Sound`): which pre hooks are known to have succeeded, that nothing was
  started in a dry run, whether there is a container or a result yet; and that the items
  the loop has not come to are idle (`Waiting`). A step of one call changes the part of
  no other but the one it makes, which was idle. `StageTypeCorrect`, `GuardedCommands`
  and `NoContainerLeft` follow, for any number of items and hooks, nested to any depth.
* `OwnershipInvariance` (StageRunProofs) is what the return of a stage rests on. `RInv`
  says who waits for whom: a hook that runs is the one its caller is at (`Awaited`), the
  post hooks have returned up to the one it is at (`Posted`), the items have returned once
  the stage has (`Gathered`), a hook of the stage or of an item was told what the errors
  of its caller say and these do not change afterwards (`Told`), and a call that ends well
  ran what it had to (`Clean`, `Confirmed`). Panics are part of it: a call on its way out
  waits for its post hooks like one that returns, no hook of it is at work when it is over,
  and success is told only when the deferred function found no error. `RunReturnsLast`, `PostHooksSeeFailure` and
  `ErrorsAreReturned` follow. A step of one call may change what is said of its caller and
  of its hooks, so each action is proved for the call, for its caller and for the rest.
* `ExclusiveWrites` (EvalContextProofs): who holds which lock where (`LockInv`) is
  inductive by itself: `Locking` says that whoever called `Lock` is recorded as the writer
  and nobody else is, `Reading` that who evaluates holds a read lock and that a writer has
  seen all of them leave. That a lost update cannot happen needs more: `Sections` says that
  the copy a block is going to write back is still what the map holds, because it holds
  the section's mutex, and `Outputs` the same of the loop and the file. With them each
  step of the locks and copies is a step of `Definitions` (`MapsAreDefinitions`).
  `EarlierLayersSeen` adds `Passed`, `Published`, `Visible` and `Unbegun`: what is done is
  defined, a block begins only where the layers before it are, and an output that is not
  in the map of a pipeline past its layer was not read at any head since (`NeverRead`).
* `OnlyAllowedApplies` (ProvidersProofs) rests on `Planned`: between plan and apply the
  plan in a block's file is the one that was tested, whatever others plan meanwhile.
  `OwnSource` rests on `Fetched` (what the directory of a block that is alone in it holds),
  `Valued` (what a block is going to be done with) and `Told`: every error a block met is
  in its diagnostics, or was met where it is forgiven.
* `ModulesAreWaitedFor` and `FailuresAreReported` (ModulesProofs): that nothing at work is
  below what is over is not inductive, since a pipeline could begin something in a unit
  whose module is over. `TreeInv` says that nothing has begun inside a unit that has not
  come to run anything (`Untouched`) and that nothing is at work inside one that is not
  (`Quiet`). `TypeCorrect` needs `Fresh`, since an `append` may write into an array that
  others hold.
* `PhasesComeDown` (ModulesProofs) says when `PhasesInherited` holds, which by itself is
  not a theorem: `phases_shared` has a module write into the array of another. It holds
  as long as no module appends in place to an array it did not make (`NoSharedRoom`, a
  statement about states). `FewPhasesComeDown` draws the conclusion for configurations:
  where no module with phases has more than two to inherit, `append` finds every array
  full (`Tight`). `PhaseInv` says of each module that what it has collected is a beginning
  of what it should hand down (`Collected`), that until it appends it holds what it was
  given (`Borrowed`), and that the array of another is held only while that one runs a
  pipeline, or has run one (`Lent`).
* `AllOrRefused` (ConfigurationProofs): for any directories, files and imports, and
  whichever sources cannot be fetched, a configuration is accepted just when nothing
  failed and no two of its files contradict each other, and then it has every block, in
  the order it was reached. `CInv` says of the stack that each directory is the import the
  one below is at (`Nested`) and holds what should have been read by then, or an error
  for which there is a reason among the files so far (`SoFar`), that a failure is
  not forgotten (`Remembered`), and what the end says of all files (`Ended`). It rests on
  what `Merge` makes of a list of pipelines that are each the whole of some files: the
  whole of them all, or a refusal just when two of the files contradict each other
  (`MergeWhole`), and on `Reached`, which the invariant has as a function of the contents
  and the imports.

Some of these need an induction over data after all: on the length of a list for `Merge`
and `FlattenSeq`, on the depth for `Reached`, on the tree for `Handed`, on the sets that
`Grown` adds to. The library's induction theorems take a predicate as a parameter; these
proofs take the set of counterexamples instead and a least element of it (`WFMin`).

Only model-checked: what needs fairness (`RunEnds`, `EveryBlockSettles`,
`EveryBlockVisited`, `UnattendedFailureEnds`, `StageReturns`, `LocksComeBack`,
`EndsUnlessAsked`), as TLAPS proves neither liveness nor what is ENABLED. The three
properties that fail (`nat_returns`, `phases_shared`, `modules_dry_run`) are shown by the
counterexamples of their runs.

## Not modelled, and the plan

Done: `Pipeline`, `Schedule` and its refinement, `DepGraph`, `BlockFilter`, `StageRun`,
`EvalContext` and the refinement of `Definitions`, `Providers`, `Modules`,
`Configuration`. What could come next:

1. Cancellation across levels: a child conductor has a background context, so the
   commands of a module outlive `cancel()` of its parent; `Modules` would need the
   contexts of `Pipeline`.
2. Relative sources in `Configuration`, where one text names different directories at
   different levels and shares one directory on the disk.
3. The expansion of `locals` blocks into locals, which may clash after the merge.
4. The back-off function of `BlockRunWithRetries` over bounded retry blocks.

Theorems still worth proving: that a call of `Stage.Run` or of `Module.Run` refines the
single `Attempt` of `Pipeline`, and that the rules `add` and `sub` come to the last one
that selects a block, as `AndRulesSum` has it for `and`.

Not planned: the command line and its parsing, list/init/fmt/clean, user interface,
logging and the HCL functions vendored from terraform, which keep no state across calls;
the filter engine, which `BlockCanRun` does not use; `Handler.Kill`, which waits for a
signal that cannot be caught; `Macro.Run`, which nothing calls.
