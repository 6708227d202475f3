------------------------------- MODULE StageRun -------------------------------
(***************************************************************************)
(* One call of Stage.Run, which Pipeline abstracts to the result of an     *)
(* attempt: macro expansion, for_each with one goroutine per item, pre     *)
(* hooks, the command or the container, and post hooks in a deferred       *)
(* function. Hooks are stages that are run in the goroutine of the stage   *)
(* they belong to, and may have hooks of their own.                        *)
(*                                                                         *)
(* What an expression evaluates to, what a command returns and whether a   *)
(* call to the docker daemon succeeds is chosen when it is asked for.      *)
(***************************************************************************)
EXTENDS Naturals, Sequences, FiniteSets

CONSTANTS
    Run,          \* the calls of Stage.Run: the stage's, its items', its hooks'
    Root,         \* the call BlockRunWithRetries makes
    Items,        \* the calls for the elements of for_each, in their order
    PreHooks,     \* the calls for the pre hooks of a stage, in their order
    PostHooks,    \* the calls for its post hooks
    Uses,         \* what the use blocks of the stages may be
    HasScript,    \* stages with a script or arguments of their own
    HasContainer, \* stages with a container block
    Outcomes      \* what the command of a stage may return

\* A use block by where its expansion leads: the macro is looked up by name or
\* evaluated, and is a pipeline elsewhere, a stage, or a map of files.
Expanding == {"source", "stage", "files"}
Unchanged == {"none", "nofiles"}
Rejecting == {"invalid", "badchdir", "baddir", "badfile", "nomain"}
Panicking == {"unknown", "self", "illtyped"}
Use == Expanding \cup Unchanged \cup Rejecting \cup Panicking

Result == {"ok", "err"}
Status == {"running", "success", "failure"}

Elements == {Items[k] : k \in DOMAIN Items}
\* The calls in a goroutine of their own, for the stage itself and not for a hook.
Bodies == Elements \cup {Root}
Hooks(r) == {PreHooks[r][k] : k \in DOMAIN PreHooks[r]}
                \cup {PostHooks[r][k] : k \in DOMAIN PostHooks[r]}

ASSUME StageAssumption ==
    /\ Root \in Run
    /\ Items \in Seq(Run \ {Root})
    /\ {PreHooks, PostHooks} \subseteq [Run -> Seq(Run \ {Root})]
    /\ Uses \subseteq [Run -> Use]
    /\ {HasScript, HasContainer} \subseteq [Run -> BOOLEAN]
    /\ Outcomes \in [Run -> SUBSET Result]

\* A Stage is made anew for every call, so no two calls share one.
ASSUME CallsAssumption ==
    /\ \A j, k \in DOMAIN Items : j # k => Items[j] # Items[k]
    /\ \A r \in Run : Hooks(r) \cap (Elements \cup {r}) = {}
    /\ \A r, s \in Run : r # s => Hooks(r) \cap Hooks(s) = {}

VARIABLES
    use,       \* the use block of each stage
    dryRun,    \* cfg.Behavior.DryRun
    serial,    \* cfg.Behavior.DisableConcurrency
    at,        \* where a call is
    next,      \* the hook of a call, or the item of Root, that comes next
    options,   \* the options that set a status and a parent, in order
    errs,      \* diags.HasErrors() of Stage.run
    result,    \* what a call returns, fixed before its post hooks run, unless
               \* one of them panics
    process,   \* what became of the command, in a container or not
    container, \* what became of the container
    cancelled, \* is the context of the pipeline's run cancelled?
    exit       \* "panic" when a call ended the process

inputVars == <<use, dryRun, serial>>
callVars == <<at, next, options>>
resultVars == <<errs, result>>
execVars == <<process, container>>
vars == <<inputVars, callVars, resultVars, execVars, cancelled, exit>>

-------------------------------------------------------------------------------
At == {"idle", "expand", "each", "items", "pre", "prepare", "exec", "wait",
       "image", "create", "start", "logs", "copy", "remove", "post", "returned",
       "unwind", "panicked"}

Option == [status : Status, parent : Run]

TypeOK ==
    /\ use \in [Run -> Use]
    /\ dryRun \in BOOLEAN
    /\ serial \in BOOLEAN
    /\ at \in [Run -> At]
    /\ next \in [Run -> Nat \ {0}]
    /\ options \in [Run -> Seq(Option)]
    /\ errs \in [Run -> BOOLEAN]
    /\ result \in [Run -> Result \cup {"none"}]
    /\ process \in [Run -> Result \cup {"none", "running"}]
    /\ container \in [Run -> {"none", "created", "running", "exited", "removed"}]
    /\ cancelled \in BOOLEAN
    /\ exit \in {"running", "panic"}

Init ==
    /\ use \in Uses
    /\ dryRun \in BOOLEAN
    /\ serial \in BOOLEAN
    /\ at = [r \in Run |-> IF r = Root THEN "expand" ELSE "idle"]
    /\ next = [r \in Run |-> 1]
    /\ options = [r \in Run |-> <<>>]
    /\ errs = [r \in Run |-> FALSE]
    /\ result = [r \in Run |-> "none"]
    /\ process = [r \in Run |-> "none"]
    /\ container = [r \in Run |-> "none"]
    /\ cancelled = FALSE
    /\ exit = "running"

\* NewConfig applies the options in order, so the last status counts.
Config(r) ==
    IF options[r] = <<>>
      THEN [status |-> "running", parent |-> r]
      ELSE options[r][Len(options[r])]

Goto(r, place) == at' = [at EXCEPT ![r] = place]

\* A step of a call that changes nothing but its place.
Proceed(r, from, to) ==
    /\ at[r] = from
    /\ Goto(r, to)
    /\ UNCHANGED <<inputVars, next, options, resultVars, execVars, cancelled, exit>>

\* A panic in run: its deferred function runs the post hooks before the panic
\* reaches the caller, and reads the diags of what came before.
Unwind(r, failed) ==
    /\ Goto(r, "unwind")
    /\ next' = [next EXCEPT ![r] = 1]
    /\ errs' = [errs EXCEPT ![r] = failed]
    /\ UNCHANGED <<inputVars, options, result, execVars, cancelled, exit>>

-------------------------------------------------------------------------------
(* Stage.Run *)

\* Only BlockCanRun sets the child statuses that the expansion of files needs:
\* for a hook they are nil, which is no []string.
ExpansionPanics(r) ==
    \/ use[r] \in Panicking
    \/ use[r] = "files" /\ r \notin Bodies

\* expandMacros. After an error that leaves a stage, Run goes on with it. A
\* panic finds nothing deferred in Run.
Expand(r) == Proceed(r, "expand", IF ExpansionPanics(r) THEN "panicked" ELSE "each")

\* What Run returns: the errors of expandMacros and of run.
Returned_RunOnly(r, failed) == IF failed THEN "err" ELSE "ok"
Returned(r, failed) == IF failed \/ use[r] \in Rejecting THEN "err" ELSE "ok"

\* for_each is absent or null: run the stage itself. Items and hooks have none.
RunOnce(r) == Proceed(r, "each", "pre")

\* for_each cannot be evaluated, or is nothing to iterate over.
RejectItems ==
    /\ at[Root] = "each"
    /\ Goto(Root, "returned")
    /\ result' = [result EXCEPT ![Root] = "err"]
    /\ UNCHANGED <<inputVars, next, options, errs, execVars, cancelled, exit>>

Iterate == Proceed(Root, "each", "items")

Launched == {Items[k] : k \in 1..(next[Root] - 1)}

\* wg.Wait()
ItemsReturned_Last ==
    \A i \in Launched : i = Items[Len(Items)] => at[i] = "returned"
ItemsReturned_Succeeded ==
    \A i \in Launched : at[i] = "returned" /\ result[i] = "ok"
ItemsReturned == \A i \in Launched : at[i] = "returned"

MayLaunch == serial => ItemsReturned

LaunchItem ==
    /\ at[Root] = "items"
    /\ next[Root] <= Len(Items)
    /\ MayLaunch
    /\ at' = [at EXCEPT ![Items[next[Root]]] = "expand"]
    /\ options' = [options EXCEPT ![Items[next[Root]]] = options[Root]]
    /\ next' = [next EXCEPT ![Root] = @ + 1]
    /\ UNCHANGED <<inputVars, resultVars, execVars, cancelled, exit>>

\* Only the errors of the items are returned, not those of the expansion.
JoinItems ==
    /\ at[Root] = "items"
    /\ next[Root] > Len(Items)
    /\ ItemsReturned
    /\ Goto(Root, "returned")
    /\ result' = [result EXCEPT ![Root] =
                    IF \E i \in Elements : result[i] = "err" THEN "err" ELSE "ok"]
    /\ UNCHANGED <<inputVars, next, options, errs, execVars, cancelled, exit>>

-------------------------------------------------------------------------------
(* Stage.run: hooks *)

\* BeforeRun or AfterRun call the next hook. What the caller was called with
\* comes after what it sets itself.
CallHook(r, hooks, status) ==
    /\ next[r] <= Len(hooks)
    /\ at[hooks[next[r]]] = "idle"
    /\ at' = [at EXCEPT ![hooks[next[r]]] = "expand"]
    /\ options' = [options EXCEPT ![hooks[next[r]]] =
                        <<[status |-> status, parent |-> r]>> \o options[r]]
    /\ UNCHANGED <<inputVars, next, resultVars, execVars, cancelled, exit>>

HookReturned(r, hooks) ==
    /\ next[r] <= Len(hooks)
    /\ at[hooks[next[r]]] = "returned"
    /\ next' = [next EXCEPT ![r] = @ + 1]
    /\ UNCHANGED <<inputVars, at, options, result, execVars, cancelled, exit>>

\* All pre hooks run, also after one that failed.
PreHook(r) ==
    /\ at[r] = "pre"
    /\ \/ CallHook(r, PreHooks[r], "running")
       \/ /\ HookReturned(r, PreHooks[r])
          /\ errs' = [errs EXCEPT ![r] = @ \/ result[PreHooks[r][next[r]]] = "err"]

\* What the pre hooks before it returned has not reached diags.
PreHookPanics(r) ==
    /\ at[r] = "pre"
    /\ next[r] <= Len(PreHooks[r])
    /\ at[PreHooks[r][next[r]]] = "panicked"
    /\ Unwind(r, FALSE)

PreHooksDone(r) == next[r] > Len(PreHooks[r]) /\ Proceed(r, "pre", "prepare")

\* The deferred function: it reads diags after the result of run is fixed, so
\* the errors of post hooks reach nobody.
StatusAfter_Misnamed(r) == IF errs[r] THEN "failed" ELSE "success"
StatusAfter_Started(r) == IF process[r] # "none" THEN "success" ELSE "failure"
StatusAfter(r) == IF errs[r] THEN "failure" ELSE "success"

PostHook(r) ==
    /\ at[r] \in {"post", "unwind"}
    /\ \/ CallHook(r, PostHooks[r], StatusAfter(r))
       \/ HookReturned(r, PostHooks[r]) /\ UNCHANGED errs

\* A panic in the deferred function: run returns nothing.
PostHookPanics(r) ==
    /\ at[r] \in {"post", "unwind"}
    /\ next[r] <= Len(PostHooks[r])
    /\ at[PostHooks[r][next[r]]] = "panicked"
    /\ Goto(r, "panicked")
    /\ result' = [result EXCEPT ![r] = "none"]
    /\ UNCHANGED <<inputVars, next, options, errs, execVars, cancelled, exit>>

PostHooksDone(r) ==
    /\ next[r] > Len(PostHooks[r])
    /\ Proceed(r, "post", "returned") \/ Proceed(r, "unwind", "panicked")

\* Nobody recovers: a panic that has left the goroutine of the stage, or of an
\* item, ends the process.
Crash(r) ==
    /\ r \in Bodies
    /\ at[r] = "panicked"
    /\ exit' = "panic"
    /\ UNCHANGED <<inputVars, callVars, resultVars, execVars, cancelled>>

\* run returns, and its post hooks are to run.
Leave(r, failed) ==
    /\ Goto(r, "post")
    /\ next' = [next EXCEPT ![r] = 1]
    /\ errs' = [errs EXCEPT ![r] = failed]
    /\ result' = [result EXCEPT ![r] = Returned(r, failed)]
    /\ UNCHANGED <<inputVars, options, cancelled, exit>>

-------------------------------------------------------------------------------
(* Stage.run: the command *)

\* Neither script nor args nor, in a container, an entrypoint.
NoCommand(r) == ~HasScript[r] /\ ~HasContainer[r] /\ use[r] \notin Expanding

\* Parameters, environment and command are evaluated; with an error, of a pre
\* hook too, run returns before it starts anything.
Prepared_Lenient(r, bad) == ~bad
Prepared(r, bad) == ~errs[r] /\ ~bad

Prepare(r) ==
    /\ at[r] = "prepare"
    /\ \E bad \in {FALSE, TRUE} :
        IF Prepared(r, bad \/ NoCommand(r))
          THEN Proceed(r, "prepare", IF HasContainer[r] THEN "image" ELSE "exec")
          ELSE Leave(r, TRUE) /\ UNCHANGED execVars

\* A value that is not of the type it is taken for, as a shell or a volume that
\* is no string: AsString panics. Parameters in error are unknown, which panics
\* too, but their error is in diags by then.
EvaluationPanics(r) ==
    \/ at[r] \in {"prepare", "image"} /\ ~errs[r] /\ Unwind(r, FALSE)
    \/ at[r] = "prepare" /\ use[r] # "none" /\ Unwind(r, TRUE)

\* cmd.Run(), or only the text of the command.
Start(r) ==
    /\ at[r] = "exec"
    /\ IF dryRun
         THEN Leave(r, FALSE) /\ UNCHANGED execVars
         ELSE /\ Goto(r, "wait")
              /\ process' = [process EXCEPT ![r] = "running"]
              /\ UNCHANGED <<inputVars, next, options, resultVars, container,
                             cancelled, exit>>

\* Terminated() is never true here: Terminate panics without a conductor.
Finish(r) ==
    /\ at[r] = "wait"
    /\ \E o \in Outcomes[r] \cup {c \in {"err"} : cancelled} :
        /\ process' = [process EXCEPT ![r] = o]
        /\ Leave(r, o = "err")
    /\ UNCHANGED container

-------------------------------------------------------------------------------
(* Stage.executeDocker *)

\* Image, entrypoint, daemon, pull, volumes, and after the dry run is over, the
\* ports.
FindImage(r) ==
    /\ at[r] = "image"
    /\ \E bad \in {FALSE, TRUE} :
        IF bad \/ dryRun
          THEN Leave(r, bad) /\ UNCHANGED execVars
          ELSE Proceed(r, "image", "create")

Contain(r, from, to, state) ==
    /\ at[r] = from
    /\ Goto(r, to)
    /\ container' = [container EXCEPT ![r] = state]
    /\ UNCHANGED <<inputVars, next, options, resultVars, process, cancelled, exit>>

Create(r) == Contain(r, "create", "start", "created")

StartContainer(r) ==
    /\ at[r] = "start"
    /\ Goto(r, "logs")
    /\ container' = [container EXCEPT ![r] = "running"]
    /\ process' = [process EXCEPT ![r] = "running"]
    /\ UNCHANGED <<inputVars, next, options, resultVars, cancelled, exit>>

OpenLogs(r) == Proceed(r, "logs", "copy")

\* A call to the docker daemon fails: the container stays as it is.
DockerFails_Removing(r) ==
    /\ at[r] \in {"create", "start", "logs", "remove"}
    /\ Leave(r, at[r] # "remove")
    /\ UNCHANGED execVars
DockerFails(r) ==
    /\ at[r] \in {"create", "start", "logs", "remove"}
    /\ Leave(r, TRUE)
    /\ UNCHANGED execVars

\* ContainerInspect comes before the logs, and its error is no diagnostic but a
\* panic, while the container runs.
InspectFails(r) == at[r] = "logs" /\ Unwind(r, errs[r])

\* The logs end with the container. Its exit code is never asked for.
LogsEnd(r) ==
    /\ at[r] = "copy"
    /\ \E o \in Outcomes[r] : process' = [process EXCEPT ![r] = o]
    /\ Goto(r, "remove")
    /\ container' = [container EXCEPT ![r] = "exited"]
    /\ UNCHANGED <<inputVars, next, options, resultVars, cancelled, exit>>

\* The logs break off: the container is removed nevertheless.
LogsFail(r) ==
    /\ at[r] = "copy"
    /\ Goto(r, "remove")
    /\ errs' = [errs EXCEPT ![r] = TRUE]
    /\ UNCHANGED <<inputVars, next, options, result, execVars, cancelled, exit>>

\* The run was cancelled: return without an error and leave the container.
LogsCancelled(r) ==
    /\ at[r] = "copy"
    /\ cancelled
    /\ Leave(r, FALSE)
    /\ UNCHANGED execVars

Remove(r) ==
    /\ at[r] = "remove"
    /\ Leave(r, errs[r])
    /\ container' = [container EXCEPT ![r] = "removed"]
    /\ UNCHANGED process

-------------------------------------------------------------------------------
StageStep == RejectItems \/ Iterate \/ LaunchItem \/ JoinItems

CallStep(r) ==
    \/ Expand(r) \/ RunOnce(r)
    \/ PreHook(r) \/ PreHookPanics(r) \/ PreHooksDone(r)
    \/ Prepare(r) \/ EvaluationPanics(r)
    \/ Start(r) \/ Finish(r)
    \/ FindImage(r) \/ Create(r) \/ StartContainer(r) \/ OpenLogs(r)
    \/ DockerFails(r) \/ InspectFails(r)
    \/ LogsEnd(r) \/ LogsFail(r) \/ LogsCancelled(r) \/ Remove(r)
    \/ PostHook(r) \/ PostHookPanics(r) \/ PostHooksDone(r) \/ Crash(r)

\* Pipeline.Run cancels its context after a failure elsewhere.
Cancel ==
    /\ ~cancelled
    /\ cancelled' = TRUE
    /\ UNCHANGED <<inputVars, callVars, resultVars, execVars, exit>>

Ended == at[Root] = "returned" \/ exit = "panic"

Next ==
    \/ /\ exit = "running"
       /\ at[Root] # "returned"
       /\ StageStep \/ (\E r \in Run : CallStep(r)) \/ Cancel
    \/ Ended /\ UNCHANGED vars

Spec == Init /\ [][Next]_vars

\* The goroutines of the stage and of its items run, and so do their hooks.
\* A command returns at some time, and a docker call too.
Fairness ==
    /\ WF_vars(exit = "running" /\ StageStep)
    /\ \A r \in Run : WF_vars(exit = "running" /\ CallStep(r))

FairSpec == Spec /\ Fairness

-------------------------------------------------------------------------------
\* When Run returns, every item has returned, and the post hooks of every stage
\* that was run have, whether it failed, and where, or not; also a panic leaves
\* a stage only behind its post hooks, or with one of them (the deferred
\* function of Stage.run, and wg.Wait in Stage.Run).
ReturnsLast ==
    \A r \in Run :
        /\ at[r] = "returned" =>
            /\ r = Root => \A i \in Elements : at[i] \in {"idle", "returned"}
            /\ \A h \in Hooks(r) : at[h] \in {"idle", "returned"}
        /\ at[r] \in {"returned", "panicked"} /\ (errs[r] \/ process[r] # "none") =>
            \A k \in DOMAIN PostHooks[r] :
                \/ at[PostHooks[r][k]] = "returned"
                \/ at[r] = "panicked" /\
                    \E j \in 1..k : at[PostHooks[r][j]] = "panicked"

\* A command or container is started only after every pre hook of its stage
\* succeeded, and never in a dry run (the early return of Stage.run, and the
\* two tests of DryRun).
CommandIsGuarded ==
    \A r \in Run : process[r] # "none" \/ container[r] # "none" =>
        /\ ~dryRun
        /\ \A k \in DOMAIN PreHooks[r] : result[PreHooks[r][k]] = "ok"

\* What went wrong in a call before its post hooks.
CommandFailed(r) == process[r] = "err"
PreHookFailed(r) == \E k \in DOMAIN PreHooks[r] : result[PreHooks[r][k]] = "err"

SeesSuccess(r) ==
    \E k \in DOMAIN PostHooks[r] :
        LET h == PostHooks[r][k] IN
        at[h] # "idle" /\ Config(h) = [status |-> "success", parent |-> r]

\* A panic of a pre hook loses the errors of those before it.
PreHookPanicked(r) == \E k \in DOMAIN PreHooks[r] : at[PreHooks[r][k]] = "panicked"

\* A post hook of the stage is told success only when no command outside a
\* container and no pre hook failed, or when another pre hook panicked; not
\* even other panics hide an error (status in the deferred function of
\* Stage.run).
HooksSeeFailure ==
    \A r \in Bodies : SeesSuccess(r) =>
        /\ CommandFailed(r) => HasContainer[r]
        /\ PreHookFailed(r) => PreHookPanicked(r)

\* Run returns no error only when nothing it ran for the stage failed: no pre
\* hook, no macro of a stage that ran, and no command outside a container
\* (diags in Stage.run, safeDg in Stage.Run).
ErrorsReachResult ==
    result[Root] = "ok" => \A r \in Bodies : at[r] # "idle" =>
        /\ result[r] = "ok"
        /\ ~PreHookFailed(r)
        /\ CommandFailed(r) => HasContainer[r]
        /\ process[r] # "none" => use[r] \notin Rejecting

\* A container is left behind only by a call that failed or was cancelled
\* (ContainerRemove in executeDocker).
ContainersRemoved ==
    \A r \in Run : result[r] = "ok" /\ ~cancelled => container[r] \in {"none", "removed"}

\* Every call of Run ends, hooks and items included, when commands do.
StageReturns == <>Ended
===============================================================================
