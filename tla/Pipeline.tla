------------------------------- MODULE Pipeline -------------------------------
(***************************************************************************)
(* One run of a togomak pipeline: the main loop of Pipeline.Run over the   *)
(* layers of the dependency graph, one BlockRunWithRetries goroutine per   *)
(* launched block, the Tracker they share (two wait groups and the one-    *)
(* place channel of completed blocks), the watchdog goroutine that decides *)
(* when daemons stop, the interrupt handler, and the exit code of Perform. *)
(*                                                                         *)
(* What an attempt does (hooks, macros, docker, a nested pipeline) is      *)
(* abstracted to whether its diagnostics hold an error; what BlockCanRun   *)
(* and Prepare decide about a block is abstracted to a verdict.            *)
(***************************************************************************)
EXTENDS Naturals, Sequences, FiniteSets

CONSTANTS
    Block,            \* runnable ids that Resolve to a block of the pipeline
    Layers,           \* depGraph.TopoSortedLayers(), without the root id
    Stage,            \* blocks of type stage, the only ones Terminate acts on
    Daemon,           \* blocks for which IsDaemon() holds
    Retries,          \* MaxRetries() of a block, 0 unless CanRetry()
    StopWhenComplete, \* the blocks a daemon's stop_when_complete refers to
    Unresolvable,     \* daemons whose stop_when_complete does not resolve
    Identifier,       \* Identifier() of a block: its id without its type
    Verdicts,         \* what may be decided about a block when it is visited
    Outcomes,         \* what an attempt of a block may return by itself, {} if
                      \* its command only returns when it is killed
    OutputsResult,    \* what ExpandOutputs may return
    DryRun,           \* cfg.Pipeline.DryRun
    DisableConcurrency, \* what the pipeline may set disable_concurrency to
    Unattended,       \* cfg.Behavior.Unattended
    Interruptible     \* whether the user may interrupt the run

Result == {"ok", "err"}

\* TopoSortedLayers puts every id in one layer; only stages can be daemons.
ASSUME LayersAssumption ==
    /\ Layers \in Seq(SUBSET Block)
    /\ \A b \in Block : \E k \in DOMAIN Layers : b \in Layers[k]
    /\ \A j, k \in DOMAIN Layers : j # k => Layers[j] \cap Layers[k] = {}

ASSUME BlockAssumption ==
    /\ Stage \subseteq Block
    /\ Daemon \subseteq Stage
    /\ Unresolvable \subseteq Daemon
    /\ Retries \in [Block -> Nat]
    /\ StopWhenComplete \in [Daemon -> SUBSET Block]
    /\ Identifier \in [Block -> STRING]
    /\ Verdicts \in [Block -> SUBSET {"run", "skip", "error"}]
    /\ Outcomes \in [Block -> SUBSET Result]

ASSUME FlagAssumption ==
    /\ OutputsResult \subseteq Result
    /\ {DryRun, Unattended, Interruptible} \subseteq BOOLEAN
    /\ DisableConcurrency \subseteq BOOLEAN

VARIABLES
    serial,     \* pipe.Builder.Behavior.DisableConcurrency
    pc,         \* where Pipeline.Run is
    layer,      \* the layer it is in
    todo,       \* the ids of the layer its inner loop has not visited yet
    runnables,  \* Tracker.runnables
    daemons,    \* Tracker.daemons
    work,       \* where the goroutine of a block is in BlockRunWithRetries
    attempts,   \* how often the goroutine called runnable.Run
    result,     \* what the latest attempt returned
    failed,     \* the blocks whose stageDiags hold an error of some attempt
    errors,     \* h.Diags.HasErrors()
    completedSignal, \* the channel Tracker.completedSignal
    completed,  \* completedRunnables of the watchdog
    watchdog,   \* where the watchdog is: "receive" or "scan"
    due,        \* the daemons the watchdog's latest scan decided to stop
    interrupt,  \* "armed" until the handler has taken the first signal
    cancelled,  \* is the context of the run, and of its commands, cancelled?
    exit        \* how the process ended, "running" before that

trackerVars == <<runnables, daemons>>
workVars == <<work, attempts, result, failed>>
watchdogVars == <<completed, watchdog, due>>
signalVars == <<interrupt, cancelled>>
mainVars == <<pc, layer, todo>>
vars == <<serial, mainVars, trackerVars, workVars, errors, completedSignal,
          watchdogVars, signalVars, exit>>

-------------------------------------------------------------------------------
PC == {"layer", "visit", "serialRunnables", "serialDaemons", "layerWait",
       "failWait", "finalWait"}
Work == {"idle", "running", "completed", "backoff", "report", "finish", "done"}
Exit == {"running", "success", "failure", "forced", "panic"}

\* NewTracker's completedSignal holds one block.
SignalCapacity == 1

TypeOK ==
    /\ serial \in BOOLEAN
    /\ pc \in PC
    /\ layer \in 1..(Len(Layers) + 1)
    /\ todo \in SUBSET Block
    /\ runnables \in SUBSET (Block \ Daemon)
    /\ daemons \in SUBSET Daemon
    /\ work \in [Block -> Work]
    /\ attempts \in [Block -> Nat]
    /\ result \in [Block -> Result \cup {"none"}]
    /\ failed \in SUBSET Block
    /\ errors \in BOOLEAN
    /\ completedSignal \in Seq(Block)
    /\ completed \in SUBSET Block
    /\ watchdog \in {"receive", "scan"}
    /\ due \in SUBSET Daemon
    /\ interrupt \in {"armed", "taken"}
    /\ cancelled \in BOOLEAN
    /\ exit \in Exit

Init ==
    /\ serial \in DisableConcurrency
    /\ pc = "layer"
    /\ layer = 1
    /\ todo = {}
    /\ runnables = {}
    /\ daemons = {}
    /\ work = [b \in Block |-> "idle"]
    /\ attempts = [b \in Block |-> 0]
    /\ result = [b \in Block |-> "none"]
    /\ failed = {}
    /\ errors = FALSE
    /\ completedSignal = <<>>
    /\ completed = {}
    /\ watchdog = "receive"
    /\ due = {}
    /\ interrupt = "armed"
    /\ cancelled = FALSE
    /\ exit = "running"

\* Definitions named X_Y are faults of X that the checks must notice: the same
\* operator the way a plausible slip would have it.

\* A block was handed to a goroutine.
Started(b) == work[b] # "idle"

IsDaemon_Negated(b) == b \notin Daemon
IsDaemon(b) == b \in Daemon

\* runnablesWg.Wait() and daemonsWg.Wait() return: every Add has its Done.
RunnablesDone_SuccessOnly ==
    \A b \in runnables : work[b] = "done" /\ result[b] = "ok"
RunnablesDone_Everyone == \A b \in Block : ~Started(b) \/ work[b] = "done"
RunnablesDone_Retrying == \A b \in runnables : work[b] \in {"backoff", "done"}
RunnablesDone == \A b \in runnables : work[b] = "done"
DaemonsDone_Signalled == \A b \in daemons : result[b] # "none"
DaemonsDone == \A b \in daemons : work[b] = "done"

\* The loop waits for each block before it visits the next.
Sequential_DryRunOnly == DryRun
Sequential == DryRun \/ serial

\* After a failed layer, daemons are left to end by themselves.
Attended_Always == daemons # {} /\ ~DryRun
Attended == daemons # {} /\ ~DryRun /\ ~Unattended

-------------------------------------------------------------------------------
(* Pipeline.Run *)

\* A step of the main loop that changes nothing but its place.
Proceed(from, to) ==
    /\ pc = from
    /\ pc' = to
    /\ UNCHANGED <<layer, todo, trackerVars, workVars, errors, completedSignal,
                   watchdogVars, signalVars, exit>>

\* The head of the layer loop. ExpandOutputs may fail, and an error a daemon
\* reported since the last check also ends the loop here.
StartLayer ==
    /\ pc = "layer"
    /\ layer <= Len(Layers)
    /\ \E r \in OutputsResult : errors' = (errors \/ r = "err")
    /\ todo' = Layers[layer]
    /\ pc' = IF errors' THEN "finalWait" ELSE "visit"
    /\ UNCHANGED <<layer, trackerVars, workVars, completedSignal, watchdogVars,
                   signalVars, exit>>

LayersExhausted == layer > Len(Layers) /\ Proceed("layer", "finalWait")

\* The block is not to run: its condition is false, the filter leaves it out,
\* or it is an undefined togomak.pre or togomak.post.
Skip(b) ==
    /\ pc = "visit"
    /\ b \in todo
    /\ "skip" \in Verdicts[b]
    /\ todo' = todo \ {b}
    /\ UNCHANGED <<pc, layer, trackerVars, workVars, errors, completedSignal,
                   watchdogVars, signalVars, exit>>

\* Resolve, BlockCanRun or Prepare returned an error: leave the inner loop.
Reject(b) ==
    /\ pc = "visit"
    /\ b \in todo
    /\ "error" \in Verdicts[b]
    /\ errors' = TRUE
    /\ pc' = "layerWait"
    /\ UNCHANGED <<layer, todo, trackerVars, workVars, completedSignal, watchdogVars,
                   signalVars, exit>>

\* AppendDaemon or AppendRunnable, then the goroutine; with concurrency off
\* the loop waits for everything before it visits the next block.
Launch(b) ==
    /\ pc = "visit"
    /\ b \in todo
    /\ "run" \in Verdicts[b]
    /\ todo' = todo \ {b}
    /\ IF IsDaemon(b)
         THEN daemons' = daemons \cup {b} /\ UNCHANGED runnables
         ELSE runnables' = runnables \cup {b} /\ UNCHANGED daemons
    /\ work' = [work EXCEPT ![b] = "running"]
    /\ attempts' = [attempts EXCEPT ![b] = 1]
    /\ pc' = IF Sequential THEN "serialRunnables" ELSE "visit"
    /\ UNCHANGED <<layer, result, failed, errors, completedSignal, watchdogVars,
                   signalVars, exit>>

SerialRunnableWait ==
    RunnablesDone /\ Proceed("serialRunnables", "serialDaemons")

SerialDaemonWait == DaemonsDone /\ Proceed("serialDaemons", "visit")

LayerVisited == todo = {} /\ Proceed("visit", "layerWait")

LayerComplete ==
    /\ pc = "layerWait"
    /\ RunnablesDone
    /\ ~errors
    /\ layer' = layer + 1
    /\ pc' = "layer"
    /\ UNCHANGED <<todo, trackerVars, workVars, errors, completedSignal,
                   watchdogVars, signalVars, exit>>

\* A failed layer ends the run. Daemons are waited for, and in an unattended
\* run their context is cancelled first.
LayerFailed ==
    /\ pc = "layerWait"
    /\ RunnablesDone
    /\ errors
    /\ IF Attended
         THEN pc' = "failWait" /\ UNCHANGED cancelled
         ELSE /\ pc' = "finalWait"
              /\ cancelled' = (cancelled \/ (daemons # {} /\ ~DryRun))
    /\ UNCHANGED <<layer, todo, trackerVars, workVars, errors, completedSignal,
                   watchdogVars, interrupt, exit>>

FailedDaemonWait == DaemonsDone /\ Proceed("failWait", "finalWait")

\* The last DaemonWait, and Perform's exit code.
Return ==
    /\ pc = "finalWait"
    /\ DaemonsDone
    /\ exit' = IF errors THEN "failure" ELSE "success"
    /\ UNCHANGED <<mainVars, trackerVars, workVars, errors, completedSignal,
                   watchdogVars, signalVars>>

-------------------------------------------------------------------------------
(* BlockRunWithRetries *)

\* Where a finished attempt leads: the first one is always signalled to the
\* watchdog; a later one is reported or, while attempts remain, tried again.
AfterAttempt_OneMore(b, r) ==
    IF attempts[b] = 1 THEN "completed"
    ELSE IF r = "err" /\ attempts[b] <= Retries[b] + 1 THEN "backoff" ELSE "report"

AfterAttempt(b, r) ==
    IF attempts[b] = 1 THEN "completed"
    ELSE IF r = "err" /\ attempts[b] <= Retries[b] THEN "backoff" ELSE "report"

\* runnable.Run returns. A command runs under the context of the run: once
\* that is cancelled it is killed, which is an error, unless it came first.
Attempt(b, r) ==
    /\ work[b] = "running"
    /\ r \in Outcomes[b] \/ (cancelled /\ r = "err")
    /\ result' = [result EXCEPT ![b] = r]
    /\ failed' = IF r = "err" THEN failed \cup {b} ELSE failed
    /\ work' = [work EXCEPT ![b] = AfterAttempt(b, r)]
    /\ UNCHANGED <<mainVars, trackerVars, attempts, errors, completedSignal,
                   watchdogVars, signalVars, exit>>

\* Where the goroutine goes once the first attempt is signalled.
AfterSignal_Unreported(b) ==
    IF b \in failed /\ Retries[b] > 0 THEN "backoff" ELSE "finish"

AfterSignal(b) ==
    IF b \notin failed THEN "finish"
    ELSE IF Retries[b] > 0 THEN "backoff" ELSE "report"

\* AppendCompleted: the sender holds completedMu until the channel takes the
\* block, so the others wait for the mutex exactly as they would for a place.
AppendCompleted(b) ==
    /\ work[b] = "completed"
    /\ Len(completedSignal) < SignalCapacity
    /\ completedSignal' = Append(completedSignal, b)
    /\ work' = [work EXCEPT ![b] = AfterSignal(b)]
    /\ UNCHANGED <<mainVars, trackerVars, attempts, result, failed, errors,
                   watchdogVars, signalVars, exit>>

\* The back-off sleep ends and the next attempt begins.
Retry(b) ==
    /\ work[b] = "backoff"
    /\ work' = [work EXCEPT ![b] = "running"]
    /\ attempts' = [attempts EXCEPT ![b] = @ + 1]
    /\ UNCHANGED <<mainVars, trackerVars, result, failed, errors,
                   completedSignal, watchdogVars, signalVars, exit>>

\* handler.Diags.Extend(stageDiags), with the errors of every attempt.
HasErrors_FirstOnly(b) == b \in failed /\ attempts[b] = 1
HasErrors(b) == b \in failed

Report(b) ==
    /\ work[b] = "report"
    /\ errors' = (errors \/ HasErrors(b))
    /\ work' = [work EXCEPT ![b] = "finish"]
    /\ UNCHANGED <<mainVars, trackerVars, attempts, result, failed,
                   completedSignal, watchdogVars, signalVars, exit>>

\* DaemonDone or RunnableDone.
Done(b) ==
    /\ work[b] = "finish"
    /\ work' = [work EXCEPT ![b] = "done"]
    /\ UNCHANGED <<mainVars, trackerVars, attempts, result, failed, errors,
                   completedSignal, watchdogVars, signalVars, exit>>

-------------------------------------------------------------------------------
(* The watchdog: Handler.Daemons *)

MayReceive_Once == watchdog = "receive" /\ completedSignal # <<>> /\ completed = {}
MayReceive == watchdog = "receive" /\ completedSignal # <<>>

Receive ==
    /\ MayReceive
    /\ completed' = completed \cup {Head(completedSignal)}
    /\ completedSignal' = Tail(completedSignal)
    /\ watchdog' = "scan"
    /\ UNCHANGED <<mainVars, trackerVars, workVars, errors, due, signalVars,
                   exit>>

\* The blocks are compared by Identifier(), which leaves out the block type.
HasCompleted(b) == \E c \in completed : Identifier[c] = Identifier[b]

\* A daemon that is to be stopped: its stop_when_complete does not resolve,
\* or every block in it has completed. Without a lifecycle the list is empty.
StopDue(d) ==
    \/ d \in Unresolvable
    \/ \A b \in StopWhenComplete[d] : HasCompleted(b)

\* Stopping a daemon is Stage.Terminate with a nil conductor, whose first
\* statement is conductor.Logger(): the goroutine panics and so the process.
Scan ==
    /\ watchdog = "scan"
    /\ watchdog' = "receive"
    /\ due' = {d \in daemons : StopDue(d)}
    /\ exit' = IF due' = {} THEN exit ELSE "panic"
    /\ UNCHANGED <<mainVars, trackerVars, workVars, errors, completedSignal,
                   completed, signalVars>>

-------------------------------------------------------------------------------
(* Handler.Interrupt *)

\* The first signal calls Terminate on Tracker.runnables, not on the daemons:
\* on a stage that panics, on the other blocks it does nothing. h.cancel()
\* then cancels a context that only the signal handlers wait for.
HandleInterrupt ==
    /\ Interruptible
    /\ interrupt = "armed"
    /\ interrupt' = "taken"
    /\ exit' = IF runnables \cap Stage = {} THEN exit ELSE "panic"
    /\ UNCHANGED <<mainVars, trackerVars, workVars, errors, completedSignal,
                   watchdogVars, cancelled>>

\* A second Ctrl+C: os.Exit(h.Fatal()).
ForceQuit ==
    /\ Interruptible
    /\ interrupt = "taken"
    /\ exit' = "forced"
    /\ UNCHANGED <<mainVars, trackerVars, workVars, errors, completedSignal,
                   watchdogVars, signalVars>>

-------------------------------------------------------------------------------
\* The goroutines of a process that has not ended.
Main ==
    /\ exit = "running"
    /\ UNCHANGED serial
    /\ \/ StartLayer
       \/ LayersExhausted
       \/ \E b \in Block : Skip(b) \/ Reject(b) \/ Launch(b)
       \/ SerialRunnableWait
       \/ SerialDaemonWait
       \/ LayerVisited
       \/ LayerComplete
       \/ LayerFailed
       \/ FailedDaemonWait
       \/ Return

Worker(b) ==
    /\ exit = "running"
    /\ UNCHANGED serial
    /\ \/ \E r \in Result : Attempt(b, r)
       \/ AppendCompleted(b)
       \/ Retry(b)
       \/ Report(b)
       \/ Done(b)

Watchdog ==
    /\ exit = "running"
    /\ UNCHANGED serial
    /\ Receive \/ Scan

User ==
    /\ exit = "running"
    /\ UNCHANGED serial
    /\ HandleInterrupt \/ ForceQuit

\* The process has ended.
Ended ==
    /\ exit # "running"
    /\ UNCHANGED vars

Next ==
    \/ Main
    \/ \E b \in Block : Worker(b)
    \/ Watchdog
    \/ User
    \/ Ended

Spec == Init /\ [][Next]_vars

\* The Go scheduler runs every goroutine that can run, a command that is not
\* endless returns and a killed one dies; the user owes nothing.
Fairness ==
    /\ WF_vars(Main)
    /\ \A b \in Block : WF_vars(Worker(b))
    /\ WF_vars(Watchdog)

FairSpec == Spec /\ Fairness

-------------------------------------------------------------------------------
(* What a run promises *)

InFlight(b) == work[b] \notin {"idle", "done"}
Succeeded(b) == work[b] = "done" /\ result[b] = "ok"

\* The inner loop is past the block.
Visited(b) ==
    \/ \E k \in 1..(layer - 1) : b \in Layers[k]
    \/ pc # "layer" /\ layer <= Len(Layers) /\ b \in Layers[layer] \ todo

\* A block runs only after every block of every earlier layer: those that are
\* not daemons have all their attempts behind them and the last one succeeded.
\* (The RunnableWait and the error check between two layers.)
LayerBarrier ==
    \A j, k \in DOMAIN Layers : j < k =>
        \A c \in Layers[j] \ Daemon, b \in Layers[k] :
            Started(b) /\ Started(c) => Succeeded(c)

\* When Run returns to Perform no goroutine of it is still at work, daemons
\* and retries included. (The wait groups count every launched block.)
NoOrphans ==
    exit \in {"success", "failure"} => \A b \in Block : ~InFlight(b)

\* Exit code 0 hides nothing: every block was reached, and was skipped or
\* succeeded in the end. (h.Diags is extended before the wait group is
\* released.)
SuccessIsComplete ==
    exit = "success" =>
        \A b \in Block : IF Started(b) THEN Succeeded(b)
                                      ELSE Visited(b) /\ "skip" \in Verdicts[b]

\* With concurrency disabled, or in a dry run, one block is at work at a time,
\* back-off and completion signal included. (The waits after each launch.)
OneAtATime ==
    DryRun \/ serial =>
        \A b, c \in Block : InFlight(b) /\ InFlight(c) => b = c

\* A further attempt is made only of a block whose latest attempt failed, and
\* never more often than its retry block allows. (BlockRunWithRetries.)
RetriesAreEarned ==
    [][\A b \in Block : attempts'[b] # attempts[b] =>
           \/ attempts[b] = 0 /\ attempts'[b] = 1
           \/ /\ result[b] = "err"
              /\ attempts'[b] = attempts[b] + 1
              /\ attempts'[b] <= Retries[b] + 1]_vars

\* Where every command returns by itself, every run comes to an end: no
\* goroutine is stuck on the channel, on a wait group or in its retry loop.
RunEnds == <>(exit # "running")

\* In an unattended run a failed stage ends the run, even with a daemon that
\* would serve for ever, unless the loop is to wait for each daemon it starts.
\* (cancel() in the failed branch of the layer loop.)
UnattendedFailureEnds ==
    \A b \in Block \ Daemon :
        (work[b] = "report" /\ b \in failed) ~> exit # "running" \/ Sequential

\* A launched block whose command returns is done in the end, or the process
\* is: the channel of one place and the watchdog hold nobody up for ever.
EveryBlockSettles ==
    \A b \in Block :
        InFlight(b) /\ Outcomes[b] # {} ~> (work[b] = "done" \/ exit # "running")

\* A daemon does not hold up the blocks after it: unless something fails, the
\* loop reaches every block, concurrency given. (IsDaemon keeps it out of
\* RunnableWait.)
EveryBlockVisited ==
    <>(Sequential \/ errors \/ exit # "running" \/ \A b \in Block : Visited(b))

\* The run, seen as the schedule of blocks that Schedule promises.
BlocksBefore ==
    [b \in Block |->
        UNION {Layers[j] : j \in {i \in DOMAIN Layers :
            \E k \in DOMAIN Layers : i < k /\ b \in Layers[k]}}]

BlockState ==
    [b \in Block |->
        IF Started(b)
          THEN IF InFlight(b) THEN "busy" ELSE IF Succeeded(b) THEN "good" ELSE "bad"
          ELSE IF Visited(b) THEN "skipped" ELSE "waiting"]

RunOutcome == IF exit \in {"panic", "forced"} THEN "aborted" ELSE exit

Promise == INSTANCE Schedule WITH
    Service <- Daemon, Before <- BlocksBefore,
    state <- BlockState, outcome <- RunOutcome

\* Whatever its goroutines do, a run is a run of Schedule: a block starts once,
\* after the blocks before it, and success means that none of them failed.
KeepsPromise == Promise!Spec
===============================================================================
