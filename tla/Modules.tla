-------------------------------- MODULE Modules --------------------------------
(***************************************************************************)
(* Pipelines inside pipelines. Module.Run evaluates the source and for_each*)
(* of a module block, and runs the module once or, in goroutines, once for *)
(* each item; each time it fetches the source, puts together the phases    *)
(* handed down, makes a child conductor, reads the configuration and runs  *)
(* that pipeline, whose blocks may be modules again.                       *)
(*                                                                         *)
(* The units are what runs: stages, module blocks, their items, and the    *)
(* pipeline of the command line at the root. Here a pipeline is its layers:*)
(* retries, daemons and the graph are in Pipeline and DepGraph, what the   *)
(* filter decides of the phases it reads is in BlockFilter.                *)
(*                                                                         *)
(* Phases are handed down as a Go slice, an array with a length. append    *)
(* writes into the array when it has room and copies it when it has none,  *)
(* so that modules inside one module may write into one array.             *)
(***************************************************************************)
EXTENDS Naturals, Sequences, FiniteSets

CONSTANTS
    Stage,      \* the stages of all pipelines
    Module,     \* the module blocks of all pipelines, and their items
    Root,       \* the pipeline of the command line
    Up,         \* the pipeline, module or item that a unit runs in
    ForEach,    \* the modules that run items: their for_each is not null
    Layer,      \* the layer of a block in its pipeline
    Phase,      \* what phases there are
    Unset,      \* what a place of an array holds before it is written to
    Phases,     \* the phases of a module's lifecycle, <<>> without one
    Under,      \* all that runs inside a unit, at whatever depth
    DryRun,     \* the values dry-run may have
    DisableConcurrency  \* the values disable-concurrency may have

Unit == Stage \cup Module \cup {Root}
Members(u) == {m \in Unit \ {Root} : Up[m] = u}

ASSUME UnitsAssumption ==
    /\ Stage \cap Module = {}
    /\ Root \notin Stage \cup Module
    /\ Up \in [Unit \ {Root} -> Module \cup {Root}]
    /\ ForEach \subseteq Module
    /\ \A u \in ForEach : Members(u) \subseteq Module \ ForEach
    /\ Layer \in [Unit -> Nat \ {0}]
    /\ Unset \notin Phase
    /\ Phases \in [Unit -> Seq(Phase)]
    /\ DryRun \subseteq BOOLEAN
    /\ DisableConcurrency \subseteq BOOLEAN

\* Under is the transitive closure of Up.
ASSUME TreeAssumption ==
    /\ Under \in [Unit -> SUBSET Unit]
    /\ \A u \in Unit :
         /\ Root \notin Under[u]
         /\ Under[u] = Members(u) \cup UNION {Under[m] : m \in Members(u)}
         /\ \A v \in Under[u] : Up[v] = u \/ Up[v] \in Under[u]

\* No module runs inside itself, at whatever depth.
ASSUME DepthAssumption ==
    /\ IsFiniteSet(Unit)
    /\ \A u \in Unit : u \notin Under[u]

VARIABLES
    dryRun,     \* cfg.Pipeline.DryRun, which every child inherits
    serial,     \* cfg.Behavior.DisableConcurrency of the root
    at,         \* where each unit is
    failed,     \* whether its diagnostics have errors
    layer,      \* the layer a pipeline is at
    heap,       \* the arrays of phases, by the unit that made them
    slice,      \* the phases a unit hands down: array and length
    seen,       \* the inherited phases BlockCanRun read for a block
    exit        \* how the process ended before its time, if it did

optionVars == <<dryRun, serial>>
phaseVars == <<heap, slice>>
vars == <<optionVars, at, failed, layer, phaseVars, seen, exit>>

-------------------------------------------------------------------------------
\* Where Module.Run and the pipeline it runs are; a stage is "running" when it
\* runs commands and "printing" when it only prints them.
At == {"idle", "skipped", "source", "for_each", "items", "get", "phases",
       "blocks", "leaving", "printing", "running", "over"}

Place == Phase \cup {Unset}
Array == Seq(Place)
Slice == [array : Unit, len : Nat]

TypeOK ==
    /\ dryRun \in DryRun
    /\ serial \in DisableConcurrency
    /\ at \in [Unit -> At]
    /\ failed \in [Unit -> BOOLEAN]
    /\ layer \in [Unit -> Nat]
    /\ heap \in [Unit -> Array]
    /\ slice \in [Unit -> Slice]
    /\ \A u \in Unit : slice[u].len <= Len(heap[slice[u].array])
    /\ seen \in [Unit -> Array]
    /\ exit \in {"none", "fatal", "panic"}

Waiting == {"idle", "skipped"}
AtWork(u) == at[u] \notin Waiting \cup {"over"}
Busy(u) == \E m \in Members(u) : AtWork(m)

\* The root runs its pipeline, and was handed down no phases: a nil slice.
Init ==
    /\ dryRun \in DryRun
    /\ serial \in DisableConcurrency
    /\ at = [u \in Unit |-> IF u = Root THEN "blocks" ELSE "idle"]
    /\ failed = [u \in Unit |-> FALSE]
    /\ layer = [u \in Unit |-> 1]
    /\ heap = [u \in Unit |-> <<>>]
    /\ slice = [u \in Unit |-> [array |-> u, len |-> 0]]
    /\ seen = [u \in Unit |-> <<>>]
    /\ exit = "none"

\* Unit u goes from one place to the next.
Goto(u, from, to) ==
    /\ exit = "none"
    /\ at[u] = from
    /\ at' = [at EXCEPT ![u] = to]
    /\ UNCHANGED <<optionVars, exit>>

\* Run returns, with errors or without.
Return(u, from, errors) ==
    /\ Goto(u, from, "over")
    /\ failed' = [failed EXCEPT ![u] = errors]
    /\ UNCHANGED <<layer, phaseVars, seen>>

Die(how) ==
    /\ exit' = how
    /\ UNCHANGED <<optionVars, at, failed, layer, phaseVars, seen>>

\* Definitions named X_Y are faults of X that the checks must notice.

\* The diagnostics of a unit are its own and those of all it has run.
Errors_Own(u) == failed[u]
Errors(u) == failed[u] \/ \E m \in Members(u) : failed[m]

-------------------------------------------------------------------------------
(* Slices of phases *)

\* The phases a slice shows.
Shown(s) == SubSeq(heap[s.array], 1, s.len)

\* The array append makes when an array is full: twice the size, or one place.
Grown(array, phase) ==
    LET room == IF array = <<>> THEN 0 ELSE Len(array) - 1
    IN array \o <<phase>> \o [k \in 1..room |-> Unset]

Appending(u, phase) ==
    LET s == slice[u] IN
    IF s.len < Len(heap[s.array])
      THEN /\ heap' = [heap EXCEPT ![s.array][s.len + 1] = phase]
           /\ slice' = [slice EXCEPT ![u].len = @ + 1]
      ELSE /\ heap' = [heap EXCEPT ![u] = Grown(heap[s.array], phase)]
           /\ slice' = [slice EXCEPT ![u] = [array |-> u, len |-> s.len + 1]]

\* The pipeline that the block of a module, or of an item, is in.
PipelineOf(u) == IF Up[u] \in ForEach THEN Up[Up[u]] ELSE Up[u]

\* What Module.run starts from: the slice of the pipeline's behavior itself.
HandedDown_Emptied(u) == [array |-> u, len |-> slice[PipelineOf(u)].len]
HandedDown_Nil(u) == [array |-> u, len |-> 0]
HandedDown(u) == slice[PipelineOf(u)]

-------------------------------------------------------------------------------
(* A pipeline: the layers of the root, or of the configuration of a module *)

\* A dry run waits for each block, in the pipelines of modules as well.
MayLaunch(u) == dryRun => ~Busy(u)

\* Only the behavior of the root has the option: Module.run sets it to false.
OnlyPrints(u) == dryRun /\ u = Root

FirstStep(b) ==
    IF b \in Module THEN "source"
    ELSE IF OnlyPrints(Up[b]) THEN "printing" ELSE "running"

\* Before a layer: the outputs of the last one do not parse; before the first
\* one, the imports or the graph may be refused as well.
Refused(u) ==
    /\ \A b \in Members(u) : Layer[b] = layer[u] => at[b] = "idle"
    /\ ~Busy(u)
    /\ Return(u, "blocks", TRUE)

\* BlockCanRun reads the phases handed down; its verdict is BlockFilter's. On
\* an error the loop over the layer ends.
Decide(b) ==
    /\ at[Up[b]] = "blocks"
    /\ Layer[b] = layer[Up[b]]
    /\ MayLaunch(Up[b])
    /\ seen' = [seen EXCEPT ![b] = Shown(slice[Up[b]])]
    /\ \/ Goto(b, "idle", FirstStep(b)) /\ UNCHANGED failed
       \/ Goto(b, "idle", "skipped") /\ UNCHANGED failed
       \/ /\ at[b] = "idle"
          /\ Goto(Up[b], "blocks", "leaving")
          /\ failed' = [failed EXCEPT ![Up[b]] = TRUE]
    /\ UNCHANGED <<layer, phaseVars>>

\* A stage comes to its end.
StageEnds(b) ==
    \E from \in {"printing", "running"}, errors \in BOOLEAN :
        b \in Stage /\ Return(b, from, errors)

\* The blocks of the layer are decided about, and those launched are over.
LayerDone_Decided(u) == \A b \in Members(u) : Layer[b] = layer[u] => at[b] # "idle"
LayerDone(u) ==
    /\ \A b \in Members(u) : Layer[b] = layer[u] => at[b] # "idle"
    /\ ~Busy(u)

LastLayer(u) == \A b \in Members(u) : Layer[b] <= layer[u]

NextLayer(u) ==
    /\ LayerDone(u)
    /\ ~Errors(u)
    /\ ~LastLayer(u)
    /\ Goto(u, "blocks", "blocks")
    /\ layer' = [layer EXCEPT ![u] = @ + 1]
    /\ UNCHANGED <<failed, phaseVars, seen>>

\* The pipeline ends, after the last layer or one with errors.
PipelineEnds(u) ==
    \/ LayerDone(u) /\ (Errors(u) \/ LastLayer(u)) /\ Return(u, "blocks", Errors(u))
    \/ ~Busy(u) /\ Return(u, "leaving", Errors(u))

-------------------------------------------------------------------------------
(* Module.Run: the source, and the items of for_each *)

\* The source has a value and is a string, or it is an error.
Source(u) ==
    \/ Return(u, "source", TRUE)
    \/ /\ Goto(u, "source", IF u \in ForEach THEN "for_each" ELSE "get")
       /\ UNCHANGED <<failed, layer, phaseVars, seen>>

\* for_each has a value and can be iterated, or it is an error.
Iterate(u) ==
    \/ Return(u, "for_each", TRUE)
    \/ /\ Goto(u, "for_each", "items")
       /\ UNCHANGED <<failed, layer, phaseVars, seen>>

\* wg.Wait after each item. The option is of the root's behavior: Module.run
\* does not hand it down.
MayStartItem(u) == serial /\ Up[u] = Root => ~Busy(u)

\* An item is a copy of the module without for_each, run in a goroutine.
StartItem(i) ==
    /\ at[Up[i]] = "items"
    /\ MayStartItem(Up[i])
    /\ Goto(i, "idle", "source")
    /\ UNCHANGED <<failed, layer, phaseVars, seen>>

ItemsOver_Launched(u) == \A i \in Members(u) : at[i] # "idle"
ItemsOver(u) == \A i \in Members(u) : at[i] = "over"

JoinItems(u) == ItemsOver(u) /\ Return(u, "items", Errors(u))

-------------------------------------------------------------------------------
(* Module.run: one pipeline *)

\* The source is fetched into a directory of the item's own.
Get(u) ==
    \/ Return(u, "get", TRUE)
    \/ /\ Goto(u, "get", "phases")
       /\ slice' = [slice EXCEPT ![u] = HandedDown(u)]
       /\ UNCHANGED <<failed, layer, heap, seen>>

\* How many phases of its own the module has appended.
Appended(u) == slice[u].len - HandedDown(u).len

AppendPhase(u) ==
    LET next == Appended(u) + 1 IN
    /\ exit = "none"
    /\ at[u] = "phases"
    /\ next \in DOMAIN Phases[u]
    /\ Appending(u, Phases[u][next])
    /\ UNCHANGED <<optionVars, at, failed, layer, seen, exit>>

\* Phases that are an error have no elements to go through: a panic.
PhasesPanic(u) ==
    /\ exit = "none"
    /\ at[u] = "phases"
    /\ Phases[u] # <<>>
    /\ Appended(u) = 0
    /\ Die("panic")

\* The child conductor reads the configuration, and its pipeline runs.
ReadChild(u) ==
    /\ Goto(u, "phases", "blocks")
    /\ Appended(u) = Len(Phases[u])
    /\ UNCHANGED <<failed, layer, phaseVars, seen>>

\* A configuration that cannot be read ends the process (logger.Fatal).
ReadFatal(u) ==
    /\ exit = "none"
    /\ at[u] = "phases"
    /\ Appended(u) = Len(Phases[u])
    /\ Die("fatal")

-------------------------------------------------------------------------------
ModuleStep(u) ==
    \/ Source(u)
    \/ Iterate(u)
    \/ JoinItems(u)
    \/ Get(u)
    \/ AppendPhase(u)
    \/ PhasesPanic(u)
    \/ ReadChild(u)
    \/ ReadFatal(u)

PipelineStep(u) == Refused(u) \/ NextLayer(u) \/ PipelineEnds(u)

Ended == (exit # "none" \/ at[Root] = "over") /\ UNCHANGED vars

Next ==
    \/ \E u \in Module : ModuleStep(u)
    \/ \E u \in Module \cup {Root} : PipelineStep(u)
    \/ \E b \in Unit \ {Root} :
         IF Up[b] \in ForEach THEN StartItem(b) ELSE Decide(b)
    \/ \E b \in Stage : StageEnds(b)
    \/ Ended

Spec == Init /\ [][Next]_vars

-------------------------------------------------------------------------------
\* When a module is over nothing in it is at work, items and the modules inside
\* it included: a stage of the next layer never runs beside it. (The wait
\* groups of Module.Run and of the pipeline it runs.)
ModulesWait ==
    \A u \in Unit : at[u] = "over" => \A v \in Under[u] : ~AtWork(v)

\* A module without errors has none at any depth: no stage, item or module
\* inside it failed. (safeDg in Module.Run, sd.Diagnostics() in Module.run.)
FailuresComeBack ==
    \A u \in Unit :
        at[u] = "over" /\ ~failed[u] => \A v \in Under[u] : ~failed[v]

\* The phases of the modules around a unit, from the outermost to it.
Handed[u \in Unit] ==
    CASE u = Root -> <<>>
      [] u \in ForEach -> Handed[Up[u]]
      [] OTHER -> Handed[Up[u]] \o Phases[u]

\* BlockCanRun sees the phases of all the modules around the block, and no
\* others. (run.go, "if the parent config has lifecycles defined, we will
\* append it to the child".)
PhasesInherited ==
    \A b \in Stage \cup Module :
        Up[b] \notin ForEach /\ at[b] # "idle" => seen[b] = Handed[Up[b]]

-------------------------------------------------------------------------------
\* What the usage of --dry-run says: "Don't actually run any stage".
DryRunHolds == dryRun => \A b \in Stage : at[b] # "running"
===============================================================================
