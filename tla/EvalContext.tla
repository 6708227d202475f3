------------------------------ MODULE EvalContext ------------------------------
(***************************************************************************)
(* The variables map of an evaluation context, which all blocks of a       *)
(* pipeline share: the RWMutex around it, the process-wide mutex of each   *)
(* kind of value block, the value blocks that copy a section of the map    *)
(* and write it back, the evaluations of stages and modules, the ports of  *)
(* a container, and ExpandOutputs between two layers. A module runs the    *)
(* blocks of a pipeline of its own in a context of its own.                *)
(*                                                                         *)
(* A section holds the names of one kind of block, so the map of a context *)
(* is the set of the blocks whose names are defined in it.                 *)
(***************************************************************************)
EXTENDS Naturals, FiniteSets

CONSTANTS
    Block,      \* the blocks of the root pipeline and of the modules' pipelines
    Context,    \* conductor.Eval() of the root and of each module
    Root,       \* the context of the root pipeline
    NoThread,   \* a mutex that nobody holds
    Kind,       \* the type of a block
    In,         \* the context a block runs in
    Layer,      \* the layer of a block in its pipeline
    Daemon,     \* the stages no layer waits for
    Child,      \* the context a module makes
    PortCounts  \* how many ports the containers of the stages may publish

ValueKind == {"local", "data", "var"}
Result == {"ok", "err"}

Value == {b \in Block : Kind[b] \in ValueKind}
Stage == {b \in Block : Kind[b] = "stage"}
Module == {b \in Block : Kind[b] = "module"}
Blocks(c) == {b \in Block : In[b] = c}

ASSUME BlockAssumption ==
    /\ Kind \in [Block -> ValueKind \cup {"stage", "module"}]
    /\ In \in [Block -> Context]
    /\ Layer \in [Block -> Nat \ {0}]
    /\ Daemon \subseteq Stage
    /\ PortCounts \subseteq [Stage -> Nat]

\* Every context but the root's is made by one module.
ASSUME ContextAssumption ==
    /\ Root \in Context
    /\ Child \in [Module -> Context \ {Root}]
    /\ \A m, n \in Module : m # n => Child[m] # Child[n]
    /\ Context \cap Block = {}
    /\ NoThread \notin Block \cup Context

Thread == Block \cup Context

VARIABLES
    ports,     \* the ports of each stage's container
    at,        \* where the goroutine of a block, or a pipeline's loop, is
    layer,     \* the layer a pipeline's loop is in
    variables, \* evalContext.Variables
    copy,      \* the section a value block copied, or the outputs a loop read
    seen,      \* what the latest evaluation of a block found in the map
    envFile,   \* the stages that wrote to the file of outputs
    unread,    \* the layers at whose head the file could not be opened, which
               \* nothing but a line in the log tells
    section,   \* the holder of the mutex of a kind of value block
    readers,   \* how many read locks of its context a block holds
    queued,    \* the blocks that wait in RLock
    writer,    \* who called Lock on a context and has not called Unlock
    exit       \* "fatal" when the Go runtime found a concurrent map access

mapVars == <<variables, copy, seen>>
fileVars == <<envFile, unread>>
lockVars == <<section, readers, queued, writer>>
vars == <<ports, at, layer, mapVars, fileVars, lockVars, exit>>

-------------------------------------------------------------------------------
At == {"idle", "rlock", "reading", "provide", "section", "outputs", "lock",
       "locked", "writing", "visit", "ports", "command", "inputs", "child",
       "done", "failed"}
Over == {"done", "failed"}

TypeOK ==
    /\ ports \in [Stage -> Nat]
    /\ at \in [Thread -> At]
    /\ layer \in [Context -> Nat]
    /\ variables \in [Context -> SUBSET Block]
    /\ copy \in [Thread -> SUBSET Block]
    /\ seen \in [Block -> SUBSET Block]
    /\ envFile \in [Context -> SUBSET Stage]
    /\ unread \in [Context -> SUBSET Nat]
    /\ section \in [ValueKind -> Value \cup {NoThread}]
    /\ readers \in [Block -> Nat]
    /\ queued \in SUBSET Block
    /\ writer \in [Context -> Thread \cup {NoThread}]
    /\ exit \in {"running", "fatal"}

Init ==
    /\ ports \in PortCounts
    /\ at = [t \in Thread |-> IF t = Root THEN "outputs" ELSE "idle"]
    /\ layer = [c \in Context |-> 1]
    /\ variables = [c \in Context |-> {}]
    /\ copy = [t \in Thread |-> {}]
    /\ seen = [b \in Block |-> {}]
    /\ envFile = [c \in Context |-> {}]
    /\ unread = [c \in Context |-> {}]
    /\ section = [k \in ValueKind |-> NoThread]
    /\ readers = [b \in Block |-> 0]
    /\ queued = {}
    /\ writer = [c \in Context |-> NoThread]
    /\ exit = "running"

\* Definitions named X_Y are faults of X that the checks must notice: the same
\* operator the way a plausible slip would have it.

Goto(t, place) == at' = [at EXCEPT ![t] = place]

\* The names of a kind of block that are defined in a context.
Section(k, c) == {b \in variables[c] : Kind[b] = k}

-------------------------------------------------------------------------------
(* The RWMutex of a context *)

\* Where a block goes on when RLock returns: to its evaluation; in Nat, to the
\* next RLock.
AfterRLock(b) == IF at[b] = "rlock" THEN "reading" ELSE at[b]

\* A block calls RLock at the head of an evaluation, and twice for every port:
\* Nat has a second RLock where RUnlock should be, and none is given back.
MayRLock(b) ==
    /\ b \notin queued
    /\ \/ at[b] = "rlock"
       \/ at[b] = "ports" /\ readers[b] < 2 * ports[b]

\* RLock. A reader that comes after a writer's call of Lock queues behind it.
RLock(b) ==
    /\ MayRLock(b)
    /\ IF writer[In[b]] = NoThread
         THEN /\ readers' = [readers EXCEPT ![b] = @ + 1]
              /\ Goto(b, AfterRLock(b))
              /\ UNCHANGED queued
         ELSE /\ queued' = queued \cup {b}
              /\ UNCHANGED <<readers, at>>
    /\ UNCHANGED <<ports, layer, mapVars, fileVars, section, writer, exit>>

\* Lock: the call, which keeps new readers and writers out, ...
Lock(t, c) ==
    /\ at[t] = "lock"
    /\ writer[c] = NoThread
    /\ writer' = [writer EXCEPT ![c] = t]
    /\ Goto(t, "locked")
    /\ UNCHANGED <<ports, layer, mapVars, fileVars, section, readers, queued, exit>>

\* ... and its return, when the readers that were there have left.
ReadersGone_Shared(c) == TRUE
ReadersGone(c) == \A b \in Blocks(c) : readers[b] = 0

Locked(t, c) ==
    /\ at[t] = "locked"
    /\ ReadersGone(c)
    /\ Goto(t, "writing")
    /\ UNCHANGED <<ports, layer, mapVars, fileVars, lockVars, exit>>

\* Unlock: the readers that queued all get the lock, before the next writer.
\* The thread t goes on at the place given.
Unlock(t, c, place) ==
    LET granted == {b \in Blocks(c) : b \in queued}
    IN  /\ writer' = [writer EXCEPT ![c] = NoThread]
        /\ queued' = queued \ granted
        /\ readers' = [b \in Block |->
                         IF b \in granted THEN readers[b] + 1 ELSE readers[b]]
        /\ at' = [u \in Thread |->
                    IF u = t THEN place
                    ELSE IF u \in granted THEN AfterRLock(u) ELSE at[u]]

-------------------------------------------------------------------------------
(* The goroutine of a block *)

\* The loop launches the blocks of a layer. A local evaluates its expression
\* with the mutex of the locals held, the others evaluate first.
Begin(b) ==
    /\ at[b] = "idle"
    /\ at[In[b]] = "visit"
    /\ layer[In[b]] = Layer[b]
    /\ Goto(b, IF Kind[b] = "local" THEN "section" ELSE "rlock")
    /\ UNCHANGED <<ports, layer, mapVars, fileVars, lockVars, exit>>

\* global.LocalBlockEvalContextMutex and its like, one for all contexts.
SectionFree_Shared(b) == TRUE
SectionFree(b) == section[Kind[b]] = NoThread

EnterSection(b) ==
    /\ at[b] = "section"
    /\ SectionFree(b)
    /\ section' = [section EXCEPT ![Kind[b]] = b]
    /\ Goto(b, "rlock")
    /\ UNCHANGED <<ports, layer, mapVars, fileVars, readers, queued, writer, exit>>

AfterReading(b) ==
    IF b \in Value
      THEN IF section[Kind[b]] = b THEN "lock" ELSE "provide"
      ELSE IF b \in Module THEN "inputs"
      ELSE IF ports[b] > 0 THEN "ports" ELSE "command"

RUnlocked_Twice(b) == [readers EXCEPT ![b] = @ - 2]
RUnlocked(b) == [readers EXCEPT ![b] = @ - 1]

\* The evaluation and RUnlock; a value block also copies its section, for which
\* it holds the section's mutex.
Read(b) ==
    /\ at[b] = "reading"
    /\ seen' = [seen EXCEPT ![b] = variables[In[b]]]
    /\ copy' = IF b \in Value THEN [copy EXCEPT ![b] = Section(Kind[b], In[b])]
                              ELSE copy
    /\ readers' = RUnlocked(b)
    /\ Goto(b, AfterReading(b))
    /\ UNCHANGED <<ports, layer, variables, fileVars, section, queued, writer, exit>>

\* A provider gives a data block its value, or a variable is resolved; after
\* an error Run returns before it takes a lock.
Provide(b, r) ==
    /\ at[b] = "provide"
    /\ Goto(b, IF r = "ok" THEN "section" ELSE "failed")
    /\ UNCHANGED <<ports, layer, mapVars, fileVars, lockVars, exit>>

\* Run returns the errors of a local's evaluation, past the same unlocks.
SectionAfter_Early(b, r) ==
    IF r = "ok" THEN [section EXCEPT ![Kind[b]] = NoThread] ELSE section
SectionAfter(b, r) == [section EXCEPT ![Kind[b]] = NoThread]

\* The section is replaced by its copy with one more name. A local whose
\* expression does not evaluate is defined all the same.
Write(b, r) ==
    /\ b \in Value
    /\ at[b] = "writing"
    /\ r = "err" => Kind[b] = "local"
    /\ variables' = [variables EXCEPT ![In[b]] =
                        (@ \ Section(Kind[b], In[b])) \cup copy[b] \cup {b}]
    /\ Unlock(b, In[b], IF r = "ok" THEN "done" ELSE "failed")
    /\ section' = SectionAfter(b, r)
    /\ UNCHANGED <<ports, layer, copy, seen, fileVars, exit>>

\* Nat returns; its read locks stay.
PortsParsed(b) ==
    /\ at[b] = "ports"
    /\ readers[b] = 2 * ports[b]
    /\ Goto(b, "command")
    /\ UNCHANGED <<ports, layer, mapVars, fileVars, lockVars, exit>>

\* The command ends; one that succeeded wrote its outputs.
Command(b, r) ==
    /\ at[b] = "command"
    /\ envFile' = IF r = "ok" THEN [envFile EXCEPT ![In[b]] = @ \cup {b}] ELSE envFile
    /\ Goto(b, IF r = "ok" THEN "done" ELSE "failed")
    /\ UNCHANGED <<ports, layer, mapVars, unread, lockVars, exit>>

\* The inputs of a module are evaluated without the lock, then its pipeline
\* begins in a context of its own.
Inputs(m) ==
    /\ at[m] = "inputs"
    /\ seen' = [seen EXCEPT ![m] = variables[In[m]]]
    /\ at' = [at EXCEPT ![m] = "child", ![Child[m]] = "outputs"]
    /\ UNCHANGED <<ports, layer, variables, copy, fileVars, lockVars, exit>>

\* Go's runtime ends the process when it notices a map being read and written.
Throw(m) ==
    /\ at[m] = "inputs"
    /\ \E t \in Thread : writer[In[m]] = t /\ at[t] = "writing"
    /\ exit' = "fatal"
    /\ UNCHANGED <<ports, at, layer, mapVars, fileVars, lockVars>>

ModuleReturns(m) ==
    /\ at[m] = "child"
    /\ at[Child[m]] \in Over
    /\ Goto(m, at[Child[m]])
    /\ UNCHANGED <<ports, layer, mapVars, fileVars, lockVars, exit>>

-------------------------------------------------------------------------------
(* The loop over the layers of a pipeline *)

\* No goroutine of the pipeline is at work: the waits before Run returns.
Quiet(c) == \A b \in Blocks(c) : at[b] \in Over \cup {"idle"}

\* ExpandOutputs: what the file says goes to the map; a file that cannot be
\* opened is passed over, and the layer begins; one that cannot be parsed ends
\* the run.
ReadOutputs(c) ==
    /\ at[c] = "outputs"
    /\ \/ /\ copy' = [copy EXCEPT ![c] = envFile[c]]
          /\ Goto(c, "lock")
          /\ UNCHANGED unread
       \/ /\ unread' = [unread EXCEPT ![c] = @ \cup {layer[c]}]
          /\ Goto(c, "visit")
          /\ UNCHANGED copy
       \/ Quiet(c) /\ Goto(c, "failed") /\ UNCHANGED <<copy, unread>>
    /\ UNCHANGED <<ports, layer, variables, seen, envFile, lockVars, exit>>

WriteOutputs(c) ==
    /\ at[c] = "writing"
    /\ variables' = [variables EXCEPT ![c] = (@ \ Section("stage", c)) \cup copy[c]]
    /\ Unlock(c, c, "visit")
    /\ UNCHANGED <<ports, layer, copy, seen, fileVars, section, exit>>

LastLayer(c) == \A b \in Blocks(c) : Layer[b] <= layer[c]

\* RunnableWait leaves out the daemons, DaemonWait after the last layer does not.
LayerOver_Launched(c) ==
    \A b \in Blocks(c) : Layer[b] = layer[c] => at[b] # "idle"
LayerOver(c) ==
    \A b \in Blocks(c) :
        /\ Layer[b] = layer[c] => at[b] \in Over \/ (b \in Daemon /\ at[b] # "idle")
        /\ LastLayer(c) => at[b] \in Over

\* After an error no further layer is begun, and the daemons are waited for.
NextLayer(c) ==
    /\ at[c] = "visit"
    /\ LayerOver(c)
    /\ IF \E b \in Blocks(c) : at[b] = "failed"
         THEN /\ Quiet(c)
              /\ Goto(c, "failed")
              /\ UNCHANGED layer
         ELSE IF LastLayer(c)
                THEN Goto(c, "done") /\ UNCHANGED layer
                ELSE Goto(c, "outputs") /\ layer' = [layer EXCEPT ![c] = @ + 1]
    /\ UNCHANGED <<ports, mapVars, fileVars, lockVars, exit>>

-------------------------------------------------------------------------------
Goroutine(b) ==
    /\ exit = "running"
    /\ \/ Begin(b)
       \/ RLock(b)
       \/ Read(b)
       \/ \E r \in Result : Provide(b, r) \/ Write(b, r) \/ Command(b, r)
       \/ EnterSection(b)
       \/ Lock(b, In[b])
       \/ Locked(b, In[b])
       \/ PortsParsed(b)
       \/ Inputs(b)
       \/ ModuleReturns(b)

Loop(c) ==
    /\ exit = "running"
    /\ \/ ReadOutputs(c)
       \/ Lock(c, c)
       \/ Locked(c, c)
       \/ WriteOutputs(c)
       \/ NextLayer(c)

\* The root pipeline has returned, or the process has died.
Ended ==
    /\ exit = "fatal" \/ at[Root] \in Over
    /\ UNCHANGED vars

Next ==
    \/ \E b \in Block : Goroutine(b)
    \/ \E c \in Context : Loop(c)
    \/ exit = "running" /\ \E m \in Module : Throw(m)
    \/ Ended

Spec == Init /\ [][Next]_vars

\* The Go scheduler runs whoever can run; commands and providers return.
Fairness ==
    /\ \A b \in Block : WF_vars(Goroutine(b))
    /\ \A c \in Context : WF_vars(Loop(c))

FairSpec == Spec /\ Fairness

-------------------------------------------------------------------------------
(* What the blocks may rely on *)

\* While somebody writes a map nobody else is at it, the inputs of a module
\* excepted: they are evaluated without the lock. (Eval's mutex, Local.Run,
\* Data.Run, Variable.Run, ExpandOutputs.)
WritesAreExclusive ==
    \A t \in Thread : \A c \in Context :
        at[t] = "writing" /\ writer[c] = t =>
            /\ \A b \in Blocks(c) : readers[b] = 0 /\ at[b] # "reading"
            /\ \A u \in (Blocks(c) \cup {c}) \ {t} : at[u] # "writing"

\* At no layer between that of d and up to the layer k was the file opened.
NeverRead(d, k) == \A j \in (Layer[d] + 1)..k : j \in unread[In[d]]

\* What a block evaluates with holds every value of the layers before it, and
\* every output of theirs but those whose file could not be opened at any layer
\* since. (The layers, and ExpandOutputs at the head of each.)
SeesEarlierLayers ==
    \A b \in Block : at[b] \notin {"idle", "section", "rlock", "reading"} =>
        \A d \in Blocks(In[b]) \ (Module \cup Daemon) :
            Layer[d] < Layer[b] =>
                d \in seen[b] \/ (d \in Stage /\ NeverRead(d, Layer[b]))

\* The locks come back: unless a container publishes a port, the pipeline and
\* those of its modules come to an end. (Unlocks on every path of Run.)
LocksComeBack ==
    (\A b \in Stage : ports[b] = 0) => <>(exit = "fatal" \/ at[Root] \in Over)

\* The maps, as the definitions that Definitions promises.
Promise == INSTANCE Definitions WITH
    Output <- Stage, Reader <- Block, defined <- variables, view <- seen

\* Values are defined one by one, outputs at once, and none is ever lost.
ActsAsDefinitions == Promise!Spec

-------------------------------------------------------------------------------
(* What a comment of the code says, and it does not do *)

\* "Nat returns a map of exposed ports" (stage_containers_hcl.go): a stage gets
\* past its ports.
NatReturns ==
    \A b \in Stage : at[b] = "ports" ~> at[b] # "ports" \/ exit = "fatal"
===============================================================================
