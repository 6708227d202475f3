------------------------------- MODULE DepGraph -------------------------------
(***************************************************************************)
(* The dependency graph of a pipeline. GraphTopoSort adds every block with *)
(* its fixed edges and the blocks its expressions refer to, one DependOn   *)
(* after the other; TopoSortedLayers then peels the graph into layers.     *)
(* DependOn and TopoSortedLayers belong to the depgraph library.           *)
(***************************************************************************)
EXTENDS Naturals, Sequences, FiniteSets

CONSTANTS
    Blocks,     \* the blocks in the order of GraphTopoSort's loops
    Undefined,  \* ids an expression may name although no block has them
    Kind,       \* the type of a block
    MayRefer    \* the references the blocks may hold: pairs <<block, id>>

Root == "togomak.root"
Pre == "togomak.pre"
Post == "togomak.post"

Block == {Blocks[i] : i \in DOMAIN Blocks}
Node == Block \cup Undefined \cup {Root, Pre, Post}

ASSUME GraphAssumption ==
    /\ Blocks \in Seq(Block)
    /\ Undefined \cap Block = {}
    /\ IsFiniteSet(Undefined)
    /\ {Root, Pre, Post} \cap (Block \cup Undefined) = {}
    /\ Kind \in [Block -> {"local", "macro", "data", "variable", "stage", "module"}]
    /\ MayRefer \subseteq Block \X (Block \cup Undefined)

VARIABLES
    references, \* the pairs <<block, id>> the pipeline's expressions hold
    phase,      \* where the construction is, or how it ended
    next,       \* the first block GraphTopoSort has not taken up
    anchors,    \* the fixed edges of the current block still to be added
    unresolved, \* its references GraphResolve has not taken up
    parents,    \* the graph: what a node directly depends on
    errors,     \* whether the diagnostics hold an error
    depth,      \* how many layers TopoSortedLayers has taken off
    level       \* the layer of a node, 0 while it has none

inputVars == <<references>>
buildVars == <<next, anchors, unresolved, parents, errors>>
sortVars == <<depth, level>>
vars == <<inputVars, phase, buildVars, sortVars>>

-------------------------------------------------------------------------------
Phase == {"build", "panic", "refused", "sort", "sorted"}

TypeOK ==
    /\ references \subseteq MayRefer
    /\ phase \in Phase
    /\ next \in 1..(Len(Blocks) + 1)
    /\ anchors \in Seq(Node \X Node)
    /\ unresolved \subseteq MayRefer
    /\ parents \in [Node -> SUBSET Node]
    /\ errors \in BOOLEAN
    /\ depth \in Nat
    /\ level \in [Node -> Nat]

\* The nodes a graph has: those an edge starts or ends in.
Known == {n \in Node : parents[n] # {} \/ \E m \in Node : n \in parents[m]}

\* Graph.Dependencies: what a node depends on, directly or not.
More(S) == S \cup UNION {parents[m] : m \in S}
Grown[S \in SUBSET Node] == IF More(S) = S THEN S ELSE Grown[More(S)]
Dependencies(n) == Grown[parents[n]]

DependsOn(child, parent) == parent \in Dependencies(child)

\* Definitions named X_Y are faults of X that the checks must notice.

\* DependOn refuses an edge that would close a cycle.
MayDepend_Direct(child, parent) == child # parent /\ child \notin parents[parent]
MayDepend(child, parent) == child # parent /\ ~DependsOn(parent, child)

Linked(child, parent) == [parents EXCEPT ![child] = @ \cup {parent}]

\* The edges every block of a kind gets: data and variables come before the
\* pre stage, stages and modules between the pre and the post stage.
Anchors_Misnamed(b) == <<<<b, "togomak.start">>>>

Anchors(b) ==
    CASE Kind[b] \in {"local", "macro"} -> <<<<b, Root>>>>
      [] Kind[b] \in {"data", "variable"} -> <<<<b, Root>>, <<Pre, b>>>>
      [] Kind[b] \in {"stage", "module"} -> <<<<b, Pre>>, <<Post, b>>>>

Init ==
    /\ references \in SUBSET MayRefer
    /\ phase = "build"
    /\ next = 1
    /\ anchors = <<>>
    /\ unresolved = {}
    /\ parents = [n \in Node |->
           CASE n = Pre -> {Root} [] n = Post -> {Pre} [] OTHER -> {}]
    /\ errors = FALSE
    /\ depth = 0
    /\ level = [n \in Node |-> 0]

\* The references Variables() finds in a block, as ResolveFromTraversal names
\* them; what is no block (param, this, each) it names nothing. An expression that
\* Variables() does not look into makes no reference: for_each, the image and the
\* ports of a container, shell and phase of a stage, the inputs of a module.
Traversals(b) == {r \in references : r[1] = b}

\* Resolve finds a block with the id.
Resolves(id) == id \in Block

-------------------------------------------------------------------------------
\* The next turn of GraphTopoSort's loops over the blocks.
TakeUp ==
    /\ phase = "build"
    /\ anchors = <<>>
    /\ unresolved = {}
    /\ next <= Len(Blocks)
    /\ anchors' = Anchors(Blocks[next])
    /\ unresolved' = Traversals(Blocks[next])
    /\ next' = next + 1
    /\ UNCHANGED <<inputVars, phase, parents, errors, sortVars>>

\* A fixed edge: GraphTopoSort panics when DependOn refuses it.
Anchor ==
    /\ phase = "build"
    /\ anchors # <<>>
    /\ LET child == Head(anchors)[1]
           parent == Head(anchors)[2]
       IN IF MayDepend(child, parent)
            THEN parents' = Linked(child, parent) /\ UNCHANGED phase
            ELSE phase' = "panic" /\ UNCHANGED parents
    /\ anchors' = Tail(anchors)
    /\ UNCHANGED <<inputVars, next, unresolved, errors, sortVars>>

\* One reference of GraphResolve: an id no block has is an error, and so is an
\* edge DependOn refuses; neither stops the loop.
Refer_Silent(r) ==
    /\ phase = "build"
    /\ anchors = <<>>
    /\ r \in unresolved
    /\ errors' = (errors \/ ~Resolves(r[2]))
    /\ parents' = IF MayDepend(r[1], r[2]) THEN Linked(r[1], r[2]) ELSE parents
    /\ unresolved' = unresolved \ {r}
    /\ UNCHANGED <<inputVars, phase, next, anchors, sortVars>>

Refer(r) ==
    /\ phase = "build"
    /\ anchors = <<>>
    /\ r \in unresolved
    /\ errors' = (errors \/ ~Resolves(r[2]) \/ ~MayDepend(r[1], r[2]))
    /\ parents' = IF MayDepend(r[1], r[2]) THEN Linked(r[1], r[2]) ELSE parents
    /\ unresolved' = unresolved \ {r}
    /\ UNCHANGED <<inputVars, phase, next, anchors, sortVars>>

\* Variables() of a data block panics when nobody offers its provider, or when its
\* arguments are not those the provider knows.
VariablesPanics ==
    /\ phase = "build"
    /\ anchors = <<>>
    /\ next > 1
    /\ Kind[Blocks[next - 1]] = "data"
    /\ unresolved = Traversals(Blocks[next - 1])
    /\ phase' = "panic"
    /\ UNCHANGED <<inputVars, buildVars, sortVars>>

\* All blocks are in the graph. Pipeline.Run goes on only without errors.
Built ==
    /\ phase = "build"
    /\ anchors = <<>>
    /\ unresolved = {}
    /\ next > Len(Blocks)
    /\ phase' = IF errors THEN "refused" ELSE "sort"
    /\ UNCHANGED <<inputVars, buildVars, sortVars>>

\* Graph.Leaves of what is left: no dependency of theirs is left.
Remaining == {n \in Known : level[n] = 0}
Leaves_Nearly == {n \in Remaining : Cardinality(parents[n] \cap Remaining) <= 1}
Leaves == {n \in Remaining : parents[n] \cap Remaining = {}}

\* TopoSortedLayers takes off one layer.
Peel ==
    /\ phase = "sort"
    /\ Leaves # {}
    /\ depth' = depth + 1
    /\ level' = [n \in Node |-> IF n \in Leaves THEN depth + 1 ELSE level[n]]
    /\ UNCHANGED <<inputVars, phase, buildVars>>

Sorted ==
    /\ phase = "sort"
    /\ Leaves = {}
    /\ phase' = "sorted"
    /\ UNCHANGED <<inputVars, buildVars, sortVars>>

Finished ==
    /\ phase \in {"panic", "refused", "sorted"}
    /\ UNCHANGED vars

Next ==
    \/ TakeUp
    \/ Anchor
    \/ VariablesPanics
    \/ \E r \in unresolved : Refer(r)
    \/ Built
    \/ Peel
    \/ Sorted
    \/ Finished

Spec == Init /\ [][Next]_vars

-------------------------------------------------------------------------------
(* What Pipeline relies on *)

\* Layers of the graph, as TopoSortedLayers returns them.
Layers == [k \in 1..depth |-> {n \in Node : level[n] = k}]

\* What a node depends on is in an earlier layer than the node, at any time.
\* (TopoSortedLayers over the graph of GraphTopoSort.)
Layered ==
    \A n \in Node : level[n] # 0 =>
        \A m \in parents[n] : level[m] # 0 /\ level[m] < level[n]

\* A graph that is not refused holds every reference of the pipeline that
\* Variables() finds, so the block referred to runs in an earlier layer; ...
ReferencesRunFirst ==
    phase = "sorted" =>
        \A r \in references : r[2] \in Block /\ level[r[2]] < level[r[1]]

\* ... and whatever the references, data and variables are evaluated before the
\* pre stage, which every stage and module follows, and the post stage comes
\* after all of them.
PreAndPost ==
    phase = "sorted" =>
        \A b \in Block :
            IF Kind[b] \in {"stage", "module"}
              THEN level[Pre] < level[b] /\ level[b] < level[Post]
              ELSE Kind[b] \in {"data", "variable"} => level[b] < level[Pre]

\* Together: every block runs after all it depends on, by kind or by a reference
\* that Variables() finds. It says nothing of the names in for_each, image, ports,
\* shell, phase or a module's inputs, which give no edge. (GraphResolve's
\* diagnostics, and the fixed edges of GraphTopoSort.)
RunsInOrder == ReferencesRunFirst /\ PreAndPost

\* The layers are what Pipeline.Run loops over: none is empty, and each node
\* of the graph is in one. (LayersAssumption of Pipeline.)
NothingLeftOut ==
    phase = "sorted" =>
        /\ \A n \in Known : level[n] \in 1..depth
        /\ \A k \in 1..depth : Layers[k] # {}
        /\ Block \subseteq Known
===============================================================================
