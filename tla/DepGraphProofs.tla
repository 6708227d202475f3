---------------------------- MODULE DepGraphProofs ----------------------------
(***************************************************************************)
(* Proofs about DepGraph, for every set of blocks and references.          *)
(***************************************************************************)
EXTENDS DepGraph, FiniteSetTheorems, FunctionTheorems, WellFoundedInduction, TLAPS

\* While blocks are added no layer is taken off, and no layer is numbered
\* higher than the last one.
Counted ==
    /\ phase \in {"build", "panic", "refused"} => \A n \in Node : level[n] = 0
    /\ \A n \in Node : level[n] <= depth

\* The references that GraphResolve is through with are in the graph, or there
\* is an error.
Resolved ==
    ~errors => \A i \in 1..(next - 1) : \A r \in references :
        r[1] = Blocks[i] /\ r \notin unresolved =>
            r[2] \in Block /\ r[2] \in parents[r[1]]

\* An edge is in the graph, or Anchor is about to add it.
Placed(e) == e[2] \in parents[e[1]] \/ \E j \in 1..Len(anchors) : anchors[j] = e

\* The fixed edges of the blocks taken up are in the graph or about to be added.
Kept ==
    phase # "panic" => \A i \in 1..(next - 1) :
        \A k \in 1..Len(Anchors(Blocks[i])) : Placed(Anchors(Blocks[i])[k])

\* Past the construction all edges are added, without an error.
Complete ==
    phase \in {"sort", "sorted"} =>
        ~errors /\ anchors = <<>> /\ unresolved = {} /\ next > Len(Blocks)

\* A set of nodes that is not empty has one that depends on none of them.
Acyclic ==
    \A S \in SUBSET Node : S # {} => \E n \in S : parents[n] \cap S = {}

\* No layer is empty, and the sort ends only when nothing can be taken off.
Exhausted ==
    /\ \A k \in 1..depth : \E n \in Node : level[n] = k
    /\ phase = "sorted" => Leaves = {}

GInv ==
    TypeOK /\ Counted /\ Resolved /\ Kept /\ Complete /\ Acyclic /\ Layered /\ Exhausted

\* A loop over the blocks meets every block.
LEMMA BlockIndex ==
    /\ Len(Blocks) \in Nat
    /\ DOMAIN Blocks = 1..Len(Blocks)
    /\ \A i \in 1..Len(Blocks) : Blocks[i] \in Block
    /\ \A b \in Block : \E i \in 1..Len(Blocks) : b = Blocks[i]
  BY GraphAssumption DEF GraphAssumption, Block

\* References are pairs of nodes that start in a block.
LEMMA ReferenceType ==
    \A r \in MayRefer : r[1] \in Block /\ r[1] \in Node /\ r[2] \in Node
  BY GraphAssumption DEF GraphAssumption, Node

\* The fixed edges are pairs of nodes.
LEMMA AnchorType == \A b \in Block : Anchors(b) \in Seq(Node \X Node)
<1> SUFFICES ASSUME NEW b \in Block PROVE Anchors(b) \in Seq(Node \X Node)
  OBVIOUS
<1>1. {b, Root, Pre, Post} \subseteq Node
  BY DEF Node
<1>2. Kind[b] \in {"local", "macro", "data", "variable", "stage", "module"}
  BY GraphAssumption DEF GraphAssumption
<1>3. \A x, y \in Node \X Node : <<x>> \in Seq(Node \X Node)
                               /\ <<x, y>> \in Seq(Node \X Node)
  OBVIOUS
<1>4. CASE Kind[b] \in {"local", "macro"}
  <2>1. Anchors(b) = <<<<b, Root>>>>
    BY <1>4 DEF Anchors
  <2>2. QED BY <1>1, <1>3, <2>1
<1>5. CASE Kind[b] \in {"data", "variable"}
  <2>1. Anchors(b) = <<<<b, Root>>, <<Pre, b>>>>
    BY <1>5 DEF Anchors
  <2>2. QED BY <1>1, <1>3, <2>1
<1>6. CASE Kind[b] \in {"stage", "module"}
  <2>1. Anchors(b) = <<<<b, Pre>>, <<Post, b>>>>
    BY <1>6 DEF Anchors
  <2>2. QED BY <1>1, <1>3, <2>1
<1>7. QED BY <1>2, <1>4, <1>5, <1>6

\* What the tail of a sequence holds, and where.
LEMMA TailIndex ==
    ASSUME NEW A, NEW s \in Seq(A), NEW j \in 2..Len(s)
    PROVE  j - 1 \in 1..Len(Tail(s)) /\ Tail(s)[j - 1] = s[j]
  OBVIOUS

\* An added edge leaves the graph a graph, and keeps the edges it has.
LEMMA LinkedType ==
    ASSUME parents \in [Node -> SUBSET Node], NEW c \in Node, NEW p \in Node
    PROVE  /\ Linked(c, p) \in [Node -> SUBSET Node]
           /\ \A n \in Node : parents[n] \subseteq Linked(c, p)[n]
           /\ p \in Linked(c, p)[c]
  BY DEF Linked

\* The nodes of a graph are finitely many.
LEMMA NodesAreFinite == IsFiniteSet(Node)
<1>1. IsFiniteSet(Block)
  <2>1. IsFiniteSet(1..Len(Blocks))
    BY BlockIndex, FS_Interval
  <2>2. [i \in 1..Len(Blocks) |-> Blocks[i]] \in Surjection(1..Len(Blocks), Block)
    BY BlockIndex, Fun_IsSurj
  <2>3. QED BY <2>1, <2>2, FS_Surjection
<1>2. IsFiniteSet({Root}) /\ IsFiniteSet({Pre}) /\ IsFiniteSet({Post})
  BY FS_Singleton
<1>3. IsFiniteSet(Block \cup Undefined)
  BY <1>1, FS_Union, GraphAssumption DEF GraphAssumption
<1>4. IsFiniteSet({Root} \cup {Pre} \cup {Post})
  BY <1>2, FS_Union
<1>5. IsFiniteSet((Block \cup Undefined) \cup ({Root} \cup {Pre} \cup {Post}))
  BY <1>3, <1>4, FS_Union
<1>6. Node = (Block \cup Undefined) \cup ({Root} \cup {Pre} \cup {Post})
  BY DEF Node
<1>7. QED BY <1>5, <1>6

\* A set of nodes is closed when the graph leads no further.
Closed(S) == \A m \in S : parents[m] \subseteq S

\* The equation that defines Grown has a solution: the least closed superset.
LEMMA GrownEquation ==
    ASSUME parents \in [Node -> SUBSET Node]
    PROVE  \A S \in SUBSET Node :
              /\ More(S) \in SUBSET Node
              /\ Grown[S] = IF More(S) = S THEN S ELSE Grown[More(S)]
<1> DEFINE F(g) == [S \in SUBSET Node |-> IF More(S) = S THEN S ELSE g[More(S)]]
           Above(S) == {T \in SUBSET Node : S \subseteq T /\ Closed(T)}
           least == [S \in SUBSET Node |-> {n \in Node : \A T \in Above(S) : n \in T}]
<1>1. ASSUME NEW S \in SUBSET Node PROVE More(S) \in SUBSET Node /\ S \subseteq More(S)
  BY DEF More
<1>2. ASSUME NEW S \in SUBSET Node
      PROVE least[S] = IF More(S) = S THEN S ELSE least[More(S)]
  <2>1. CASE More(S) = S
    <3>1. Closed(S)
      BY <2>1 DEF More, Closed
    <3>2. S \in Above(S)
      BY <3>1
    <3>3. QED BY <2>1, <3>2
  <2>2. CASE More(S) # S
    <3>1. Above(S) = Above(More(S))
      <4>1. ASSUME NEW T \in Above(S) PROVE T \in Above(More(S))
        BY <4>1 DEF More, Closed
      <4>2. ASSUME NEW T \in Above(More(S)) PROVE T \in Above(S)
        BY <1>1
      <4>3. QED BY <4>1, <4>2
    <3>2. least[S] = least[More(S)]
      BY <1>1, <3>1
    <3>3. QED BY <2>2, <3>2
  <2>3. QED BY <2>1, <2>2
<1>3. least = F(least)
  BY <1>2
<1> HIDE DEF least
<1>4. Grown = CHOOSE g : g = F(g)
  BY DEF Grown
<1>5. Grown = F(Grown)
  BY <1>3, <1>4
<1>6. QED BY <1>1, <1>5

\* Dependencies: nothing is missing. By induction on the nodes not reached.
LEMMA DependenciesClosed ==
    ASSUME parents \in [Node -> SUBSET Node], NEW n \in Node
    PROVE  /\ Dependencies(n) \in SUBSET Node
           /\ parents[n] \subseteq Dependencies(n)
           /\ Closed(Dependencies(n))
<1> DEFINE Good(S) == Grown[S] \in SUBSET Node /\ S \subseteq Grown[S] /\ Closed(Grown[S])
           bad == {S \in SUBSET Node : ~Good(S)}
           rest == {Node \ S : S \in bad}
<1>1. ASSUME rest # {} PROVE FALSE
  <2>1. IsWellFoundedOn(StrictSubsetOrdering(Node), SUBSET Node)
    BY NodesAreFinite, FS_StrictSubsetOrderingWellFounded, FS_FiniteSubsetsOfFinite
  <2>2. PICK x \in rest : \A y \in rest : ~(<<y, x>> \in StrictSubsetOrdering(Node))
    <3>1. rest \subseteq SUBSET Node
      OBVIOUS
    <3> HIDE DEF rest
    <3>2. QED BY <1>1, <2>1, <3>1, WFMin
  <2>3. PICK S \in bad : x = Node \ S
    OBVIOUS
  <2>4. /\ More(S) \in SUBSET Node
        /\ Grown[S] = IF More(S) = S THEN S ELSE Grown[More(S)]
    BY GrownEquation
  <2>5. More(S) # S
    <3>1. More(S) = S => Closed(S)
      BY DEF More, Closed
    <3>2. QED BY <2>3, <2>4, <3>1
  <2>6. Good(More(S))
    <3>1. S \subseteq More(S)
      BY DEF More
    <3>2. <<Node \ More(S), x>> \in StrictSubsetOrdering(Node)
      BY <2>3, <2>4, <2>5, <3>1 DEF StrictSubsetOrdering
    <3>3. Node \ More(S) \notin rest
      BY <2>2, <3>2
    <3>4. QED BY <2>4, <3>3
  <2>7. Good(S)
    BY <2>4, <2>5, <2>6 DEF More
  <2>8. QED BY <2>3, <2>7
<1>2. bad = {}
  BY <1>1
<1>3. parents[n] \in SUBSET Node
  OBVIOUS
<1>4. Good(parents[n])
  BY <1>2, <1>3
<1>5. QED BY <1>4 DEF Dependencies

\* DependOn closes no cycle.
LEMMA LinkedAcyclic ==
    ASSUME parents \in [Node -> SUBSET Node], Acyclic,
           NEW c \in Node, NEW p \in Node, MayDepend(c, p), parents' = Linked(c, p)
    PROVE  Acyclic'
<1> SUFFICES ASSUME NEW S \in SUBSET Node, S # {}
             PROVE \E n \in S : Linked(c, p)[n] \cap S = {}
  BY DEF Acyclic
<1>1. /\ Linked(c, p)[c] = parents[c] \cup {p}
      /\ \A n \in Node : n # c => Linked(c, p)[n] = parents[n]
  BY DEF Linked
<1>2. CASE ~(c \in S /\ p \in S)
  <2>1. PICK n \in S : parents[n] \cap S = {}
    BY DEF Acyclic
  <2>2. QED BY <1>1, <1>2, <2>1
<1>3. CASE c \in S /\ p \in S
  <2> DEFINE D == {p} \cup Dependencies(p)
  <2>1. D \in SUBSET Node /\ \A m \in D : parents[m] \subseteq D
    BY DependenciesClosed DEF Closed
  <2>2. c \notin D
    BY DEF MayDepend, DependsOn
  <2>3. PICK n \in S \cap D : parents[n] \cap (S \cap D) = {}
    <3>1. S \cap D \in SUBSET Node /\ S \cap D # {}
      BY <1>3, <2>1
    <3> HIDE DEF D
    <3>2. QED BY <3>1 DEF Acyclic
  <2>4. n # c /\ parents[n] \cap S = {}
    BY <2>1, <2>2, <2>3
  <2>5. QED BY <1>1, <2>4
<1>4. QED BY <1>2, <1>3

\* No step of the construction, or of the sort, leaves the invariant.
LEMMA GInvStep == GInv /\ [Next]_vars => GInv'
<1> SUFFICES ASSUME GInv, [Next]_vars PROVE GInv'
  OBVIOUS
<1> USE BlockIndex DEF GInv, TypeOK, Phase, inputVars, buildVars, sortVars
<1>1. ASSUME TakeUp PROVE GInv'
  <2>1. Blocks[next] \in Block /\ Anchors(Blocks[next]) \in Seq(Node \X Node)
    BY <1>1, AnchorType DEF TakeUp, Traversals
  <2>2. TypeOK'
    BY <1>1, <2>1 DEF TakeUp, Traversals
  <2>3. Resolved'
    BY <1>1 DEF TakeUp, Traversals, Resolved
  <2>4. Kept'
    <3> SUFFICES ASSUME NEW i \in 1..next, NEW k \in 1..Len(Anchors(Blocks[i]))
                 PROVE Placed(Anchors(Blocks[i])[k])'
      BY <1>1 DEF TakeUp, Kept
    <3>1. anchors' = Anchors(Blocks[next]) /\ anchors = <<>> /\ phase = "build"
      BY <1>1 DEF TakeUp
    <3>2. CASE i = next
      BY <3>1, <3>2 DEF Placed
    <3>3. CASE i # next
      <4>1. i \in 1..(next - 1)
        BY <3>3
      <4>2. Len(anchors) = 0
        BY <3>1
      <4>3. QED BY <1>1, <3>1, <4>1, <4>2 DEF Kept, Placed, TakeUp
    <3>4. QED BY <3>2, <3>3
  <2>5. Counted' /\ Complete' /\ Acyclic' /\ Layered' /\ Exhausted'
    BY <1>1 DEF TakeUp, Traversals, Counted, Complete, Acyclic, Layered, Exhausted
  <2>6. QED BY <2>2, <2>3, <2>4, <2>5
<1>2. ASSUME Anchor PROVE GInv'
  <2>1. PICK c \in Node, p \in Node : c = Head(anchors)[1] /\ p = Head(anchors)[2]
    BY <1>2 DEF Anchor
  <2>2. Tail(anchors) \in Seq(Node \X Node)
    BY <1>2 DEF Anchor
  <2>3. \/ parents' = parents /\ phase' = "panic"
        \/ parents' = Linked(c, p) /\ phase' = "build" /\ MayDepend(c, p)
    BY <1>2, <2>1 DEF Anchor
  <2>4. /\ parents' \in [Node -> SUBSET Node]
        /\ \A n \in Node : parents[n] \subseteq parents'[n]
        /\ phase' # "panic" => p \in parents'[c]
    BY <2>2, <2>3, LinkedType
  <2>5. phase' \in {"build", "panic"} /\ phase = "build"
    BY <1>2 DEF Anchor
  <2>6. UNCHANGED <<references, next, unresolved, errors, depth, level>>
    BY <1>2 DEF Anchor
  <2>7. TypeOK'
    BY <1>2, <2>2, <2>4, <2>5, <2>6 DEF Anchor
  <2>8. Resolved'
    BY <2>4, <2>6, ReferenceType DEF Resolved
  <2>9. Kept'
    <3> SUFFICES ASSUME phase' # "panic", NEW i \in 1..(next - 1),
                        NEW k \in 1..Len(Anchors(Blocks[i]))
                 PROVE Placed(Anchors(Blocks[i])[k])'
      BY <2>6 DEF Kept
    <3> DEFINE e == Anchors(Blocks[i])[k]
    <3>1. e \in Node \X Node
      BY AnchorType
    <3>2. CASE e[2] \in parents[e[1]]
      BY <2>4, <3>1, <3>2 DEF Placed
    <3>3. CASE e[2] \notin parents[e[1]]
      <4>1. PICK j \in 1..Len(anchors) : anchors[j] = e
        BY <2>5, <3>3 DEF Kept, Placed
      <4>2. CASE j = 1
        <5>1. e = Head(anchors)
          BY <4>1, <4>2, SMTT(30)
        <5>2. QED BY <2>1, <2>4, <5>1 DEF Placed
      <4>3. CASE j # 1
        <5>1. anchors' = Tail(anchors)
          BY <1>2 DEF Anchor
        <5>2. anchors \in Seq(Node \X Node) /\ j \in 2..Len(anchors)
          BY <4>3
        <5>3. j - 1 \in 1..Len(Tail(anchors)) /\ Tail(anchors)[j - 1] = anchors[j]
          BY ONLY <5>2, TailIndex
        <5>4. QED BY <4>1, <5>1, <5>3 DEF Placed
      <4>4. QED BY <4>2, <4>3
    <3>4. QED BY <3>2, <3>3
  <2>10. Acyclic'
    <3>1. CASE parents' = parents
      BY <3>1 DEF Acyclic
    <3>2. CASE parents' = Linked(c, p) /\ MayDepend(c, p)
      BY <2>2, <3>2, LinkedAcyclic
    <3>3. QED BY <2>3, <3>1, <3>2
  <2>11. Counted' /\ Complete' /\ Layered' /\ Exhausted'
    BY <2>5, <2>6 DEF Counted, Complete, Layered, Exhausted
  <2>12. QED BY <2>7, <2>8, <2>9, <2>10, <2>11
<1>3. ASSUME NEW r \in unresolved, Refer(r) PROVE GInv'
  <2>1. r \in MayRefer /\ r[1] \in Node /\ r[2] \in Node
    BY <1>3, ReferenceType
  <2>2. parents' = IF MayDepend(r[1], r[2]) THEN Linked(r[1], r[2]) ELSE parents
    BY <1>3 DEF Refer
  <2>3. /\ parents' \in [Node -> SUBSET Node]
        /\ \A n \in Node : parents[n] \subseteq parents'[n]
    BY <2>1, <2>2, LinkedType
  <2>4. ~errors' => ~errors /\ r[2] \in Block /\ r[2] \in parents'[r[1]]
    BY <1>3, <2>1, <2>2, LinkedType DEF Refer, Resolves
  <2>5. /\ UNCHANGED <<references, phase, next, anchors, depth, level>>
        /\ unresolved' = unresolved \ {r}
        /\ errors' \in BOOLEAN
        /\ phase = "build"
    BY <1>3 DEF Refer
  <2>6. TypeOK'
    BY <2>3, <2>5
  <2>7. Resolved'
    BY <2>3, <2>4, <2>5, ReferenceType DEF Resolved
  <2>8. Kept'
    <3> SUFFICES ASSUME NEW i \in 1..(next - 1), NEW k \in 1..Len(Anchors(Blocks[i]))
                 PROVE Placed(Anchors(Blocks[i])[k])'
      BY <2>5 DEF Kept
    <3>1. Anchors(Blocks[i])[k] \in Node \X Node
      BY AnchorType
    <3>2. QED BY <2>3, <2>5, <3>1 DEF Kept, Placed
  <2>9. Acyclic'
    <3>1. CASE parents' = parents
      BY <3>1 DEF Acyclic
    <3>2. CASE parents' = Linked(r[1], r[2]) /\ MayDepend(r[1], r[2])
      BY <2>1, <3>2, LinkedAcyclic
    <3>3. QED BY <2>2, <3>1, <3>2
  <2>10. Counted' /\ Complete' /\ Layered' /\ Exhausted'
    BY <2>5 DEF Counted, Complete, Layered, Exhausted
  <2>11. QED BY <2>6, <2>7, <2>8, <2>9, <2>10
<1>4. ASSUME Built PROVE GInv'
  <2>1. /\ UNCHANGED <<references, next, anchors, unresolved, parents, errors, depth, level>>
        /\ phase = "build" /\ anchors = <<>> /\ unresolved = {} /\ next > Len(Blocks)
        /\ phase' = IF errors THEN "refused" ELSE "sort"
    BY <1>4 DEF Built
  <2>2. TypeOK' /\ Counted' /\ Resolved' /\ Complete' /\ Layered' /\ Exhausted'
    BY <2>1 DEF Counted, Resolved, Complete, Layered, Exhausted
  <2>3. Kept' /\ Acyclic'
    BY <2>1 DEF Kept, Placed, Acyclic
  <2>4. QED BY <2>2, <2>3
<1>5. ASSUME Peel PROVE GInv'
  <2>1. /\ UNCHANGED <<references, phase, next, anchors, unresolved, parents, errors>>
        /\ phase = "sort"
        /\ depth' = depth + 1
        /\ level' = [n \in Node |-> IF n \in Leaves THEN depth + 1 ELSE level[n]]
    BY <1>5 DEF Peel
  <2>2. TypeOK'
    BY <2>1
  <2>3. Counted'
    BY <2>1 DEF Counted
  <2>4. Resolved' /\ Kept' /\ Complete' /\ Acyclic'
    BY <2>1 DEF Resolved, Kept, Placed, Complete, Acyclic
  <2>5. Layered'
    <3> SUFFICES ASSUME NEW n \in Node, level'[n] # 0, NEW m \in parents[n]
                 PROVE level'[m] # 0 /\ level'[m] < level'[n]
      BY <2>1 DEF Layered
    <3>1. m \in Node /\ m \in Known
      BY DEF Known
    <3>2. CASE n \in Leaves
      <4>1. level[m] # 0 /\ level[m] <= depth
        BY <3>1, <3>2 DEF Leaves, Remaining, Counted
      <4>2. m \notin Leaves
        BY <4>1 DEF Leaves, Remaining
      <4>3. QED BY <2>1, <3>1, <3>2, <4>1, <4>2
    <3>3. CASE n \notin Leaves
      <4>1. level[n] # 0
        BY <2>1, <3>3
      <4>2. level[m] # 0 /\ level[m] < level[n]
        BY <4>1 DEF Layered
      <4>3. m \notin Leaves
        BY <4>2 DEF Leaves, Remaining
      <4>4. QED BY <2>1, <3>1, <3>3, <4>2, <4>3
    <3>4. QED BY <3>2, <3>3
  <2>6. Exhausted'
    <3> SUFFICES ASSUME NEW k \in 1..(depth + 1) PROVE \E n \in Node : level'[n] = k
      BY <2>1 DEF Exhausted
    <3>1. CASE k = depth + 1
      <4>1. PICK n \in Leaves : TRUE
        BY <1>5 DEF Peel
      <4>2. QED BY <2>1, <3>1, <4>1 DEF Leaves, Remaining, Known
    <3>2. CASE k # depth + 1
      <4>1. PICK n \in Node : level[n] = k
        BY <3>2 DEF Exhausted
      <4>2. n \notin Leaves
        BY <4>1 DEF Leaves, Remaining
      <4>3. QED BY <2>1, <4>1, <4>2
    <3>3. QED BY <3>1, <3>2
  <2>7. QED BY <2>2, <2>3, <2>4, <2>5, <2>6
<1>6. ASSUME Sorted PROVE GInv'
  <2>1. /\ UNCHANGED <<references, next, anchors, unresolved, parents, errors, depth, level>>
        /\ phase = "sort" /\ phase' = "sorted" /\ Leaves = {}
    BY <1>6 DEF Sorted
  <2>2. Leaves' = Leaves
    BY <2>1 DEF Leaves, Remaining, Known
  <2>3. TypeOK' /\ Counted' /\ Resolved' /\ Complete' /\ Layered' /\ Exhausted'
    BY <2>1, <2>2 DEF Counted, Resolved, Complete, Layered, Exhausted
  <2>4. Kept'
    BY <2>1 DEF Kept, Placed
  <2>5. Acyclic'
    BY <2>1 DEF Acyclic
  <2>6. QED BY <2>3, <2>4, <2>5
<1>7. CASE UNCHANGED vars
  <2>1. UNCHANGED <<references, phase, next, anchors, unresolved, parents, errors, depth, level>>
    BY <1>7 DEF vars
  <2>2. Leaves' = Leaves
    BY <2>1 DEF Leaves, Remaining, Known
  <2>3. TypeOK' /\ Counted' /\ Resolved' /\ Complete' /\ Layered' /\ Exhausted'
    BY <2>1, <2>2 DEF Counted, Resolved, Complete, Layered, Exhausted
  <2>4. Kept'
    BY <2>1 DEF Kept, Placed
  <2>5. Acyclic'
    BY <2>1 DEF Acyclic
  <2>6. QED BY <2>3, <2>4, <2>5
<1>8. ASSUME VariablesPanics PROVE GInv'
  <2>1. /\ UNCHANGED <<references, next, anchors, unresolved, parents, errors, depth, level>>
        /\ phase = "build" /\ phase' = "panic"
    BY <1>8 DEF VariablesPanics
  <2>2. TypeOK' /\ Counted' /\ Resolved' /\ Complete' /\ Layered' /\ Exhausted'
    BY <2>1 DEF Counted, Resolved, Complete, Layered, Exhausted
  <2>3. Kept' /\ Acyclic'
    BY <2>1 DEF Kept, Acyclic
  <2>4. QED BY <2>2, <2>3
<1> HIDE DEF GInv
<1>9. QED BY <1>1, <1>2, <1>3, <1>4, <1>5, <1>6, <1>7, <1>8 DEF Next, Finished

\* The inductive invariant of GraphTopoSort and TopoSortedLayers.
THEOREM GraphInvariance == Spec => []GInv
<1>1. Init => GInv
  <2> SUFFICES ASSUME Init PROVE GInv
    OBVIOUS
  <2>1. {Root, Pre, Post} \subseteq Node
    BY DEF Node
  <2>2. TypeOK
    <3>1. \A n \in Node :
            (CASE n = Pre -> {Root} [] n = Post -> {Pre} [] OTHER -> {})
                \in SUBSET Node
      BY <2>1
    <3>2. parents \in [Node -> SUBSET Node]
      BY <3>1 DEF Init
    <3>3. 1 \in 1..(Len(Blocks) + 1) /\ <<>> \in Seq(Node \X Node)
      BY BlockIndex
    <3>4. QED BY <3>2, <3>3 DEF Init, TypeOK, Phase
  <2>3. Counted /\ Resolved /\ Complete /\ Layered /\ Exhausted
    BY DEF Init, Counted, Resolved, Complete, Layered, Exhausted
  <2>4. Kept
    BY DEF Init, Kept
  <2>5. Acyclic
    <3> SUFFICES ASSUME NEW S \in SUBSET Node, S # {}
                 PROVE \E n \in S : parents[n] \cap S = {}
      BY DEF Acyclic
    <3>1. /\ Root # Pre /\ Root # Post /\ Pre # Post
          /\ \A n \in Node \ {Pre, Post} : parents[n] = {}
          /\ parents[Pre] = {Root} /\ parents[Post] = {Pre}
      BY <2>1 DEF Init, Root, Pre, Post
    <3>2. CASE Root \in S
      BY <3>1, <3>2
    <3>3. CASE Root \notin S /\ Pre \in S
      BY <3>1, <3>3
    <3>4. CASE Root \notin S /\ Pre \notin S
      BY <3>1, <3>4
    <3>5. QED BY <3>2, <3>3, <3>4
  <2>6. QED BY <2>2, <2>3, <2>4, <2>5 DEF GInv
<1>2. QED BY <1>1, GInvStep, PTL DEF Spec

\* Every variable keeps its type, whatever the blocks refer to.
THEOREM GraphTypeCorrect == Spec => []TypeOK
<1>1. GInv => TypeOK
  BY DEF GInv
<1>2. QED BY <1>1, GraphInvariance, PTL

\* A block is taken off only after everything it depends on: the layers that
\* Pipeline.Run loops over respect every edge of the graph.
THEOREM LayersRespectEdges == Spec => []Layered
<1>1. GInv => Layered
  BY DEF GInv
<1>2. QED BY <1>1, GraphInvariance, PTL

\* A graph that is sorted holds every reference as an edge.
LEMMA EdgeOfReference ==
    ASSUME GInv, phase \in {"sort", "sorted"}, NEW r \in references
    PROVE  r[2] \in Block /\ r[2] \in parents[r[1]]
<1>1. PICK i \in 1..Len(Blocks) : r[1] = Blocks[i]
  BY ReferenceType, BlockIndex DEF GInv, TypeOK
<1>2. i \in 1..(next - 1)
  BY BlockIndex DEF GInv, TypeOK, Complete
<1>3. QED BY <1>1, <1>2 DEF GInv, Complete, Resolved

\* A graph that is sorted holds every reference Variables() finds as an edge, and
\* none of them names a block that does not exist. (GraphResolve.)
THEOREM EveryReferenceIsAnEdge ==
    Spec => [](phase \in {"sort", "sorted"} =>
                  \A r \in references : r[2] \in Block /\ r[2] \in parents[r[1]])
<1>1. GInv => (phase \in {"sort", "sorted"} =>
                  \A r \in references : r[2] \in Block /\ r[2] \in parents[r[1]])
  BY EdgeOfReference
<1>2. QED BY <1>1, GraphInvariance, PTL

\* The fixed edges of a kind: the first gives each block a dependency.
LEMMA AnchorEdges ==
    ASSUME NEW b \in Block
    PROVE  /\ Len(Anchors(b)) \in {1, 2}
           /\ Anchors(b)[1][1] = b
           /\ Kind[b] \in {"data", "variable"} =>
                Len(Anchors(b)) = 2 /\ Anchors(b)[2] = <<Pre, b>>
           /\ Kind[b] \in {"stage", "module"} =>
                /\ Len(Anchors(b)) = 2
                /\ Anchors(b)[1] = <<b, Pre>> /\ Anchors(b)[2] = <<Post, b>>
<1>1. Kind[b] \in {"local", "macro", "data", "variable", "stage", "module"}
  BY GraphAssumption DEF GraphAssumption
<1>2. CASE Kind[b] \in {"local", "macro"}
  BY <1>2 DEF Anchors
<1>3. CASE Kind[b] \in {"data", "variable"}
  BY <1>3 DEF Anchors
<1>4. CASE Kind[b] \in {"stage", "module"}
  BY <1>4 DEF Anchors
<1>5. QED BY <1>1, <1>2, <1>3, <1>4

\* In a graph that is sorted every fixed edge is in place, ...
LEMMA AnchorsAreEdges ==
    ASSUME GInv, phase = "sorted", NEW b \in Block, NEW k \in 1..Len(Anchors(b))
    PROVE  Anchors(b)[k][2] \in parents[Anchors(b)[k][1]]
<1>1. PICK i \in 1..Len(Blocks) : b = Blocks[i]
  BY BlockIndex
<1>2. i \in 1..(next - 1) /\ anchors = <<>>
  BY BlockIndex DEF GInv, TypeOK, Complete
<1>3. Len(anchors) = 0
  BY <1>2
<1>4. QED BY <1>1, <1>2, <1>3 DEF GInv, Kept, Placed

\* ... and every node has a layer, because nodes without one would hold one
\* that depends on none of the others.
LEMMA EveryNodeHasALayer ==
    ASSUME GInv, phase = "sorted"
    PROVE  \A n \in Known : level[n] \in 1..depth
<1>1. Remaining = {}
  <2>1. Remaining \in SUBSET Node
    BY DEF Remaining, Known
  <2>2. Remaining # {} => \E n \in Remaining : parents[n] \cap Remaining = {}
    BY <2>1 DEF GInv, Acyclic
  <2>3. QED BY <2>2 DEF GInv, Exhausted, Leaves
<1>2. QED BY <1>1 DEF GInv, TypeOK, Counted, Remaining, Known

\* Every layer of the sort holds a node, every node of the graph is in one, and
\* every block of the pipeline is a node of it: Pipeline.Run's loop leaves
\* nothing out. (TopoSortedLayers; what Pipeline assumes of its layers.)
THEOREM NothingIsLeftOut == Spec => []NothingLeftOut
<1>1. GInv => NothingLeftOut
  <2> SUFFICES ASSUME GInv, phase = "sorted"
               PROVE /\ \A n \in Known : level[n] \in 1..depth
                     /\ \A k \in 1..depth : Layers[k] # {}
                     /\ Block \subseteq Known
    BY DEF NothingLeftOut
  <2>1. \A k \in 1..depth : Layers[k] # {}
    BY DEF GInv, Exhausted, Layers
  <2>2. ASSUME NEW b \in Block PROVE b \in Known
    <3>1. Anchors(b)[1][2] \in parents[b]
      BY AnchorEdges, AnchorsAreEdges
    <3>2. QED BY <3>1 DEF Known, Node
  <2>3. QED BY <2>1, <2>2, EveryNodeHasALayer
<1>2. QED BY <1>1, GraphInvariance, PTL

\* Every block runs after all that it refers to in an expression that Variables()
\* looks into (for_each, image, ports, shell, phase and module inputs are none),
\* and the kinds run in their order: data and variables, the pre stage, stages and
\* modules, the post stage. (GraphTopoSort's edges and GraphResolve's, at the end
\* of the sort.)
THEOREM BlocksRunInOrder == Spec => []RunsInOrder
<1>1. GInv => RunsInOrder
  <2> SUFFICES ASSUME GInv, phase = "sorted" PROVE RunsInOrder
    BY DEF RunsInOrder, ReferencesRunFirst, PreAndPost
  <2>1. ASSUME NEW n \in Node, NEW m \in parents[n] PROVE level[m] < level[n]
    <3>1. n \in Known
      BY <2>1 DEF Known
    <3>2. level[n] # 0
      BY <3>1, EveryNodeHasALayer DEF GInv, TypeOK
    <3>3. QED BY <2>1, <3>2 DEF GInv, Layered
  <2>2. ReferencesRunFirst
    BY <2>1, EdgeOfReference, ReferenceType DEF ReferencesRunFirst, GInv, TypeOK
  <2>3. ASSUME NEW b \in Block, Kind[b] \in {"stage", "module"}
        PROVE level[Pre] < level[b] /\ level[b] < level[Post]
    <3>1. Pre \in parents[b] /\ b \in parents[Post]
      BY <2>3, AnchorEdges, AnchorsAreEdges
    <3>2. QED BY <2>1, <3>1 DEF Node
  <2>4. ASSUME NEW b \in Block, Kind[b] \in {"data", "variable"}
        PROVE level[b] < level[Pre]
    <3>1. b \in parents[Pre]
      BY <2>4, AnchorEdges, AnchorsAreEdges
    <3>2. QED BY <2>1, <3>1 DEF Node
  <2>5. QED BY <2>2, <2>3, <2>4 DEF RunsInOrder, PreAndPost
<1>2. QED BY <1>1, GraphInvariance, PTL
===============================================================================
