----------------------------- MODULE ModulesProofs -----------------------------
(***************************************************************************)
(* Proofs about Modules, for every tree of pipelines, modules and stages:  *)
(* a module that is over has nothing at work in it, at any depth, and one  *)
(* without errors has none at any depth.                                   *)
(***************************************************************************)
EXTENDS Modules, SequenceTheorems, FiniteSetTheorems, WellFoundedInduction, TLAPS

\* Before the child pipeline or the items.
Early == {"source", "for_each", "get", "phases"}

\* Which kind of unit can be where.
Places ==
    \A u \in Unit :
        /\ u = Root => at[u] \in {"blocks", "leaving", "over"}
        /\ at[u] \in {"printing", "running"} => u \in Stage
        /\ at[u] \in {"source", "get", "phases"} => u \in Module
        /\ at[u] \in {"for_each", "items"} => u \in ForEach
        /\ at[u] \in {"blocks", "leaving"} => u \in Module \cup {Root}

\* Nobody has written to the array of a unit that holds on to another's.
Fresh ==
    \A u \in Unit :
        slice[u].array # u \/ at[u] \in Waiting \cup {"source", "get"} =>
            heap[u] = <<>>

\* In a unit that has not come to run anything nothing has begun.
Untouched ==
    \A u \in Unit : at[u] \in Waiting \cup Early =>
        ~failed[u] /\ \A v \in Under[u] : at[v] = "idle"

\* In a unit that is not at work nothing is.
Quiet == \A u \in Unit : ~AtWork(u) => \A v \in Under[u] : ~AtWork(v)

\* Phases are inherited as they should be as long as no module writes into an
\* array that another one made: append finds it full, and copies it.
NoSharedRoom ==
    \A u \in Module :
        at[u] = "phases" /\ Appended(u) < Len(Phases[u]) /\ slice[u].array # u =>
            slice[u].len = Len(heap[slice[u].array])

\* Where a module has come to when it may have handed down its slice.
Open == {"blocks", "leaving"}

\* Only for_each has items, and it runs no pipeline of its own.
Single == \A u \in ForEach : at[u] \notin {"get", "phases"} \cup Open

\* Who holds on to the array of another does so because that one runs, or has
\* run, a pipeline.
Lent ==
    \A u, v \in Unit :
        v # u /\ slice[v].array = u => at[u] \in Open \cup {"over"}

\* A module has collected a beginning of the phases it is to hand down, those of
\* the modules around it at least, and all of them once its pipeline runs.
Collected ==
    \A u \in Unit : at[u] \in {"phases"} \cup Open =>
        /\ slice[u].len <= Len(Handed[u])
        /\ \A k \in 1..slice[u].len : heap[slice[u].array][k] = Handed[u][k]
        /\ at[u] = "phases" => slice[u].len >= Len(Handed[PipelineOf(u)])
        /\ at[u] \in Open => slice[u].len = Len(Handed[u])

\* Until a module appends to it, a slice is the one handed down.
Borrowed ==
    \A u \in Module :
        at[u] = "phases" /\ slice[u].array # u => slice[u] = HandedDown(u)

\* append makes arrays of one and of two places for as many phases.
Tight == \A u \in Unit : slice[u].len <= 2 => Len(heap[slice[u].array]) = slice[u].len

PhaseInv == Single /\ Lent /\ Collected /\ Borrowed /\ Tight /\ PhasesInherited

\* A configuration in which no module with phases has more than two around it.
FewPhases == \A u \in Module \ ForEach :
    Phases[u] # <<>> => Len(Handed[PipelineOf(u)]) <= 2

Shape == TypeOK /\ Places /\ Fresh
TreeInv == Untouched /\ Quiet /\ FailuresComeBack
IInv == Shape /\ TreeInv

-------------------------------------------------------------------------------
(* The tree *)

\* A stage has nothing inside it.
LEMMA StagesAreLeaves == \A u \in Stage : Under[u] = {}
<1>1. \A u \in Stage : Members(u) = {}
  BY UnitsAssumption DEF UnitsAssumption, Members, Unit
<1> QED BY <1>1, TreeAssumption DEF TreeAssumption, Unit

\* A unit that begins, or is skipped, in one that is at work.
LEMMA Begins ==
    ASSUME TypeOK, TreeInv, NEW b \in Unit \ {Root}, NEW to,
           at[b] = "idle", at[Up[b]] \notin Waiting \cup Early \cup {"over"},
           to # "idle", to # "over",
           at' = [at EXCEPT ![b] = to], failed' = failed
    PROVE  TreeInv'
<1> USE UnitsAssumption DEF UnitsAssumption, TreeInv, Unit
<1>1. \A x \in Unit : b \in Under[x] => at[x] \notin Waiting \cup Early
  BY TreeAssumption DEF TreeAssumption, Untouched, AtWork, Waiting, Early
<1>2. \A x \in Unit : b \in Under[x] => AtWork(x)
  BY TreeAssumption DEF TreeAssumption, Quiet, AtWork, Waiting, Early
<1>3. b \notin Under[b]
  BY <1>1 DEF Waiting
<1>4. Untouched'
  <2> SUFFICES ASSUME NEW u \in Unit, at'[u] \in Waiting \cup Early
               PROVE  ~failed'[u] /\ \A v \in Under[u] : at'[v] = "idle"
    BY DEF Untouched, Waiting, Early
  <2>1. at[u] \in Waiting \cup Early
    BY DEF TypeOK, Waiting, Early
  <2>2. b \notin Under[u]
    BY <2>1, <1>1
  <2> QED BY <2>1, <2>2, TreeAssumption DEF Untouched, TypeOK, TreeAssumption
<1>5. Quiet'
  <2> SUFFICES ASSUME NEW u \in Unit, ~AtWork(u)', NEW v \in Under[u]
               PROVE  ~AtWork(v)'
    BY DEF Quiet
  <2>1. ~AtWork(u)
    BY DEF TypeOK, AtWork, Waiting
  <2>2. v # b
    BY <2>1, <1>2
  <2> QED BY <2>1, <2>2, TreeAssumption DEF Quiet, TypeOK, AtWork, TreeAssumption
<1>6. FailuresComeBack'
  BY DEF FailuresComeBack, TypeOK
<1> QED BY <1>4, <1>5, <1>6

\* A unit that was at work still is, and may have an error of its own.
LEMMA GoesOn ==
    ASSUME TypeOK, TreeInv, NEW u \in Unit, NEW to,
           AtWork(u), to \notin Waiting \cup {"over"},
           to \in Early => at[u] \in Early /\ failed' = failed,
           at' = [at EXCEPT ![u] = to],
           \A v \in Unit : v # u => failed'[v] = failed[v],
           failed[u] => failed'[u]
    PROVE  TreeInv'
<1> USE UnitsAssumption, TreeAssumption DEF UnitsAssumption, TreeAssumption, TreeInv, Waiting
<1>1. Untouched'
  BY DEF Untouched, TypeOK, Early, AtWork
<1>2. Quiet'
  BY DEF Quiet, TypeOK, AtWork
<1>3. \A x \in Unit : u \in Under[x] => at[x] # "over"
  BY DEF Quiet, AtWork
<1>4. FailuresComeBack'
  BY <1>3, ZenonT(30) DEF FailuresComeBack, TypeOK
<1> QED BY <1>1, <1>2, <1>4

\* A unit is over when nothing in it is at work, with the errors of all in it.
LEMMA Ends ==
    ASSUME TypeOK, TreeInv, NEW u \in Unit, NEW errors \in BOOLEAN,
           AtWork(u),
           \A m \in Members(u) : ~AtWork(m),
           \A m \in Members(u) : failed[m] => errors,
           at' = [at EXCEPT ![u] = "over"],
           failed' = [failed EXCEPT ![u] = errors]
    PROVE  TreeInv'
<1> USE UnitsAssumption DEF UnitsAssumption, TreeInv, Waiting
<1>1. \A v \in Under[u] : ~AtWork(v)
  BY TreeAssumption DEF TreeAssumption, Quiet, Members
<1>2. u \notin Under[u]
  BY <1>1
<1>3. \A x \in Unit : u \in Under[x] => AtWork(x)
  BY DEF Quiet
<1>4. Untouched'
  BY <1>3, TreeAssumption DEF Untouched, TypeOK, Early, AtWork, TreeAssumption
<1>5. Quiet'
  BY <1>1, TreeAssumption DEF Quiet, TypeOK, AtWork, TreeAssumption
<1>6. ~errors => \A v \in Under[u] : ~failed[v]
  <2> SUFFICES ASSUME ~errors, NEW m \in Members(u)
               PROVE  ~failed[m] /\ \A v \in Under[m] : ~failed[v]
    BY TreeAssumption DEF TreeAssumption
  <2>1. m \in Unit
    BY DEF Members
  <2>2. CASE at[m] = "over"
    BY <2>1, <2>2 DEF FailuresComeBack
  <2>3. CASE at[m] \in Waiting
    BY <2>1, <2>3, TreeAssumption DEF Untouched, TreeAssumption
  <2> QED BY <2>2, <2>3 DEF AtWork
<1>7. FailuresComeBack'
  <2> SUFFICES ASSUME NEW x \in Unit, at'[x] = "over", ~failed'[x], NEW v \in Under[x]
               PROVE  ~failed'[v]
    BY DEF FailuresComeBack
  <2>1. CASE x = u
    BY <2>1, <1>6, <1>2, TreeAssumption DEF TreeAssumption, TypeOK
  <2>2. CASE x # u
    BY <2>2, <1>3, TreeAssumption DEF TreeAssumption, TypeOK, FailuresComeBack, AtWork
  <2> QED BY <2>1, <2>2
<1> QED BY <1>4, <1>5, <1>7

-------------------------------------------------------------------------------
(* The slices *)

LEMMA OneElement ==
    ASSUME NEW S, NEW e \in S
    PROVE  <<e>> \in Seq(S) /\ Len(<<e>>) = 1
  OBVIOUS

LEMMA GrownArray ==
    ASSUME NEW array \in Seq(Place), NEW phase \in Place
    PROVE  /\ Grown(array, phase) \in Seq(Place)
           /\ Len(Grown(array, phase)) = IF array = <<>> THEN 1 ELSE 2 * Len(array)
           /\ \A k \in 1..Len(array) : Grown(array, phase)[k] = array[k]
           /\ Grown(array, phase)[Len(array) + 1] = phase
<1> DEFINE room == IF array = <<>> THEN 0 ELSE Len(array) - 1
           rest == [k \in 1..room |-> Unset]
           longer == array \o <<phase>>
<1>1. room \in Nat /\ Len(array) \in Nat
  BY LenProperties, EmptySeq
<1>2. rest \in Seq(Place) /\ Len(rest) = room
  <2> HIDE DEF room
  <2>1. rest \in [1..room -> Place]
    BY DEF Place
  <2>2. rest \in Seq(Place) /\ DOMAIN rest = 1..room
    BY <1>1, <2>1, SeqDef
  <2> HIDE DEF rest
  <2>3. DOMAIN rest = 1..Len(rest) /\ Len(rest) \in Nat
    BY <2>2, LenProperties
  <2> QED BY <1>1, <2>2, <2>3
<1>3. /\ longer \in Seq(Place) /\ Len(longer) = Len(array) + 1
      /\ \A k \in 1..Len(array) : longer[k] = array[k]
      /\ longer[Len(array) + 1] = phase
  <2>1. <<phase>> \in Seq(Place) /\ Len(<<phase>>) = 1 /\ <<phase>>[1] = phase
    BY OneElement
  <2> QED BY <1>1, <2>1, ConcatProperties
<1>4. (room = 0 /\ array = <<>>) \/ (room = Len(array) - 1 /\ array # <<>>)
  OBVIOUS
<1> HIDE DEF room, rest, longer
<1>5. /\ longer \o rest \in Seq(Place) /\ Len(longer \o rest) = Len(longer) + Len(rest)
      /\ \A k \in 1..Len(longer) : (longer \o rest)[k] = longer[k]
  <2>1. Len(longer) \in Nat /\ Len(rest) \in Nat
    BY <1>1, <1>2, <1>3
  <2>2. /\ longer \o rest \in Seq(Place) /\ Len(longer \o rest) = Len(longer) + Len(rest)
        /\ \A i \in 1..Len(longer) + Len(rest) :
              (longer \o rest)[i] = IF i <= Len(longer) THEN longer[i] ELSE rest[i - Len(longer)]
    BY <1>2, <1>3, ConcatProperties
  <2> QED BY <2>1, <2>2
<1>6. Grown(array, phase) = longer \o rest
  BY DEF Grown, room, rest, longer
<1>7. array = <<>> => Len(array) = 0
  BY EmptySeq
<1>8. Len(longer \o rest) = IF array = <<>> THEN 1 ELSE 2 * Len(array)
  BY <1>1, <1>2, <1>3, <1>4, <1>5, <1>7
<1>9. /\ \A k \in 1..Len(array) : (longer \o rest)[k] = array[k]
      /\ (longer \o rest)[Len(array) + 1] = phase
  BY <1>1, <1>3, <1>5
<1> QED BY <1>5, <1>6, <1>8, <1>9

\* A slice shows no more than its array has, also after append.
LEMMA AppendKeeps ==
    ASSUME TypeOK, Fresh, NEW u \in Unit, NEW phase \in Place,
           at[u] = "phases", Appending(u, phase)
    PROVE  /\ heap' \in [Unit -> Array]
           /\ slice' \in [Unit -> Slice]
           /\ \A v \in Unit : slice'[v].len <= Len(heap'[slice'[v].array])
           /\ \A v \in Unit : slice'[v].array # v => heap'[v] = <<>>
           /\ \A v \in Unit : v # u /\ heap[v] = <<>> => heap'[v] = <<>>
<1> DEFINE s == slice[u]
<1> USE DEF TypeOK, Slice, Array, Place, Appending
<1>0. /\ s.array \in Unit
      /\ s.len \in Nat
      /\ heap[s.array] \in Seq(Place)
      /\ Len(heap[s.array]) \in Nat
      /\ s.len <= Len(heap[s.array])
  OBVIOUS
<1>a. \A v \in Unit : slice[v].array \in Unit /\ slice[v].len \in Nat
  OBVIOUS
<1>b. \A v \in Unit : Len(heap[v]) \in Nat
  OBVIOUS
<1>1. CASE s.len < Len(heap[s.array])
  <2>1. /\ heap' = [heap EXCEPT ![s.array] = [@ EXCEPT ![s.len + 1] = phase]]
        /\ slice' = [slice EXCEPT ![u].len = @ + 1]
    BY <1>1
  <2> DEFINE h == [heap[s.array] EXCEPT ![s.len + 1] = phase]
  <2>2. h \in Seq(Place) /\ Len(h) = Len(heap[s.array])
    <3> HIDE DEF s, TypeOK
    <3>1. s.len + 1 \in 1..Len(heap[s.array])
      BY <1>0, <1>1
    <3> QED BY <1>0, <3>1, ExceptSeq
  <2>3. heap[s.array] # <<>>
    BY <1>1, <1>0
  <2>4. heap' = [heap EXCEPT ![s.array] = h]
    BY <2>1
  <2> HIDE DEF h
  <2>5. \A v \in Unit : Len(heap'[v]) = Len(heap[v])
    BY <2>2, <2>4, <1>0
  <2>6. slice' \in [Unit -> Slice] /\ \A v \in Unit : slice'[v].array = slice[v].array
    <3>1. slice[u] \in Slice /\ slice[u].len + 1 \in Nat
      OBVIOUS
    <3>2. [slice[u] EXCEPT !.len = @ + 1] \in Slice
      BY <3>1
    <3> QED BY <2>1, <3>2
  <2>7. \A v \in Unit : slice'[v].len <= Len(heap'[slice'[v].array])
    <3>1. \A v \in Unit : v # u => slice'[v] = slice[v]
      BY <2>1
    <3>2. slice'[u].len = s.len + 1
      BY <2>1
    <3>3. slice'[u].len <= Len(heap'[slice'[u].array])
      <4> HIDE DEF TypeOK
      <4> QED BY <1>0, <1>1, <2>5, <2>6, <3>2
    <3> QED BY <1>a, <2>5, <2>6, <3>1, <3>3
  <2>8. \A v \in Unit : heap[v] = <<>> => heap'[v] = <<>>
    BY <2>3, <2>4, <1>0
  <2>9. heap' \in [Unit -> Array]
    BY <2>2, <2>4
  <2> QED BY <2>6, <2>7, <2>8, <2>9 DEF Fresh
<1>2. CASE ~(s.len < Len(heap[s.array]))
  <2> DEFINE longer == Grown(heap[s.array], phase)
  <2>1. /\ heap' = [heap EXCEPT ![u] = longer]
        /\ slice' = [slice EXCEPT ![u] = [array |-> u, len |-> s.len + 1]]
    BY <1>2
  <2>2. s.len = Len(heap[s.array])
    BY <1>2, <1>0
  <2>3. longer \in Seq(Place) /\ Len(longer) >= s.len + 1
    <3> HIDE DEF s, TypeOK, Place, Appending
    <3>1. heap[s.array] # <<>> => Len(heap[s.array]) # 0
      BY <1>0, EmptySeq
    <3>2. heap[s.array] = <<>> => Len(heap[s.array]) = 0
      BY EmptySeq
    <3>3. /\ longer \in Seq(Place)
          /\ Len(longer) = IF heap[s.array] = <<>> THEN 1 ELSE 2 * Len(heap[s.array])
      BY <1>0, GrownArray
    <3> HIDE DEF longer
    <3> QED BY <1>0, <2>2, <3>1, <3>2, <3>3
  <2>4. s.array = u \/ heap[u] = <<>>
    BY DEF Fresh
  <2>5. Len(longer) >= Len(heap[u])
    BY <2>2, <2>3, <2>4, <1>0
  <2> HIDE DEF longer, s
  <2>6. \A v \in Unit : Len(heap'[v]) >= Len(heap[v])
    BY <2>1, <2>3, <2>5
  <2>7. slice' \in [Unit -> Slice]
    <3>1. [array |-> u, len |-> s.len + 1] \in Slice
      BY <1>0
    <3> QED BY <2>1, <3>1
  <2>8. \A v \in Unit : slice'[v].len <= Len(heap'[slice'[v].array])
    <3>1. \A v \in Unit : v # u => slice'[v] = slice[v]
      BY <2>1
    <3>2. slice'[u].len <= Len(heap'[slice'[u].array])
      BY <2>1, <2>3
    <3>3. \A v \in Unit : slice[v].array \in Unit /\ slice[v].len \in Nat
      OBVIOUS
    <3>4. \A v \in Unit : heap[v] \in Seq(Place) /\ heap'[v] \in Seq(Place)
      BY <2>1, <2>3
    <3>5. \A v \in Unit : Len(heap[v]) \in Nat /\ Len(heap'[v]) \in Nat
      BY <3>4, LenProperties
    <3>6. \A v \in Unit : slice[v].len <= Len(heap[slice[v].array])
      OBVIOUS
    <3> HIDE DEF TypeOK, Appending
    <3> QED BY <2>6, <3>1, <3>2, <3>3, <3>5, <3>6
  <2>9. heap' \in [Unit -> Array]
    BY <2>1, <2>3
  <2>10. \A v \in Unit : slice'[v].array # v => heap'[v] = <<>>
    BY <2>1 DEF Fresh
  <2>11. \A v \in Unit : v # u => heap'[v] = heap[v]
    BY <2>1
  <2> QED BY <2>7, <2>8, <2>9, <2>10, <2>11
<1> QED BY <1>1, <1>2

\* What BlockCanRun reads is a sequence of phases.
LEMMA ShownIsArray ==
    ASSUME TypeOK, NEW u \in Unit
    PROVE  Shown(slice[u]) \in Array
<1>1. /\ heap[slice[u].array] \in Seq(Place)
      /\ slice[u].len \in Nat
      /\ slice[u].len <= Len(heap[slice[u].array])
  BY DEF TypeOK, Slice, Array
<1>2. \A k \in 1..slice[u].len : k \in 1..Len(heap[slice[u].array])
  BY <1>1, LenProperties
<1> QED BY <1>1, <1>2, SubSeqProperties DEF Shown, Array

-------------------------------------------------------------------------------
(* The steps *)

LEMMA Start == Init => IInv
<1> SUFFICES ASSUME Init PROVE IInv
  OBVIOUS
<1> USE UnitsAssumption DEF UnitsAssumption, Init
<1>1. TypeOK
  BY EmptySeq DEF TypeOK, At, Array, Slice
<1>2. Places /\ Fresh
  BY DEF Places, Fresh, Unit
<1>3. TreeInv
  BY TreeAssumption DEF TreeInv, Untouched, Quiet, FailuresComeBack, AtWork, Waiting, Early, TreeAssumption, Unit
<1> QED BY <1>1, <1>2, <1>3 DEF IInv, Shape

\* Run returns: what has to hold for it is what Ends asks for.
LEMMA ReturnStep ==
    ASSUME IInv, NEW u \in Unit, NEW errors \in BOOLEAN, NEW from \in At,
           Return(u, from, errors), from \notin Waiting \cup {"over"},
           \A m \in Members(u) : ~AtWork(m),
           \A m \in Members(u) : failed[m] => errors
    PROVE  IInv'
<1> USE DEF IInv, Shape, Return, Goto, phaseVars, optionVars
<1>1. TypeOK'
  BY DEF TypeOK, At
<1>2. Places' /\ Fresh'
  BY DEF Places, Fresh, TypeOK, Waiting
<1>3. TreeInv'
  BY Ends DEF AtWork
<1> QED BY <1>1, <1>2, <1>3

\* Before anything has begun in a unit it may return, but only with errors.
LEMMA RefusedStep ==
    ASSUME IInv, NEW u \in Unit, NEW from \in {"source", "for_each", "get"},
           Return(u, from, TRUE)
    PROVE  IInv'
<1>1. \A m \in Members(u) : ~AtWork(m)
  BY TreeAssumption DEF TreeAssumption, IInv, TreeInv, Untouched, Early, AtWork,
                        Waiting, Return, Goto, Members
<1> QED BY <1>1, ReturnStep DEF At, Waiting

\* Module.run goes on to its next step.
LEMMA GotoStep ==
    ASSUME IInv, NEW u \in Unit, NEW from, NEW to,
           Goto(u, from, to), failed' = failed,
           <<from, to>> \in {<<"source", "for_each">>, <<"source", "get">>,
                             <<"for_each", "items">>, <<"get", "phases">>,
                             <<"phases", "blocks">>, <<"blocks", "blocks">>}
    PROVE  TreeInv' /\ at' \in [Unit -> At]
<1>1. to \in At /\ to \notin Waiting \cup {"over"} /\ AtWork(u)
  BY DEF At, Waiting, AtWork, Goto
<1>2. to \in Early => at[u] \in Early
  BY DEF Early, Goto
<1>3. at' = [at EXCEPT ![u] = to] /\ at' \in [Unit -> At]
  BY <1>1 DEF Goto, IInv, Shape, TypeOK
<1>4. TypeOK /\ TreeInv
  BY DEF IInv, Shape
<1> HIDE DEF AtWork
<1>5. TreeInv'
  BY <1>1, <1>2, <1>3, <1>4, GoesOn
<1> QED BY <1>3, <1>5

LEMMA SourceStep == ASSUME IInv, NEW u \in Module, Source(u) PROVE IInv'
<1> USE UnitsAssumption DEF UnitsAssumption, Unit
<1>1. CASE Return(u, "source", TRUE)
  BY <1>1, RefusedStep
<1>2. CASE /\ Goto(u, "source", IF u \in ForEach THEN "for_each" ELSE "get")
           /\ UNCHANGED <<failed, layer, phaseVars, seen>>
  <2>1. TreeInv' /\ at' \in [Unit -> At]
    BY <1>2, GotoStep
  <2> QED BY <1>2, <2>1 DEF Goto, optionVars, phaseVars, IInv, Shape, TypeOK, Places, Fresh, Waiting
<1> QED BY <1>1, <1>2 DEF Source

LEMMA IterateStep == ASSUME IInv, NEW u \in Module, Iterate(u) PROVE IInv'
<1> USE UnitsAssumption DEF UnitsAssumption, Unit
<1>1. CASE Return(u, "for_each", TRUE)
  BY <1>1, RefusedStep
<1>2. CASE /\ Goto(u, "for_each", "items")
           /\ UNCHANGED <<failed, layer, phaseVars, seen>>
  <2>1. TreeInv' /\ at' \in [Unit -> At]
    BY <1>2, GotoStep
  <2> QED BY <1>2, <2>1 DEF Goto, optionVars, phaseVars, IInv, Shape, TypeOK, Places, Fresh, Waiting
<1> QED BY <1>1, <1>2 DEF Iterate

LEMMA JoinStep == ASSUME IInv, NEW u \in Module, JoinItems(u) PROVE IInv'
<1>1. Return(u, "items", Errors(u)) /\ \A m \in Members(u) : ~AtWork(m)
  BY DEF JoinItems, ItemsOver, AtWork
<1>2. Errors(u) \in BOOLEAN /\ \A m \in Members(u) : failed[m] => Errors(u)
  BY DEF Errors, IInv, Shape, TypeOK, Unit
<1> QED BY <1>1, <1>2, ReturnStep DEF At, Waiting, Unit

LEMMA GetStep == ASSUME IInv, NEW u \in Module, Get(u) PROVE IInv'
<1> USE UnitsAssumption DEF UnitsAssumption, Unit
<1>1. CASE Return(u, "get", TRUE)
  BY <1>1, RefusedStep
<1>2. CASE /\ Goto(u, "get", "phases")
           /\ slice' = [slice EXCEPT ![u] = HandedDown(u)]
           /\ UNCHANGED <<failed, layer, heap, seen>>
  <2>1. TreeInv' /\ at' \in [Unit -> At]
    BY <1>2, GotoStep
  <2>2. u \in Module \ {Root} /\ at[u] = "get" /\ heap[u] = <<>>
    BY <1>2 DEF Goto, IInv, Shape, Fresh
  <2>3. PipelineOf(u) \in Unit
    BY <2>2 DEF PipelineOf
  <2>4. TypeOK'
    BY <1>2, <2>1, <2>3 DEF HandedDown, Goto, optionVars, IInv, Shape, TypeOK
  <2>5. Places' /\ Fresh'
    BY <1>2, <2>2 DEF Goto, IInv, Shape, TypeOK, Places, Fresh, Waiting
  <2> QED BY <2>1, <2>4, <2>5 DEF IInv, Shape
<1> QED BY <1>1, <1>2 DEF Get

LEMMA AppendStep == ASSUME IInv, NEW u \in Module, AppendPhase(u) PROVE IInv'
<1> USE UnitsAssumption DEF UnitsAssumption, Unit
<1>1. PICK phase \in Place : Appending(u, phase)
  <2>1. \A k \in DOMAIN Phases[u] : Phases[u][k] \in Place
    BY ElementOfSeq, LenProperties DEF Place
  <2> QED BY <2>1 DEF AppendPhase
<1>2. at[u] = "phases" /\ UNCHANGED <<optionVars, at, failed, layer, seen, exit>>
  BY DEF AppendPhase
<1>3. /\ heap' \in [Unit -> Array]
      /\ slice' \in [Unit -> Slice]
      /\ \A v \in Unit : slice'[v].len <= Len(heap'[slice'[v].array])
      /\ \A v \in Unit : slice'[v].array # v => heap'[v] = <<>>
      /\ \A v \in Unit : v # u /\ heap[v] = <<>> => heap'[v] = <<>>
  BY <1>1, <1>2, AppendKeeps DEF IInv, Shape
<1>4. TypeOK'
  BY <1>2, <1>3 DEF IInv, Shape, TypeOK, optionVars
<1>5. Places' /\ Fresh'
  BY <1>2, <1>3 DEF IInv, Shape, Places, Fresh, Waiting
<1>6. TreeInv'
  BY <1>2 DEF IInv, TreeInv, Untouched, Quiet, FailuresComeBack, AtWork
<1> QED BY <1>4, <1>5, <1>6 DEF IInv, Shape

LEMMA ReadChildStep == ASSUME IInv, NEW u \in Module, ReadChild(u) PROVE IInv'
<1> USE UnitsAssumption DEF UnitsAssumption, Unit, ReadChild
<1>1. TreeInv' /\ at' \in [Unit -> At]
  BY GotoStep
<1> QED BY <1>1 DEF Goto, optionVars, phaseVars, IInv, Shape, TypeOK, Places, Fresh, Waiting

LEMMA DieStep == ASSUME IInv, NEW how \in {"fatal", "panic"}, Die(how) PROVE IInv'
<1>1. UNCHANGED <<optionVars, at, failed, layer, phaseVars, seen>> /\ exit' = how
  BY DEF Die
<1>2. Shape'
  BY <1>1 DEF optionVars, phaseVars, IInv, Shape, TypeOK, Places, Fresh
<1>3. TreeInv'
  BY <1>1 DEF IInv, TreeInv, Untouched, Quiet, FailuresComeBack, AtWork
<1> QED BY <1>2, <1>3 DEF IInv

LEMMA PipelineStepKeeps ==
    ASSUME IInv, NEW u \in Module \cup {Root}, PipelineStep(u) PROVE IInv'
<1> USE UnitsAssumption DEF UnitsAssumption, Unit
<1>1. CASE Refused(u)
  <2>1. Return(u, "blocks", TRUE) /\ \A m \in Members(u) : ~AtWork(m)
    BY <1>1 DEF Refused, Busy
  <2> QED BY <2>1, ReturnStep DEF At, Waiting
<1>2. CASE NextLayer(u)
  <2> USE <1>2 DEF NextLayer
  <2>1. TreeInv' /\ at' \in [Unit -> At]
    BY GotoStep
  <2> QED BY <2>1, SMTT(30) DEF Goto, optionVars, phaseVars, IInv, Shape, TypeOK, Places, Fresh, Waiting
<1>3. CASE PipelineEnds(u)
  <2>1. PICK from \in {"blocks", "leaving"} : Return(u, from, Errors(u))
    BY <1>3 DEF PipelineEnds
  <2>2. \A m \in Members(u) : ~AtWork(m)
    BY <1>3 DEF PipelineEnds, LayerDone, Busy
  <2>3. Errors(u) \in BOOLEAN /\ \A m \in Members(u) : failed[m] => Errors(u)
    BY DEF Errors, IInv, Shape, TypeOK
  <2> QED BY <2>1, <2>2, <2>3, ReturnStep DEF At, Waiting
<1> QED BY <1>1, <1>2, <1>3 DEF PipelineStep

LEMMA StartItemStep ==
    ASSUME IInv, NEW i \in Unit \ {Root}, Up[i] \in ForEach, StartItem(i) PROVE IInv'
<1> USE UnitsAssumption DEF UnitsAssumption, Unit
<1>1. /\ at[i] = "idle"
      /\ at[Up[i]] \notin Waiting \cup Early \cup {"over"}
      /\ at' = [at EXCEPT ![i] = "source"]
      /\ UNCHANGED <<optionVars, exit, failed, layer, phaseVars, seen>>
  BY DEF StartItem, Goto, Waiting, Early
<1>2. i \in Module
  BY DEF Members
<1>3. TreeInv'
  BY <1>1, Begins DEF IInv, Shape
<1>4. Shape'
  BY <1>1, <1>2 DEF optionVars, phaseVars, IInv, Shape, TypeOK, At, Places, Fresh, Waiting
<1> QED BY <1>3, <1>4 DEF IInv

LEMMA DecideStep ==
    ASSUME IInv, NEW b \in Unit \ {Root}, Decide(b) PROVE IInv'
<1> USE UnitsAssumption DEF UnitsAssumption, Unit
<1>1. Up[b] \in Module \cup {Root} /\ at[Up[b]] = "blocks"
  BY DEF Decide
<1>2. seen' \in [Unit -> Array]
  BY <1>1, ShownIsArray DEF Decide, IInv, Shape, TypeOK
<1>3. UNCHANGED <<optionVars, exit, layer, phaseVars>>
  BY DEF Decide, Goto
<1>4. ASSUME NEW to \in {FirstStep(b), "skipped"}, Goto(b, "idle", to), failed' = failed
      PROVE  IInv'
  <2>1. to \in {"source", "printing", "running", "skipped"}
    BY DEF FirstStep
  <2>2. at[b] = "idle" /\ at' = [at EXCEPT ![b] = to]
    BY <1>4 DEF Goto
  <2>3. TreeInv'
    BY <1>1, <1>4, <2>1, <2>2, Begins DEF IInv, Shape, Waiting, Early
  <2>4. to = "source" => b \in Module
    BY DEF FirstStep
  <2>5. to \in {"printing", "running"} => b \in Stage
    BY DEF FirstStep
  <2>6. Shape'
    BY <1>2, <1>3, <1>4, <2>1, <2>2, <2>4, <2>5 DEF optionVars, phaseVars, IInv, Shape, TypeOK, At, Places, Fresh, Waiting
  <2> QED BY <2>3, <2>6 DEF IInv
<1>5. ASSUME Goto(Up[b], "blocks", "leaving"), failed' = [failed EXCEPT ![Up[b]] = TRUE]
      PROVE  IInv'
  <2>1. at' = [at EXCEPT ![Up[b]] = "leaving"]
    BY <1>5 DEF Goto
  <2>2. AtWork(Up[b]) /\ "leaving" \notin Waiting \cup Early \cup {"over"}
    BY <1>1 DEF AtWork, Waiting, Early
  <2>3. \A v \in Unit : v # Up[b] => failed'[v] = failed[v]
    BY <1>1, <1>5 DEF IInv, Shape, TypeOK
  <2>4. failed'[Up[b]]
    BY <1>1, <1>5 DEF IInv, Shape, TypeOK
  <2> HIDE DEF AtWork
  <2>5. TreeInv'
    BY <1>1, <2>1, <2>2, <2>3, <2>4, GoesOn DEF IInv, Shape
  <2>6. Shape'
    BY <1>1, <1>2, <1>3, <1>5, <2>1 DEF optionVars, phaseVars, IInv, Shape, TypeOK, At, Places, Fresh, Waiting
  <2> QED BY <2>5, <2>6 DEF IInv
<1> QED BY <1>4, <1>5 DEF Decide

LEMMA StageEndsStep == ASSUME IInv, NEW b \in Stage, StageEnds(b) PROVE IInv'
<1>1. PICK from \in {"printing", "running"}, errors \in BOOLEAN : Return(b, from, errors)
  BY DEF StageEnds
<1>2. Members(b) = {}
  BY StagesAreLeaves, TreeAssumption DEF TreeAssumption, Unit
<1> QED BY <1>1, <1>2, ReturnStep DEF At, Waiting, Unit

LEMMA Step == IInv /\ [Next]_vars => IInv'
<1> SUFFICES ASSUME IInv, [Next]_vars PROVE IInv'
  OBVIOUS
<1>1. ASSUME NEW u \in Module, ModuleStep(u) PROVE IInv'
  <2>1. CASE PhasesPanic(u) \/ ReadFatal(u)
    BY <2>1, DieStep DEF PhasesPanic, ReadFatal
  <2> QED BY <1>1, <2>1, SourceStep, IterateStep, JoinStep, GetStep, AppendStep, ReadChildStep
          DEF ModuleStep
<1>2. ASSUME NEW u \in Module \cup {Root}, PipelineStep(u) PROVE IInv'
  BY <1>2, PipelineStepKeeps
<1>3. ASSUME NEW b \in Unit \ {Root},
             IF Up[b] \in ForEach THEN StartItem(b) ELSE Decide(b)
      PROVE  IInv'
  BY <1>3, StartItemStep, DecideStep
<1>4. ASSUME NEW b \in Stage, StageEnds(b) PROVE IInv'
  BY <1>4, StageEndsStep
<1>5. CASE UNCHANGED vars
  <2>1. Shape'
    BY <1>5 DEF vars, optionVars, phaseVars, IInv, Shape, TypeOK, Places, Fresh
  <2>2. TreeInv'
    BY <1>5 DEF vars, IInv, TreeInv, Untouched, Quiet, FailuresComeBack, AtWork
  <2> QED BY <2>1, <2>2 DEF IInv
<1> QED BY <1>1, <1>2, <1>3, <1>4, <1>5 DEF Next, Ended

-------------------------------------------------------------------------------
(* The phases handed down *)

LEMMA InclusionWellFounded == IsWellFoundedOn(StrictSubsetOrdering(Unit), SUBSET Unit)
  BY DepthAssumption, FS_StrictSubsetOrderingWellFounded, FS_FiniteSubsetsOfFinite
     DEF DepthAssumption

\* Induction from the root: a set of units has one that is in none of the others.
LEMMA Outermost ==
    ASSUME NEW S \in SUBSET Unit, S # {}
    PROVE  \E u \in S : u = Root \/ Up[u] \notin S
<1> DEFINE rest == {Unit \ Under[u] : u \in S}
<1>1. PICK x \in rest : \A y \in rest : ~(<<y, x>> \in StrictSubsetOrdering(Unit))
  <2>1. rest \subseteq SUBSET Unit /\ rest # {}
    OBVIOUS
  <2> HIDE DEF rest
  <2> QED BY <2>1, InclusionWellFounded, WFMin
<1>2. PICK u \in S : x = Unit \ Under[u]
  OBVIOUS
<1>3. ASSUME u # Root, Up[u] \in S PROVE FALSE
  <2>1. Under[u] \subseteq Under[Up[u]] /\ u \in Under[Up[u]] /\ u \notin Under[u]
    BY <1>3, TreeAssumption, DepthAssumption DEF TreeAssumption, DepthAssumption, Members
  <2>2. <<Unit \ Under[Up[u]], x>> \in StrictSubsetOrdering(Unit)
    BY <1>2, <2>1 DEF StrictSubsetOrdering
  <2> QED BY <1>1, <1>3, <2>2
<1> QED BY <1>3

\* The recursion of Handed comes to an end. A largest set of units, closed under
\* Up, for which there is a solution has all of them.
LEMMA HandedEquation ==
    Handed = [u \in Unit |-> CASE u = Root -> <<>>
                               [] u \in ForEach -> Handed[Up[u]]
                               [] OTHER -> Handed[Up[u]] \o Phases[u]]
<1> USE UnitsAssumption DEF UnitsAssumption
<1> DEFINE F(h, u) == CASE u = Root -> <<>>
                        [] u \in ForEach -> h[Up[u]]
                        [] OTHER -> h[Up[u]] \o Phases[u]
           Closed(A) == \A u \in A : u = Root \/ Up[u] \in A
           Solved(A) == \E h : h = [u \in A |-> F(h, u)]
           solved == {A \in SUBSET Unit : Closed(A) /\ Solved(A)}
           rest == {Unit \ A : A \in solved}
<1>1. {} \in solved
  <2>1. [u \in {} |-> Root] = [u \in {} |-> F([v \in {} |-> Root], u)]
    OBVIOUS
  <2> QED BY <2>1
<1>2. PICK x \in rest : \A y \in rest : ~(<<y, x>> \in StrictSubsetOrdering(Unit))
  <2> HIDE DEF solved
  <2>1. rest \subseteq SUBSET Unit
    OBVIOUS
  <2>2. Unit \ {} \in rest
    BY <1>1
  <2> HIDE DEF rest
  <2> QED BY <2>1, <2>2, InclusionWellFounded, WFMin
<1>3. PICK A \in solved : x = Unit \ A
  OBVIOUS
<1>4. PICK h : h = [u \in A |-> F(h, u)]
  BY <1>3
<1>5. ASSUME A # Unit PROVE FALSE
  <2>1. PICK u \in Unit \ A : u = Root \/ Up[u] \notin Unit \ A
    BY <1>5, Outermost
  <2>2. u = Root \/ Up[u] \in A
    BY <2>1 DEF Unit
  <2> DEFINE B == A \cup {u}
             g == [v \in B |-> IF v = u THEN F(h, u) ELSE h[v]]
  <2>3. \A v \in A : g[v] = h[v] /\ v # u
    BY <2>1
  <2>4. B \in SUBSET Unit /\ Closed(B)
    BY <2>2
  <2>5. \A v \in B : g[v] = F(g, v)
    <3>1. \A v \in A : v = Root \/ Up[v] \in A
      OBVIOUS
    <3>2. \A v \in A : h[v] = F(h, v)
      BY <1>4
    <3>3. \A v \in B : v = Root \/ Up[v] \in A
      BY <2>2, <3>1
    <3>4. \A v \in B : F(g, v) = F(h, v)
      <4> HIDE DEF g
      <4> QED BY <2>3, <3>3
    <3>5. \A v \in B : g[v] = IF v = u THEN F(h, u) ELSE h[v]
      OBVIOUS
    <3> HIDE DEF g, F
    <3> QED BY <3>2, <3>4, <3>5
  <2>6. g = [v \in B |-> F(g, v)]
    <3>1. g = [v \in B |-> g[v]]
      OBVIOUS
    <3> HIDE DEF g, F, B
    <3> QED BY <2>5, <3>1
  <2>7. Unit \ B \in rest
    <3> HIDE DEF g, F
    <3> QED BY <2>4, <2>6
  <2>8. <<Unit \ B, x>> \in StrictSubsetOrdering(Unit)
    BY <1>3, <2>1 DEF StrictSubsetOrdering
  <2> QED BY <1>2, <2>7, <2>8
<1>6. h = [u \in Unit |-> F(h, u)]
  BY <1>4, <1>5
<1>7. Handed = CHOOSE f : f = [u \in Unit |-> F(f, u)]
  BY DEF Handed
<1> HIDE DEF F
<1>8. Handed = [u \in Unit |-> F(Handed, u)]
  BY <1>6, <1>7
<1> QED BY <1>8 DEF F

\* What a module hands down: what its pipeline was handed down, and its own.
LEMMA HandedDownPhases ==
    /\ Handed[Root] = <<>>
    /\ \A u \in Unit : Handed[u] \in Seq(Phase)
    /\ \A u \in Module \ ForEach :
         PipelineOf(u) \in Unit /\ Handed[u] = Handed[PipelineOf(u)] \o Phases[u]
<1> USE UnitsAssumption DEF UnitsAssumption
<1>1. Handed[Root] = <<>>
  BY HandedEquation DEF Unit
<1>2. \A u \in ForEach : Handed[u] = Handed[Up[u]]
  BY HandedEquation DEF Unit
<1>3. \A u \in Unit \ {Root} : u \notin ForEach => Handed[u] = Handed[Up[u]] \o Phases[u]
  BY HandedEquation
<1>4. \A u \in Unit : Handed[u] \in Seq(Phase)
  <2> DEFINE bad == {u \in Unit : Handed[u] \notin Seq(Phase)}
  <2>1. ASSUME bad # {} PROVE FALSE
    <3>1. PICK u \in bad : u = Root \/ Up[u] \notin bad
      <4>1. bad \in SUBSET Unit
        OBVIOUS
      <4> HIDE DEF bad
      <4> QED BY <2>1, <4>1, Outermost
    <3>2. u # Root
      <4>1. Handed[u] \notin Seq(Phase)
        BY <3>1
      <4>2. <<>> \in Seq(Phase)
        BY EmptySeq
      <4> HIDE DEF bad
      <4> QED BY <1>1, <4>1, <4>2, Zenon
    <3>3. Handed[Up[u]] \in Seq(Phase)
      BY <3>1, <3>2 DEF Unit
    <3>4. Handed[Up[u]] \o Phases[u] \in Seq(Phase)
      BY <3>3, ConcatProperties
    <3> QED BY <1>2, <1>3, <3>2, <3>3, <3>4
  <2> QED BY <2>1
<1>5. ASSUME NEW u \in Module \ ForEach
      PROVE  PipelineOf(u) \in Unit /\ Handed[u] = Handed[PipelineOf(u)] \o Phases[u]
  <2>1. u \in Unit \ {Root} /\ Up[u] \in Module \cup {Root}
    BY DEF Unit
  <2>2. CASE Up[u] \in ForEach
    <3>1. Up[u] \in Unit \ {Root} /\ Up[Up[u]] \in Unit
      BY <2>2 DEF Unit
    <3> QED BY <1>2, <1>3, <2>1, <2>2, <3>1 DEF PipelineOf
  <2>3. CASE Up[u] \notin ForEach
    BY <1>3, <2>1, <2>3 DEF PipelineOf, Unit
  <2> QED BY <2>2, <2>3
<1> QED BY <1>1, <1>4, <1>5

-------------------------------------------------------------------------------
(* The phases a module sees *)

LEMMA ConcatLen ==
    ASSUME NEW s \in Seq(Phase), NEW t \in Seq(Phase)
    PROVE  Len(s) \in Nat /\ Len(t) \in Nat /\ Len(s \o t) = Len(s) + Len(t)
  BY ConcatProperties, LenProperties

LEMMA ConcatFront ==
    \A s, t \in Seq(Phase) : \A st : st = s \o t => \A k \in 1..Len(s) : st[k] = s[k]
<1> TAKE s, t \in Seq(Phase)
<1>1. \A i \in 1..Len(s) + Len(t) : (s \o t)[i] = IF i <= Len(s) THEN s[i] ELSE t[i - Len(s)]
  BY ConcatProperties
<1> QED BY <1>1, ConcatLen

LEMMA ConcatBack ==
    \A s, t \in Seq(Phase) :
        \A st : st = s \o t => \A k \in 1..Len(t) : st[Len(s) + k] = t[k]
<1> TAKE s, t \in Seq(Phase)
<1>1. \A i \in 1..Len(s) + Len(t) : (s \o t)[i] = IF i <= Len(s) THEN s[i] ELSE t[i - Len(s)]
  BY ConcatProperties
<1>2. \A k \in 1..Len(t) : /\ Len(s) + k \in 1..Len(s) + Len(t)
                           /\ ~(Len(s) + k <= Len(s)) /\ Len(s) + k - Len(s) = k
  BY ConcatLen
<1> QED BY <1>1, <1>2

\* A unit is at work only in a pipeline that runs, or among items.
LEMMA WorkInside ==
    ASSUME IInv, Single, NEW u \in Unit \ {Root}, AtWork(u)
    PROVE  /\ at[Up[u]] \in Open \cup {"items"} /\ AtWork(Up[u])
           /\ Up[u] \notin ForEach => at[Up[u]] \in Open
<1>1. Up[u] \in Module \cup {Root} /\ Up[u] \in Unit /\ u \in Under[Up[u]]
  BY UnitsAssumption, TreeAssumption DEF UnitsAssumption, TreeAssumption, Members, Unit
<1>2. AtWork(Up[u])
  BY <1>1 DEF IInv, TreeInv, Quiet
<1>3. at[Up[u]] \notin Waiting \cup Early
  BY <1>1 DEF IInv, TreeInv, Untouched, AtWork, Waiting
<1>4. at[Up[u]] \notin {"printing", "running"}
  BY <1>1, UnitsAssumption DEF UnitsAssumption, IInv, Shape, Places
<1>5. at[Up[u]] \in At
  BY <1>1 DEF IInv, Shape, TypeOK
<1>6. at[Up[u]] \in Open \cup {"items"}
  BY <1>2, <1>3, <1>4, <1>5 DEF At, AtWork, Open, Waiting, Early
<1>7. Up[u] \notin ForEach => at[Up[u]] # "items"
  BY <1>1 DEF IInv, Shape, Places
<1> QED BY <1>2, <1>6, <1>7

\* The pipeline around a module, or around the block of an item, is running.
LEMMA PipelineRuns ==
    ASSUME IInv, Single, NEW u \in Module, at[u] \in {"get", "phases"}
    PROVE  /\ u \notin ForEach
           /\ PipelineOf(u) \in Unit /\ PipelineOf(u) # u /\ at[PipelineOf(u)] \in Open
           /\ Handed[u] = Handed[PipelineOf(u)] \o Phases[u]
<1>1. u \notin ForEach /\ u \in Unit \ {Root} /\ AtWork(u)
  BY UnitsAssumption DEF UnitsAssumption, Single, Unit, AtWork, Waiting
<1>2. ASSUME Up[u] \notin ForEach PROVE at[PipelineOf(u)] \in Open
  BY <1>1, <1>2, WorkInside DEF PipelineOf
<1>3. ASSUME Up[u] \in ForEach PROVE at[PipelineOf(u)] \in Open
  <2>1. Up[u] \in Unit \ {Root} /\ AtWork(Up[u])
    BY <1>1, <1>3, WorkInside, UnitsAssumption DEF UnitsAssumption, Unit
  <2>2. Up[Up[u]] \notin ForEach
    BY <1>3, <2>1, UnitsAssumption DEF UnitsAssumption, Members
  <2> QED BY <1>3, <2>1, <2>2, WorkInside DEF PipelineOf
<1>4. at[PipelineOf(u)] \in Open
  BY <1>2, <1>3
<1> QED BY <1>1, <1>4, HandedDownPhases DEF Open

\* How much a module has collected, and what comes next.
LEMMA CollectedSoFar ==
    ASSUME IInv, Single, Collected, NEW u \in Module, at[u] = "phases"
    PROVE  /\ slice[PipelineOf(u)].len = Len(Handed[PipelineOf(u)])
           /\ Len(Handed[PipelineOf(u)]) \in Nat /\ slice[u].len \in Nat
           /\ Len(Handed[u]) = Len(Handed[PipelineOf(u)]) + Len(Phases[u])
           /\ Appended(u) \in 0..Len(Phases[u])
           /\ \A k \in 1..Len(Phases[u]) :
                Handed[u][Len(Handed[PipelineOf(u)]) + k] = Phases[u][k]
<1> DEFINE p == PipelineOf(u)
<1>1. p \in Unit /\ at[p] \in Open /\ Handed[u] = Handed[p] \o Phases[u]
  BY PipelineRuns
<1>2. Handed[p] \in Seq(Phase) /\ Phases[u] \in Seq(Phase) /\ u \in Unit
  BY <1>1, HandedDownPhases, UnitsAssumption DEF UnitsAssumption, Unit
<1>3. slice[u].len \in Nat
  BY <1>2 DEF IInv, Shape, TypeOK, Slice
<1>4. slice[p].len = Len(Handed[p])
  BY <1>1 DEF Collected
<1>5. slice[u].len >= Len(Handed[p]) /\ slice[u].len <= Len(Handed[u])
  BY <1>2 DEF Collected
<1>6. Appended(u) = slice[u].len - slice[p].len
  BY DEF Appended, HandedDown
<1> HIDE DEF p
<1>7. /\ Len(Handed[p]) \in Nat /\ Len(Phases[u]) \in Nat
      /\ Len(Handed[u]) = Len(Handed[p]) + Len(Phases[u])
  BY <1>1, <1>2, ConcatLen
<1>8. \A k \in 1..Len(Phases[u]) : Handed[u][Len(Handed[p]) + k] = Phases[u][k]
  BY <1>1, <1>2, ConcatBack, ZenonT(30)
<1>9. Appended(u) \in 0..Len(Phases[u])
  <2>1. ASSUME NEW whole, NEW len \in Nat, NEW below \in Nat, NEW own \in Nat,
               whole = below + own, len >= below, len <= whole
        PROVE  len - below \in 0..own
    BY <2>1
  <2> QED BY <1>3, <1>4, <1>5, <1>6, <1>7, <2>1, Zenon
<1> QED BY <1>3, <1>4, <1>7, <1>8, <1>9 DEF p

\* A unit goes on to another place, and what it sees is right if it begins.
LEMMA PlaceStep ==
    ASSUME IInv, PhaseInv, NEW u \in Unit, NEW to,
           at' = [at EXCEPT ![u] = to], UNCHANGED phaseVars,
           to \notin {"idle", "phases"},
           at[u] \in Open \cup {"over"} => to \in Open \cup {"over"},
           to \in {"get"} \cup Open => u \notin ForEach,
           to \in Open => at[u] \in Open \/ (at[u] = "phases" /\ slice[u].len = Len(Handed[u])),
           \A b \in Stage \cup Module : Up[b] \notin ForEach /\ at'[b] # "idle" => seen'[b] = Handed[Up[b]]
    PROVE  PhaseInv'
<1>1. at \in [Unit -> At] /\ slice' = slice /\ heap' = heap
  BY DEF IInv, Shape, TypeOK, phaseVars
<1>2. at'[u] = to /\ \A v \in Unit : v # u => at'[v] = at[v]
  BY <1>1
<1>3. Single' /\ Lent'
  BY <1>1, <1>2, UnitsAssumption DEF UnitsAssumption, Unit, PhaseInv, Single, Lent
<1>4. Collected'
  BY <1>1, <1>2 DEF PhaseInv, Collected, Open, PipelineOf
<1>5. Borrowed'
  BY <1>1, <1>2 DEF PhaseInv, Borrowed, HandedDown, PipelineOf, Unit
<1>6. Tight'
  BY <1>1 DEF PhaseInv, Tight
<1>7. PhasesInherited'
  BY DEF PhasesInherited
<1> QED BY <1>3, <1>4, <1>5, <1>6, <1>7 DEF PhaseInv

\* The phases of a module start out as those it was handed down.
LEMMA GetPhases ==
    ASSUME IInv, PhaseInv, NEW u \in Module, Goto(u, "get", "phases"),
           slice' = [slice EXCEPT ![u] = HandedDown(u)], UNCHANGED <<heap, seen>>
    PROVE  PhaseInv'
<1> DEFINE p == PipelineOf(u)
<1>1. /\ u \notin ForEach /\ p \in Unit /\ p # u /\ at[p] \in Open
      /\ Handed[u] = Handed[p] \o Phases[u] /\ u \in Unit
  BY PipelineRuns DEF Goto, PhaseInv, Unit
<1>2. /\ at \in [Unit -> At] /\ slice \in [Unit -> Slice]
      /\ at[u] = "get" /\ at' = [at EXCEPT ![u] = "phases"]
  BY DEF IInv, Shape, TypeOK, Goto
<1>3. /\ slice'[u] = slice[p] /\ \A v \in Unit : v # u => slice'[v] = slice[v]
      /\ at'[u] = "phases" /\ \A v \in Unit : v # u => at'[v] = at[v]
      /\ heap' = heap /\ seen' = seen
  BY <1>1, <1>2 DEF HandedDown
<1> HIDE DEF p
<1>4. Single' /\ Tight'
  <2>1. Single'
    BY <1>1, <1>3, UnitsAssumption DEF UnitsAssumption, Unit, PhaseInv, Single
  <2>2. Tight'
    BY <1>1, <1>3 DEF PhaseInv, Tight
  <2> QED BY <2>1, <2>2
<1>5. Lent'
  <2> SUFFICES ASSUME NEW w \in Unit, NEW v \in Unit, v # w, slice'[v].array = w
               PROVE  at'[w] \in Open \cup {"over"}
    BY DEF Lent
  <2>1. at[w] \in Open \cup {"over"}
    BY <1>1, <1>3 DEF PhaseInv, Lent
  <2> QED BY <1>2, <1>3, <2>1 DEF Open
<1>6. Collected'
  <2>1. /\ Handed[p] \in Seq(Phase) /\ Phases[u] \in Seq(Phase)
    BY <1>1, HandedDownPhases, UnitsAssumption DEF UnitsAssumption
  <2>2. Len(Handed[p]) \in Nat /\ Len(Handed[u]) >= Len(Handed[p])
    <3>1. /\ Len(Handed[p]) \in Nat /\ Len(Phases[u]) \in Nat
          /\ Len(Handed[u]) = Len(Handed[p]) + Len(Phases[u])
      BY <1>1, <2>1, ConcatLen
    <3>2. \A m, n \in Nat : m + n >= m
      OBVIOUS
    <3> QED BY <3>1, <3>2, Zenon
  <2>2a. \A k \in 1..Len(Handed[p]) : Handed[u][k] = Handed[p][k]
    BY <1>1, <2>1, ConcatFront, ZenonT(30)
  <2>3. /\ slice[p].len = Len(Handed[p])
        /\ \A k \in 1..slice[p].len : heap[slice[p].array][k] = Handed[p][k]
    BY <1>1 DEF PhaseInv, Collected
  <2>4. slice'[u].len = Len(Handed[PipelineOf(u)])
    BY <1>3, <2>3 DEF p
  <2> SUFFICES ASSUME NEW v \in Unit, at'[v] \in {"phases"} \cup Open
               PROVE  /\ slice'[v].len <= Len(Handed[v])
                      /\ \A k \in 1..slice'[v].len : heap'[slice'[v].array][k] = Handed[v][k]
                      /\ at'[v] = "phases" => slice'[v].len >= Len(Handed[PipelineOf(v)])
                      /\ at'[v] \in Open => slice'[v].len = Len(Handed[v])
    BY DEF Collected, PipelineOf
  <2>5. CASE v = u
    BY <1>3, <2>2, <2>2a, <2>3, <2>4, <2>5 DEF Open
  <2>6. CASE v # u
    BY <1>3, <2>6 DEF PhaseInv, Collected
  <2> QED BY <2>5, <2>6
<1>7. Borrowed'
  <2> SUFFICES ASSUME NEW v \in Module, at'[v] = "phases", slice'[v].array # v
               PROVE  slice'[v] = slice'[PipelineOf(v)]
    BY DEF Borrowed, HandedDown, PipelineOf
  <2>1. CASE v = u
    BY <1>1, <1>3, <2>1 DEF p
  <2>2. CASE v # u
    <3>1. at[v] = "phases" /\ slice[v].array # v /\ v \in Unit
      BY <1>3, <2>2 DEF Unit
    <3>2. PipelineOf(v) \in Unit /\ at[PipelineOf(v)] \in Open
      BY <3>1, PipelineRuns DEF PhaseInv
    <3>3. PipelineOf(v) # u
      BY <1>2, <3>2 DEF Open
    <3> QED BY <1>3, <2>2, <3>1, <3>2, <3>3 DEF PhaseInv, Borrowed, HandedDown
  <2> QED BY <2>1, <2>2
<1>8. PhasesInherited'
  BY <1>2, <1>3 DEF PhaseInv, PhasesInherited, Unit
<1> QED BY <1>4, <1>5, <1>6, <1>7, <1>8 DEF PhaseInv

\* What append leaves in the array that the slice shows afterwards, if it does
\* not write into the array of another unit.
LEMMA AppendOwn ==
    ASSUME TypeOK, Tight, NEW u \in Unit, NEW phase \in Place, Appending(u, phase),
           slice[u].array # u => slice[u].len = Len(heap[slice[u].array])
    PROVE  \E arr \in Seq(Place) :
             /\ heap' = [heap EXCEPT ![u] = arr]
             /\ slice' = [slice EXCEPT ![u] = [array |-> u, len |-> slice[u].len + 1]]
             /\ \A k \in 1..slice[u].len : arr[k] = heap[slice[u].array][k]
             /\ arr[slice[u].len + 1] = phase
             /\ slice[u].len + 1 <= 2 => Len(arr) = slice[u].len + 1
<1> DEFINE a == slice[u].array
           len == slice[u].len
<1>1. /\ slice \in [Unit -> Slice] /\ slice[u] = [array |-> a, len |-> len]
      /\ a \in Unit /\ len \in Nat /\ heap[a] \in Seq(Place) /\ heap[u] \in Seq(Place)
      /\ len <= Len(heap[a])
  BY DEF TypeOK, Slice, Array
<1>2. Len(heap[a]) \in Nat
  BY <1>1, LenProperties
<1>3. len <= 2 => Len(heap[a]) = len
  BY DEF Tight
<1>4. CASE len < Len(heap[a])
  <2>1. /\ heap' = [heap EXCEPT ![a] = [@ EXCEPT ![len + 1] = phase]]
        /\ slice' = [slice EXCEPT ![u].len = @ + 1]
    BY <1>4 DEF Appending
  <2>2. a = u
    BY <1>1, <1>2, <1>4
  <2> DEFINE arr == [heap[u] EXCEPT ![len + 1] = phase]
  <2>3. heap' = [heap EXCEPT ![u] = arr]
    BY <2>1, <2>2
  <2>4. [slice[u] EXCEPT !.len = @ + 1] = [array |-> u, len |-> len + 1]
    BY <1>1, <2>2 DEF Slice
  <2>5. slice' = [slice EXCEPT ![u] = [array |-> u, len |-> len + 1]]
    BY <2>1, <2>4
  <2> HIDE DEF a, len
  <2>6. len + 1 \in 1..Len(heap[u])
    BY <1>1, <1>2, <1>4, <2>2
  <2>7. /\ arr \in Seq(Place)
        /\ \A k \in 1..Len(heap[u]) : arr[k] = IF k = len + 1 THEN phase ELSE heap[u][k]
    BY <1>1, <2>6, ExceptSeq
  <2> HIDE DEF arr
  <2>8. \A k \in 1..len : arr[k] = heap[a][k]
    <3>1. \A k \in 1..len : k \in 1..Len(heap[u]) /\ k # len + 1
      BY <1>1, <1>2, <1>4, <2>2
    <3> QED BY <2>2, <2>7, <3>1
  <2>9. arr[len + 1] = phase
    BY <2>6, <2>7
  <2>10. ~(len + 1 <= 2)
    BY <1>1, <1>2, <1>3, <1>4
  <2> QED BY <2>3, <2>5, <2>7, <2>8, <2>9, <2>10 DEF a, len
<1>5. CASE ~(len < Len(heap[a]))
  <2> DEFINE arr == Grown(heap[a], phase)
  <2>1. /\ heap' = [heap EXCEPT ![u] = arr]
        /\ slice' = [slice EXCEPT ![u] = [array |-> u, len |-> len + 1]]
    BY <1>5 DEF Appending
  <2>2. len = Len(heap[a])
    BY <1>1, <1>2, <1>5
  <2> HIDE DEF a, len
  <2>3. /\ arr \in Seq(Place)
        /\ Len(arr) = IF heap[a] = <<>> THEN 1 ELSE 2 * Len(heap[a])
    BY <1>1, GrownArray
  <2>4. (\A k \in 1..len : arr[k] = heap[a][k]) /\ arr[len + 1] = phase
    BY <1>1, <2>2, GrownArray
  <2>5. heap[a] = <<>> <=> len = 0
    BY <1>1, <2>2, EmptySeq
  <2> HIDE DEF arr
  <2>6. len + 1 <= 2 => Len(arr) = len + 1
    BY <1>1, <2>2, <2>3, <2>5
  <2> QED BY <2>1, <2>3, <2>4, <2>6 DEF a, len
<1> QED BY <1>4, <1>5

\* A phase of its own joins those a module was handed down, and changes what
\* nobody else sees.
LEMMA AppendPhases ==
    ASSUME IInv, PhaseInv, NoSharedRoom, NEW u \in Module, AppendPhase(u)
    PROVE  PhaseInv'
<1> DEFINE p == PipelineOf(u)
           len == slice[u].len
           phase == Phases[u][Appended(u) + 1]
<1>1. /\ u \in Unit /\ at[u] = "phases" /\ at' = at /\ seen' = seen
      /\ Appended(u) + 1 \in DOMAIN Phases[u] /\ Appending(u, phase)
  BY DEF AppendPhase, Unit
<1>2. /\ slice[p].len = Len(Handed[p]) /\ Len(Handed[p]) \in Nat /\ len \in Nat
      /\ Len(Handed[u]) = Len(Handed[p]) + Len(Phases[u])
      /\ Appended(u) \in 0..Len(Phases[u])
      /\ Appended(u) = len - slice[p].len
  BY <1>1, CollectedSoFar DEF PhaseInv, Appended, HandedDown
<1>3. \A k \in 1..Len(Phases[u]) : Handed[u][Len(Handed[p]) + k] = Phases[u][k]
  BY <1>1, CollectedSoFar DEF PhaseInv
<1>4. Phases[u] \in Seq(Phase) /\ Len(Phases[u]) \in Nat /\ Appended(u) + 1 \in 1..Len(Phases[u])
  BY <1>1, LenProperties, UnitsAssumption DEF UnitsAssumption
<1>5. phase \in Place
  BY <1>4, ElementOfSeq DEF Place
<1>6. Appended(u) < Len(Phases[u])
  BY <1>2, <1>4
<1>7. PICK arr \in Seq(Place) :
        /\ heap' = [heap EXCEPT ![u] = arr]
        /\ slice' = [slice EXCEPT ![u] = [array |-> u, len |-> len + 1]]
        /\ \A k \in 1..len : arr[k] = heap[slice[u].array][k]
        /\ arr[len + 1] = phase
        /\ len + 1 <= 2 => Len(arr) = len + 1
  BY <1>1, <1>5, <1>6, AppendOwn DEF NoSharedRoom, PhaseInv, IInv, Shape
<1>8. Handed[u][len + 1] = phase
  <2>1. Handed[u][Len(Handed[p]) + (Appended(u) + 1)] = phase
    BY <1>3, <1>4, Zenon
  <2>2. \A l, h \in Nat : h + ((l - h) + 1) = l + 1
    OBVIOUS
  <2>3. Appended(u) = len - Len(Handed[p])
    BY <1>2
  <2>4. Len(Handed[p]) + (Appended(u) + 1) = len + 1
    BY <1>2, <2>2, <2>3, Zenon
  <2> QED BY <2>1, <2>4, Zenon
<1>9. len + 1 <= Len(Handed[u]) /\ len + 1 >= Len(Handed[p])
  <2>1. ASSUME NEW l \in Nat, NEW h \in Nat, NEW s, NEW n, NEW w, NEW o \in Nat,
               s = h, n = l - s, w = h + o, n + 1 \in 1..o
        PROVE  l + 1 <= w /\ l + 1 >= h
    BY <2>1
  <2> QED BY <1>2, <1>4, <2>1, Zenon
<1> HIDE DEF p, len, phase
<1>10. /\ slice \in [Unit -> Slice] /\ heap \in [Unit -> Array]
       /\ slice'[u] = [array |-> u, len |-> len + 1] /\ heap'[u] = arr
       /\ \A v \in Unit : v # u => slice'[v] = slice[v] /\ heap'[v] = heap[v]
  BY <1>1, <1>7 DEF IInv, Shape, TypeOK
<1>11. \A v \in Unit : v # u => slice[v].array # u
  BY <1>1 DEF PhaseInv, Lent, Open
<1>12. \A v \in Unit : v # u =>
         slice'[v] = slice[v] /\ heap'[slice'[v].array] = heap[slice[v].array]
  <2>1. \A v \in Unit : slice[v].array \in Unit
    BY <1>10 DEF Slice
  <2> QED BY <1>10, <1>11, <2>1
<1>13. Single' /\ Lent'
  BY <1>1, <1>10 DEF PhaseInv, Single, Lent
<1>14. Tight'
  <2> SUFFICES ASSUME NEW v \in Unit, slice'[v].len <= 2
               PROVE  Len(heap'[slice'[v].array]) = slice'[v].len
    BY DEF Tight
  <2>1. CASE v = u
    BY <1>7, <1>10, <2>1
  <2>2. CASE v # u
    BY <1>12, <2>2 DEF PhaseInv, Tight
  <2> QED BY <2>1, <2>2
<1>15. Borrowed'
  <2> SUFFICES ASSUME NEW v \in Module, at[v] = "phases", slice'[v].array # v
               PROVE  slice'[v] = slice'[PipelineOf(v)]
    BY <1>1 DEF Borrowed, HandedDown, PipelineOf
  <2>1. v # u /\ v \in Unit
    BY <1>10 DEF Unit
  <2>2. PipelineOf(v) \in Unit /\ PipelineOf(v) # u
    BY <1>1, PipelineRuns DEF PhaseInv, Open
  <2> QED BY <1>10, <2>1, <2>2 DEF PhaseInv, Borrowed, HandedDown
<1>16. Collected'
  <2> SUFFICES ASSUME NEW v \in Unit, at[v] \in {"phases"} \cup Open
               PROVE  /\ slice'[v].len <= Len(Handed[v])
                      /\ \A k \in 1..slice'[v].len : heap'[slice'[v].array][k] = Handed[v][k]
                      /\ at[v] = "phases" => slice'[v].len >= Len(Handed[PipelineOf(v)])
                      /\ at[v] \in Open => slice'[v].len = Len(Handed[v])
    BY <1>1 DEF Collected, PipelineOf
  <2>1. CASE v = u
    <3>1. slice'[v].len = len + 1 /\ heap'[slice'[v].array] = arr
      BY <1>10, <2>1
    <3>2. \A k \in 1..len : arr[k] = Handed[u][k]
      BY <1>1, <1>7 DEF PhaseInv, Collected, len
    <3>3. \A k \in 1..(len + 1) : k \in 1..len \/ k = len + 1
      BY <1>2
    <3>4. \A k \in 1..(len + 1) : arr[k] = Handed[u][k]
      BY <1>7, <1>8, <3>2, <3>3, Zenon
    <3> QED BY <1>1, <1>9, <2>1, <3>1, <3>4 DEF p, Open
  <2>2. CASE v # u
    BY <1>12, <2>2 DEF PhaseInv, Collected
  <2> QED BY <2>1, <2>2
<1>17. PhasesInherited'
  BY <1>1 DEF PhaseInv, PhasesInherited
<1> QED BY <1>13, <1>14, <1>15, <1>16, <1>17 DEF PhaseInv

\* What BlockCanRun reads for a block of a pipeline that runs.
LEMMA ReadsPhases ==
    ASSUME IInv, PhaseInv, NEW u \in Unit, at[u] = "blocks"
    PROVE  u \notin ForEach /\ Shown(slice[u]) = Handed[u]
<1> DEFINE array == heap[slice[u].array]
<1>1. u \notin ForEach
  BY DEF PhaseInv, Single, Open
<1>2. /\ slice[u].len = Len(Handed[u])
      /\ \A k \in 1..slice[u].len : array[k] = Handed[u][k]
  BY DEF PhaseInv, Collected, Open
<1>3. Handed[u] \in Seq(Phase) /\ Len(Handed[u]) \in Nat
  BY HandedDownPhases, LenProperties
<1>4. \A k \in 1..Len(Handed[u]) : Handed[u][k] \in Phase
  BY <1>3, ElementOfSeq
<1> HIDE DEF array
<1>5. \A k \in 1..Len(Handed[u]) : array[k] = Handed[u][k] /\ array[k] \in Phase
  BY <1>2, <1>4
<1> DEFINE shown == SubSeq(array, 1, Len(Handed[u]))
<1>6. /\ shown \in Seq(Phase) /\ Len(shown) = Len(Handed[u])
      /\ \A k \in 1..Len(Handed[u]) : shown[k] = array[k]
  <2>1. /\ shown \in Seq(Phase)
        /\ Len(shown) = IF 1 <= Len(Handed[u]) THEN Len(Handed[u]) - 1 + 1 ELSE 0
        /\ \A k \in 1..Len(Handed[u]) - 1 + 1 : shown[k] = array[1 + k - 1]
    BY <1>3, <1>5, SubSeqProperties
  <2> HIDE DEF shown
  <2> QED BY <1>3, <2>1
<1> HIDE DEF shown
<1>7. shown = Handed[u]
  BY <1>3, <1>5, <1>6, SeqEqual
<1> QED BY <1>1, <1>2, <1>7 DEF Shown, shown, array

LEMMA PhaseStart == Init => PhaseInv
<1> SUFFICES ASSUME Init PROVE PhaseInv
  OBVIOUS
<1> USE UnitsAssumption DEF UnitsAssumption, Init
<1>1. \A u \in Unit : /\ heap[u] = <<>> /\ slice[u] = [array |-> u, len |-> 0]
                      /\ at[u] = IF u = Root THEN "blocks" ELSE "idle"
  OBVIOUS
<1>2. Len(<<>>) = 0 /\ Len(Handed[Root]) = 0
  BY EmptySeq, HandedDownPhases
<1>3. Single /\ Lent /\ Borrowed /\ PhasesInherited
  BY <1>1 DEF Single, Lent, Borrowed, PhasesInherited, Open, Unit
<1>4. Tight
  BY <1>1, <1>2 DEF Tight
<1>5. Collected
  BY <1>1, <1>2 DEF Collected, Open
<1> QED BY <1>3, <1>4, <1>5 DEF PhaseInv

\* A unit returns, or goes on, without having to do with phases.
LEMMA GoesElsewhere ==
    ASSUME IInv, PhaseInv, NEW u \in Unit, NEW from \in At, NEW to,
           Goto(u, from, to), UNCHANGED <<phaseVars, seen>>,
           from # "idle", to \notin {"idle", "phases"},
           from \in Open \cup {"over"} => to \in Open \cup {"over"},
           to = "get" => u \notin ForEach,
           to \in Open => from \in Open \/ (from = "phases" /\ slice[u].len = Len(Handed[u]))
    PROVE  PhaseInv'
<1>1. at[u] = from /\ at' = [at EXCEPT ![u] = to] /\ UNCHANGED phaseVars /\ seen' = seen
  BY DEF Goto
<1>2. \A b \in Stage \cup Module : Up[b] \notin ForEach /\ at'[b] # "idle" => seen'[b] = Handed[Up[b]]
  BY <1>1 DEF IInv, Shape, TypeOK, PhaseInv, PhasesInherited, Unit
<1>3. to \in Open => u \notin ForEach
  BY <1>1 DEF PhaseInv, Single
<1> QED BY <1>1, <1>2, <1>3, PlaceStep

LEMMA ModulePhases ==
    ASSUME IInv, PhaseInv, NoSharedRoom, NEW u \in Module, ModuleStep(u)
    PROVE  PhaseInv'
<1> USE DEF At, Open
<1>1. u \in Unit
  BY DEF Unit
<1>2. ASSUME NEW from \in {"source", "for_each", "items", "get"}, NEW errors, Return(u, from, errors)
      PROVE  PhaseInv'
  BY <1>1, <1>2, GoesElsewhere DEF Return
<1>3. CASE Source(u)
  BY <1>1, <1>2, <1>3, GoesElsewhere DEF Source
<1>4. CASE Iterate(u)
  BY <1>1, <1>2, <1>4, GoesElsewhere DEF Iterate
<1>5. CASE JoinItems(u)
  BY <1>2, <1>5 DEF JoinItems
<1>6. CASE Get(u)
  BY <1>2, <1>6, GetPhases DEF Get
<1>7. CASE AppendPhase(u)
  BY <1>7, AppendPhases
<1>8. CASE ReadChild(u)
  <2>1. Goto(u, "phases", "blocks") /\ UNCHANGED <<phaseVars, seen>> /\ at[u] = "phases"
    BY <1>8 DEF ReadChild, Goto
  <2>2. /\ slice[PipelineOf(u)].len = Len(Handed[PipelineOf(u)])
        /\ Len(Handed[PipelineOf(u)]) \in Nat /\ slice[u].len \in Nat
        /\ Len(Handed[u]) = Len(Handed[PipelineOf(u)]) + Len(Phases[u])
    BY <2>1, CollectedSoFar DEF PhaseInv
  <2>3. slice[u].len - slice[PipelineOf(u)].len = Len(Phases[u])
    BY <1>8 DEF ReadChild, Appended, HandedDown
  <2>4. slice[u].len = Len(Handed[u])
    <3>1. \A l, h \in Nat : h + (l - h) = l
      OBVIOUS
    <3> QED BY <2>2, <2>3, <3>1, Zenon
  <2> QED BY <1>1, <2>1, <2>4, GoesElsewhere
<1>9. CASE PhasesPanic(u) \/ ReadFatal(u)
  BY <1>9 DEF PhasesPanic, ReadFatal, Die, phaseVars, PhaseInv, Single, Lent, Collected,
              Borrowed, HandedDown, PipelineOf, Tight, PhasesInherited
<1> QED BY <1>3, <1>4, <1>5, <1>6, <1>7, <1>8, <1>9 DEF ModuleStep

LEMMA PipelinePhases ==
    ASSUME IInv, PhaseInv, NEW u \in Module \cup {Root}, PipelineStep(u)
    PROVE  PhaseInv'
<1> USE DEF At, Open
<1>1. u \in Unit
  BY DEF Unit
<1>2. ASSUME NEW from \in {"blocks", "leaving"}, NEW errors, Return(u, from, errors)
      PROVE  PhaseInv'
  BY <1>1, <1>2, GoesElsewhere DEF Return
<1>3. CASE NextLayer(u)
  BY <1>1, <1>3, GoesElsewhere DEF NextLayer
<1> QED BY <1>2, <1>3 DEF PipelineStep, Refused, PipelineEnds

\* BlockCanRun of a block reads the phases of the modules around it.
LEMMA DecidePhases ==
    ASSUME IInv, PhaseInv, NEW b \in Unit \ {Root}, Decide(b)
    PROVE  PhaseInv'
<1>1. /\ Up[b] \in Unit /\ Up[b] \in Module \cup {Root} /\ b \in Unit
      /\ at[Up[b]] = "blocks" /\ UNCHANGED phaseVars
      /\ seen' = [seen EXCEPT ![b] = Shown(slice[Up[b]])]
  BY UnitsAssumption DEF UnitsAssumption, Decide, Unit
<1>2. Up[b] \notin ForEach /\ Shown(slice[Up[b]]) = Handed[Up[b]]
  BY <1>1, ReadsPhases
<1>3. seen \in [Unit -> Array] /\ at \in [Unit -> At]
  BY DEF IInv, Shape, TypeOK
<1>4. seen'[b] = Handed[Up[b]] /\ \A c \in Unit : c # b => seen'[c] = seen[c]
  BY <1>1, <1>2, <1>3
<1>5. ASSUME NEW to \in {FirstStep(b), "skipped"}, Goto(b, "idle", to)
      PROVE  PhaseInv'
  <2>1. at[b] = "idle" /\ at' = [at EXCEPT ![b] = to]
    BY <1>5 DEF Goto
  <2>2. to \notin {"idle", "phases", "get"} \cup Open
    BY DEF FirstStep, Open
  <2>3. \A c \in Stage \cup Module : Up[c] \notin ForEach /\ at'[c] # "idle" => seen'[c] = Handed[Up[c]]
    BY <1>3, <1>4, <2>1 DEF PhaseInv, PhasesInherited, Unit
  <2> QED BY <1>1, <2>1, <2>2, <2>3, PlaceStep DEF Open
<1>6. ASSUME Goto(Up[b], "blocks", "leaving") PROVE PhaseInv'
  <2>1. at' = [at EXCEPT ![Up[b]] = "leaving"]
    BY <1>6 DEF Goto
  <2>2. \A c \in Stage \cup Module : Up[c] \notin ForEach /\ at'[c] # "idle" => seen'[c] = Handed[Up[c]]
    BY <1>1, <1>3, <1>4, <2>1 DEF PhaseInv, PhasesInherited, Unit
  <2>3. ASSUME NEW to \in {"leaving"}, at' = [at EXCEPT ![Up[b]] = to] PROVE PhaseInv'
    BY <1>1, <1>2, <2>2, <2>3, PlaceStep DEF Open
  <2> QED BY <2>1, <2>3
<1> QED BY <1>5, <1>6 DEF Decide

LEMMA PhaseStep == IInv /\ PhaseInv /\ NoSharedRoom /\ [Next]_vars => PhaseInv'
<1> SUFFICES ASSUME IInv, PhaseInv, NoSharedRoom, [Next]_vars PROVE PhaseInv'
  OBVIOUS
<1>1. ASSUME NEW i \in Unit \ {Root}, Up[i] \in ForEach, StartItem(i) PROVE PhaseInv'
  <2>1. /\ at[i] = "idle" /\ at' = [at EXCEPT ![i] = "source"]
        /\ UNCHANGED phaseVars /\ seen' = seen
    BY <1>1 DEF StartItem, Goto
  <2>2. \A c \in Stage \cup Module : Up[c] \notin ForEach /\ at'[c] # "idle" => seen'[c] = Handed[Up[c]]
    BY <1>1, <2>1 DEF IInv, Shape, TypeOK, PhaseInv, PhasesInherited, Unit
  <2>3. ASSUME NEW to \in {"source"}, at' = [at EXCEPT ![i] = to] PROVE PhaseInv'
    BY <2>1, <2>2, <2>3, PlaceStep DEF Open
  <2> QED BY <2>1, <2>3
<1>2. ASSUME NEW b \in Stage, StageEnds(b) PROVE PhaseInv'
  <2>1. PICK from \in {"printing", "running"}, errors \in BOOLEAN : Return(b, from, errors)
    BY <1>2 DEF StageEnds
  <2> QED BY <2>1, GoesElsewhere DEF Return, Unit, At, Open
<1>3. CASE UNCHANGED vars
  BY <1>3 DEF vars, optionVars, phaseVars, PhaseInv, Single, Lent, Collected,
              Borrowed, HandedDown, PipelineOf, Tight, PhasesInherited
<1> QED BY <1>1, <1>2, <1>3, ModulePhases, PipelinePhases, DecidePhases DEF Next, Ended

\* With few phases around it, no module finds room in the array of another.
LEMMA FewPhasesNoRoom == FewPhases /\ IInv /\ PhaseInv => NoSharedRoom
<1> SUFFICES ASSUME FewPhases, IInv, PhaseInv, NEW u \in Module, at[u] = "phases",
                    Appended(u) < Len(Phases[u]), slice[u].array # u
             PROVE  slice[u].len = Len(heap[slice[u].array])
  BY DEF NoSharedRoom
<1> DEFINE p == PipelineOf(u)
<1>1. slice[u] = slice[p]
  BY DEF PhaseInv, Borrowed, HandedDown
<1>2. slice[p].len = Len(Handed[p]) /\ u \notin ForEach /\ Appended(u) \in 0..Len(Phases[u])
  BY CollectedSoFar, PipelineRuns DEF PhaseInv
<1>3. Phases[u] # <<>>
  BY <1>2, EmptySeq
<1>4. slice[u].len <= 2
  BY <1>1, <1>2, <1>3 DEF FewPhases
<1> QED BY <1>4 DEF PhaseInv, Tight, Unit

-------------------------------------------------------------------------------
\* Where units are, and slices that never show more than their array has: what
\* append does to an array it may share leaves every slice well formed.
THEOREM TypeCorrect == Spec => []TypeOK
<1>1. IInv => TypeOK
  BY DEF IInv, Shape
<1> QED BY Start, Step, <1>1, PTL DEF Spec

\* When a module, or the whole run, is over, nothing in it is at work at any
\* depth (the wait groups of Module.Run and of the child's Pipeline.Run).
THEOREM ModulesAreWaitedFor == Spec => []ModulesWait
<1>1. IInv => ModulesWait
  BY DEF IInv, TreeInv, Quiet, ModulesWait, AtWork
<1> QED BY Start, Step, <1>1, PTL DEF Spec

\* A module, or a run, that ends without errors has no failed stage, item or
\* module in it at any depth (the diagnostics handed up level by level).
THEOREM FailuresAreReported == Spec => []FailuresComeBack
<1>1. IInv => FailuresComeBack
  BY DEF IInv, TreeInv
<1> QED BY Start, Step, <1>1, PTL DEF Spec

\* BlockCanRun sees the phases of all the modules around a block, and no others,
\* for as long as no append to the phases handed down finds room in the array of
\* another module: Module.run appends to a slice that others hold as well, and
\* that is all that can go wrong with it.
THEOREM PhasesComeDown == Spec /\ []NoSharedRoom => []PhasesInherited
<1>1. Init => IInv /\ PhaseInv
  BY Start, PhaseStart
<1>2. IInv /\ PhaseInv /\ NoSharedRoom /\ [Next]_vars => IInv' /\ PhaseInv'
  BY Step, PhaseStep
<1>3. PhaseInv => PhasesInherited
  BY DEF PhaseInv
<1> QED BY <1>1, <1>2, <1>3, PTL DEF Spec

\* And it never does in a configuration where modules with phases of their own
\* have at most two around them, however deep modules are nested and however
\* many run side by side. (With three the array has a place left.)
THEOREM FewPhasesComeDown == FewPhases => (Spec => []PhasesInherited)
<1> SUFFICES ASSUME FewPhases PROVE Spec => []PhasesInherited
  OBVIOUS
<1>1. Init => IInv /\ PhaseInv
  BY Start, PhaseStart
<1>2. IInv /\ PhaseInv /\ [Next]_vars => IInv' /\ PhaseInv'
  BY Step, PhaseStep, FewPhasesNoRoom
<1>3. PhaseInv => PhasesInherited
  BY DEF PhaseInv
<1> QED BY <1>1, <1>2, <1>3, PTL DEF Spec
===============================================================================
