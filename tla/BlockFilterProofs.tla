--------------------------- MODULE BlockFilterProofs ---------------------------
(***************************************************************************)
(* Proofs about BlockFilter, for every pipeline and every command line,    *)
(* however long. The loop over the rules keeps what these invariants say.  *)
(***************************************************************************)
EXTENDS BlockFilter, TLAPS

\* BlockCanRun is at work on a block, and what comes after it is undecided.
Ordered ==
    /\ step # "condition" => next <= Len(Blocks)
    /\ \A i \in next..Len(Blocks) : verdict[Blocks[i]] = "undecided"

\* The rules still to come are rules of the command line, or "default".
Remains ==
    /\ remaining \in Seq(Rules \cup {[op |-> "and", id |-> "default"]})
    /\ \A i \in DOMAIN remaining :
         \/ remaining[i] = [op |-> "and", id |-> "default"]
         \/ \E j \in DOMAIN rules : rules[j] = remaining[i]

\* The loop holds TRUE for a block only when the block may run.
Earned == step = "loop" /\ ok => eligible[Current] \/ Given("add", Current)

\* A rule that brings the block along is still to come, or has had its effect.
Brought ==
    step = "loop" /\ eligible[Current] /\ ~Given("sub", Current) =>
        \A i \in DOMAIN rules :
            rules[i].op = "and" /\ <<rules[i].id, Current>> \in Dependency =>
                ok \/ \E j \in DOMAIN remaining : remaining[j] = rules[i]

FInv ==
    /\ TypeOK
    /\ Ordered
    /\ Remains
    /\ Earned
    /\ Brought
    /\ OnlyAddedIgnoresCondition
    /\ DependenciesComeAlong

\* What a decision about a block must respect.
Justified(b) == verdict[b] = "run" => eligible[b] \/ Given("add", b)
Fetched(b) ==
    /\ \E i \in DOMAIN rules :
         rules[i].op = "and" /\ <<rules[i].id, b>> \in Dependency
    /\ eligible[b] /\ Settled(b) /\ ~Given("sub", b)
    => verdict[b] = "run"

\* The blocks are numbered from one, each once.
LEMMA BlockNumbers ==
    /\ Len(Blocks) \in Nat
    /\ DOMAIN Blocks = 1..Len(Blocks)
    /\ \A i \in 1..Len(Blocks) : Blocks[i] \in Block
    /\ \A i, j \in 1..Len(Blocks) : Blocks[i] = Blocks[j] => i = j
  BY FilterAssumption DEF FilterAssumption, Block

\* A decision about the current block leaves the others alone.
LEMMA DecideOrdered ==
    ASSUME TypeOK, Ordered, next <= Len(Blocks), NEW v \in Verdict, Decide(Current, v)
    PROVE  /\ Ordered'
           /\ next' \in 1..(Len(Blocks) + 1)
           /\ verdict' \in [Block -> Verdict]
           /\ verdict'[Current] = v
           /\ \A b \in Block \ {Current} : verdict'[b] = verdict[b]
           /\ step' = "condition"
           /\ UNCHANGED inputVars
  BY BlockNumbers DEF Decide, TypeOK, Ordered, Current

\* A rule that applies to a block sets what the loop holds as Allowed says.
LEMMA AllowedType ==
    ASSUME TypeOK, NEW r, NEW b \in Block PROVE Allowed(r, b) \in BOOLEAN
  BY DEF Allowed, TypeOK, MatchesPhase, NeededBy

\* A step that touches what is known of one block only, and does right by it,
\* respects all the blocks.
LEMMA OthersStand ==
    ASSUME FInv, NEW b \in Block, UNCHANGED inputVars, Justified(b)', Fetched(b)',
           \A c \in Block \ {b} :
               verdict'[c] = verdict[c] /\ eligible'[c] = eligible[c]
    PROVE  OnlyAddedIgnoresCondition' /\ DependenciesComeAlong'
<1>1. \A c \in Block \ {b} : Justified(c)' /\ Fetched(c)'
  BY DEF FInv, OnlyAddedIgnoresCondition, DependenciesComeAlong, Justified, Fetched,
         inputVars, Given, Settled
<1>2. QED
  BY <1>1 DEF OnlyAddedIgnoresCondition, DependenciesComeAlong, Justified, Fetched

\* BlockCanRun returns a decision that the condition and the rules justify.
LEMMA DecisionKeeps ==
    ASSUME FInv, next <= Len(Blocks), NEW b \in Block, b = Current,
           NEW v \in Verdict, Decide(b, v), UNCHANGED loopVars,
           eligible' \in [Block -> BOOLEAN],
           \A c \in Block \ {b} : eligible'[c] = eligible[c],
           v = "run" => eligible'[b] \/ Given("add", b),
           v = "skip" /\ eligible'[b] /\ ~Given("sub", b) =>
               \A i \in DOMAIN rules :
                   ~(rules[i].op = "and" /\ <<rules[i].id, b>> \in Dependency)
    PROVE  FInv'
<1>1. /\ Ordered'
      /\ next' \in 1..(Len(Blocks) + 1)
      /\ verdict' \in [Block -> Verdict]
      /\ verdict'[b] = v
      /\ \A c \in Block \ {b} : verdict'[c] = verdict[c]
      /\ step' = "condition"
      /\ UNCHANGED inputVars
  BY DecideOrdered DEF FInv
<1>2. TypeOK'
  BY <1>1 DEF FInv, TypeOK, inputVars, loopVars
<1>3. Remains' /\ Earned' /\ Brought'
  BY <1>1 DEF FInv, Remains, Earned, Brought, inputVars, loopVars
<1>4. Justified(b)'
  BY <1>1 DEF Justified, Given, inputVars
<1>5. Fetched(b)'
  BY <1>1 DEF Fetched, Settled, Given, inputVars
<1>6. QED
  BY <1>1, <1>2, <1>3, <1>4, <1>5, OthersStand DEF FInv

\* BlockCanRun goes on with the same block, which is undecided as yet.
LEMMA OnwardKeeps ==
    ASSUME FInv, next <= Len(Blocks), NEW b \in Block, b = Current,
           step' \in {"query", "select"}, UNCHANGED <<inputVars, next, verdict, loopVars>>,
           eligible' \in [Block -> BOOLEAN],
           \A c \in Block \ {b} : eligible'[c] = eligible[c]
    PROVE  FInv'
<1>1. verdict'[b] = "undecided"
  BY BlockNumbers DEF FInv, TypeOK, Ordered, Current
<1>2. TypeOK' /\ Ordered'
  BY DEF FInv, TypeOK, Ordered, inputVars, loopVars
<1>3. Remains' /\ Earned' /\ Brought'
  BY DEF FInv, Remains, Earned, Brought, inputVars, loopVars
<1>4. Justified(b)' /\ Fetched(b)'
  BY <1>1 DEF Justified, Fetched, Settled
<1>5. QED
  BY <1>2, <1>3, <1>4, OthersStand DEF FInv

\* The condition settles a block that the rules are not for.
LEMMA ConditionStep == FInv /\ Condition => FInv'
<1> SUFFICES ASSUME FInv, Condition PROVE FInv'
  OBVIOUS
<1> DEFINE b == Current
<1>1. b \in Block /\ next <= Len(Blocks)
  BY BlockNumbers DEF Condition, FInv, TypeOK, Current
<1>2. PICK c \in {"true", "false", "error"} :
        /\ eligible' = [eligible EXCEPT ![b] = c = "true"]
        /\ \/ Decide(b, "error")
           \/ Decide(b, Chosen(c = "true"))
           \/ step' = "query" /\ UNCHANGED <<inputVars, next, verdict>>
  BY DEF Condition
<1>3. /\ eligible' \in [Block -> BOOLEAN]
      /\ eligible'[b] = (c = "true")
      /\ \A d \in Block \ {b} : eligible'[d] = eligible[d]
      /\ UNCHANGED loopVars
  BY <1>1, <1>2 DEF FInv, TypeOK, Condition
<1>4. CASE Decide(b, "error")
  BY <1>1, <1>3, <1>4, DecisionKeeps DEF Verdict
<1>5. CASE Decide(b, Chosen(c = "true"))
  <2>1. Chosen(c = "true") \in Verdict
        /\ (Chosen(c = "true") = "run" => c = "true")
        /\ (Chosen(c = "true") = "skip" => c # "true")
    BY DEF Chosen, Verdict
  <2>2. QED
    BY <1>1, <1>3, <1>5, <2>1, DecisionKeeps
<1>6. CASE step' = "query" /\ UNCHANGED <<inputVars, next, verdict>>
  BY <1>1, <1>3, <1>6, OnwardKeeps
<1>7. QED
  BY <1>2, <1>4, <1>5, <1>6

\* The queries replace what the condition said.
LEMMA QueryStep == FInv /\ Query => FInv'
<1> SUFFICES ASSUME FInv, Query PROVE FInv'
  OBVIOUS
<1> DEFINE b == Current
<1>1. b \in Block /\ next <= Len(Blocks)
  BY BlockNumbers DEF Query, FInv, TypeOK, Ordered, Current
<1>2. PICK yes \in {TRUE, FALSE} :
        \/ Decide(b, "error") /\ UNCHANGED eligible
        \/ /\ eligible' = IF Queries = 0 THEN eligible
                           ELSE [eligible EXCEPT ![b] = yes]
           /\ step' = "select"
           /\ UNCHANGED <<inputVars, next, verdict>>
  BY DEF Query
<1>3. /\ eligible' \in [Block -> BOOLEAN]
      /\ \A d \in Block \ {b} : eligible'[d] = eligible[d]
      /\ UNCHANGED loopVars
  BY <1>1, <1>2 DEF FInv, TypeOK, Query
<1>4. CASE Decide(b, "error")
  BY <1>1, <1>3, <1>4, DecisionKeeps DEF Verdict
<1>5. CASE step' = "select" /\ UNCHANGED <<inputVars, next, verdict>>
  BY <1>1, <1>3, <1>5, OnwardKeeps
<1>6. QED
  BY <1>2, <1>4, <1>5

\* "all" leaves the decision to the condition; otherwise the loop begins with
\* every rule of the command line still to come.
LEMMA SelectStep == FInv /\ Select => FInv'
<1> SUFFICES ASSUME FInv, Select PROVE FInv'
  OBVIOUS
<1> DEFINE b == Current
<1>1. b \in Block /\ next <= Len(Blocks) /\ UNCHANGED eligible
  BY BlockNumbers DEF Select, FInv, TypeOK, Ordered, Current
<1>2. eligible' \in [Block -> BOOLEAN] /\ eligible[b] \in BOOLEAN
  BY <1>1 DEF FInv, TypeOK
<1>3. CASE Decide(b, Chosen(eligible[b])) /\ UNCHANGED loopVars
  <2>1. Chosen(eligible[b]) \in Verdict
        /\ (Chosen(eligible[b]) = "run" => eligible[b])
        /\ (Chosen(eligible[b]) = "skip" => ~eligible[b])
    BY DEF Chosen, Verdict
  <2>2. QED
    BY <1>1, <1>2, <1>3, <2>1, DecisionKeeps
<1>4. CASE Decide(b, "error") /\ UNCHANGED loopVars
  BY <1>1, <1>2, <1>4, DecisionKeeps DEF Verdict
<1>5. CASE /\ remaining' = FilterList
           /\ ok' = FALSE
           /\ step' = "loop"
           /\ UNCHANGED <<inputVars, next, verdict>>
  <2>1. Remains'
    <3>1. CASE rules = <<>>
      <4>1. remaining' = <<[op |-> "and", id |-> "default"]>>
        BY <1>5, <3>1 DEF FilterList
      <4>2. QED
        BY <4>1 DEF Remains
    <3>2. CASE rules # <<>>
      <4>1. remaining' = rules /\ rules' = rules
        BY <1>5, <3>2 DEF FilterList, inputVars
      <4>2. rules \in Seq(Rules \cup {[op |-> "and", id |-> "default"]})
        BY DEF FInv, TypeOK
      <4>3. QED
        BY <4>1, <4>2 DEF Remains
    <3>3. QED
      BY <3>1, <3>2
  <2>2. Brought'
    <3>1. rules = <<>> \/ remaining' = rules
      BY <1>5 DEF FilterList
    <3>2. rules' = rules /\ Current' = Current
      BY <1>5 DEF inputVars, Current
    <3>3. QED
      BY <3>1, <3>2 DEF Brought
  <2>3. TypeOK' /\ Ordered' /\ Earned'
    BY <1>1, <1>5 DEF FInv, TypeOK, Ordered, Earned, inputVars
  <2>4. OnlyAddedIgnoresCondition' /\ DependenciesComeAlong'
    BY <1>1, <1>5 DEF FInv, OnlyAddedIgnoresCondition, DependenciesComeAlong, Given,
       Settled, inputVars
  <2>5. QED
    BY <2>1, <2>2, <2>3, <2>4 DEF FInv
<1>6. QED
  BY <1>3, <1>4, <1>5 DEF Select

\* One turn of the loop: only a rule that blocks the block by name takes back
\* what a rule that brings it along has granted.
LEMMA ApplyStep == FInv /\ Apply => FInv'
<1> SUFFICES ASSUME FInv, Apply PROVE FInv'
  OBVIOUS
<1> DEFINE b == Current
           rule == Head(remaining)
<1>1. b \in Block
  BY BlockNumbers DEF Apply, FInv, TypeOK, Ordered, Current
<1>2. /\ step = "loop" /\ remaining # <<>>
      /\ ok' = Allowed(rule, b)
      /\ remaining' = Tail(remaining)
      /\ UNCHANGED <<inputVars, next, step, eligible, verdict>>
  BY DEF Apply
<1>3. /\ rule \in Rules \cup {[op |-> "and", id |-> "default"]}
      /\ rule = remaining[1]
      /\ 1 \in DOMAIN remaining
      /\ Tail(remaining) \in Seq(Rules \cup {[op |-> "and", id |-> "default"]})
      /\ \A i \in DOMAIN Tail(remaining) :
           i + 1 \in DOMAIN remaining /\ Tail(remaining)[i] = remaining[i + 1]
      /\ \A i \in DOMAIN remaining :
           i = 1 \/ (i - 1 \in DOMAIN Tail(remaining)
                     /\ Tail(remaining)[i - 1] = remaining[i])
  BY <1>2 DEF FInv, Remains
<1>4. rule = [op |-> rule.op, id |-> rule.id] /\ rule.op \in {"add", "sub", "and"}
  <2>1. CASE rule \in Rules
    BY <2>1, FilterAssumption DEF FilterAssumption
  <2>2. CASE rule = [op |-> "and", id |-> "default"]
    BY <2>2
  <2>3. QED
    BY <1>3, <2>1, <2>2
<1>5. rule = [op |-> "and", id |-> "default"] \/ \E j \in DOMAIN rules : rules[j] = rule
  BY <1>3 DEF FInv, Remains
<1>6. TypeOK' /\ Ordered' /\ OnlyAddedIgnoresCondition' /\ DependenciesComeAlong'
  <2>1. ok' \in BOOLEAN
    BY <1>1, <1>2, AllowedType DEF FInv
  <2>2. QED
    BY <1>2, <2>1 DEF FInv, TypeOK, Ordered, OnlyAddedIgnoresCondition,
       DependenciesComeAlong, Given, Settled, inputVars
<1>7. Remains'
  BY <1>2, <1>3 DEF FInv, Remains, inputVars
<1>8. Earned'
  <2>1. SUFFICES ASSUME ok', ~eligible[b] PROVE Given("add", b)
    BY <1>2 DEF Earned, Given, Current, inputVars
  <2>2. CASE rule.id # b
    BY <1>2, <2>1, <2>2 DEF Allowed, FInv, Earned
  <2>3. CASE rule.id = b
    <3>1. rule = [op |-> "add", id |-> b]
      BY <1>2, <1>4, <2>1, <2>3 DEF Allowed
    <3>2. QED
      BY <1>5, <3>1 DEF Given
  <2>4. QED
    BY <2>2, <2>3
<1>9. Brought'
  <2>1. SUFFICES ASSUME eligible[b], ~Given("sub", b), NEW i \in DOMAIN rules,
                        rules[i].op = "and", <<rules[i].id, b>> \in Dependency
                 PROVE  ok' \/ \E j \in DOMAIN Tail(remaining) :
                                    Tail(remaining)[j] = rules[i]
    BY <1>2 DEF Brought, Given, Current, inputVars
  <2>2. CASE ok
    <3>1. SUFFICES ASSUME rule.id = b, rule.op # "add", rule.op # "and" PROVE FALSE
      BY <1>2, <2>1, <2>2 DEF Allowed
    <3>2. rule = [op |-> "sub", id |-> b]
      BY <1>4, <3>1
    <3>3. QED
      BY <1>5, <2>1, <3>2 DEF Given
  <2>3. CASE \E j \in DOMAIN remaining : remaining[j] = rules[i]
    <3>1. PICK j \in DOMAIN remaining : remaining[j] = rules[i]
      BY <2>3
    <3>2. CASE j = 1
      BY <1>2, <1>3, <2>1, <3>1, <3>2 DEF Allowed, NeededBy
    <3>3. CASE j # 1
      BY <1>3, <3>1, <3>3
    <3>4. QED
      BY <3>2, <3>3
  <2>4. QED
    BY <1>2, <2>1, <2>2, <2>3 DEF FInv, Brought
<1>10. QED
  BY <1>6, <1>7, <1>8, <1>9 DEF FInv

\* No rule is left: what the loop holds is the decision.
LEMMA ConcludeStep == FInv /\ Conclude => FInv'
<1> SUFFICES ASSUME FInv, Conclude PROVE FInv'
  OBVIOUS
<1> DEFINE b == Current
<1>1. b \in Block /\ next <= Len(Blocks)
  BY BlockNumbers DEF Conclude, FInv, TypeOK, Ordered, Current
<1>2. /\ step = "loop" /\ remaining = <<>>
      /\ Decide(b, Chosen(ok)) /\ UNCHANGED <<loopVars, eligible>>
  BY DEF Conclude
<1>3. eligible' \in [Block -> BOOLEAN]
  BY <1>2 DEF FInv, TypeOK
<1>4. /\ Chosen(ok) \in Verdict
      /\ Chosen(ok) = "run" => ok
      /\ Chosen(ok) = "skip" => ~ok
  BY DEF Chosen, Verdict
<1>5. ok => eligible'[b] \/ Given("add", b)
  BY <1>2 DEF FInv, Earned
<1>6. ~ok /\ eligible'[b] /\ ~Given("sub", b) =>
          \A i \in DOMAIN rules :
              ~(rules[i].op = "and" /\ <<rules[i].id, b>> \in Dependency)
  BY <1>2 DEF FInv, Brought
<1>7. QED
  BY <1>1, <1>2, <1>3, <1>4, <1>5, <1>6, DecisionKeeps

\* The filter: its loop keeps what FInv says, for every list of rules.
THEOREM FilterInvariance == Spec => []FInv
<1>1. Init => FInv
  <2> SUFFICES ASSUME Init PROVE FInv
    OBVIOUS
  <2>1. rules \in Seq(Rules) /\ Len(rules) <= MaxRules
    <3>1. PICK n \in 0..MaxRules : rules \in [1..n -> Rules]
      BY DEF Init
    <3>2. QED
      BY <3>1, FilterAssumption DEF FilterAssumption
  <2>2. TypeOK
    <3>1. next \in 1..(Len(Blocks) + 1)
      BY BlockNumbers DEF Init
    <3>2. eligible \in [Block -> BOOLEAN] /\ verdict \in [Block -> Verdict]
      BY DEF Init, Verdict
    <3>3. QED
      BY <2>1, <3>1, <3>2 DEF Init, TypeOK
  <2>3. Ordered /\ Remains /\ Earned /\ Brought
    BY BlockNumbers DEF Init, Ordered, Remains, Earned, Brought
  <2>4. OnlyAddedIgnoresCondition /\ DependenciesComeAlong
    BY DEF Init, OnlyAddedIgnoresCondition, DependenciesComeAlong, Settled
  <2>5. QED
    BY <2>2, <2>3, <2>4 DEF FInv
<1>2. FInv /\ [Next]_vars => FInv'
  <2>1. FInv /\ UNCHANGED vars => FInv'
    <3> SUFFICES ASSUME FInv, UNCHANGED vars PROVE FInv'
      OBVIOUS
    <3>1. TypeOK' /\ Ordered' /\ Remains'
      BY DEF FInv, TypeOK, Ordered, Remains, vars, inputVars, loopVars
    <3>2. Earned' /\ Brought'
      BY DEF FInv, Earned, Brought, Given, Current, vars, inputVars, loopVars
    <3>3. OnlyAddedIgnoresCondition' /\ DependenciesComeAlong'
      BY DEF FInv, OnlyAddedIgnoresCondition, DependenciesComeAlong, Given, Settled,
         vars, inputVars, loopVars
    <3>4. QED
      BY <3>1, <3>2, <3>3 DEF FInv
  <2>2. QED
    BY <2>1, ConditionStep, QueryStep, SelectStep, ApplyStep, ConcludeStep
       DEF Next, Decided
<1>3. QED
  BY <1>1, <1>2, PTL DEF Spec

\* Type correctness of the filter.
THEOREM FilterTypeCorrect == Spec => []TypeOK
<1>1. FInv => TypeOK
  BY DEF FInv
<1>2. QED
  BY <1>1, FilterInvariance, PTL

\* However many rules there are, a block whose condition says no runs only
\* when it is added by name.
THEOREM OnlyAdded == Spec => []OnlyAddedIgnoresCondition
<1>1. FInv => OnlyAddedIgnoresCondition
  BY DEF FInv
<1>2. QED
  BY <1>1, FilterInvariance, PTL

\* However many rules there are and in whatever order, a block that is asked
\* for brings along what it depends on, unless that is blocked by name.
THEOREM DependenciesAlong == Spec => []DependenciesComeAlong
<1>1. FInv => DependenciesComeAlong
  BY DEF FInv
<1>2. QED
  BY <1>1, FilterInvariance, PTL

-------------------------------------------------------------------------------
(* Rules without + and ^ *)

\* A rule selects a block by a phase, by what depends on it, or by name; the
\* rules of the command line ask for it when one of them does.
Selects(rule, b) == MatchesPhase(rule, b) \/ <<rule.id, b>> \in Dependency \/ rule.id = b
AskedFor(b) == \E i \in DOMAIN FilterList : Selects(FilterList[i], b)
OnlyAnd == \A i \in DOMAIN rules : rules[i].op = "and"

\* The queries and the rules are for stages and modules, and the loop is only
\* for those that the rules decide about.
Reached ==
    /\ step # "condition" => Kind[Current] \in {"stage", "module"}
    /\ step = "loop" => ~Unruled(Current)

\* The rules still to come are rules of the list.
Drawn ==
    step = "loop" => \A i \in DOMAIN remaining :
        \E j \in DOMAIN FilterList : FilterList[j] = remaining[i]

\* The loop holds TRUE only for a block that is asked for, and a block that is
\* asked for is held or has a rule to come that selects it.
Summed ==
    step = "loop" /\ OnlyAnd =>
        /\ ok => eligible[Current] /\ AskedFor(Current)
        /\ eligible[Current] /\ AskedFor(Current) =>
              ok \/ \E j \in DOMAIN remaining : Selects(remaining[j], Current)

\* What AndRulesAddUp says of one block.
Agrees(b) ==
    OnlyAnd /\ Ruled(b) /\ Settled(b) =>
        (verdict[b] = "run" <=> eligible[b] /\ AskedFor(b))

AInv == Reached /\ Drawn /\ Summed /\ \A b \in Block : Agrees(b)

\* The list is the command line, or the one rule "default".
LEMMA ListOfRules ==
    ASSUME TypeOK
    PROVE  /\ rules = <<>> => /\ DOMAIN FilterList = {1}
                              /\ FilterList[1] = [op |-> "and", id |-> "default"]
           /\ rules # <<>> => FilterList = rules
           /\ OnlyAnd => \A i \in DOMAIN FilterList : FilterList[i].op = "and"
  BY DEF FilterList, OnlyAnd, TypeOK

\* A rule without + and ^ leaves the block to its condition when it selects it,
\* and otherwise changes nothing.
LEMMA AndRule ==
    ASSUME TypeOK, NEW r, r.op = "and", NEW b \in Block
    PROVE  Allowed(r, b) = IF Selects(r, b) THEN eligible[b] ELSE ok
  BY DEF TypeOK, Allowed, Selects, NeededBy

\* A decision about the current block that the rules agree with.
LEMMA DecisionAgrees ==
    ASSUME FInv, AInv, next <= Len(Blocks), NEW b \in Block, b = Current,
           NEW v \in Verdict, Decide(b, v),
           \A c \in Block \ {b} : eligible'[c] = eligible[c],
           OnlyAnd /\ Ruled(b) /\ v \in {"run", "skip"} =>
               (v = "run" <=> eligible'[b] /\ AskedFor(b))
    PROVE  AInv'
<1>1. /\ verdict'[b] = v
      /\ \A c \in Block \ {b} : verdict'[c] = verdict[c]
      /\ step' = "condition"
      /\ rules' = rules /\ inherited' = inherited
  BY DecideOrdered DEF FInv, inputVars
<1>2. \A c \in Block : /\ (OnlyAnd' <=> OnlyAnd)
                       /\ (Ruled(c)' <=> Ruled(c))
                       /\ (AskedFor(c)' <=> AskedFor(c))
  BY <1>1 DEF OnlyAnd, Ruled, Unruled, PhasesDefined, AskedFor, FilterList, Selects,
     MatchesPhase, AllPhases
<1>3. Agrees(b)'
  BY <1>1, <1>2 DEF Agrees, Settled
<1>4. ASSUME NEW c \in Block \ {b} PROVE Agrees(c)'
  BY <1>1, <1>2, <1>4 DEF Agrees, Settled, AInv
<1>5. Reached' /\ Drawn' /\ Summed'
  BY <1>1 DEF Reached, Drawn, Summed
<1>6. QED
  BY <1>3, <1>4, <1>5 DEF AInv

\* A step that goes on with the block, which is undecided as yet.
LEMMA OnwardAgrees ==
    ASSUME FInv, AInv, next <= Len(Blocks), NEW b \in Block, b = Current,
           UNCHANGED <<inputVars, next, verdict>>,
           \A c \in Block \ {b} : eligible'[c] = eligible[c]
    PROVE  \A c \in Block : Agrees(c)'
<1>1. verdict[b] = "undecided"
  BY BlockNumbers DEF FInv, TypeOK, Ordered, Current
<1>2. \A c \in Block : /\ (OnlyAnd' <=> OnlyAnd)
                       /\ (Ruled(c)' <=> Ruled(c))
                       /\ (AskedFor(c)' <=> AskedFor(c))
  BY DEF OnlyAnd, Ruled, Unruled, PhasesDefined, AskedFor, FilterList, Selects,
     MatchesPhase, AllPhases, inputVars
<1>3. Agrees(b)'
  BY <1>1 DEF Agrees, Settled
<1>4. ASSUME NEW c \in Block \ {b} PROVE Agrees(c)'
  BY <1>2, <1>4 DEF Agrees, Settled, AInv
<1>5. QED
  BY <1>3, <1>4

\* No step of BlockCanRun lets a block run against the sum of the rules.
LEMMA AInvStep == FInv /\ AInv /\ [Next]_vars => AInv'
<1> SUFFICES ASSUME FInv, AInv, [Next]_vars PROVE AInv'
  OBVIOUS
<1>0. next <= Len(Blocks) => Current \in Block
  BY BlockNumbers DEF FInv, TypeOK, Current
<1>1. ASSUME Condition PROVE AInv'
  <2> DEFINE b == Current
  <2>1. next <= Len(Blocks) /\ b \in Block /\ UNCHANGED loopVars
    BY <1>0, <1>1 DEF Condition
  <2>2. PICK c \in {"true", "false", "error"} :
          /\ eligible' = [eligible EXCEPT ![b] = c = "true"]
          /\ \/ Decide(b, "error")
             \/ Kind[b] \notin {"stage", "module"} /\ Decide(b, Chosen(c = "true"))
             \/ /\ Kind[b] \in {"stage", "module"}
                /\ step' = "query" /\ UNCHANGED <<inputVars, next, verdict>>
    BY <1>1 DEF Condition
  <2>3. \A d \in Block \ {b} : eligible'[d] = eligible[d]
    BY <2>1, <2>2 DEF FInv, TypeOK
  <2>4. CASE Decide(b, "error")
    BY <2>1, <2>3, <2>4, DecisionAgrees DEF Verdict
  <2>5. CASE Kind[b] \notin {"stage", "module"} /\ Decide(b, Chosen(c = "true"))
    <3>1. Chosen(c = "true") \in Verdict /\ ~Ruled(b)
      BY <2>5 DEF Chosen, Verdict, Ruled
    <3>2. QED
      BY <2>1, <2>3, <2>5, <3>1, DecisionAgrees
  <2>6. CASE /\ Kind[b] \in {"stage", "module"}
             /\ step' = "query" /\ UNCHANGED <<inputVars, next, verdict>>
    <3>1. \A d \in Block : Agrees(d)'
      BY <2>1, <2>3, <2>6, OnwardAgrees
    <3>2. QED
      BY <2>6, <3>1 DEF AInv, Reached, Drawn, Summed, Current
  <2>7. QED
    BY <2>2, <2>4, <2>5, <2>6
<1>2. ASSUME Query PROVE AInv'
  <2> DEFINE b == Current
  <2>1. next <= Len(Blocks) /\ b \in Block /\ step = "query"
    BY <1>0, <1>2 DEF Query, FInv, Ordered
  <2>2. PICK yes \in {TRUE, FALSE} :
          \/ Decide(b, "error") /\ UNCHANGED eligible
          \/ /\ eligible' = IF Queries = 0 THEN eligible
                            ELSE [eligible EXCEPT ![b] = yes]
             /\ step' = "select"
             /\ UNCHANGED <<inputVars, next, verdict>>
    BY <1>2 DEF Query
  <2>3. \A d \in Block \ {b} : eligible'[d] = eligible[d]
    BY <2>1, <2>2 DEF FInv, TypeOK
  <2>4. CASE Decide(b, "error")
    BY <2>1, <2>3, <2>4, DecisionAgrees DEF Verdict
  <2>5. CASE step' = "select" /\ UNCHANGED <<inputVars, next, verdict>>
    <3>1. \A d \in Block : Agrees(d)'
      BY <2>1, <2>3, <2>5, OnwardAgrees
    <3>2. QED
      BY <2>1, <2>5, <3>1 DEF AInv, Reached, Drawn, Summed, Current
  <2>6. QED
    BY <2>2, <2>4, <2>5
<1>3. ASSUME Select PROVE AInv'
  <2> DEFINE b == Current
  <2>1. next <= Len(Blocks) /\ b \in Block /\ step = "select" /\ UNCHANGED eligible
    BY <1>0, <1>3 DEF Select, FInv, Ordered
  <2>2. CASE Unruled(b) /\ Decide(b, Chosen(eligible[b]))
    <3>1. Chosen(eligible[b]) \in Verdict /\ ~Ruled(b)
      BY <2>2 DEF Chosen, Verdict, Ruled
    <3>2. QED
      BY <2>1, <2>2, <3>1, DecisionAgrees
  <2>3. CASE Decide(b, "error")
    BY <2>1, <2>3, DecisionAgrees DEF Verdict
  <2>4. CASE /\ ~Unruled(b)
             /\ remaining' = FilterList /\ ok' = FALSE /\ step' = "loop"
             /\ UNCHANGED <<inputVars, next, verdict>>
    <3>1. \A d \in Block : Agrees(d)'
      BY <2>1, <2>4, OnwardAgrees
    <3>2. FilterList' = FilterList /\ Current' = Current
      BY <2>4 DEF FilterList, Current, inputVars
    <3>3. Reached'
      BY <2>1, <2>4 DEF AInv, Reached, Unruled, PhasesDefined, Current, inputVars
    <3>4. Drawn' /\ Summed'
      BY <2>4, <3>2 DEF Drawn, Summed, AskedFor
    <3>5. QED
      BY <3>1, <3>3, <3>4 DEF AInv
  <2>5. QED
    BY <1>3, <2>2, <2>3, <2>4 DEF Select
<1>4. ASSUME Apply PROVE AInv'
  <2> DEFINE b == Current
  <2> DEFINE r == Head(remaining)
  <2>1. /\ step = "loop" /\ remaining # <<>> /\ next <= Len(Blocks) /\ b \in Block
        /\ ok' = Allowed(r, b)
        /\ remaining' = Tail(remaining)
        /\ UNCHANGED <<inputVars, next, step, eligible, verdict>>
    BY <1>0, <1>4 DEF Apply, FInv, Ordered
  <2>2. /\ r = remaining[1] /\ 1 \in DOMAIN remaining
        /\ \A i \in DOMAIN Tail(remaining) :
             i + 1 \in DOMAIN remaining /\ Tail(remaining)[i] = remaining[i + 1]
        /\ \A i \in DOMAIN remaining :
             i = 1 \/ (i - 1 \in DOMAIN Tail(remaining)
                       /\ Tail(remaining)[i - 1] = remaining[i])
    BY <2>1 DEF FInv, Remains
  <2>3. \A d \in Block : Agrees(d)'
    BY <2>1, OnwardAgrees
  <2>4. /\ FilterList' = FilterList /\ Current' = Current
        /\ (OnlyAnd' <=> OnlyAnd) /\ (AskedFor(b)' <=> AskedFor(b))
        /\ \A x : Selects(x, b)' <=> Selects(x, b)
    BY <2>1 DEF FilterList, Current, OnlyAnd, AskedFor, Selects, MatchesPhase, AllPhases,
       inputVars
  <2>5. Reached'
    BY <2>1 DEF AInv, Reached, Unruled, PhasesDefined, Current, inputVars
  <2>6. Drawn'
    BY <2>1, <2>2, <2>4 DEF AInv, Drawn
  <2>7. Summed'
    <3> SUFFICES ASSUME OnlyAnd
                 PROVE /\ ok' => eligible[b] /\ AskedFor(b)
                       /\ eligible[b] /\ AskedFor(b) =>
                            ok' \/ \E j \in DOMAIN Tail(remaining) :
                                      Selects(Tail(remaining)[j], b)
      BY <2>1, <2>4 DEF Summed
    <3>1. PICK i \in DOMAIN FilterList : FilterList[i] = r
      BY <2>1, <2>2 DEF AInv, Drawn
    <3>2. r.op = "and"
      BY <3>1, ListOfRules DEF FInv
    <3>3. ok' = IF Selects(r, b) THEN eligible[b] ELSE ok
      BY <2>1, <3>2, AndRule DEF FInv
    <3>4. /\ ok => eligible[b] /\ AskedFor(b)
          /\ eligible[b] /\ AskedFor(b) =>
               ok \/ \E j \in DOMAIN remaining : Selects(remaining[j], b)
      BY <2>1 DEF AInv, Summed
    <3>5. Selects(r, b) => AskedFor(b)
      BY <3>1 DEF AskedFor
    <3>6. ASSUME NEW j \in DOMAIN remaining, Selects(remaining[j], b), ~Selects(r, b)
          PROVE \E k \in DOMAIN Tail(remaining) : Selects(Tail(remaining)[k], b)
      BY <2>2, <3>6
    <3>7. QED
      BY <3>3, <3>4, <3>5, <3>6
  <2>8. QED
    BY <2>3, <2>5, <2>6, <2>7 DEF AInv
<1>5. ASSUME Conclude PROVE AInv'
  <2> DEFINE b == Current
  <2>1. /\ step = "loop" /\ remaining = <<>> /\ next <= Len(Blocks) /\ b \in Block
        /\ Decide(b, Chosen(ok)) /\ UNCHANGED eligible
    BY <1>0, <1>5 DEF Conclude, FInv, Ordered
  <2>2. Chosen(ok) \in Verdict /\ (Chosen(ok) = "run" <=> ok)
    BY DEF Chosen, Verdict
  <2>3. OnlyAnd => (ok <=> eligible[b] /\ AskedFor(b))
    BY <2>1 DEF AInv, Summed
  <2>4. QED
    BY <2>1, <2>2, <2>3, DecisionAgrees
<1>6. CASE UNCHANGED vars
  BY <1>6 DEF AInv, Reached, Unruled, PhasesDefined, Drawn, Summed, Agrees, OnlyAnd, Ruled,
     Settled, AskedFor, FilterList, Selects, MatchesPhase, AllPhases, Current,
     vars, inputVars, loopVars
<1>7. QED
  BY <1>1, <1>2, <1>3, <1>4, <1>5, <1>6 DEF Next, Decided

\* However many rules without + and ^ there are and in whatever order, a stage
\* or a module that they decide about runs exactly when its condition holds and
\* one of them selects it. (The loop over the rules, which does not stop at the
\* first that applies, and FilterList.)
THEOREM AndRulesSum == Spec => []AndRulesAddUp
<1>1. Init => AInv
  BY DEF Init, AInv, Reached, Drawn, Summed, Agrees, Settled
<1>2. FInv /\ AInv => AndRulesAddUp
  <2> SUFFICES ASSUME FInv, AInv, OnlyAnd, NEW b \in Block, Ruled(b), Settled(b)
               PROVE LET asked == IF rules = <<>> THEN {"default"}
                                  ELSE {rules[i].id : i \in DOMAIN rules}
                     IN verdict[b] = "run" <=>
                          eligible[b] /\ \E id \in asked :
                              \/ id \in {b} \cup AllPhases(b)
                              \/ id = "default" /\ AllPhases(b) = {}
                              \/ <<id, b>> \in Dependency
    BY DEF AndRulesAddUp, OnlyAnd
  <2> DEFINE asked == IF rules = <<>> THEN {"default"} ELSE {rules[i].id : i \in DOMAIN rules}
  <2>1. verdict[b] = "run" <=> eligible[b] /\ AskedFor(b)
    BY DEF AInv, Agrees
  <2>2. \A r : Selects(r, b) <=> \/ r.id \in {b} \cup AllPhases(b)
                                 \/ r.id = "default" /\ AllPhases(b) = {}
                                 \/ <<r.id, b>> \in Dependency
    BY DEF Selects, MatchesPhase
  <2>3. asked = {FilterList[i].id : i \in DOMAIN FilterList}
    <3>1. CASE rules = <<>>
      BY <3>1, ListOfRules DEF FInv
    <3>2. CASE rules # <<>>
      BY <3>2, ListOfRules DEF FInv
    <3>3. QED
      BY <3>1, <3>2
  <2> HIDE DEF asked
  <2>4. AskedFor(b) <=> \E id \in asked :
                            \/ id \in {b} \cup AllPhases(b)
                            \/ id = "default" /\ AllPhases(b) = {}
                            \/ <<id, b>> \in Dependency
    BY <2>2, <2>3 DEF AskedFor
  <2>5. QED
    BY <2>1, <2>4 DEF asked
<1>3. QED
  BY <1>1, <1>2, AInvStep, FilterInvariance, PTL DEF Spec
===============================================================================
