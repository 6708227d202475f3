------------------------------ MODULE BlockFilter ------------------------------
(***************************************************************************)
(* Which blocks of a pipeline run: BlockCanRun decides about one block     *)
(* after the other, from its condition, the --query expressions, the rules *)
(* of the command line (+id, ^id, id, a phase, "default" or "all") and the *)
(* phases of its lifecycle and of the modules around it. That a rule has   *)
(* overridden the condition is only logged, and left out.                  *)
(***************************************************************************)
EXTENDS Naturals, Sequences

CONSTANTS
    Blocks,     \* the blocks in the order the pipeline visits them
    Kind,       \* the type of a block
    Dependency, \* the pairs <<x, y>> with depGraph.DependsOn(x, y)
    Phases,     \* the phases of a block's lifecycle, {} without a lifecycle
    Phased,     \* the blocks that have a lifecycle
    Inherited,  \* the sets of phases the modules around may hand down
    Rules,      \* the rules the command line may hold, [op |-> , id |-> ]
    MaxRules,   \* bound: how many of them it holds at most
    Queries     \* the number of --query expressions

Block == {Blocks[i] : i \in DOMAIN Blocks}

ASSUME FilterAssumption ==
    /\ Blocks \in Seq(Block)
    /\ \A i, j \in DOMAIN Blocks : Blocks[i] = Blocks[j] => i = j
    /\ Kind \in [Block -> STRING]
    /\ Phased \subseteq Block
    /\ DOMAIN Phases = Block
    /\ \A b \in Block \ Phased : Phases[b] = {}
    /\ Rules \subseteq [op : {"add", "sub", "and"}, id : STRING]
    /\ MaxRules \in Nat
    /\ Queries \in Nat

VARIABLES
    rules,      \* cfg.Pipeline.Filtered
    inherited,  \* cfg.Behavior.Child.ParentLifecycles
    next,       \* the block that is being decided
    step,       \* where BlockCanRun is with it
    remaining,  \* the rules its loop has not taken up
    ok,         \* what the loop holds of the block
    eligible,   \* what condition and queries say of a block
    verdict     \* what was decided about it

inputVars == <<rules, inherited>>
loopVars == <<remaining, ok>>
vars == <<inputVars, next, step, loopVars, eligible, verdict>>

-------------------------------------------------------------------------------
Verdict == {"undecided", "run", "skip", "error"}

TypeOK ==
    /\ rules \in Seq(Rules)
    /\ Len(rules) <= MaxRules
    /\ inherited \in Inherited
    /\ next \in 1..(Len(Blocks) + 1)
    /\ step \in {"condition", "query", "select", "loop"}
    /\ ok \in BOOLEAN
    /\ eligible \in [Block -> BOOLEAN]
    /\ verdict \in [Block -> Verdict]

Init ==
    /\ rules \in UNION {[1..n -> Rules] : n \in 0..MaxRules}
    /\ inherited \in Inherited
    /\ next = 1
    /\ step = "condition"
    /\ remaining = <<>>
    /\ ok = FALSE
    /\ eligible = [b \in Block |-> FALSE]
    /\ verdict = [b \in Block |-> "undecided"]

Current == Blocks[next]

\* Definitions named X_Y are faults of X that the checks must notice.

\* An empty command line stands for the rule "default".
FilterList == IF rules = <<>> THEN <<[op |-> "and", id |-> "default"]>> ELSE rules

AllPhases(b) == inherited \cup Phases[b]
PhasesDefined(b) == b \in Phased \/ inherited # {}

\* BlockCanRun returns; Pipeline.Run does not go on after an error.
Decide(b, decision) ==
    /\ verdict' = [verdict EXCEPT ![b] = decision]
    /\ next' = IF decision = "error" THEN Len(Blocks) + 1 ELSE next + 1
    /\ step' = "condition"
    /\ UNCHANGED inputVars

Chosen_Misnamed(yes) == IF yes THEN "run" ELSE "skipped"
Chosen(yes) == IF yes THEN "run" ELSE "skip"

-------------------------------------------------------------------------------
\* CanRun: the condition of the block. Rules are for stages and modules only.
Condition ==
    /\ step = "condition"
    /\ next <= Len(Blocks)
    /\ \E c \in {"true", "false", "error"} :
         /\ eligible' = [eligible EXCEPT ![Current] = c = "true"]
         /\ IF c = "error" THEN Decide(Current, "error")
            ELSE IF Kind[Current] \notin {"stage", "module"}
              THEN Decide(Current, Chosen(c = "true"))
            ELSE step' = "query" /\ UNCHANGED <<inputVars, next, verdict>>
    /\ UNCHANGED loopVars

\* What a query says of a block; an empty one repeats the condition.
Says(answer, condition) == answer = "yes" \/ (answer = "empty" /\ condition)

\* QueryEngines.Eval: the first query that says yes, otherwise the last one;
\* an error on the way is an error of the whole.
Query ==
    /\ step = "query"
    /\ \E answers \in [1..Queries -> {"yes", "no", "empty", "error"}] :
         LET yes == {i \in 1..Queries : Says(answers[i], eligible[Current])}
             asked == {i \in 1..Queries : \A j \in yes : i <= j}
         IN IF \E i \in asked : answers[i] = "error"
              THEN Decide(Current, "error") /\ UNCHANGED eligible
              ELSE /\ eligible' = IF Queries = 0 THEN eligible
                                  ELSE [eligible EXCEPT ![Current] = yes # {}]
                   /\ step' = "select"
                   /\ UNCHANGED <<inputVars, next, verdict>>
    /\ UNCHANGED loopVars

\* "all", and a module that has no phases, leave the rules aside.
Unruled(b) ==
    \/ \E i \in DOMAIN rules : rules[i].id = "all"
    \/ Kind[b] = "module" /\ ~PhasesDefined(b)

\* Up to the loop over the rules. The phase of a lifecycle may be an error,
\* which "all" does not get to see.
Select ==
    /\ step = "select"
    /\ \/ /\ Unruled(Current)
          /\ Decide(Current, Chosen(eligible[Current]))
          /\ UNCHANGED loopVars
       \/ /\ ~Unruled(Current)
          /\ Current \in Phased
          /\ Decide(Current, "error")
          /\ UNCHANGED loopVars
       \/ /\ ~Unruled(Current)
          /\ remaining' = FilterList
          /\ ok' = FALSE
          /\ step' = "loop"
          /\ UNCHANGED <<inputVars, next, verdict>>
    /\ UNCHANGED eligible

\* A rule that names a phase of the block, or "default" for a block without
\* phases.
MatchesPhase(rule, b) ==
    IF AllPhases(b) # {} THEN rule.id \in AllPhases(b) ELSE rule.id = "default"

\* The rule names a block that depends on this one.
NeededBy_Swapped(rule, b) == rule.op = "and" /\ <<b, rule.id>> \in Dependency
NeededBy(rule, b) == rule.op = "and" /\ <<rule.id, b>> \in Dependency

\* What the loop holds after a rule: of several tests that apply to the block
\* the last one counts.
Allowed_Forced(rule, b) ==
    IF MatchesPhase(rule, b) THEN TRUE
    ELSE IF NeededBy(rule, b) THEN eligible[b]
    ELSE IF rule.id # b THEN ok
    ELSE rule.op = "add" \/ (rule.op = "and" /\ eligible[b])

Allowed_Reset(rule, b) ==
    IF MatchesPhase(rule, b) \/ NeededBy(rule, b) THEN eligible[b]
    ELSE rule.id = b /\ (rule.op = "add" \/ (rule.op = "and" /\ eligible[b]))

Allowed(rule, b) ==
    IF MatchesPhase(rule, b) \/ NeededBy(rule, b) THEN eligible[b]
    ELSE IF rule.id # b THEN ok
    ELSE rule.op = "add" \/ (rule.op = "and" /\ eligible[b])

Apply ==
    /\ step = "loop"
    /\ remaining # <<>>
    /\ ok' = Allowed(Head(remaining), Current)
    /\ remaining' = Tail(remaining)
    /\ UNCHANGED <<inputVars, next, step, eligible, verdict>>

Conclude ==
    /\ step = "loop"
    /\ remaining = <<>>
    /\ Decide(Current, Chosen(ok))
    /\ UNCHANGED <<loopVars, eligible>>

Decided ==
    /\ next > Len(Blocks)
    /\ UNCHANGED vars

Next == Condition \/ Query \/ Select \/ Apply \/ Conclude \/ Decided

Spec == Init /\ [][Next]_vars

-------------------------------------------------------------------------------
(* What the rules promise *)

Given(op, b) == \E i \in DOMAIN rules : rules[i] = [op |-> op, id |-> b]
Settled(b) == verdict[b] \in {"run", "skip"}
Ruled(b) == Kind[b] \in {"stage", "module"} /\ ~Unruled(b)

\* A block whose condition or queries say no runs only when the command line
\* adds it by name. (oldOk in BlockCanRun.)
OnlyAddedIgnoresCondition ==
    \A b \in Block : verdict[b] = "run" => eligible[b] \/ Given("add", b)

\* A block that is asked for brings along all that it depends on, unless that
\* is blocked by name, whatever else is on the command line and in whatever
\* order. (depGraph.DependsOn in BlockCanRun.)
DependenciesComeAlong ==
    \A b \in Block :
        /\ \E i \in DOMAIN rules :
             rules[i].op = "and" /\ <<rules[i].id, b>> \in Dependency
        /\ eligible[b] /\ Settled(b) /\ ~Given("sub", b)
        => verdict[b] = "run"

\* Rules without + and ^ add up: a block runs when one of them selects it, and
\* no rule at all asks for "default". (The loop over the rules, which does not
\* stop at the first that applies, and FilterList.)
AndRulesAddUp ==
    (\A i \in DOMAIN rules : rules[i].op = "and") =>
        LET asked == IF rules = <<>> THEN {"default"}
                     ELSE {rules[i].id : i \in DOMAIN rules}
        IN \A b \in Block : Ruled(b) /\ Settled(b) =>
               (verdict[b] = "run" <=>
                   eligible[b] /\ \E id \in asked :
                       \/ id \in {b} \cup AllPhases(b)
                       \/ id = "default" /\ AllPhases(b) = {}
                       \/ <<id, b>> \in Dependency)
===============================================================================
