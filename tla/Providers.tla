------------------------------- MODULE Providers -------------------------------
(***************************************************************************)
(* How data and variable blocks get their values from outside: the         *)
(* providers env, prompt, git and tf as Data.Run drives them, and          *)
(* resolveVar. The blocks are those of one layer of a run, the modules'    *)
(* pipelines included, each in a goroutine of its own. They share the      *)
(* terminal, the directories they fetch sources into, and whatever         *)
(* infrastructure the sources describe. The source a git or tf block names *)
(* is identified with the block.                                           *)
(***************************************************************************)
EXTENDS Naturals, FiniteSets

CONSTANTS
    Block,       \* data and variable blocks
    Conductor,   \* the root's and those of modules
    NoBlock,
    Kind,        \* the provider of a data block, or "var"
    In,          \* the conductor a block runs with
    Destination, \* the destination a git block asks for; "" for none
    AllowApply,  \* the tf blocks with allow_apply
    Scenarios    \* layers, each with what is set for its blocks: see given

Provider == {"env", "prompt", "git", "tf"}
Var == {b \in Block : Kind[b] = "var"}
Tf == {b \in Block : Kind[b] = "tf"}
Result == {"ok", "err"}
Origin == {"none", "env", "cli", "default", "answer"}

ASSUME BlockAssumption ==
    /\ Kind \in [Block -> Provider \cup {"var"}]
    /\ In \in [Block -> Conductor]
    /\ Destination \in [Block -> STRING]
    /\ AllowApply \subseteq Tf
    /\ \A s \in Scenarios :
           /\ s.layer \subseteq Block
           /\ s.given \in [Block -> SUBSET {"env", "cli", "default"}]
    /\ NoBlock \notin Block
    /\ Origin \cap Block = {}

\* Where git clones to, and where terraform works: in the temporary directory
\* of the conductor, where e.Identifier() is the same for all tf blocks.
Directory(b) ==
    IF Kind[b] = "tf" THEN <<"tmp", In[b], "data.tf", NoBlock>>
    ELSE IF Destination[b] \in {"", "memory"} THEN <<"tmp", In[b], "data.git", b>>
    ELSE <<"cwd", Destination[b], "", NoBlock>>

Directories == {Directory(b) : b \in Block}

\* The name of a plan file has a UUID.
PlanFile_Shared(b) == CHOOSE t \in Tf : In[t] = In[b]
PlanFile(b) == b

VARIABLES
    layer,      \* the blocks under way
    unattended, \* Behavior.Unattended
    given,      \* where a block's value is set: in the environment, on the
                \* command line or by the module's inputs, by its default
    at,         \* where the goroutine of a block is
    diags,      \* the severities among its diagnostics
    errors,     \* where it met an error, whether its diagnostics tell or not
    value,      \* where its value came from, or the source its attributes tell of
    stdin,      \* the holder of a conductor's stdinMu
    content,    \* whose source a directory holds
    drift,      \* the sources whose infrastructure differs from what they say
    plan,       \* the plan in a file: of whose source, and whether it changes anything
    applied,    \* who applied a plan that changes something
    exit        \* "panic" and "fatal" end the process

diagVars == <<diags, errors>>
vars == <<layer, unattended, given, at, diagVars, value, stdin, content, drift,
          plan, applied, exit>>

-------------------------------------------------------------------------------
At == {"idle", "decode", "value", "asking", "attributes", "repository", "init",
       "plan", "apply", "show", "conclude", "resolve", "stdin", "convert",
       "done", "failed"}
Over == {"done", "failed"}

TypeOK ==
    /\ layer \in SUBSET Block
    /\ unattended \in BOOLEAN
    /\ given \in [Block -> SUBSET {"env", "cli", "default"}]
    /\ at \in [Block -> At]
    /\ diags \in [Block -> SUBSET {"err", "warn"}]
    /\ errors \in [Block -> SUBSET At]
    /\ value \in [Block -> Origin \cup Block]
    /\ stdin \in [Conductor -> Block \cup {NoBlock}]
    /\ content \in [Directories -> Block \cup {NoBlock}]
    /\ drift \in SUBSET Tf
    /\ plan \in [Tf -> [source : Block \cup {NoBlock}, changes : BOOLEAN]]
    /\ applied \in SUBSET Tf
    /\ exit \in {"running", "panic", "fatal"}

Init ==
    /\ \E s \in Scenarios : layer = s.layer /\ given = s.given
    /\ unattended \in BOOLEAN
    /\ at = [b \in Block |-> "idle"]
    /\ diags = [b \in Block |-> {}]
    /\ errors = [b \in Block |-> {}]
    /\ value = [b \in Block |-> "none"]
    /\ stdin = [c \in Conductor |-> NoBlock]
    /\ content = [d \in Directories |-> NoBlock]
    /\ drift \in SUBSET (Tf \cap layer)
    /\ plan = [b \in Tf |-> [source |-> NoBlock, changes |-> FALSE]]
    /\ applied = {}
    /\ exit = "running"

\* Definitions named X_Y are faults of X that the checks must notice: the same
\* operator the way a plausible slip would have it.

Goto(b, place) == at' = [at EXCEPT ![b] = place]
Note(b, severities) == diags' = [diags EXCEPT ![b] = @ \cup severities]

\* A step of a block ends well or meets an error.
Ends(b, r) ==
    errors' = IF r = "ok" THEN errors ELSE [errors EXCEPT ![b] = @ \cup {at[b]}]

\* What a call that may fail adds to the diagnostics.
Found_Misnamed(r) == IF r = "ok" THEN {} ELSE {"error"}
Found(r) == IF r = "ok" THEN {} ELSE {"err"}

Set(b, from) == value' = [value EXCEPT ![b] = from]

-------------------------------------------------------------------------------
(* Data.Run *)

\* Every data block has a provider, or the graph would not have been built.
Begin(b) ==
    /\ at[b] = "idle"
    /\ Goto(b, IF b \in Var THEN "resolve" ELSE "decode")
    /\ UNCHANGED <<layer, unattended, given, diagVars, value, stdin, content, drift,
                   plan, applied, exit>>

AfterDecode(b) ==
    CASE Kind[b] \in {"env", "prompt"} -> "value"
      [] Kind[b] \in {"git", "tf"} -> "attributes"

\* DecodeBody. Data.Run goes on after its errors, to Value and to Attributes.
Decode(b, r) ==
    /\ at[b] = "decode"
    /\ ~(Kind[b] = "prompt" /\ "default" \notin given[b])
    /\ Goto(b, AfterDecode(b))
    /\ Note(b, Found(r)) /\ Ends(b, r)
    /\ UNCHANGED <<layer, unattended, given, value, stdin, content, drift, plan,
                   applied, exit>>

\* An argument that is missing or has no value: of no Expr, or no string.
DecodePanics(b) ==
    /\ at[b] = "decode"
    /\ exit' = "panic"
    /\ UNCHANGED <<layer, unattended, given, at, diagVars, value, stdin, content,
                   drift, plan, applied>>

\* EnvProvider.Value
EnvValue(b) ==
    /\ at[b] = "value"
    /\ Kind[b] = "env"
    /\ \/ /\ "env" \in given[b]
          /\ Set(b, "env")
          /\ UNCHANGED diagVars
       \/ /\ "env" \notin given[b]
          /\ "default" \in given[b]
          /\ Set(b, "default")
          /\ UNCHANGED diagVars
       \/ /\ given[b] \cap {"env", "default"} = {}
          /\ Note(b, {"err"}) /\ Ends(b, "err")
          /\ UNCHANGED value
    /\ Goto(b, "conclude")
    /\ UNCHANGED <<layer, unattended, given, stdin, content, drift, plan, applied,
                   exit>>

MustAsk_Always(b) == "env" \notin given[b]
MustAsk(b) == "env" \notin given[b] /\ ~unattended

\* PromptProvider.Value, up to the question: it takes no lock.
PromptValue(b) ==
    /\ at[b] = "value"
    /\ Kind[b] = "prompt"
    /\ IF MustAsk(b)
         THEN Goto(b, "asking") /\ UNCHANGED value
         ELSE /\ Set(b, IF "env" \in given[b] THEN "env" ELSE "default")
              /\ Goto(b, "conclude")
    /\ UNCHANGED <<layer, unattended, given, diagVars, stdin, content, drift, plan,
                   applied, exit>>

\* The block is done when nothing went wrong on the way.
Clean_Warned(b) == diags[b] # {"err"}
Clean(b) == "err" \notin diags[b]

\* After an error Run returns before it defines anything.
Conclude(b) ==
    /\ at[b] = "conclude"
    /\ Goto(b, IF Clean(b) THEN "done" ELSE "failed")
    /\ UNCHANGED <<layer, unattended, given, diagVars, value, stdin, content, drift,
                   plan, applied, exit>>

-------------------------------------------------------------------------------
(* GitProvider.Attributes *)

\* git clones into an empty directory only.
Clone(b, r) ==
    /\ at[b] = "attributes"
    /\ Kind[b] = "git"
    /\ r = "ok" => content[Directory(b)] = NoBlock
    /\ content' = IF r = "ok" THEN [content EXCEPT ![Directory(b)] = b] ELSE content
    /\ Goto(b, IF r = "ok" THEN "repository" ELSE "conclude")
    /\ Ends(b, r)
    /\ Note(b, Found(r) \cup (IF Destination[b] = "memory" THEN {"warn"} ELSE {}))
    /\ UNCHANGED <<layer, unattended, given, value, stdin, drift, plan, applied, exit>>

\* What is read of the repository. The branch, the tags and the reference may
\* be missing with a warning, the commit and a file may not.
ReadRepository(b, r, severities) ==
    /\ at[b] = "repository"
    /\ IF r = "ok" THEN Set(b, content[Directory(b)]) ELSE UNCHANGED value
    /\ Note(b, Found(r) \cup severities) /\ Ends(b, r)
    /\ Goto(b, "conclude")
    /\ UNCHANGED <<layer, unattended, given, stdin, content, drift, plan, applied, exit>>

-------------------------------------------------------------------------------
(* TfProvider.Attributes *)

\* The getter replaces what the directory holds.
Get(b, r) ==
    /\ at[b] = "attributes"
    /\ Kind[b] = "tf"
    /\ content' = IF r = "ok" THEN [content EXCEPT ![Directory(b)] = b] ELSE content
    /\ Goto(b, IF r = "ok" THEN "init" ELSE "conclude")
    /\ Note(b, Found(r)) /\ Ends(b, r)
    /\ UNCHANGED <<layer, unattended, given, value, stdin, drift, plan, applied, exit>>

\* LookPath, NewTerraform, Init, and MkdirAll and Abs, which may panic
TfInit(b, r) ==
    /\ at[b] = "init"
    /\ Goto(b, IF r = "ok" THEN "plan" ELSE "conclude")
    /\ Note(b, Found(r)) /\ Ends(b, r)
    /\ exit' \in {"running", "panic"}
    /\ UNCHANGED <<layer, unattended, given, value, stdin, content, drift, plan,
                   applied>>

\* A plan that changes something is applied with allow_apply only.
AfterPlan(b, changes) ==
    IF changes /\ b \notin AllowApply THEN "conclude" ELSE "apply"

\* A plan that changes what the block may not change is an error.
Verdict(b, changes) == IF AfterPlan(b, changes) = "apply" THEN "ok" ELSE "err"

\* tf.Plan plans for the source the directory holds.
Plan(b) ==
    LET source == content[Directory(b)]
        changes == source \in drift
    IN  /\ at[b] = "plan"
        /\ \/ /\ plan' = [plan EXCEPT ![PlanFile(b)] =
                            [source |-> source, changes |-> changes]]
              /\ Goto(b, AfterPlan(b, changes))
              /\ Note(b, Found(Verdict(b, changes))) /\ Ends(b, Verdict(b, changes))
           \/ /\ UNCHANGED plan
              /\ Goto(b, "conclude")
              /\ Note(b, {"err"}) /\ Ends(b, "err")
        /\ UNCHANGED <<layer, unattended, given, value, stdin, content, drift,
                       applied, exit>>

\* tf.Apply, also of a plan that changes nothing. One that fails may have changed
\* a part, and its error is lost: that of Show replaces it.
Apply(b, r) ==
    LET p == plan[PlanFile(b)]
    IN  /\ at[b] = "apply"
        /\ \/ /\ p.changes
              /\ drift' = IF r = "ok" THEN drift \ {p.source} ELSE drift
              /\ applied' = applied \cup {b}
           \/ /\ r = "ok" => ~p.changes
              /\ UNCHANGED <<drift, applied>>
        /\ Goto(b, "show")
        /\ Ends(b, r)
        /\ UNCHANGED <<layer, unattended, given, diags, value, stdin, content, plan,
                       exit>>

\* tf.Show tells of the source the directory holds: log.Fatalf without it, and
\* of a state with no values or of a value with no type a panic.
Show(b) ==
    /\ at[b] = "show"
    /\ \/ Set(b, content[Directory(b)]) /\ Goto(b, "conclude") /\ UNCHANGED exit
       \/ exit' \in {"fatal", "panic"} /\ UNCHANGED <<value, at>>
    /\ UNCHANGED <<layer, unattended, given, diagVars, stdin, content, drift, plan,
                   applied>>

-------------------------------------------------------------------------------
(* Variable.resolveVarTypedWithDefaults *)

\* The environment goes before the command line, that before the default; an
\* expression may not evaluate, and a default may be null.
Resolve(b) ==
    /\ at[b] = "resolve"
    /\ \/ "env" \in given[b] /\ Set(b, "env") /\ Goto(b, "convert") /\ UNCHANGED diagVars
       \/ /\ "env" \notin given[b]
          /\ given[b] # {}
          /\ \E r \in Result :
                /\ Set(b, IF r = "err" THEN "none"
                          ELSE IF "cli" \in given[b] THEN "cli" ELSE "default")
                /\ Note(b, Found(r)) /\ Ends(b, r)
          /\ Goto(b, "convert")
       \/ /\ given[b] \subseteq {"default"}
          /\ Goto(b, "stdin")
          /\ UNCHANGED <<value, diagVars>>
    /\ UNCHANGED <<layer, unattended, given, stdin, content, drift, plan, applied, exit>>

\* StdinLock: one per conductor
StdinLock(b) ==
    /\ at[b] = "stdin"
    /\ stdin[In[b]] = NoBlock
    /\ stdin' = [stdin EXCEPT ![In[b]] = b]
    /\ Goto(b, "asking")
    /\ UNCHANGED <<layer, unattended, given, diagVars, value, content, drift, plan,
                   applied, exit>>

\* convert.Convert to the type of the variable
Convert(b, r) ==
    /\ at[b] = "convert"
    /\ Note(b, Found(r)) /\ Ends(b, r)
    /\ Goto(b, "conclude")
    /\ UNCHANGED <<layer, unattended, given, value, stdin, content, drift, plan,
                   applied, exit>>

-------------------------------------------------------------------------------
(* The user *)

StdinUnlocked(b, r) ==
    IF b \in Var THEN [stdin EXCEPT ![In[b]] = NoBlock] ELSE stdin

\* survey.AskOne returns an answer or fails. A variable must have one, a prompt
\* falls back to its default.
Answer(b, r) ==
    /\ at[b] = "asking"
    /\ IF b \in Var
         THEN /\ Set(b, IF r = "ok" THEN "answer" ELSE "none")
              /\ Note(b, Found(r))
              /\ Goto(b, "convert")
         ELSE /\ Set(b, IF r = "ok" THEN "answer" ELSE "default")
              /\ Note(b, IF r = "ok" THEN {} ELSE {"warn"})
              /\ Goto(b, "conclude")
    /\ Ends(b, r)
    /\ stdin' = StdinUnlocked(b, r)
    /\ UNCHANGED <<layer, unattended, given, content, drift, plan, applied, exit>>

-------------------------------------------------------------------------------
Goroutine(b) ==
    /\ exit = "running"
    /\ \/ Begin(b) \/ DecodePanics(b) \/ EnvValue(b) \/ PromptValue(b) \/ Conclude(b)
       \/ \E r \in Result :
              \/ Decode(b, r) \/ Clone(b, r) \/ Get(b, r) \/ TfInit(b, r)
              \/ Apply(b, r) \/ Convert(b, r)
              \/ \E s \in SUBSET {"warn"} : ReadRepository(b, r, s)
       \/ Plan(b) \/ Show(b) \/ Resolve(b) \/ StdinLock(b)

User == exit = "running" /\ \E b \in layer : \E r \in Result : Answer(b, r)

Ended ==
    /\ exit # "running" \/ \A b \in layer : at[b] \in Over
    /\ UNCHANGED vars

Next ==
    \/ \E b \in layer : Goroutine(b)
    \/ User
    \/ Ended

Spec == Init /\ [][Next]_vars

\* Commands, downloads and evaluations return; a user need not answer.
FairSpec == Spec /\ \A b \in Block : WF_vars(b \in layer /\ Goroutine(b))

-------------------------------------------------------------------------------
(* What the providers promise *)

\* Only a block with allow_apply changes infrastructure, whatever other blocks
\* plan and apply meanwhile in the directory all share. (TfProvider.Attributes:
\* the test of infraChanged, and the UUID of the plan file.)
ApplyIsAllowed == applied \subseteq AllowApply

\* A block that works in a directory of its own.
Alone(b) == \A d \in layer \ {b} : Kind[d] = "tf" => Directory(d) # Directory(b)

\* The errors that do not fail a block: a prompt nobody answered has its default,
\* and an Apply that failed is followed by Show all the same.
Forgiven(b) ==
    CASE Kind[b] = "prompt" -> {"asking"}
      [] Kind[b] = "tf" -> {"apply"}
      [] OTHER -> {}

\* A block that is done has a value, and met no error at any of its steps (what
\* git only warns of is none) but those: a prompt's question, and the Apply of terraform, whose error the code
\* loses. What it tells is told of the source it named; of tf blocks, those that
\* are alone in a conductor's only terraform directory. (Data.Run,
\* resolveVar, resolveDestination, Identifier.)
DoneIsOwn ==
    \A b \in layer : at[b] = "done" =>
        /\ errors[b] \subseteq Forgiven(b)
        /\ value[b] # "none"
        /\ Kind[b] \in {"git", "tf"} /\ Alone(b) => value[b] = b

\* A question that may wait for ever: in an unattended run only that of a
\* variable with no value.
Pending(b) ==
    /\ at[b] = "asking"
    /\ unattended => b \in Var /\ given[b] \subseteq {"default"}

\* The blocks of a layer end, or somebody is being asked: nobody waits for a
\* terminal that nobody uses. (StdinLock, StdinUnlock, Behavior.Unattended.)
EndsUnlessAsked ==
    <>[](exit # "running" \/ (\A b \in layer : at[b] \in Over) \/ \E b \in layer : Pending(b))
===============================================================================
