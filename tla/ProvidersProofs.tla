---------------------------- MODULE ProvidersProofs ----------------------------
(***************************************************************************)
(* Proofs about Providers, for every set of blocks, conductors, sources    *)
(* and destinations: no plan is applied that its block does not allow, and *)
(* what a block tells is its own.                                          *)
(***************************************************************************)
EXTENDS Providers, TLAPS

\* Which kind of block can be where.
Places ==
    \A b \in Block :
        /\ at[b] \in {"init", "plan", "apply", "show"} => Kind[b] = "tf"
        /\ at[b] = "repository" => Kind[b] = "git"
        /\ at[b] \in {"decode", "value", "attributes"} => Kind[b] \in Provider
        /\ at[b] = "value" => Kind[b] \in {"env", "prompt"}
        /\ at[b] \in {"resolve", "stdin", "convert"} => Kind[b] = "var"
        /\ at[b] = "asking" => Kind[b] \in {"prompt", "var"}

\* A plan that is going to be applied changes nothing or is allowed to.
Planned ==
    \A b \in Tf : at[b] = "apply" /\ plan[b].changes => b \in AllowApply

\* Whoever has fetched a source finds one in its directory, and its own when
\* nobody else works there.
Fetched ==
    \A b \in layer : at[b] \in {"repository", "init", "plan", "apply", "show"} =>
        /\ content[Directory(b)] \in Block
        /\ Alone(b) => content[Directory(b)] = b

\* Every error is among the diagnostics, those of a failed question or Apply
\* excepted.
Told ==
    \A b \in Block : errors[b] \subseteq Forgiven(b) \/ "err" \in diags[b]

\* What a block is going to be done with.
Valued ==
    \A b \in layer :
        /\ at[b] = "convert" => value[b] # "none" \/ "err" \in diags[b]
        /\ at[b] \in {"conclude", "done"} /\ "err" \notin diags[b] =>
              /\ value[b] # "none"
              /\ Kind[b] \in {"git", "tf"} /\ Alone(b) => value[b] = b
        /\ at[b] = "done" => "err" \notin diags[b]

IInv == TypeOK /\ Places /\ Told /\ Planned /\ Fetched /\ Valued /\ ApplyIsAllowed

-------------------------------------------------------------------------------
LEMMA Start == Init => IInv
<1> SUFFICES ASSUME Init PROVE IInv
  OBVIOUS
<1> USE BlockAssumption DEF BlockAssumption, Init
<1>1. TypeOK
  BY DEF TypeOK, At, Origin, Tf
<1>2. Places /\ Planned /\ Fetched /\ Valued
  BY DEF Places, Planned, Fetched, Valued, Tf
<1>3. ApplyIsAllowed /\ Told
  BY DEF ApplyIsAllowed, Told
<1>4. QED BY <1>1, <1>2, <1>3 DEF IInv

\* Terraform works in a directory that git does not clone to.
LEMMA Apart ==
    \A b \in Tf : \A d \in Block : Kind[d] = "git" => Directory(b) # Directory(d)
<1> SUFFICES ASSUME NEW b \in Tf, NEW d \in Block, Kind[d] = "git"
             PROVE Directory(b) # Directory(d)
  OBVIOUS
<1>1. Directory(b) = <<"tmp", In[b], "data.tf", NoBlock>>
  BY DEF Tf, Directory
<1>2. \/ Directory(d) = <<"tmp", In[d], "data.git", d>>
      \/ Directory(d) = <<"cwd", Destination[d], "", NoBlock>>
  BY DEF Directory
<1>3. <<"tmp", In[b], "data.tf", NoBlock>>[3] = "data.tf"
  BY SMT
<1>4. <<"tmp", In[d], "data.git", d>>[3] = "data.git"
  BY SMT
<1>5. <<"cwd", Destination[d], "", NoBlock>>[3] = ""
  BY SMT
<1>6. QED BY <1>1, <1>2, <1>3, <1>4, <1>5

\* Every step keeps the types, and leaves a block where its kind can be.
LEMMA TypeStep == TypeOK /\ Places /\ Fetched /\ [Next]_vars => (TypeOK /\ Places)'
<1> SUFFICES ASSUME TypeOK, Places, Fetched, [Next]_vars PROVE (TypeOK /\ Places)'
  OBVIOUS
<1>a. \A b \in Block : Directory(b) \in Directories
  BY DEF Directories
<1> USE <1>a, BlockAssumption DEF BlockAssumption, Goto, Note, Ends, diagVars, Set, Var, Tf, Provider, Result, TypeOK, Places, At, Over, Origin, Fetched
<1>1. ASSUME NEW b \in layer, Begin(b) PROVE (TypeOK /\ Places)'
  <2>1. at' \in [Block -> At] /\ Places'
    BY <1>1 DEF Begin
  <2>2. QED BY <1>1, <2>1 DEF Begin
<1>2. ASSUME NEW b \in layer, NEW r \in Result, Decode(b, r) PROVE (TypeOK /\ Places)'
  BY <1>2 DEF Decode, AfterDecode, Found
<1>3. ASSUME NEW b \in layer, DecodePanics(b) PROVE (TypeOK /\ Places)'
  BY <1>3 DEF DecodePanics
<1>4. ASSUME NEW b \in layer, EnvValue(b) PROVE (TypeOK /\ Places)'
  <2>1. at' \in [Block -> At] /\ Places'
    BY <1>4 DEF EnvValue
  <2>2. diags' \in [Block -> SUBSET {"err", "warn"}] /\ errors' \in [Block -> SUBSET At]
    BY <1>4 DEF EnvValue
  <2>3. value' \in [Block -> Origin \cup Block]
    BY <1>4 DEF EnvValue
  <2>4. QED BY <1>4, <2>1, <2>2, <2>3 DEF EnvValue
<1>5. ASSUME NEW b \in layer, PromptValue(b) PROVE (TypeOK /\ Places)'
  BY <1>5 DEF PromptValue
<1>6. ASSUME NEW b \in layer, Conclude(b) PROVE (TypeOK /\ Places)'
  BY <1>6 DEF Conclude, Clean
<1>7. ASSUME NEW b \in layer, NEW r \in Result, Clone(b, r) PROVE (TypeOK /\ Places)'
  BY <1>7 DEF Clone, Found
<1>8. ASSUME NEW b \in layer, NEW r \in Result, NEW s \in SUBSET {"warn"}, ReadRepository(b, r, s) PROVE (TypeOK /\ Places)'
  <2>1. content[Directory(b)] \in Block
    BY <1>8 DEF ReadRepository
  <2>2. value' \in [Block -> Origin \cup Block]
    BY <1>8, <2>1 DEF ReadRepository
  <2>3. diags' \in [Block -> SUBSET {"err", "warn"}]
    <3>1. Found(r) \cup s \in SUBSET {"err", "warn"}
      BY DEF Found
    <3>2. QED BY <1>8, <3>1 DEF ReadRepository
  <2>4. QED BY <1>8, <2>2, <2>3 DEF ReadRepository
<1>9. ASSUME NEW b \in layer, NEW r \in Result, Get(b, r) PROVE (TypeOK /\ Places)'
  BY <1>9 DEF Get, Found
<1>10. ASSUME NEW b \in layer, NEW r \in Result, TfInit(b, r) PROVE (TypeOK /\ Places)'
  BY <1>10 DEF TfInit, Found
<1>11. ASSUME NEW b \in layer, Plan(b) PROVE (TypeOK /\ Places)'
  <2>1. /\ b \in Tf /\ at[b] = "plan" /\ content[Directory(b)] \in Block
        /\ UNCHANGED <<layer, unattended, given, value, stdin, content, drift, applied, exit>>
    BY <1>11 DEF Plan
  <2>2. at'[b] \in {"apply", "conclude"} /\ \A a \in Block \ {b} : at'[a] = at[a]
    BY <1>11 DEF Plan, AfterPlan
  <2>3. Places' /\ at' \in [Block -> At]
    <3>1. at' = [at EXCEPT ![b] = "apply"] \/ at' = [at EXCEPT ![b] = "conclude"]
      BY <1>11 DEF Plan, AfterPlan
    <3>2. QED BY <2>1, <3>1
  <2>4. plan' \in [Tf -> [source : Block \cup {NoBlock}, changes : BOOLEAN]]
    <3>1. \/ plan' = plan
          \/ plan' = [plan EXCEPT ![b] = [source |-> content[Directory(b)],
                                         changes |-> content[Directory(b)] \in drift]]
      BY <1>11 DEF Plan, PlanFile
    <3> DEFINE Q == [source : Block \cup {NoBlock}, changes : BOOLEAN]
               q == [source |-> content[Directory(b)],
                     changes |-> content[Directory(b)] \in drift]
    <3>2. q \in Q
      BY <2>1
    <3>3. plan \in [Tf -> Q] /\ b \in Tf
      BY <2>1
    <3>4. plan' = plan \/ plan' = [plan EXCEPT ![b] = q]
      BY <3>1
    <3> HIDE DEF q, Q
    <3>5. plan' \in [Tf -> Q]
      BY <3>2, <3>3, <3>4
    <3>6. QED BY <3>5 DEF Q
  <2>5. diags' \in [Block -> SUBSET {"err", "warn"}]
    BY <1>11 DEF Plan, Found
  <2>6. errors' \in [Block -> SUBSET At]
    BY <1>11, <2>1 DEF Plan
  <2>7. QED BY <2>1, <2>3, <2>4, <2>5, <2>6
<1>12. ASSUME NEW b \in layer, NEW r \in Result, Apply(b, r) PROVE (TypeOK /\ Places)'
  <2>1. at' \in [Block -> At] /\ errors' \in [Block -> SUBSET At] /\ Places'
    BY <1>12 DEF Apply
  <2>2. drift' \in SUBSET Tf /\ applied' \in SUBSET Tf
    BY <1>12 DEF Apply
  <2>3. QED BY <1>12, <2>1, <2>2 DEF Apply
<1>13. ASSUME NEW b \in layer, Show(b) PROVE (TypeOK /\ Places)'
  <2>1. content[Directory(b)] \in Block
    BY <1>13 DEF Show
  <2>2. value' \in [Block -> Origin \cup Block]
    BY <1>13, <2>1 DEF Show
  <2>3. at' \in [Block -> At] /\ Places'
    <3>1. at' = at \/ at' = [at EXCEPT ![b] = "conclude"]
      BY <1>13 DEF Show
    <3> HIDE <1>a
    <3>2. QED BY <3>1
  <2>4. exit' \in {"running", "panic", "fatal"}
    BY <1>13 DEF Show
  <2>5. UNCHANGED <<layer, unattended, given, diags, errors, stdin, content, drift,
                    plan, applied>>
    BY <1>13 DEF Show
  <2>6. TypeOK'
    BY <2>2, <2>3, <2>4, <2>5
  <2>7. QED BY <2>3, <2>6
<1>14. ASSUME NEW b \in layer, Resolve(b) PROVE (TypeOK /\ Places)'
  <2>1. at' \in [Block -> At] /\ Places'
    BY <1>14 DEF Resolve
  <2>2. diags' \in [Block -> SUBSET {"err", "warn"}] /\ errors' \in [Block -> SUBSET At]
    BY <1>14 DEF Resolve, Found
  <2>3. value' \in [Block -> Origin \cup Block]
    BY <1>14 DEF Resolve
  <2>4. QED BY <1>14, <2>1, <2>2, <2>3 DEF Resolve
<1>15. ASSUME NEW b \in layer, StdinLock(b) PROVE (TypeOK /\ Places)'
  BY <1>15 DEF StdinLock
<1>16. ASSUME NEW b \in layer, NEW r \in Result, Convert(b, r) PROVE (TypeOK /\ Places)'
  BY <1>16 DEF Convert, Found
<1>17. ASSUME NEW b \in layer, NEW r \in Result, Answer(b, r) PROVE (TypeOK /\ Places)'
  BY <1>17, SMTT(30) DEF Answer, Found, StdinUnlocked
<1>18. CASE UNCHANGED vars
  BY <1>18 DEF vars
<1> HIDE DEF BlockAssumption, Goto, Note, Ends, diagVars, Set, Var, Tf, Provider, Result, TypeOK, Places, At, Over, Origin, Fetched
<1>19. QED
  BY <1>1, <1>2, <1>3, <1>4, <1>5, <1>6, <1>7, <1>8, <1>9, <1>10, <1>11, <1>12, <1>13, <1>14, <1>15, <1>16, <1>17, <1>18 DEF Next, Goroutine, User, Ended

\* Nobody else writes a block's plan between its test and its Apply.
LEMMA ApplyStep == TypeOK /\ Places /\ Planned /\ ApplyIsAllowed /\ [Next]_vars => (Planned /\ ApplyIsAllowed)'
<1> SUFFICES ASSUME TypeOK, Places, Planned, ApplyIsAllowed, [Next]_vars PROVE (Planned /\ ApplyIsAllowed)'
  OBVIOUS
<1> USE BlockAssumption DEF BlockAssumption, Goto, Note, Ends, diagVars, Set, Var, Tf, Provider, Result, TypeOK, Places, At, Planned, ApplyIsAllowed
<1>1. ASSUME NEW b \in layer, Begin(b) PROVE (Planned /\ ApplyIsAllowed)'
  BY <1>1 DEF Begin
<1>2. ASSUME NEW b \in layer, NEW r \in Result, Decode(b, r) PROVE (Planned /\ ApplyIsAllowed)'
  BY <1>2 DEF Decode, AfterDecode, Found
<1>3. ASSUME NEW b \in layer, DecodePanics(b) PROVE (Planned /\ ApplyIsAllowed)'
  BY <1>3 DEF DecodePanics
<1>4. ASSUME NEW b \in layer, EnvValue(b) PROVE (Planned /\ ApplyIsAllowed)'
  BY <1>4 DEF EnvValue
<1>5. ASSUME NEW b \in layer, PromptValue(b) PROVE (Planned /\ ApplyIsAllowed)'
  BY <1>5 DEF PromptValue
<1>6. ASSUME NEW b \in layer, Conclude(b) PROVE (Planned /\ ApplyIsAllowed)'
  BY <1>6 DEF Conclude, Clean
<1>7. ASSUME NEW b \in layer, NEW r \in Result, Clone(b, r) PROVE (Planned /\ ApplyIsAllowed)'
  BY <1>7 DEF Clone, Found
<1>8. ASSUME NEW b \in layer, NEW r \in Result, NEW s \in SUBSET {"warn"}, ReadRepository(b, r, s) PROVE (Planned /\ ApplyIsAllowed)'
  BY <1>8 DEF ReadRepository, Found
<1>9. ASSUME NEW b \in layer, NEW r \in Result, Get(b, r) PROVE (Planned /\ ApplyIsAllowed)'
  BY <1>9 DEF Get, Found
<1>10. ASSUME NEW b \in layer, NEW r \in Result, TfInit(b, r) PROVE (Planned /\ ApplyIsAllowed)'
  BY <1>10 DEF TfInit, Found
<1>11. ASSUME NEW b \in layer, Plan(b) PROVE (Planned /\ ApplyIsAllowed)'
  <2>1. b \in Tf /\ at[b] = "plan" /\ UNCHANGED <<applied>>
    BY <1>11 DEF Plan
  <2>2. CASE /\ plan' = [plan EXCEPT ![b] =
                          [source |-> content[Directory(b)],
                           changes |-> content[Directory(b)] \in drift]]
             /\ Goto(b, AfterPlan(b, content[Directory(b)] \in drift))
    <3>1. plan'[b].changes = (content[Directory(b)] \in drift)
      BY <2>1, <2>2
    <3>2. at'[b] = "apply" /\ plan'[b].changes => b \in AllowApply
      BY <2>1, <2>2, <3>1 DEF AfterPlan
    <3>3. \A t \in Tf \ {b} : plan'[t] = plan[t] /\ at'[t] = at[t]
      BY <2>1, <2>2
    <3>4. QED BY <2>1, <3>2, <3>3
  <2>3. CASE UNCHANGED plan /\ Goto(b, "conclude")
    BY <2>1, <2>3
  <2>4. QED BY <1>11, <2>2, <2>3 DEF Plan, PlanFile
<1>12. ASSUME NEW b \in layer, NEW r \in Result, Apply(b, r) PROVE (Planned /\ ApplyIsAllowed)'
  BY <1>12 DEF Apply, PlanFile
<1>13. ASSUME NEW b \in layer, Show(b) PROVE (Planned /\ ApplyIsAllowed)'
  BY <1>13 DEF Show
<1>14. ASSUME NEW b \in layer, Resolve(b) PROVE (Planned /\ ApplyIsAllowed)'
  BY <1>14 DEF Resolve, Found
<1>15. ASSUME NEW b \in layer, StdinLock(b) PROVE (Planned /\ ApplyIsAllowed)'
  BY <1>15 DEF StdinLock
<1>16. ASSUME NEW b \in layer, NEW r \in Result, Convert(b, r) PROVE (Planned /\ ApplyIsAllowed)'
  BY <1>16 DEF Convert, Found
<1>17. ASSUME NEW b \in layer, NEW r \in Result, Answer(b, r) PROVE (Planned /\ ApplyIsAllowed)'
  BY <1>17 DEF Answer, Found, StdinUnlocked
<1>18. CASE UNCHANGED vars
  BY <1>18 DEF vars
<1> HIDE DEF BlockAssumption, Goto, Note, Ends, diagVars, Set, Var, Tf, Provider, Result, TypeOK, Places, At, Planned, ApplyIsAllowed
<1>19. QED
  BY <1>1, <1>2, <1>3, <1>4, <1>5, <1>6, <1>7, <1>8, <1>9, <1>10, <1>11, <1>12, <1>13, <1>14, <1>15, <1>16, <1>17, <1>18 DEF Next, Goroutine, User, Ended

\* A block keeps its source until it has told of it, and forgets no error.
LEMMA OwnStep == TypeOK /\ Places /\ Fetched /\ Valued /\ [Next]_vars => (Fetched /\ Valued)'
<1> SUFFICES ASSUME TypeOK, Places, Fetched, Valued, [Next]_vars PROVE (Fetched /\ Valued)'
  OBVIOUS
<1>a. \A b \in Block : Directory(b) \in Directories
  BY DEF Directories
<1> USE <1>a, Apart, BlockAssumption DEF BlockAssumption, Goto, Note, Ends, diagVars, Set, Var, Tf, Provider, Result, TypeOK, Places, At, Origin, Alone, Fetched, Valued
<1>1. ASSUME NEW b \in layer, Begin(b) PROVE (Fetched /\ Valued)'
  BY <1>1 DEF Begin
<1>2. ASSUME NEW b \in layer, NEW r \in Result, Decode(b, r) PROVE (Fetched /\ Valued)'
  BY <1>2 DEF Decode, AfterDecode, Found
<1>3. ASSUME NEW b \in layer, DecodePanics(b) PROVE (Fetched /\ Valued)'
  BY <1>3 DEF DecodePanics
<1>4. ASSUME NEW b \in layer, EnvValue(b) PROVE (Fetched /\ Valued)'
  BY <1>4 DEF EnvValue
<1>5. ASSUME NEW b \in layer, PromptValue(b) PROVE (Fetched /\ Valued)'
  BY <1>5 DEF PromptValue
<1>6. ASSUME NEW b \in layer, Conclude(b) PROVE (Fetched /\ Valued)'
  BY <1>6 DEF Conclude, Clean
<1>7. ASSUME NEW b \in layer, NEW r \in Result, Clone(b, r) PROVE (Fetched /\ Valued)'
  BY <1>7 DEF Clone, Found
<1>8. ASSUME NEW b \in layer, NEW r \in Result, NEW s \in SUBSET {"warn"}, ReadRepository(b, r, s) PROVE (Fetched /\ Valued)'
  BY <1>8 DEF ReadRepository, Found
<1>9. ASSUME NEW b \in layer, NEW r \in Result, Get(b, r) PROVE (Fetched /\ Valued)'
  BY <1>9 DEF Get, Found
<1>10. ASSUME NEW b \in layer, NEW r \in Result, TfInit(b, r) PROVE (Fetched /\ Valued)'
  BY <1>10 DEF TfInit, Found
<1>11. ASSUME NEW b \in layer, Plan(b) PROVE (Fetched /\ Valued)'
  <2>1. at[b] = "plan" /\ UNCHANGED <<layer, value, content>>
    BY <1>11 DEF Plan
  <2>2. /\ \A a \in Block \ {b} : at'[a] = at[a] /\ diags'[a] = diags[a]
        /\ at'[b] = "apply" \/ (at'[b] = "conclude" /\ "err" \in diags'[b])
    BY <1>11 DEF Plan, AfterPlan, Verdict, Found
  <2>3. Fetched'
    BY <2>1, <2>2
  <2>4. Valued'
    BY <2>1, <2>2
  <2>5. QED BY <2>3, <2>4
<1>12. ASSUME NEW b \in layer, NEW r \in Result, Apply(b, r) PROVE (Fetched /\ Valued)'
  BY <1>12 DEF Apply, PlanFile
<1>13. ASSUME NEW b \in layer, Show(b) PROVE (Fetched /\ Valued)'
  BY <1>13 DEF Show
<1>14. ASSUME NEW b \in layer, Resolve(b) PROVE (Fetched /\ Valued)'
  BY <1>14 DEF Resolve, Found
<1>15. ASSUME NEW b \in layer, StdinLock(b) PROVE (Fetched /\ Valued)'
  BY <1>15 DEF StdinLock
<1>16. ASSUME NEW b \in layer, NEW r \in Result, Convert(b, r) PROVE (Fetched /\ Valued)'
  BY <1>16 DEF Convert, Found
<1>17. ASSUME NEW b \in layer, NEW r \in Result, Answer(b, r) PROVE (Fetched /\ Valued)'
  BY <1>17 DEF Answer, Found, StdinUnlocked
<1>18. CASE UNCHANGED vars
  BY <1>18 DEF vars
<1> HIDE DEF BlockAssumption, Goto, Note, Ends, diagVars, Set, Var, Tf, Provider, Result, TypeOK, Places, At, Origin, Alone, Fetched, Valued
<1>19. QED
  BY <1>1, <1>2, <1>3, <1>4, <1>5, <1>6, <1>7, <1>8, <1>9, <1>10, <1>11, <1>12, <1>13, <1>14, <1>15, <1>16, <1>17, <1>18 DEF Next, Goroutine, User, Ended

\* No step meets an error that its block does not tell, but those forgiven.
LEMMA ToldStep == TypeOK /\ Places /\ Told /\ [Next]_vars => Told'
<1> SUFFICES ASSUME TypeOK, Places, Told, [Next]_vars PROVE Told'
  OBVIOUS
<1> USE BlockAssumption DEF BlockAssumption, Note, Ends, diagVars, Var, Tf, Provider, Result, TypeOK, Places, At, Found, Forgiven
<1>a. ASSUME NEW b \in Block, NEW r \in Result, Ends(b, r),
             \A a \in Block : diags[a] \subseteq diags'[a],
             r = "err" => "err" \in diags'[b] \/ at[b] \in Forgiven(b)
      PROVE Told'
  BY <1>a DEF Told
<1>b. ASSUME UNCHANGED diagVars PROVE Told'
  BY <1>b DEF Told
<1>1. ASSUME NEW b \in layer, NEW r \in Result, Decode(b, r) PROVE Told'
  BY <1>1, <1>a, <1>b DEF Decode
<1>2. ASSUME NEW b \in layer, EnvValue(b) PROVE Told'
  BY <1>2, <1>a, <1>b DEF EnvValue
<1>3. ASSUME NEW b \in layer, NEW r \in Result, Clone(b, r) PROVE Told'
  BY <1>3, <1>a, <1>b DEF Clone
<1>4. ASSUME NEW b \in layer, NEW r \in Result, NEW s \in SUBSET {"warn"}, ReadRepository(b, r, s) PROVE Told'
  BY <1>4, <1>a, <1>b DEF ReadRepository
<1>5. ASSUME NEW b \in layer, NEW r \in Result, Get(b, r) PROVE Told'
  BY <1>5, <1>a, <1>b DEF Get
<1>6. ASSUME NEW b \in layer, NEW r \in Result, TfInit(b, r) PROVE Told'
  BY <1>6, <1>a, <1>b DEF TfInit
<1>7. ASSUME NEW b \in layer, Plan(b) PROVE Told'
  BY <1>7, <1>a, <1>b DEF Plan
<1>8. ASSUME NEW b \in layer, NEW r \in Result, Apply(b, r) PROVE Told'
  BY <1>8, <1>a, <1>b DEF Apply
<1>9. ASSUME NEW b \in layer, Resolve(b) PROVE Told'
  BY <1>9, <1>a, <1>b DEF Resolve
<1>10. ASSUME NEW b \in layer, NEW r \in Result, Convert(b, r) PROVE Told'
  BY <1>10, <1>a, <1>b DEF Convert
<1>11. ASSUME NEW b \in layer, NEW r \in Result, Answer(b, r) PROVE Told'
  <2>1. at[b] = "asking" /\ Ends(b, r)
    BY <1>11 DEF Answer
  <2>2. CASE b \in Var
    <3>1. diags' = [diags EXCEPT ![b] = @ \cup Found(r)]
      BY <1>11, <2>2 DEF Answer
    <3>2. QED BY <1>a, <2>1, <3>1
  <2>3. CASE b \notin Var
    <3>1. "asking" \in Forgiven(b)
      BY <2>1, <2>3
    <3>2. diags' = [diags EXCEPT ![b] = @ \cup (IF r = "ok" THEN {} ELSE {"warn"})]
      BY <1>11, <2>3 DEF Answer
    <3>3. QED BY <1>a, <2>1, <3>1, <3>2
  <2>4. QED BY <2>2, <2>3
<1>12. ASSUME NEW b \in layer,
              Begin(b) \/ DecodePanics(b) \/ PromptValue(b) \/ Conclude(b) \/ Show(b) \/ StdinLock(b)
       PROVE UNCHANGED diagVars
  BY <1>12 DEF Begin, DecodePanics, PromptValue, Conclude, Show, StdinLock
<1>13. CASE UNCHANGED vars
  BY <1>13, <1>b DEF vars
<1> HIDE DEF BlockAssumption, Note, Ends, diagVars, Var, Tf, Provider, TypeOK, Places, At, Found, Forgiven
<1>14. QED
  BY <1>1, <1>2, <1>3, <1>4, <1>5, <1>6, <1>7, <1>8, <1>9, <1>10, <1>11, <1>12, <1>13, <1>b DEF Next, Goroutine, User, Ended

-------------------------------------------------------------------------------
LEMMA Invariance == Spec => []IInv
<1>1. IInv /\ [Next]_vars => IInv'
  BY TypeStep, ApplyStep, OwnStep, ToldStep DEF IInv
<1>2. QED BY Start, <1>1, PTL DEF Spec

\* Every variable keeps its type.
THEOREM TypeCorrect == Spec => []TypeOK
<1>1. IInv => TypeOK
  BY DEF IInv
<1>2. QED BY <1>1, Invariance, PTL

\* Only a block with allow_apply changes infrastructure.
THEOREM OnlyAllowedApplies == Spec => []ApplyIsAllowed
<1>1. IInv => ApplyIsAllowed
  BY DEF IInv
<1>2. QED BY <1>1, Invariance, PTL

\* A block that is done has a value, met no error but a prompt's question that
\* failed or an Apply whose error is lost, and tells of its own source.
THEOREM OwnSource == Spec => []DoneIsOwn
<1>1. IInv => DoneIsOwn
  BY DEF IInv, TypeOK, Told, Valued, DoneIsOwn
<1>2. QED BY <1>1, Invariance, PTL
===============================================================================
