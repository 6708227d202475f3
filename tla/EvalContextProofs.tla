--------------------------- MODULE EvalContextProofs ---------------------------
(***************************************************************************)
(* Proofs about EvalContext, for every set of blocks, layers and modules:  *)
(* the locks keep writers apart from everybody else, an evaluation sees    *)
(* what the layers before it defined, as far as their outputs were read,   *)
(* and the maps behave as Definitions says.                                *)
(***************************************************************************)
EXTENDS EvalContext, TLAPS

\* The context a thread locks.
Home(t) == IF t \in Block THEN In[t] ELSE t

\* Which thread can be where.
Places ==
    /\ \A b \in Block :
        /\ at[b] \in {"provide", "section", "lock", "locked", "writing"} => b \in Value
        /\ at[b] \in {"ports", "command"} => b \in Stage
        /\ at[b] \in {"inputs", "child"} => b \in Module
        /\ at[b] \notin {"outputs", "visit"}
    /\ \A c \in Context :
        at[c] \in {"idle", "outputs", "lock", "locked", "writing", "visit"} \cup Over
    /\ \A b \in queued :
           at[b] = "rlock" \/ (at[b] = "ports" /\ readers[b] < 2 * ports[b])

\* A module's pipeline is begun by its module, once.
Nested ==
    \A m \in Module :
        at[m] \in {"idle", "rlock", "reading", "inputs"} => at[Child[m]] = "idle"

\* Who called Lock is recorded as the writer, and nobody else.
Locking ==
    /\ \A c \in Context : writer[c] # NoThread =>
           Home(writer[c]) = c /\ at[writer[c]] \in {"locked", "writing"}
    /\ \A t \in Thread : at[t] \in {"locked", "writing"} => writer[Home(t)] = t

\* Who evaluates holds the read lock, which keeps writers out.
Reading ==
    /\ \A b \in Block : at[b] = "reading" => readers[b] > 0
    /\ \A t \in Thread : at[t] = "writing" =>
           \A b \in Blocks(Home(t)) : readers[b] = 0

\* The copy a block is going to write back is still what the map holds.
Sections ==
    /\ \A k \in ValueKind : section[k] # NoThread =>
           /\ Kind[section[k]] = k
           /\ at[section[k]] \in {"rlock", "reading", "lock", "locked", "writing"}
    /\ \A b \in Block : at[b] \in {"lock", "locked", "writing"} =>
           section[Kind[b]] = b /\ copy[b] = Section(Kind[b], In[b])

\* The outputs in a map are some of those in the file, and the loop is going to
\* write no fewer.
Outputs ==
    \A c \in Context :
        /\ Section("stage", c) \subseteq envFile[c]
        /\ at[c] \in {"lock", "locked", "writing"} =>
               Section("stage", c) \subseteq copy[c] /\ copy[c] \subseteq envFile[c]

\* The layers before the one a loop is in are done, daemons apart, and what is
\* done is defined.
Passed ==
    /\ \A c \in Context : \A d \in Blocks(c) \ Daemon :
           Layer[d] < layer[c] => at[d] = "done"
    /\ \A d \in Block : at[d] = "done" =>
           /\ d \in Value => d \in variables[In[d]]
           /\ d \in Stage => d \in envFile[In[d]]

\* A pipeline that has not begun is to begin with its first layer.
Unbegun == \A c \in Context : at[c] = "idle" => layer[c] = 1

\* The outputs of the layers before are in the loop's hands, then in the map,
\* unless the file could not be opened for any layer since.
Published ==
    \A c \in Context : \A d \in (Blocks(c) \cap Stage) \ Daemon :
        Layer[d] < layer[c] =>
            /\ at[c] = "outputs" => d \in variables[c] \/ NeverRead(d, layer[c] - 1)
            /\ at[c] \in {"lock", "locked", "writing"} => d \in copy[c]
            /\ at[c] = "visit" => d \in variables[c] \/ NeverRead(d, layer[c])

\* A block has begun only where the layers before it are defined.
Visible ==
    \A b \in Block : at[b] # "idle" =>
        \A d \in Blocks(In[b]) \ (Module \cup Daemon) :
            Layer[d] < Layer[b] =>
                d \in variables[In[b]] \/ (d \in Stage /\ NeverRead(d, Layer[b]))

LockInv == TypeOK /\ Places /\ Nested /\ Locking /\ Reading
DataInv == Sections /\ Outputs
OrderInv == Passed /\ Unbegun /\ Published /\ Visible /\ SeesEarlierLayers
IInv == LockInv /\ DataInv /\ OrderInv

-------------------------------------------------------------------------------
(* The locks *)

\* At the start nobody holds a lock and only the root's loop is under way.
LEMMA LockInit == Init => LockInv
<1> SUFFICES ASSUME Init PROVE LockInv
  OBVIOUS
<1> USE BlockAssumption, ContextAssumption
        DEF BlockAssumption, ContextAssumption, Init, Thread, Value, Stage, Module
<1>1. \A t \in Thread : at[t] = IF t = Root THEN "outputs" ELSE "idle"
  OBVIOUS
<1>2. TypeOK
  <2>1. at \in [Thread -> At]
    BY DEF At
  <2>2. ports \in [Stage -> Nat] /\ layer \in [Context -> Nat]
    OBVIOUS
  <2>3. QED BY <2>1, <2>2 DEF TypeOK
<1>3. Places /\ Nested
  BY <1>1 DEF Places, Nested, Over
<1>4. Locking /\ Reading
  BY <1>1 DEF Locking, Reading, Blocks
<1>5. QED BY <1>2, <1>3, <1>4 DEF LockInv

\* No step takes a lock that is held or leaves one behind where it should not.
LEMMA LockStep == LockInv /\ [Next]_vars => LockInv'
<1> SUFFICES ASSUME LockInv, [Next]_vars PROVE LockInv'
  OBVIOUS
<1> USE BlockAssumption, ContextAssumption
        DEF BlockAssumption, ContextAssumption, LockInv, TypeOK, At, Over, Thread,
            Value, Stage, Module, Blocks, Home, ValueKind, Places, Nested,
            Locking, Reading, Goto, AfterRLock, mapVars, fileVars, lockVars
<1>a. ASSUME NEW c \in Context, at[c] \in {"outputs", "visit"},
             NEW p \in {"outputs", "lock", "visit"} \cup Over, Goto(c, p),
             copy' \in [Thread -> SUBSET Block], layer' \in [Context -> Nat],
             unread' \in [Context -> SUBSET Nat],
             UNCHANGED <<ports, variables, seen, envFile, lockVars, exit>>
      PROVE LockInv'
  <2>1. TypeOK'
    BY <1>a
  <2>2. Places' /\ Locking' /\ Reading'
    BY <1>a
  <2>3. Nested'
    BY <1>a
  <2>4. QED BY <2>1, <2>2, <2>3
<1>1. ASSUME NEW b \in Block, Begin(b) PROVE LockInv'
  BY <1>1 DEF Begin
<1>2. ASSUME NEW b \in Block, RLock(b) PROVE LockInv'
  <2>1. CASE writer[In[b]] = NoThread
    <3>1. /\ readers' = [readers EXCEPT ![b] = readers[b] + 1]
          /\ at' = [at EXCEPT ![b] = AfterRLock(b)]
          /\ b \notin queued
          /\ at[b] \in {"rlock", "ports"}
          /\ UNCHANGED <<ports, layer, mapVars, fileVars, section, queued, writer, exit>>
      BY <1>2, <2>1 DEF RLock, MayRLock
    <3>2. TypeOK'
      BY <3>1
    <3>3. Places' /\ Nested' /\ Locking'
      BY <3>1
    <3>4. Reading'
      BY <2>1, <3>1
    <3>5. QED BY <3>2, <3>3, <3>4
  <2>2. CASE writer[In[b]] # NoThread
    <3>1. /\ queued' = queued \cup {b}
          /\ at[b] \in {"rlock", "ports"}
          /\ UNCHANGED <<ports, at, layer, mapVars, fileVars, section, readers,
                         writer, exit>>
      BY <1>2, <2>2 DEF RLock, MayRLock
    <3>2. readers[b] < 2 * ports[b] \/ at[b] = "rlock"
      BY <1>2 DEF RLock, MayRLock
    <3>3. QED BY <3>1, <3>2
  <2>3. QED BY <2>1, <2>2
<1>3. ASSUME NEW b \in Block, Read(b) PROVE LockInv'
  BY <1>3 DEF Read, AfterReading, RUnlocked, Section
<1>4. ASSUME NEW b \in Block, NEW r \in Result, Provide(b, r) PROVE LockInv'
  BY <1>4 DEF Provide
<1>5. ASSUME NEW b \in Block, NEW r \in Result, Write(b, r) PROVE LockInv'
  BY <1>5 DEF Write, Unlock, SectionAfter, Section
<1>6. ASSUME NEW b \in Block, NEW r \in Result, Command(b, r) PROVE LockInv'
  BY <1>6 DEF Command
<1>7. ASSUME NEW b \in Block, EnterSection(b) PROVE LockInv'
  BY <1>7 DEF EnterSection
<1>8. ASSUME NEW b \in Block, Lock(b, In[b]) PROVE LockInv'
  BY <1>8 DEF Lock
<1>9. ASSUME NEW b \in Block, Locked(b, In[b]) PROVE LockInv'
  BY <1>9 DEF Locked, ReadersGone
<1>10. ASSUME NEW b \in Block, PortsParsed(b) PROVE LockInv'
  <2>1. /\ at[b] = "ports" /\ b \in Stage /\ b \notin Module
        /\ readers[b] = 2 * ports[b]
        /\ Goto(b, "command")
        /\ UNCHANGED <<ports, layer, mapVars, fileVars, lockVars, exit>>
    BY <1>10 DEF PortsParsed
  <2>2. TypeOK' /\ Locking' /\ Reading'
    BY <2>1
  <2>3. Nested'
    BY <2>1
  <2>4. Places'
    BY <2>1
  <2>5. QED BY <2>2, <2>3, <2>4
<1>11. ASSUME NEW b \in Block, Inputs(b) PROVE LockInv'
  <2>1. /\ b \in Module
        /\ Child[b] \in Context
        /\ at[Child[b]] = "idle"
        /\ Child[b] \notin Block /\ b \notin Context
    BY <1>11 DEF Inputs
  <2>2. /\ \A a \in Block \ {b} : at'[a] = at[a]
        /\ \A c \in Context \ {Child[b]} : at'[c] = at[c]
        /\ at'[b] = "child" /\ at'[Child[b]] = "outputs"
    BY <1>11, <2>1 DEF Inputs
  <2>3. TypeOK'
    BY <1>11, <2>1 DEF Inputs
  <2>4. at[b] = "inputs" /\ UNCHANGED <<ports, lockVars>>
    BY <1>11 DEF Inputs
  <2>5. Places'
    <3>1. \A a \in queued : a \in Block \ {b}
      BY <2>4
    <3>2. \A a \in queued' : at'[a] = at[a] /\ readers'[a] = readers[a]
      BY <2>2, <2>4, <3>1
    <3>3. \A a \in Block \ {b} : at'[a] = at[a]
      BY <2>2
    <3>4. at'[b] = "child" /\ b \in Module
      BY <2>1, <2>2
    <3>5. \A c \in Context : at'[c] = at[c] \/ at'[c] = "outputs"
      BY <2>1, <2>2
    <3>6. QED BY <2>4, <3>2, <3>3, <3>4, <3>5
  <2>6. Nested'
    <3> SUFFICES ASSUME NEW m \in Module,
                        at'[m] \in {"idle", "rlock", "reading", "inputs"}
                 PROVE at'[Child[m]] = "idle"
      BY DEF Nested
    <3>1. m # b /\ at'[m] = at[m]
      BY <2>2
    <3>2. Child[m] # Child[b] /\ Child[m] \in Context
      BY <2>1, <3>1
    <3>3. QED BY <2>2, <3>1, <3>2
  <2>7. \A t \in Thread : at'[t] \in {"reading", "locked", "writing"} => at'[t] = at[t]
    BY <2>2
  <2>8. \A t \in Thread : at[t] \in {"locked", "writing"} => at'[t] = at[t]
    BY <2>1, <2>2, <2>4
  <2>9. Locking'
    BY <2>4, <2>7, <2>8
  <2>10. Reading'
    BY <2>4, <2>7
  <2>11. QED BY <2>3, <2>5, <2>6, <2>9, <2>10
<1>12. ASSUME NEW b \in Block, ModuleReturns(b) PROVE LockInv'
  BY <1>12 DEF ModuleReturns
<1>13. ASSUME NEW c \in Context, ReadOutputs(c) PROVE LockInv'
  <2>0. envFile[c] \in SUBSET Block /\ c \in Thread
    OBVIOUS
  <2>1. copy' \in [Thread -> SUBSET Block]
    <3>1. copy \in [Thread -> SUBSET Block]
      OBVIOUS
    <3> HIDE DEF LockInv, TypeOK, Thread, Goto
    <3>2. copy' = copy \/ copy' = [copy EXCEPT ![c] = envFile[c]]
      BY <1>13 DEF ReadOutputs
    <3>3. QED BY <2>0, <3>1, <3>2
  <2>2. unread' \in [Context -> SUBSET Nat]
    BY <1>13 DEF ReadOutputs
  <2> HIDE DEF Goto, LockInv, Over
  <2>3. /\ at[c] = "outputs"
        /\ Goto(c, "lock") \/ Goto(c, "visit") \/ Goto(c, "failed")
        /\ UNCHANGED <<ports, layer, variables, seen, envFile, lockVars, exit>>
    BY <1>13, Zenon DEF ReadOutputs
  <2>4. layer' \in [Context -> Nat]
    BY <2>3 DEF LockInv
  <2>5. {"lock", "visit", "failed"} \subseteq {"outputs", "lock", "visit"} \cup Over
    BY DEF Over
  <2>6. QED BY <1>a, <2>1, <2>2, <2>3, <2>4, <2>5
<1>14. ASSUME NEW c \in Context, Lock(c, c) PROVE LockInv'
  BY <1>14 DEF Lock
<1>15. ASSUME NEW c \in Context, Locked(c, c) PROVE LockInv'
  BY <1>15 DEF Locked, ReadersGone
<1>16. ASSUME NEW c \in Context, WriteOutputs(c) PROVE LockInv'
  BY <1>16 DEF WriteOutputs, Unlock, Section
<1>17. ASSUME NEW c \in Context, NextLayer(c) PROVE LockInv'
  <2>1. layer' \in [Context -> Nat]
    BY <1>17 DEF NextLayer
  <2> HIDE DEF Goto, LockInv, Over
  <2>2. /\ at[c] = "visit"
        /\ Goto(c, "outputs") \/ Goto(c, "done") \/ Goto(c, "failed")
        /\ UNCHANGED <<ports, mapVars, fileVars, lockVars, exit>>
    BY <1>17 DEF NextLayer
  <2>3. /\ copy' \in [Thread -> SUBSET Block] /\ unread' \in [Context -> SUBSET Nat]
        /\ UNCHANGED <<variables, seen, envFile>>
    BY <2>2 DEF LockInv
  <2>4. {"outputs", "done", "failed"} \subseteq {"outputs", "lock", "visit"} \cup Over
    BY DEF Over
  <2>5. QED BY <1>a, <2>1, <2>2, <2>3, <2>4
<1>18. ASSUME NEW m \in Module, Throw(m) PROVE LockInv'
  BY <1>18 DEF Throw
<1>19. CASE UNCHANGED vars
  BY <1>19 DEF vars
<1> HIDE DEF LockInv
<1>20. QED
  BY <1>1, <1>2, <1>3, <1>4, <1>5, <1>6, <1>7, <1>8, <1>9, <1>10, <1>11, <1>12, <1>13, <1>14, <1>15, <1>16, <1>17, <1>18, <1>19
     DEF Next, Goroutine, Loop, Ended

\* While a thread may write a map, nobody else is at it.
THEOREM ExclusiveWrites == Spec => []WritesAreExclusive
<1>1. LockInv => WritesAreExclusive
  BY BlockAssumption, ContextAssumption
     DEF BlockAssumption, ContextAssumption, LockInv, TypeOK, At, Thread, Blocks,
         Home, Locking, Reading, WritesAreExclusive
<1>2. QED BY <1>1, LockInit, LockStep, PTL DEF Spec

-------------------------------------------------------------------------------
(* The maps *)

\* A copy of a section stays what the map holds until it is written back.
LEMMA DataStep == LockInv /\ DataInv /\ [Next]_vars => DataInv'
<1> SUFFICES ASSUME LockInv, DataInv, [Next]_vars PROVE DataInv'
  OBVIOUS
<1> USE BlockAssumption, ContextAssumption
        DEF BlockAssumption, ContextAssumption, LockInv, TypeOK, At, Over, Thread,
            Value, Stage, Module, Blocks, Home, ValueKind, Places, Nested,
            Locking, Goto, AfterRLock, mapVars, fileVars, lockVars, DataInv,
            Sections, Outputs, Section
<1>1. ASSUME NEW b \in Block, Begin(b) PROVE DataInv'
  BY <1>1 DEF Begin
<1>2. ASSUME NEW b \in Block, RLock(b) PROVE DataInv'
  <2>1. UNCHANGED <<variables, copy, fileVars, section>>
    BY <1>2 DEF RLock
  <2>2. \A t \in Thread : at'[t] = at[t] \/ (at[t] = "rlock" /\ at'[t] = "reading")
    BY <1>2 DEF RLock, MayRLock
  <2>3. Sections'
    BY <2>1, <2>2
  <2>4. Outputs'
    BY <2>1, <2>2
  <2>5. QED BY <2>3, <2>4
<1>3. ASSUME NEW b \in Block, Read(b) PROVE DataInv'
  BY <1>3 DEF Read, AfterReading, RUnlocked
<1>4. ASSUME NEW b \in Block, NEW r \in Result, Provide(b, r) PROVE DataInv'
  BY <1>4 DEF Provide
<1>5. ASSUME NEW b \in Block, NEW r \in Result, Write(b, r) PROVE DataInv'
  BY <1>5 DEF Write, Unlock, SectionAfter
<1>6. ASSUME NEW b \in Block, NEW r \in Result, Command(b, r) PROVE DataInv'
  BY <1>6 DEF Command
<1>7. ASSUME NEW b \in Block, EnterSection(b) PROVE DataInv'
  BY <1>7 DEF EnterSection, SectionFree
<1>8. ASSUME NEW b \in Block, Lock(b, In[b]) PROVE DataInv'
  BY <1>8 DEF Lock
<1>9. ASSUME NEW b \in Block, Locked(b, In[b]) PROVE DataInv'
  BY <1>9 DEF Locked, ReadersGone
<1>10. ASSUME NEW b \in Block, PortsParsed(b) PROVE DataInv'
  BY <1>10 DEF PortsParsed
<1>11. ASSUME NEW b \in Block, Inputs(b) PROVE DataInv'
  <2>1. /\ b \in Module /\ at[b] = "inputs" /\ Child[b] \in Context
        /\ at' = [at EXCEPT ![b] = "child", ![Child[b]] = "outputs"]
        /\ UNCHANGED <<variables, copy, envFile, section>>
    BY <1>11 DEF Inputs
  <2>2. /\ \A a \in Value : at'[a] = at[a]
        /\ \A c \in Context : at'[c] = at[c] \/ at'[c] = "outputs"
    BY <2>1
  <2>3. Sections'
    BY <2>1, <2>2
  <2>4. Outputs'
    <3>1. Outputs
      OBVIOUS
    <3> HIDE DEF LockInv, TypeOK, Sections, DataInv
    <3>2. QED BY <2>1, <2>2, <3>1
  <2>5. QED BY <2>3, <2>4
<1>12. ASSUME NEW b \in Block, ModuleReturns(b) PROVE DataInv'
  BY <1>12 DEF ModuleReturns
<1>13. ASSUME NEW c \in Context, ReadOutputs(c) PROVE DataInv'
  <2>1. /\ UNCHANGED <<variables, envFile, section>>
        /\ \A a \in Block : at'[a] = at[a] /\ copy'[a] = copy[a]
        /\ \A d \in Context \ {c} : at'[d] = at[d] /\ copy'[d] = copy[d]
        /\ at'[c] \in {"lock", "visit", "failed"}
        /\ at'[c] = "lock" => copy'[c] = envFile[c]
    BY <1>13 DEF ReadOutputs
  <2>2. Sections'
    BY <2>1
  <2>3. Outputs'
    <3>1. Outputs
      OBVIOUS
    <3> HIDE DEF LockInv, TypeOK, Sections, DataInv
    <3>2. QED BY <2>1, <3>1
  <2>4. QED BY <2>2, <2>3
<1>14. ASSUME NEW c \in Context, Lock(c, c) PROVE DataInv'
  BY <1>14 DEF Lock
<1>15. ASSUME NEW c \in Context, Locked(c, c) PROVE DataInv'
  BY <1>15 DEF Locked, ReadersGone
<1>16. ASSUME NEW c \in Context, WriteOutputs(c) PROVE DataInv'
  BY <1>16 DEF WriteOutputs, Unlock
<1>17. ASSUME NEW c \in Context, NextLayer(c) PROVE DataInv'
  <2>1. /\ UNCHANGED <<variables, copy, envFile, section>>
        /\ \A a \in Block : at'[a] = at[a]
        /\ \A d \in Context \ {c} : at'[d] = at[d]
        /\ at'[c] \in {"outputs", "done", "failed"}
    BY <1>17 DEF NextLayer
  <2>2. Sections'
    BY <2>1
  <2>3. Outputs'
    <3>1. Outputs
      OBVIOUS
    <3> HIDE DEF LockInv, TypeOK, Sections, DataInv
    <3>2. QED BY <2>1, <3>1
  <2>4. QED BY <2>2, <2>3
<1>18. ASSUME NEW m \in Module, Throw(m) PROVE DataInv'
  BY <1>18 DEF Throw
<1>19. CASE UNCHANGED vars
  BY <1>19 DEF vars
<1> HIDE DEF DataInv
<1>20. QED
  BY <1>1, <1>2, <1>3, <1>4, <1>5, <1>6, <1>7, <1>8, <1>9, <1>10, <1>11, <1>12, <1>13, <1>14, <1>15, <1>16, <1>17, <1>18, <1>19
     DEF Next, Goroutine, Loop, Ended

-------------------------------------------------------------------------------
(* The layers *)

\* A value block adds its name to the map and takes none away.
LEMMA WriteDefines ==
    ASSUME LockInv, DataInv, NEW b \in Block, NEW r \in Result, Write(b, r)
    PROVE  variables' = [variables EXCEPT ![In[b]] = @ \cup {b}]
<1>1. (variables[In[b]] \ Section(Kind[b], In[b])) \cup copy[b] \cup {b}
          = variables[In[b]] \cup {b}
  BY DEF Write, LockInv, DataInv, Sections, Places, Section
<1>2. QED BY <1>1 DEF Write

\* The loop adds the outputs it read to the map and takes none away.
LEMMA OutputsDefine ==
    ASSUME LockInv, DataInv, NEW c \in Context, WriteOutputs(c)
    PROVE  variables' = [variables EXCEPT ![c] = @ \cup copy[c]]
<1>1. (variables[c] \ Section("stage", c)) \cup copy[c] = variables[c] \cup copy[c]
  BY DEF WriteOutputs, DataInv, Outputs, Section
<1>2. QED BY <1>1 DEF WriteOutputs

\* Unlock moves its thread on, and readers that queued to their evaluation.
LEMMA UnlockMoves ==
    ASSUME LockInv, NEW t \in Thread, NEW c \in Context, NEW p, Unlock(t, c, p)
    PROVE  /\ at'[t] = p
           /\ \A a \in Block \ {t} :
                  at'[a] = at[a] \/ (at[a] = "rlock" /\ at'[a] = "reading")
           /\ \A d \in Context \ {t} : at'[d] = at[d]
  BY ContextAssumption DEF ContextAssumption, LockInv, TypeOK, Unlock, AfterRLock,
     Thread, Blocks

\* The layers up to k are those up to k - 1 and k.
LEMMA UpToLast == \A i, k \in Nat : \A j \in i..k : j \in i..(k - 1) \/ j = k
  OBVIOUS

\* No step takes the layers out of order, or hides what they defined.
LEMMA OrderStep == LockInv /\ DataInv /\ OrderInv /\ [Next]_vars => OrderInv'
<1> SUFFICES ASSUME LockInv, DataInv, OrderInv, [Next]_vars PROVE OrderInv'
  OBVIOUS
<1> USE BlockAssumption, ContextAssumption
        DEF BlockAssumption, ContextAssumption, LockInv, TypeOK, At, Over, Thread,
            Value, Stage, Module, Blocks, Home, ValueKind, Places, Nested,
            Locking, Goto, AfterRLock, mapVars, fileVars, lockVars, OrderInv,
            Passed, Unbegun, Published, Visible, SeesEarlierLayers, NeverRead
<1>1. ASSUME NEW b \in Block, Begin(b) PROVE OrderInv'
  BY <1>1 DEF Begin
<1>2. ASSUME NEW b \in Block, RLock(b) PROVE OrderInv'
  <2>1. UNCHANGED <<variables, copy, seen, fileVars, layer>>
    BY <1>2 DEF RLock
  <2>2. \A a \in Block : at'[a] = at[a] \/ (at[a] = "rlock" /\ at'[a] = "reading")
    BY <1>2 DEF RLock, MayRLock
  <2>3. \A c \in Context : at'[c] = at[c]
    BY <1>2 DEF RLock, MayRLock
  <2>4. Passed' /\ Unbegun'
    BY <2>1, <2>2, <2>3
  <2>5. Published'
    BY <2>1, <2>3
  <2>6. Visible'
    BY <2>1, <2>2
  <2>7. SeesEarlierLayers'
    <3>1. \A a \in Block : at'[a] \notin {"idle", "section", "rlock", "reading"} =>
                               at[a] \notin {"idle", "section", "rlock", "reading"}
      BY <2>2
    <3>2. QED BY <2>1, <3>1
  <2>8. QED BY <2>4, <2>5, <2>6, <2>7
<1>3. ASSUME NEW b \in Block, Read(b) PROVE OrderInv'
  BY <1>3 DEF Read, AfterReading, RUnlocked
<1>4. ASSUME NEW b \in Block, NEW r \in Result, Provide(b, r) PROVE OrderInv'
  BY <1>4 DEF Provide
<1>5. ASSUME NEW b \in Block, NEW r \in Result, Write(b, r) PROVE OrderInv'
  <2>1. /\ variables' = [variables EXCEPT ![In[b]] = @ \cup {b}]
        /\ UNCHANGED <<copy, seen, fileVars, layer>>
        /\ b \in Value /\ b \notin Stage /\ at[b] = "writing"
    BY <1>5, WriteDefines DEF Write
  <2>2. /\ at'[b] \in Over
        /\ \A a \in Block \ {b} :
               at'[a] = at[a] \/ (at[a] = "rlock" /\ at'[a] = "reading")
        /\ \A d \in Context : at'[d] = at[d]
    BY <1>5, UnlockMoves DEF Write
  <2>3. \A c \in Context : variables[c] \subseteq variables'[c]
    BY <2>1
  <2>4. b \in variables'[In[b]]
    BY <2>1
  <2>5. Passed'
    <3>1. \A d \in Block : at[d] = "done" => at'[d] = "done"
      BY <2>1, <2>2
    <3>2. \A d \in Block : at'[d] = "done" => at[d] = "done" \/ d = b
      BY <2>2
    <3>3. \A c \in Context : \A d \in Blocks(c) \ Daemon :
             Layer[d] < layer'[c] => at'[d] = "done"
      BY <2>1, <3>1
    <3>4. \A d \in Block : at'[d] = "done" =>
             /\ d \in Value => d \in variables'[In[d]]
             /\ d \in Stage => d \in envFile'[In[d]]
      BY <2>1, <2>3, <2>4, <3>2
    <3>5. QED BY <3>3, <3>4
  <2>6. Published' /\ Unbegun'
    BY <2>1, <2>2, <2>3
  <2>7. Visible'
    <3> SUFFICES ASSUME NEW a \in Block, at'[a] # "idle",
                        NEW d \in Blocks(In[a]) \ (Module \cup Daemon),
                        Layer[d] < Layer[a]
                 PROVE d \in variables'[In[a]] \/ (d \in Stage /\ NeverRead(d, Layer[a])')
      BY DEF Visible
    <3>1. at[a] # "idle"
      BY <2>1, <2>2
    <3>2. d \in variables[In[a]] \/ (d \in Stage /\ NeverRead(d, Layer[a]))
      BY <3>1
    <3>3. QED BY <2>1, <2>3, <3>2
  <2>8. SeesEarlierLayers'
    <3>1. \A a \in Block : at'[a] \notin {"idle", "section", "rlock", "reading"} =>
                               at[a] \notin {"idle", "section", "rlock", "reading"}
      BY <2>1, <2>2
    <3>2. QED BY <2>1, <3>1
  <2>9. QED BY <2>5, <2>6, <2>7, <2>8
<1>6. ASSUME NEW b \in Block, NEW r \in Result, Command(b, r) PROVE OrderInv'
  BY <1>6 DEF Command
<1>7. ASSUME NEW b \in Block, EnterSection(b) PROVE OrderInv'
  BY <1>7 DEF EnterSection
<1>8. ASSUME NEW b \in Block, Lock(b, In[b]) PROVE OrderInv'
  BY <1>8 DEF Lock
<1>9. ASSUME NEW b \in Block, Locked(b, In[b]) PROVE OrderInv'
  BY <1>9 DEF Locked
<1>10. ASSUME NEW b \in Block, PortsParsed(b) PROVE OrderInv'
  BY <1>10 DEF PortsParsed
<1>11. ASSUME NEW b \in Block, Inputs(b) PROVE OrderInv'
  <2>1. Passed' /\ Unbegun'
    BY <1>11 DEF Inputs
  <2>2. Published'
    <3>1. /\ UNCHANGED <<layer, variables, copy, unread>>
          /\ Child[b] \in Context /\ b \notin Context
          /\ \A c \in Context \ {Child[b]} : at'[c] = at[c]
          /\ at'[Child[b]] = "outputs" /\ layer[Child[b]] = 1
      BY <1>11 DEF Inputs
    <3>2. \A d \in Block : ~(Layer[d] < layer[Child[b]])
      BY <3>1
    <3>3. QED BY <3>1, <3>2
  <2>3. Visible'
    BY <1>11, SMTT(30) DEF Inputs
  <2>4. SeesEarlierLayers'
    BY <1>11 DEF Inputs
  <2>5. QED BY <2>1, <2>2, <2>3, <2>4
<1>12. ASSUME NEW b \in Block, ModuleReturns(b) PROVE OrderInv'
  BY <1>12 DEF ModuleReturns
<1>13. ASSUME NEW c \in Context, ReadOutputs(c) PROVE OrderInv'
  <2>1. /\ UNCHANGED <<layer, variables, seen, envFile>>
        /\ \A a \in Block : at'[a] = at[a]
        /\ \A d \in Context \ {c} : /\ at'[d] = at[d] /\ copy'[d] = copy[d]
                                    /\ unread'[d] = unread[d]
        /\ \/ at'[c] = "failed" /\ unread'[c] = unread[c]
           \/ at'[c] = "lock" /\ copy'[c] = envFile[c] /\ unread'[c] = unread[c]
           \/ at'[c] = "visit" /\ unread'[c] = unread[c] \cup {layer[c]}
        /\ at[c] = "outputs"
    BY <1>13 DEF ReadOutputs
  <2>2. \A d \in Block : unread[In[d]] \subseteq unread'[In[d]]
    <3> SUFFICES ASSUME NEW d \in Block PROVE unread[In[d]] \subseteq unread'[In[d]]
      OBVIOUS
    <3>1. In[d] \in Context
      OBVIOUS
    <3> HIDE DEF LockInv, OrderInv
    <3>2. QED BY <2>1, <3>1
  <2>3. Passed' /\ Unbegun' /\ Visible' /\ SeesEarlierLayers'
    BY <2>1, <2>2
  <2>4. ASSUME NEW d \in (Blocks(c) \cap Stage) \ Daemon, Layer[d] < layer[c]
        PROVE  /\ at'[c] \in {"lock", "locked", "writing"} => d \in copy'[c]
               /\ at'[c] = "visit" => d \in variables'[c] \/ NeverRead(d, layer[c])'
    <3>1. d \in envFile[c]
      BY <2>4
    <3>2. d \in variables[c] \/ NeverRead(d, layer[c] - 1)
      BY <2>1, <2>4
    <3>3. CASE at'[c] = "visit" /\ NeverRead(d, layer[c] - 1)
      <4>1. unread'[In[d]] = unread[In[d]] \cup {layer[c]}
        BY <2>1, <3>3
      <4>2. layer[c] \in Nat /\ Layer[d] \in Nat
        OBVIOUS
      <4>3. \A j \in (Layer[d] + 1)..layer[c] :
              j \in (Layer[d] + 1)..(layer[c] - 1) \/ j = layer[c]
        <5> HIDE DEF LockInv, OrderInv
        <5>1. Layer[d] + 1 \in Nat
          BY <4>2
        <5>2. QED BY <4>2, <5>1, UpToLast
      <4>4. layer' = layer
        BY <2>1
      <4>5. NeverRead(d, layer[c])'
        BY <3>3, <4>1, <4>3, <4>4
      <4>6. QED BY <3>3, <4>5
    <3>4. QED BY <2>1, <3>1, <3>2, <3>3
  <2>5. Published'
    <3>1. ASSUME NEW e \in Context \ {c}, NEW d \in (Blocks(e) \cap Stage) \ Daemon,
                 Layer[d] < layer'[e]
          PROVE  /\ at'[e] = "outputs" => d \in variables'[e] \/ NeverRead(d, layer[e] - 1)'
                 /\ at'[e] \in {"lock", "locked", "writing"} => d \in copy'[e]
                 /\ at'[e] = "visit" => d \in variables'[e] \/ NeverRead(d, layer[e])'
      BY <2>1, <3>1
    <3>2. at'[c] # "outputs" /\ layer' = layer
      BY <2>1
    <3> HIDE DEF LockInv, OrderInv, NeverRead
    <3>3. QED BY <2>4, <3>1, <3>2
  <2>6. QED BY <2>3, <2>5
<1>14. ASSUME NEW c \in Context, Lock(c, c) PROVE OrderInv'
  BY <1>14 DEF Lock
<1>15. ASSUME NEW c \in Context, Locked(c, c) PROVE OrderInv'
  BY <1>15 DEF Locked
<1>16. ASSUME NEW c \in Context, WriteOutputs(c) PROVE OrderInv'
  <2>1. /\ variables' = [variables EXCEPT ![c] = @ \cup copy[c]]
        /\ UNCHANGED <<copy, seen, fileVars, layer>>
        /\ at[c] = "writing"
    BY <1>16, OutputsDefine DEF WriteOutputs
  <2>2. /\ at'[c] = "visit"
        /\ \A a \in Block :
               at'[a] = at[a] \/ (at[a] = "rlock" /\ at'[a] = "reading")
        /\ \A d \in Context \ {c} : at'[d] = at[d]
    BY <1>16, UnlockMoves DEF WriteOutputs
  <2>3. \A d \in Context : variables[d] \subseteq variables'[d]
    BY <2>1
  <2>4. Passed' /\ Unbegun'
    BY <2>1, <2>2, <2>3
  <2>5. Published'
    <3>1. copy[c] \subseteq variables'[c]
      BY <2>1
    <3>2. QED BY <2>1, <2>2, <2>3, <3>1
  <2>6. Visible'
    <3>1. \A a \in Block : at'[a] # "idle" => at[a] # "idle"
      BY <2>2
    <3>2. \A a \in Block : variables[In[a]] \subseteq variables'[In[a]]
      BY <2>3
    <3>3. \A a \in Block : at[a] # "idle" =>
             \A d \in Blocks(In[a]) \ (Module \cup Daemon) :
                 Layer[d] < Layer[a] =>
                     d \in variables[In[a]] \/ (d \in Stage /\ NeverRead(d, Layer[a]))
      OBVIOUS
    <3>4. \A d \in Block : unread'[In[d]] = unread[In[d]]
      BY <2>1
    <3> HIDE DEF LockInv, OrderInv
    <3>5. QED BY <3>1, <3>2, <3>3, <3>4
  <2>7. SeesEarlierLayers'
    <3>1. \A a \in Block : at'[a] \notin {"idle", "section", "rlock", "reading"} =>
                               at[a] \notin {"idle", "section", "rlock", "reading"}
      BY <2>2
    <3>2. QED BY <2>1, <3>1
  <2>8. QED BY <2>4, <2>5, <2>6, <2>7
<1>17. ASSUME NEW c \in Context, NextLayer(c) PROVE OrderInv'
  <2>1. /\ UNCHANGED <<variables, copy, seen, fileVars>>
        /\ \A a \in Block : at'[a] = at[a]
        /\ \A d \in Context \ {c} : at'[d] = at[d] /\ layer'[d] = layer[d]
        /\ at[c] = "visit" /\ LayerOver(c)
    BY <1>17 DEF NextLayer
  <2>2. \/ at'[c] \in Over /\ layer'[c] = layer[c]
        \/ /\ at'[c] = "outputs" /\ layer'[c] = layer[c] + 1
           /\ \A b \in Blocks(c) : at[b] # "failed"
    BY <1>17 DEF NextLayer
  <2>3. Passed'
    <3>1. ASSUME NEW d \in Blocks(c) \ Daemon, Layer[d] < layer'[c]
          PROVE at'[d] = "done"
      <4>1. CASE Layer[d] < layer[c]
        BY <2>1, <4>1
      <4>2. CASE Layer[d] = layer[c]
        <5>1. at[d] \in Over
          BY <2>1, <4>2 DEF LayerOver
        <5>2. QED BY <2>1, <2>2, <3>1, <4>2, <5>1
      <4>3. layer[c] \in Nat /\ Layer[d] \in Nat
        OBVIOUS
      <4>4. layer'[c] = layer[c] \/ layer'[c] = layer[c] + 1
        BY <2>2
      <4> HIDE DEF LockInv, OrderInv
      <4>5. Layer[d] < layer[c] \/ Layer[d] = layer[c]
        BY <3>1, <4>3, <4>4
      <4>6. QED BY <4>1, <4>2, <4>5
    <3>2. \A e \in Context \ {c} : \A d \in Blocks(e) \ Daemon :
             Layer[d] < layer'[e] => at'[d] = "done"
      BY <2>1
    <3>3. \A d \in Block : at'[d] = "done" =>
             /\ d \in Value => d \in variables'[In[d]]
             /\ d \in Stage => d \in envFile'[In[d]]
      BY <2>1
    <3>4. QED BY <3>1, <3>2, <3>3
  <2>4. Unbegun' /\ Published'
    <3>1. ASSUME NEW d \in (Blocks(c) \cap Stage) \ Daemon, Layer[d] < layer'[c],
                 at'[c] = "outputs"
          PROVE d \in variables[c] \/ NeverRead(d, layer[c])
      <4>1. Layer[d] < layer[c] \/ Layer[d] = layer[c]
        <5>1. layer'[c] = layer[c] + 1 /\ layer[c] \in Nat /\ Layer[d] \in Nat
          BY <2>2, <3>1
        <5> HIDE DEF LockInv, OrderInv
        <5>2. QED BY <3>1, <5>1
      <4>2. CASE Layer[d] < layer[c]
        BY <2>1, <4>2
      <4>3. CASE Layer[d] = layer[c]
        <5>1. layer[c] \in Nat
          OBVIOUS
        <5>2. (layer[c] + 1)..layer[c] = {}
          BY <5>1, SMT
        <5>3. QED BY <4>3, <5>2
      <4>4. QED BY <4>1, <4>2, <4>3
    <3>2. at'[c] = "outputs" => layer[c] = layer'[c] - 1
      <4>1. layer[c] \in Nat
        OBVIOUS
      <4> HIDE DEF LockInv, OrderInv
      <4>2. QED BY <2>2, <4>1
    <3>3. Unbegun'
      <4>1. at'[c] # "idle"
        BY <2>2
      <4>2. \A d \in Context \ {c} : at[d] = "idle" => layer[d] = 1
        OBVIOUS
      <4> HIDE DEF LockInv, OrderInv
      <4>3. QED BY <2>1, <4>1, <4>2
    <3>4. ASSUME NEW e \in Context \ {c}, NEW d \in (Blocks(e) \cap Stage) \ Daemon,
                 Layer[d] < layer'[e]
          PROVE  /\ at'[e] = "outputs" => d \in variables'[e] \/ NeverRead(d, layer[e] - 1)'
                 /\ at'[e] \in {"lock", "locked", "writing"} => d \in copy'[e]
                 /\ at'[e] = "visit" => d \in variables'[e] \/ NeverRead(d, layer[e])'
      BY <2>1, <3>4
    <3>5. ASSUME NEW d \in (Blocks(c) \cap Stage) \ Daemon, Layer[d] < layer'[c],
                 at'[c] = "outputs"
          PROVE  d \in variables'[c] \/ NeverRead(d, layer[c] - 1)'
      <4>1. d \in variables[c] \/ NeverRead(d, layer[c])
        BY <3>1, <3>5
      <4>2. layer[c] = layer'[c] - 1
        BY <3>2, <3>5
      <4>3. variables' = variables /\ unread' = unread
        BY <2>1
      <4> HIDE DEF LockInv, OrderInv
      <4>4. QED BY <4>1, <4>2, <4>3
    <3>6. at'[c] \notin {"lock", "locked", "writing", "visit"}
      BY <2>2
    <3> HIDE DEF LockInv, OrderInv, NeverRead
    <3>7. QED BY <3>3, <3>4, <3>5, <3>6
  <2>5. Visible' /\ SeesEarlierLayers'
    BY <2>1
  <2>6. QED BY <2>3, <2>4, <2>5
<1>18. ASSUME NEW m \in Module, Throw(m) PROVE OrderInv'
  BY <1>18 DEF Throw
<1>19. CASE UNCHANGED vars
  BY <1>19 DEF vars
<1> HIDE DEF OrderInv
<1>20. QED
  BY <1>1, <1>2, <1>3, <1>4, <1>5, <1>6, <1>7, <1>8, <1>9, <1>10, <1>11, <1>12, <1>13, <1>14, <1>15, <1>16, <1>17, <1>18, <1>19
     DEF Next, Goroutine, Loop, Ended

\* Nothing is defined, copied or begun at the start.
LEMMA MapsInit == Init => DataInv /\ OrderInv
<1> SUFFICES ASSUME Init PROVE DataInv /\ OrderInv
  OBVIOUS
<1> USE BlockAssumption, ContextAssumption
        DEF BlockAssumption, ContextAssumption, Init, Thread, Value, Stage, Module,
            Blocks, Section
<1>1. /\ \A b \in Block : at[b] = "idle"
      /\ \A c \in Context : at[c] \in {"outputs", "idle"}
      /\ \A d \in Block : ~(Layer[d] < 1)
  OBVIOUS
<1>2. DataInv
  BY <1>1 DEF DataInv, Sections, Outputs
<1>3. OrderInv
  BY <1>1 DEF OrderInv, Passed, Unbegun, Published, Visible, SeesEarlierLayers
<1>4. QED BY <1>2, <1>3

LEMMA Invariance == Spec => []IInv
<1>1. Init => IInv
  BY LockInit, MapsInit DEF IInv
<1>2. IInv /\ [Next]_vars => IInv'
  BY LockStep, DataStep, OrderStep DEF IInv
<1>3. QED BY <1>1, <1>2, PTL DEF Spec

\* Every variable keeps its type.
THEOREM TypeCorrect == Spec => []TypeOK
<1>1. IInv => TypeOK
  BY DEF IInv, LockInv
<1>2. QED BY <1>1, Invariance, PTL

\* A block evaluates with all the values that the layers before its own defined,
\* and with all their outputs but those whose file could not be opened since.
THEOREM EarlierLayersSeen == Spec => []SeesEarlierLayers
<1>1. IInv => SeesEarlierLayers
  BY DEF IInv, OrderInv
<1>2. QED BY <1>1, Invariance, PTL

-------------------------------------------------------------------------------
(* The maps act as definitions *)

\* A step that writes a map defines one value or publishes outputs, one that
\* evaluates takes the map at one moment, and no other step touches either.
LEMMA StepDefines == IInv /\ [Next]_vars => [Promise!Next]_<<variables, seen>>
<1> SUFFICES ASSUME IInv, [Next]_vars PROVE [Promise!Next]_<<variables, seen>>
  OBVIOUS
<1> USE DEF mapVars, fileVars, lockVars
<1>0. LockInv /\ DataInv
  BY DEF IInv
<1>1. ASSUME NEW b \in Block, Read(b) \/ Inputs(b) PROVE Promise!Next
  <2>1. Promise!Evaluate(b)
    BY <1>1 DEF Read, Inputs, Promise!Evaluate
  <2>2. QED BY <2>1 DEF Promise!Next
<1>2. ASSUME NEW b \in Block, NEW r \in Result, Write(b, r) PROVE Promise!Next
  <2>1. b \in Value /\ UNCHANGED seen
    BY <1>2 DEF Write
  <2>2. Promise!Define(b)
    BY <1>0, <1>2, <2>1, WriteDefines DEF Promise!Define
  <2>3. QED BY <2>1, <2>2 DEF Promise!Next
<1>3. ASSUME NEW c \in Context, WriteOutputs(c) PROVE Promise!Next
  <2>1. at[c] = "writing" /\ UNCHANGED seen
    BY <1>3 DEF WriteOutputs
  <2>2. copy[c] \in SUBSET Stage
    <3>1. copy[c] \subseteq envFile[c]
      BY <1>0, <2>1 DEF DataInv, Outputs
    <3>2. envFile[c] \subseteq Stage
      BY <1>0 DEF LockInv, TypeOK
    <3>3. QED BY <3>1, <3>2
  <2>3. Promise!Publish(c, copy[c])
    BY <1>0, <1>3, <2>1, OutputsDefine DEF Promise!Publish
  <2>4. QED BY <2>2, <2>3 DEF Promise!Next
<1>4. ASSUME NEW b \in Block,
             \/ Begin(b) \/ RLock(b) \/ EnterSection(b) \/ Lock(b, In[b])
             \/ Locked(b, In[b]) \/ PortsParsed(b) \/ ModuleReturns(b)
      PROVE UNCHANGED <<variables, seen>>
  BY <1>4 DEF Begin, RLock, EnterSection, Lock, Locked, PortsParsed, ModuleReturns
<1>5. ASSUME NEW b \in Block, NEW r \in Result, Provide(b, r) \/ Command(b, r)
      PROVE UNCHANGED <<variables, seen>>
  BY <1>5 DEF Provide, Command
<1>6. ASSUME NEW c \in Context,
             ReadOutputs(c) \/ Lock(c, c) \/ Locked(c, c) \/ NextLayer(c)
      PROVE UNCHANGED <<variables, seen>>
  BY <1>6 DEF ReadOutputs, Lock, Locked, NextLayer
<1>7. ASSUME NEW m \in Module, Throw(m) PROVE UNCHANGED <<variables, seen>>
  BY <1>7 DEF Throw
<1>8. CASE UNCHANGED vars
  BY <1>8 DEF vars
<1>9. QED
  BY <1>1, <1>2, <1>3, <1>4, <1>5, <1>6, <1>7, <1>8 DEF Next, Goroutine, Loop, Ended

\* Values are defined one by one and outputs at once, none is ever taken away,
\* and an evaluation sees what is defined at one moment.
THEOREM MapsAreDefinitions == Spec => ActsAsDefinitions
<1>1. Init => Promise!Init
  BY DEF Init, Promise!Init
<1>2. QED BY <1>1, StepDefines, Invariance, PTL DEF Spec, ActsAsDefinitions, Promise!Spec
===============================================================================
