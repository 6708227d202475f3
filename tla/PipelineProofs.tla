---------------------------- MODULE PipelineProofs ----------------------------
(***************************************************************************)
(* Proofs about Pipeline, for every pipeline, every set of flags and every *)
(* schedule of its goroutines; and that every run of Pipeline is a run of  *)
(* Schedule: each step of its goroutines starts, omits or settles one      *)
(* block, ends the run, or changes nothing that Schedule sees.             *)
(***************************************************************************)
EXTENDS Pipeline, TLAPS

-------------------------------------------------------------------------------
(* The inductive invariant *)

\* Inside the layer loop there is a layer, and what is left to visit is in it.
InLayer ==
    pc \in {"visit", "serialRunnables", "serialDaemons", "layerWait"} =>
        layer <= Len(Layers) /\ todo \subseteq Layers[layer]

\* The loop is past block b of layer k.
Past(k, b) == k < layer \/ (k = layer /\ pc # "layer" /\ b \notin todo)

\* The tracker knows every launched block, in the list of its kind.
Tracked == \A b \in Block : Started(b) <=> b \in runnables \cup daemons

\* Only blocks the loop is past were launched.
Placed == \A k \in DOMAIN Layers : \A b \in Layers[k] : Started(b) => Past(k, b)

\* What was not launched although the loop is past it was skipped.
Passed ==
    ~errors => \A k \in DOMAIN Layers : \A b \in Layers[k] :
        Past(k, b) /\ ~Started(b) => "skip" \in Verdicts[b]

\* Nothing of an earlier layer is unfinished or failed, daemons apart.
Settled ==
    \A k \in DOMAIN Layers : \A b \in Layers[k] \ Daemon :
        k < layer /\ Started(b) => Succeeded(b)

\* Past the layers only daemons are still at work.
Quiet == pc \in {"failWait", "finalWait"} => RunnablesDone

\* A block that failed has reported before it leaves its wait group.
Reported ==
    \A b \in Block :
        /\ result[b] = "err" => b \in failed
        /\ work[b] \in {"finish", "done"} /\ b \in failed => errors
        /\ work[b] \notin {"idle", "running"} => result[b] # "none"

\* Without an error the loop leaves a layer, and the layers, visited in full.
Complete ==
    /\ pc = "layerWait" /\ ~errors => todo = {}
    /\ pc = "failWait" => errors
    /\ pc = "finalWait" /\ ~errors => layer > Len(Layers)

\* The process returned from Run after the last wait.
Returned ==
    exit \in {"success", "failure"} =>
        /\ pc = "finalWait"
        /\ DaemonsDone
        /\ exit = "success" => ~errors

IInv ==
    /\ TypeOK
    /\ InLayer
    /\ Tracked
    /\ Placed
    /\ Passed
    /\ Settled
    /\ Quiet
    /\ Reported
    /\ Complete
    /\ Returned

-------------------------------------------------------------------------------
(* The invariant holds in every reachable state *)

\* The layers are numbered from one.
LEMMA LayerIndex == Len(Layers) \in Nat /\ DOMAIN Layers = 1..Len(Layers)
  BY LayersAssumption DEF LayersAssumption

\* A block is in one layer only.
LEMMA OneLayer ==
    \A j, k \in DOMAIN Layers : \A b \in Layers[j] : b \in Layers[k] => j = k
  BY LayersAssumption DEF LayersAssumption

\* disable_concurrency is read from the pipeline and never set.
LEMMA SerialStep == [Next]_vars => UNCHANGED serial
  BY DEF Next, Main, Worker, Watchdog, User, Ended, vars

\* No step of any goroutine leaves the invariant.
LEMMA IInvStep == IInv /\ [Next]_vars => IInv'
<1> SUFFICES ASSUME IInv, [Next]_vars, UNCHANGED serial PROVE IInv'
  BY SerialStep
<1> USE LayersAssumption, BlockAssumption, FlagAssumption, LayerIndex
        DEF LayersAssumption, BlockAssumption, FlagAssumption,
            IInv, TypeOK, PC, Work, Exit, Result, mainVars, trackerVars,
            workVars, watchdogVars, signalVars, InLayer, Past, Tracked, Placed,
            Passed, Settled, Quiet, Reported, Complete, Returned, Started,
            Succeeded, InFlight, RunnablesDone, DaemonsDone
<1>1. ASSUME exit = "running", StartLayer PROVE IInv'
  BY <1>1 DEF StartLayer
<1>2. ASSUME exit = "running", LayersExhausted PROVE IInv'
  BY <1>2 DEF LayersExhausted, Proceed
<1>3. ASSUME exit = "running", NEW b \in Block, Skip(b) PROVE IInv'
  BY <1>3 DEF Skip
<1>4. ASSUME exit = "running", NEW b \in Block, Reject(b) PROVE IInv'
  BY <1>4 DEF Reject
<1>5. ASSUME exit = "running", NEW b \in Block, Launch(b) PROVE IInv'
  <2>0. layer \in DOMAIN Layers /\ b \in Layers[layer]
    BY <1>5 DEF Launch
  <2>1. TypeOK'
    BY <1>5 DEF Launch, IsDaemon
  <2>2. InLayer'
    BY <1>5 DEF Launch, IsDaemon
  <2>3. Tracked'
    BY <1>5 DEF Launch, IsDaemon
  <2>4. Placed'
    <3> SUFFICES ASSUME NEW k \in DOMAIN Layers, NEW c \in Layers[k], Started(c)'
                 PROVE Past(k, c)'
      BY DEF Placed
    <3>1. CASE c = b
      <4>1. k = layer
        BY <2>0, <3>1, OneLayer
      <4>2. QED BY <1>5, <3>1, <4>1 DEF Launch
    <3>2. CASE c # b
      BY <1>5, <3>2 DEF Launch
    <3>3. QED BY <3>1, <3>2
  <2>5. Passed'
    BY <1>5 DEF Launch, IsDaemon
  <2>6. Settled'
    <3> SUFFICES ASSUME NEW k \in DOMAIN Layers, NEW c \in Layers[k] \ Daemon,
                        k < layer', Started(c)'
                 PROVE Succeeded(c)'
      BY DEF Settled
    <3>1. c # b
      <4>1. layer' = layer /\ k # layer
        BY <1>5 DEF Launch
      <4>2. QED BY <2>0, <4>1, OneLayer
    <3>2. QED BY <1>5, <3>1 DEF Launch
  <2>7. Quiet'
    BY <1>5 DEF Launch, IsDaemon
  <2>8. Reported'
    BY <1>5 DEF Launch, IsDaemon
  <2>9. Complete'
    BY <1>5 DEF Launch, IsDaemon
  <2>10. Returned'
    BY <1>5 DEF Launch, IsDaemon
  <2> QED BY <2>1, <2>2, <2>3, <2>4, <2>5, <2>6, <2>7, <2>8, <2>9, <2>10
<1>6. ASSUME exit = "running", SerialRunnableWait PROVE IInv'
  <2>1. TypeOK' /\ Reported'
    BY <1>6 DEF SerialRunnableWait, Proceed
  <2>2. InLayer' /\ Tracked' /\ Quiet' /\ Complete' /\ Returned'
    BY <1>6 DEF SerialRunnableWait, Proceed
  <2>3. Placed' /\ Passed' /\ Settled'
    BY <1>6 DEF SerialRunnableWait, Proceed
  <2>4. QED BY <2>1, <2>2, <2>3
<1>7. ASSUME exit = "running", SerialDaemonWait PROVE IInv'
  <2>1. TypeOK' /\ Reported'
    BY <1>7 DEF SerialDaemonWait, Proceed
  <2>2. InLayer' /\ Tracked' /\ Quiet' /\ Complete' /\ Returned'
    BY <1>7 DEF SerialDaemonWait, Proceed
  <2>3. Placed' /\ Passed' /\ Settled'
    BY <1>7 DEF SerialDaemonWait, Proceed
  <2>4. QED BY <2>1, <2>2, <2>3
<1>8. ASSUME exit = "running", LayerVisited PROVE IInv'
  <2>1. TypeOK' /\ Reported'
    BY <1>8 DEF LayerVisited, Proceed
  <2>2. InLayer' /\ Tracked' /\ Quiet' /\ Complete' /\ Returned'
    BY <1>8 DEF LayerVisited, Proceed
  <2>3. Placed' /\ Passed' /\ Settled'
    BY <1>8 DEF LayerVisited, Proceed
  <2>4. QED BY <2>1, <2>2, <2>3
<1>9. ASSUME exit = "running", LayerComplete PROVE IInv'
  <2>1. TypeOK'
    <3>1. layer' \in 1..(Len(Layers) + 1)
      BY <1>9, LayerIndex DEF LayerComplete
    <3>2. QED BY <1>9, <3>1 DEF LayerComplete
  <2>2. InLayer'
    BY <1>9 DEF LayerComplete
  <2>3. Tracked'
    BY <1>9 DEF LayerComplete
  <2>4. Placed'
    <3> SUFFICES ASSUME NEW k \in DOMAIN Layers, NEW c \in Layers[k], Started(c)'
                 PROVE Past(k, c)'
      BY DEF Placed
    <3>1. Past(k, c)
      BY <1>9 DEF LayerComplete
    <3>2. QED BY <1>9, <3>1 DEF LayerComplete
  <2>5. Passed'
    <3> SUFFICES ASSUME NEW k \in DOMAIN Layers, NEW c \in Layers[k],
                        Past(k, c)', ~Started(c)'
                 PROVE "skip" \in Verdicts[c]
      BY <1>9 DEF Passed, LayerComplete
    <3>1. Past(k, c)
      BY <1>9 DEF LayerComplete
    <3>2. QED BY <1>9, <3>1 DEF LayerComplete
  <2>6. Settled'
    <3> SUFFICES ASSUME NEW k \in DOMAIN Layers, NEW c \in Layers[k] \ Daemon,
                        Started(c)'
                 PROVE Succeeded(c)'
      BY DEF Settled
    <3>1. c \in runnables
      BY <1>9 DEF LayerComplete
    <3>2. QED BY <1>9, <3>1 DEF LayerComplete
  <2>7. Quiet'
    BY <1>9 DEF LayerComplete
  <2>8. Reported'
    BY <1>9 DEF LayerComplete
  <2>9. Complete'
    BY <1>9 DEF LayerComplete
  <2>10. Returned'
    BY <1>9 DEF LayerComplete
  <2> QED BY <2>1, <2>2, <2>3, <2>4, <2>5, <2>6, <2>7, <2>8, <2>9, <2>10
<1>10. ASSUME exit = "running", LayerFailed PROVE IInv'
  <2>1. TypeOK' /\ Reported'
    BY <1>10 DEF LayerFailed, Attended
  <2>2. InLayer' /\ Tracked' /\ Quiet' /\ Complete' /\ Returned'
    BY <1>10 DEF LayerFailed, Attended
  <2>3. Placed' /\ Passed' /\ Settled'
    BY <1>10 DEF LayerFailed, Attended
  <2>4. QED BY <2>1, <2>2, <2>3
<1>11. ASSUME exit = "running", FailedDaemonWait PROVE IInv'
  <2>1. TypeOK' /\ Reported'
    BY <1>11 DEF FailedDaemonWait, Proceed
  <2>2. InLayer' /\ Tracked' /\ Quiet' /\ Complete' /\ Returned'
    BY <1>11 DEF FailedDaemonWait, Proceed
  <2>3. Placed' /\ Passed' /\ Settled'
    BY <1>11 DEF FailedDaemonWait, Proceed
  <2>4. QED BY <2>1, <2>2, <2>3
<1>12. ASSUME exit = "running", Return PROVE IInv'
  <2>1. TypeOK' /\ Reported'
    BY <1>12 DEF Return
  <2>2. InLayer' /\ Tracked' /\ Quiet' /\ Complete' /\ Returned'
    BY <1>12 DEF Return
  <2>3. Placed' /\ Passed' /\ Settled'
    BY <1>12 DEF Return
  <2>4. QED BY <2>1, <2>2, <2>3
<1>13. ASSUME exit = "running", NEW b \in Block, NEW r \in Result, Attempt(b, r)
       PROVE IInv'
  <2>1. TypeOK'
    BY <1>13 DEF Attempt, AfterAttempt
  <2>2. Reported'
    BY <1>13 DEF Attempt, AfterAttempt
  <2>3. InLayer' /\ Tracked' /\ Quiet' /\ Complete' /\ Returned'
    BY <1>13 DEF Attempt, AfterAttempt
  <2>4. Placed' /\ Passed'
    BY <1>13, SMTT(30) DEF Attempt, AfterAttempt
  <2>5. Settled'
    BY <1>13 DEF Attempt, AfterAttempt
  <2>6. QED BY <2>1, <2>2, <2>3, <2>4, <2>5
<1>14. ASSUME exit = "running", NEW b \in Block, AppendCompleted(b) PROVE IInv'
  <2>1. completedSignal' \in Seq(Block)
    BY <1>14 DEF AppendCompleted
  <2>2. TypeOK'
    BY <1>14, <2>1 DEF AppendCompleted, AfterSignal
  <2>3. Reported'
    BY <1>14 DEF AppendCompleted, AfterSignal
  <2>4. InLayer'
    BY <1>14 DEF AppendCompleted, AfterSignal
  <2>5. Tracked'
    BY <1>14 DEF AppendCompleted, AfterSignal
  <2>6. Placed'
    BY <1>14 DEF AppendCompleted, AfterSignal
  <2>7. Passed'
    BY <1>14 DEF AppendCompleted, AfterSignal
  <2>8. Settled'
    BY <1>14 DEF AppendCompleted, AfterSignal
  <2>9. Quiet'
    BY <1>14 DEF AppendCompleted, AfterSignal
  <2>10. Complete'
    BY <1>14 DEF AppendCompleted, AfterSignal
  <2>11. Returned'
    BY <1>14 DEF AppendCompleted, AfterSignal
  <2>12. QED
    BY <2>2, <2>3, <2>4, <2>5, <2>6, <2>7, <2>8, <2>9, <2>10, <2>11
<1>15. ASSUME exit = "running", NEW b \in Block, Retry(b) PROVE IInv'
  <2>1. TypeOK'
    <3>1. attempts[b] + 1 \in Nat
      BY <1>15
    <3>2. attempts' \in [Block -> Nat]
      BY <1>15, <3>1 DEF Retry
    <3>3. QED BY <1>15, <3>2 DEF Retry
  <2>2. Reported'
    BY <1>15 DEF Retry
  <2>3. InLayer' /\ Tracked' /\ Quiet' /\ Complete' /\ Returned'
    BY <1>15 DEF Retry
  <2>4. Placed' /\ Passed'
    BY <1>15 DEF Retry
  <2>5. Settled'
    BY <1>15 DEF Retry
  <2>6. QED BY <2>1, <2>2, <2>3, <2>4, <2>5
<1>16. ASSUME exit = "running", NEW b \in Block, Report(b) PROVE IInv'
  <2>1. TypeOK'
    BY <1>16 DEF Report, HasErrors
  <2>2. Reported'
    <3>1. errors \/ b \in failed => errors'
      BY <1>16 DEF Report, HasErrors
    <3>2. work' = [work EXCEPT ![b] = "finish"] /\ UNCHANGED <<failed, result>>
      BY <1>16 DEF Report
    <3>3. QED BY <1>16, <3>1, <3>2 DEF Report
  <2>3. InLayer' /\ Tracked' /\ Quiet' /\ Complete' /\ Returned'
    BY <1>16 DEF Report, HasErrors
  <2>4. Placed' /\ Passed'
    BY <1>16, SMTT(30) DEF Report, HasErrors
  <2>5. Settled'
    BY <1>16 DEF Report, HasErrors
  <2>6. QED BY <2>1, <2>2, <2>3, <2>4, <2>5
<1>17. ASSUME exit = "running", NEW b \in Block, Done(b) PROVE IInv'
  <2>1. TypeOK'
    BY <1>17 DEF Done
  <2>2. Reported'
    BY <1>17 DEF Done
  <2>3. InLayer' /\ Tracked' /\ Quiet' /\ Complete' /\ Returned'
    BY <1>17 DEF Done
  <2>4. Placed' /\ Passed'
    BY <1>17 DEF Done
  <2>5. Settled'
    BY <1>17 DEF Done
  <2>6. QED BY <2>1, <2>2, <2>3, <2>4, <2>5
<1>18. ASSUME exit = "running", Receive PROVE IInv'
  <2>1. TypeOK' /\ Reported'
    <3>1. completedSignal' \in Seq(Block) /\ completed' \in SUBSET Block
      BY <1>18 DEF Receive, MayReceive
    <3>2. TypeOK'
      BY <1>18, <3>1 DEF Receive
    <3>3. Reported'
      BY <1>18 DEF Receive
    <3>4. QED BY <3>2, <3>3
  <2>2. InLayer' /\ Tracked' /\ Quiet' /\ Complete' /\ Returned'
    BY <1>18 DEF Receive, MayReceive
  <2>3. Placed' /\ Passed' /\ Settled'
    BY <1>18 DEF Receive, MayReceive
  <2>4. QED BY <2>1, <2>2, <2>3
<1>19. ASSUME exit = "running", Scan PROVE IInv'
  <2>1. TypeOK' /\ Reported'
    BY <1>19 DEF Scan
  <2>2. InLayer' /\ Tracked' /\ Quiet' /\ Complete' /\ Returned'
    BY <1>19 DEF Scan
  <2>3. Placed' /\ Passed' /\ Settled'
    BY <1>19 DEF Scan
  <2>4. QED BY <2>1, <2>2, <2>3
<1>20. ASSUME exit = "running", HandleInterrupt PROVE IInv'
  <2>1. TypeOK' /\ Reported'
    BY <1>20 DEF HandleInterrupt
  <2>2. InLayer' /\ Tracked' /\ Quiet' /\ Complete' /\ Returned'
    BY <1>20 DEF HandleInterrupt
  <2>3. Placed' /\ Passed' /\ Settled'
    BY <1>20 DEF HandleInterrupt
  <2>4. QED BY <2>1, <2>2, <2>3
<1>21. ASSUME exit = "running", ForceQuit PROVE IInv'
  <2>1. TypeOK' /\ Reported'
    BY <1>21 DEF ForceQuit
  <2>2. InLayer' /\ Tracked' /\ Quiet' /\ Complete' /\ Returned'
    BY <1>21 DEF ForceQuit
  <2>3. Placed' /\ Passed' /\ Settled'
    BY <1>21 DEF ForceQuit
  <2>4. QED BY <2>1, <2>2, <2>3
<1>22. CASE UNCHANGED vars BY <1>22 DEF vars
<1> HIDE DEF IInv
<1>23. QED
  BY <1>1, <1>2, <1>3, <1>4, <1>5, <1>6, <1>7, <1>8, <1>9, <1>10, <1>11, <1>12,
     <1>13, <1>14, <1>15, <1>16, <1>17, <1>18, <1>19, <1>20, <1>21, <1>22
     DEF Next, Main, Worker, Watchdog, User, Ended

\* The inductive invariant of a run. (Pipeline.Run and its goroutines.)
THEOREM Invariance == Spec => []IInv
<1>1. Init => IInv
  <2> SUFFICES ASSUME Init PROVE IInv
    OBVIOUS
  <2>1. TypeOK
    <3>1. layer \in 1..(Len(Layers) + 1)
      BY LayerIndex DEF Init
    <3>2. completedSignal \in Seq(Block)
      BY DEF Init
    <3>3. serial \in BOOLEAN
      BY FlagAssumption DEF Init, FlagAssumption
    <3>4. QED BY <3>1, <3>2, <3>3 DEF Init, TypeOK, PC, Work, Exit, Result
  <2>2. InLayer /\ Tracked /\ Quiet /\ Reported /\ Complete /\ Returned
    BY DEF Init, InLayer, Tracked, Quiet, Reported, Complete, Returned, Started
  <2>3. Placed /\ Settled
    BY LayersAssumption
       DEF LayersAssumption, Init, Placed, Settled, Started
  <2>4. Passed
    BY LayerIndex DEF Init, Passed, Past
  <2>5. QED BY <2>1, <2>2, <2>3, <2>4 DEF IInv
<1>2. QED BY <1>1, IInvStep, PTL DEF Spec

-------------------------------------------------------------------------------
(* What follows from it *)

\* Every variable keeps its type, whatever the goroutines do.
THEOREM TypeCorrect == Spec => []TypeOK
<1>1. IInv => TypeOK
  BY DEF IInv
<1>2. QED BY <1>1, Invariance, PTL

\* No block of a layer runs beside, or after the failure of, an unfinished
\* block of an earlier layer, daemons apart. (The waits of the layer loop.)
THEOREM Barrier == Spec => []LayerBarrier
<1>1. IInv => LayerBarrier
  <2> SUFFICES ASSUME IInv,
                      NEW j \in DOMAIN Layers, NEW k \in DOMAIN Layers, j < k,
                      NEW c \in Layers[j] \ Daemon, NEW b \in Layers[k],
                      Started(b), Started(c)
               PROVE Succeeded(c)
    BY DEF LayerBarrier
  <2>1. k <= layer
    BY LayerIndex, SMTT(30) DEF IInv, TypeOK, Placed, Past
  <2>2. j < layer
    BY <2>1, LayerIndex DEF IInv, TypeOK
  <2>3. QED BY <2>2 DEF IInv, Settled
<1>2. QED BY <1>1, Invariance, PTL

\* With every wait passed, no goroutine is left.
LEMMA NoOrphansHere == IInv => NoOrphans
<1> SUFFICES ASSUME IInv, exit \in {"success", "failure"}, NEW b \in Block
             PROVE ~InFlight(b)
  BY DEF NoOrphans
<1>1. RunnablesDone /\ DaemonsDone
  BY DEF IInv, Returned, Quiet
<1>2. Started(b) => work[b] = "done"
  BY <1>1 DEF IInv, Tracked, RunnablesDone, DaemonsDone
<1>3. QED BY <1>2 DEF InFlight, Started

\* The process returns from Run with no goroutine of a block at work. (The
\* wait groups of the Tracker.)
THEOREM NothingLeft == Spec => []NoOrphans
  BY NoOrphansHere, Invariance, PTL

\* Without an error in the end, none was reported by any block.
LEMMA SuccessHere == IInv => SuccessIsComplete
<1> SUFFICES ASSUME IInv, exit = "success", NEW b \in Block
             PROVE IF Started(b) THEN Succeeded(b)
                                 ELSE Visited(b) /\ "skip" \in Verdicts[b]
  BY DEF SuccessIsComplete
<1>1. pc = "finalWait" /\ ~errors /\ RunnablesDone /\ DaemonsDone
  BY DEF IInv, Returned, Quiet
<1>2. PICK k \in DOMAIN Layers : b \in Layers[k]
  BY LayersAssumption DEF LayersAssumption
<1>3. k \in 1..(layer - 1)
  BY <1>1, LayerIndex DEF IInv, TypeOK, Complete
<1>4. CASE Started(b)
  <2>1. work[b] = "done"
    BY <1>1, <1>4 DEF IInv, Tracked, RunnablesDone, DaemonsDone
  <2>2. QED BY <1>1, <1>4, <2>1 DEF IInv, TypeOK, Result, Reported, Succeeded
<1>5. CASE ~Started(b)
  <2>1. Past(k, b)
    BY <1>3, LayerIndex DEF Past, IInv, TypeOK
  <2>2. QED BY <1>1, <1>2, <1>3, <1>5, <2>1 DEF IInv, Passed, Visited
<1>6. QED BY <1>4, <1>5

\* Exit code 0 means that every block was visited, and that the last attempt
\* of every launched one succeeded. (h.Diags and the code Perform returns.)
THEOREM SuccessMeansAll == Spec => []SuccessIsComplete
  BY SuccessHere, Invariance, PTL

-------------------------------------------------------------------------------
(* Retries *)

\* A block the loop has not visited has no goroutine.
LEMMA NotLaunchedYet ==
    ASSUME IInv, pc = "visit", NEW b \in todo PROVE work[b] = "idle"
  BY LayerIndex, SMTT(30) DEF IInv, TypeOK, InLayer, Placed, Past, Started

\* A block that is to be tried again has failed and has an attempt left.
Earned ==
    \A b \in Block :
        /\ work[b] = "idle" <=> attempts[b] = 0
        /\ attempts[b] = 1 /\ work[b] = "running" => b \notin failed
        /\ attempts[b] = 0 => b \notin failed
        /\ work[b] = "completed" =>
               attempts[b] = 1 /\ (b \in failed => result[b] = "err")
        /\ work[b] = "backoff" => result[b] = "err" /\ attempts[b] <= Retries[b]

\* Only Launch, an attempt, its signal and the retry loop touch what it says.
LEMMA EarnedStep == IInv /\ Earned /\ [Next]_vars => Earned'
<1> SUFFICES ASSUME IInv, Earned, [Next]_vars PROVE Earned'
  OBVIOUS
<1> USE BlockAssumption
        DEF BlockAssumption, IInv, TypeOK, Earned, mainVars, trackerVars,
            workVars, watchdogVars, signalVars
<1>1. ASSUME NEW b \in Block, Launch(b) PROVE Earned'
  <2>1. work[b] = "idle"
    BY <1>1, NotLaunchedYet DEF Launch
  <2>2. QED BY <1>1, <2>1 DEF Launch
<1>2. ASSUME NEW b \in Block, NEW r \in Result, Attempt(b, r) PROVE Earned'
  BY <1>2 DEF Attempt, AfterAttempt, Result
<1>3. ASSUME NEW b \in Block, AppendCompleted(b) PROVE Earned'
  BY <1>3 DEF AppendCompleted, AfterSignal
<1>4. ASSUME NEW b \in Block, Retry(b) PROVE Earned'
  BY <1>4 DEF Retry
<1>5. ASSUME NEW b \in Block, Report(b) \/ Done(b) PROVE Earned'
  BY <1>5 DEF Report, Done
<1>6. ASSUME UNCHANGED workVars PROVE Earned'
  BY <1>6
<1>7. ASSUME Main PROVE (\E b \in Block : Launch(b)) \/ UNCHANGED workVars
  BY <1>7 DEF Main, StartLayer, LayersExhausted, Skip, Reject, SerialRunnableWait,
     SerialDaemonWait, LayerVisited, LayerComplete, LayerFailed,
     FailedDaemonWait, Return, Proceed
<1>8. ASSUME Watchdog \/ User \/ UNCHANGED vars PROVE UNCHANGED workVars
  BY <1>8 DEF Watchdog, User, Receive, Scan, HandleInterrupt, ForceQuit, vars
<1> HIDE DEF IInv, Earned
<1>9. QED BY <1>1, <1>2, <1>3, <1>4, <1>5, <1>6, <1>7, <1>8
      DEF Next, Worker, Ended

\* A block is tried again only after a failure, and no more often than its
\* retry block allows. (The loop of BlockRunWithRetries.)
THEOREM RetriesAreBounded == Spec => RetriesAreEarned
<1>1. Init => Earned
  BY DEF Init, Earned
<1>2. IInv /\ Earned /\ [Next]_vars =>
        [\A b \in Block : attempts'[b] # attempts[b] =>
            \/ attempts[b] = 0 /\ attempts'[b] = 1
            \/ /\ result[b] = "err"
               /\ attempts'[b] = attempts[b] + 1
               /\ attempts'[b] <= Retries[b] + 1]_vars
  <2> SUFFICES ASSUME IInv, Earned, Next, NEW b \in Block, attempts'[b] # attempts[b]
               PROVE \/ attempts[b] = 0 /\ attempts'[b] = 1
                     \/ /\ result[b] = "err"
                        /\ attempts'[b] = attempts[b] + 1
                        /\ attempts'[b] <= Retries[b] + 1
    OBVIOUS
  <2>1. Launch(b) \/ Retry(b)
    BY DEF Next, Main, Worker, Watchdog, User, Ended, StartLayer, LayersExhausted,
       Skip, Reject, Launch, SerialRunnableWait, SerialDaemonWait, LayerVisited,
       LayerComplete, LayerFailed, FailedDaemonWait, Return, Proceed, Attempt,
       AppendCompleted, Retry, Report, Done, Receive, Scan, HandleInterrupt,
       ForceQuit, vars, mainVars, trackerVars, workVars, watchdogVars,
       signalVars, IInv, TypeOK
  <2>2. CASE Launch(b)
    <3>1. work[b] = "idle"
      BY <2>2, NotLaunchedYet DEF Launch
    <3>2. QED BY <2>2, <3>1 DEF Launch, Earned, IInv, TypeOK
  <2>3. CASE Retry(b)
    <3>1. attempts'[b] = attempts[b] + 1
      BY <2>3 DEF Retry, IInv, TypeOK
    <3>2. result[b] = "err" /\ attempts[b] <= Retries[b]
      BY <2>3 DEF Retry, Earned
    <3>3. attempts[b] \in Nat /\ Retries[b] \in Nat
      BY BlockAssumption DEF BlockAssumption, IInv, TypeOK
    <3>4. QED BY <3>1, <3>2, <3>3
  <2>4. QED BY <2>1, <2>2, <2>3
<1>3. QED BY <1>1, <1>2, EarnedStep, Invariance, PTL DEF Spec, RetriesAreEarned

-------------------------------------------------------------------------------
(* Concurrency switched off *)

\* The main loop launches a block only when nothing is at work.
Alone ==
    DryRun \/ serial =>
        /\ \A b, c \in Block : InFlight(b) /\ InFlight(c) => b = c
        /\ pc \notin {"serialRunnables", "serialDaemons"} =>
               \A b \in Block : ~InFlight(b)
        /\ pc = "serialDaemons" => RunnablesDone

\* A launch leaves the visit, and only the two waits lead back to it.
LEMMA AloneStep == IInv /\ Alone /\ [Next]_vars => Alone'
<1> SUFFICES ASSUME IInv, Alone, [Next]_vars, UNCHANGED serial, DryRun \/ serial
             PROVE Alone'
  BY SerialStep DEF Alone
<1> USE DEF IInv, TypeOK, Alone, InFlight, mainVars, trackerVars, workVars,
            watchdogVars, signalVars, RunnablesDone
<1>1. ASSUME NEW b \in Block, Launch(b) PROVE Alone'
  BY <1>1 DEF Launch, Sequential
<1>2. ASSUME NEW b \in Block, NEW w, UNCHANGED <<pc, runnables>>,
             InFlight(b), work' = [work EXCEPT ![b] = w]
      PROVE Alone'
  BY <1>2
<1>3. ASSUME NEW b \in Block, Worker(b) PROVE Alone'
  BY <1>2, <1>3, ZenonT(30) DEF Worker, Attempt, AppendCompleted, Retry, Report, Done
<1>4. ASSUME SerialRunnableWait PROVE Alone'
  BY <1>4 DEF SerialRunnableWait, Proceed
<1>5. ASSUME SerialDaemonWait PROVE Alone'
  BY <1>5 DEF SerialDaemonWait, Proceed, DaemonsDone, Tracked, Started
<1>6. ASSUME UNCHANGED <<runnables, work>>,
             pc' = pc \/ {pc, pc'} \cap {"serialRunnables", "serialDaemons"} = {}
      PROVE Alone'
  BY <1>6
<1>7. ASSUME Main
      PROVE \/ (\E b \in Block : Launch(b)) \/ SerialRunnableWait \/ SerialDaemonWait
            \/ /\ UNCHANGED <<runnables, work>>
               /\ pc' = pc \/ {pc, pc'} \cap {"serialRunnables", "serialDaemons"} = {}
  BY <1>7 DEF Main, StartLayer, LayersExhausted, Skip, Reject, LayerVisited,
     LayerComplete, LayerFailed, FailedDaemonWait, Return, Proceed
<1>8. ASSUME Watchdog \/ User \/ UNCHANGED vars
      PROVE UNCHANGED <<runnables, work, pc>>
  BY <1>8 DEF Watchdog, User, Receive, Scan, HandleInterrupt, ForceQuit, vars
<1> HIDE DEF IInv, Alone
<1>9. QED BY <1>1, <1>3, <1>4, <1>5, <1>6, <1>7, <1>8 DEF Next, Ended

\* In a dry run, or with concurrency disabled, one block is at work at a time.
\* (The waits of Pipeline.Run after each launch.)
THEOREM Sequentially == Spec => []OneAtATime
<1>1. Init => Alone
  BY DEF Init, Alone, InFlight, RunnablesDone
<1>2. Alone => OneAtATime
  BY DEF Alone, OneAtATime
<1>3. QED BY <1>1, <1>2, AloneStep, Invariance, PTL DEF Spec
-------------------------------------------------------------------------------
(* Every run is a run of Schedule *)

\* What Schedule sees of one block.
StateOf(b) ==
    IF Started(b)
      THEN IF InFlight(b) THEN "busy" ELSE IF Succeeded(b) THEN "good" ELSE "bad"
      ELSE IF Visited(b) THEN "skipped" ELSE "waiting"

LEMMA StateLemma == BlockState = [b \in Block |-> StateOf(b)]
  BY DEF BlockState, StateOf

LEMMA StateLemmaNext == BlockState' = [b \in Block |-> StateOf(b)']
  BY DEF BlockState, StateOf, Started, InFlight, Succeeded, Visited

\* A step that changes the state of no block leaves BlockState as it was.
LEMMA SameState ==
    ASSUME \A b \in Block : StateOf(b)' = StateOf(b)
    PROVE  BlockState' = BlockState
  BY StateLemma, StateLemmaNext

\* A step that changes the state of block b only is a move of that block.
LEMMA OneMove ==
    ASSUME NEW b \in Block, NEW from, NEW to,
           StateOf(b) = from, StateOf(b)' = to,
           \A c \in Block \ {b} : StateOf(c)' = StateOf(c),
           RunOutcome = "running", RunOutcome' = "running"
    PROVE  Promise!Move(b, from, to)
<1>1. BlockState' = [BlockState EXCEPT ![b] = to]
  BY StateLemma, StateLemmaNext
<1>2. BlockState[b] = from
  BY StateLemma
<1>3. QED BY <1>1, <1>2 DEF Promise!Move

\* The blocks the loop is about to visit are waiting, and may start.
LEMMA NextIsReady ==
    ASSUME IInv, pc = "visit", NEW b \in todo
    PROVE  /\ b \in Block
           /\ StateOf(b) = "waiting"
           /\ Promise!Ready(b)
<1>1. layer \in DOMAIN Layers /\ b \in Layers[layer] /\ b \in Block
  BY LayerIndex DEF IInv, TypeOK, InLayer
<1>2. ~Started(b)
  BY <1>1, LayerIndex DEF IInv, TypeOK, Placed, Past
<1>3. ~Visited(b)
  <2>1. \A k \in 1..(layer - 1) : k \in DOMAIN Layers /\ k # layer
    BY <1>1, LayerIndex DEF IInv, TypeOK
  <2>2. QED BY <1>1, <2>1, OneLayer DEF Visited
<1>4. ASSUME NEW c \in BlocksBefore[b]
      PROVE  IF c \in Daemon THEN BlockState[c] # "waiting"
                             ELSE BlockState[c] \in {"good", "skipped"}
  <2>1. PICK j \in DOMAIN Layers : c \in Layers[j]
                                   /\ \E k \in DOMAIN Layers : j < k /\ b \in Layers[k]
    BY <1>1, <1>4 DEF BlocksBefore
  <2>2. j < layer /\ c \in Block
    BY <1>1, <2>1, OneLayer, LayersAssumption DEF LayersAssumption
  <2>3. j \in 1..(layer - 1)
    BY <2>2, LayerIndex DEF IInv, TypeOK
  <2>4. Visited(c)
    BY <2>1, <2>3 DEF Visited
  <2>5. c \notin Daemon /\ Started(c) => Succeeded(c)
    BY <2>1, <2>2 DEF IInv, Settled
  <2>6. QED BY <2>2, <2>4, <2>5, StateLemma DEF StateOf, Succeeded, InFlight
<1>5. Promise!Ready(b)
  BY <1>4 DEF Promise!Ready
<1>6. QED BY <1>1, <1>2, <1>3, <1>5 DEF StateOf

\* A step of the goroutine of a block that stays in flight.
LEMMA StaysBusy ==
    ASSUME TypeOK, NEW b \in Block, InFlight(b), NEW w \in Work \ {"idle", "done"},
           work' = [work EXCEPT ![b] = w],
           \A c \in Block \ {b} : result'[c] = result[c],
           UNCHANGED <<pc, layer, todo>>
    PROVE  BlockState' = BlockState
<1> SUFFICES ASSUME NEW c \in Block PROVE StateOf(c)' = StateOf(c)
  BY SameState
<1>1. Visited(c)' = Visited(c)
  BY DEF Visited
<1>2. CASE c = b
  BY <1>2 DEF StateOf, Started, InFlight, TypeOK, Work
<1>3. CASE c # b
  BY <1>1, <1>3 DEF StateOf, Started, InFlight, Succeeded, TypeOK
<1>4. QED BY <1>2, <1>3

\* A step of the main loop that launches nothing and passes no block.
LEMMA SameBlocks ==
    ASSUME UNCHANGED <<work, result>>,
           \A b \in Block : Visited(b)' = Visited(b)
    PROVE  BlockState' = BlockState
  BY SameState DEF StateOf, Started, InFlight, Succeeded

-------------------------------------------------------------------------------
\* The steps of Pipeline.Run start a block, omit one, or end the run.
LEMMA MainKeeps ==
    ASSUME IInv, IInv', Main
    PROVE  [Promise!Next]_(Promise!vars)
<1> USE DEF Main, mainVars, trackerVars, workVars, watchdogVars, signalVars,
            RunOutcome
<1>1. ASSUME exit = "running", StartLayer PROVE UNCHANGED Promise!vars
  <2>1. \A b \in Block : Visited(b)' = Visited(b)
    BY <1>1 DEF StartLayer, Visited
  <2>2. QED BY <1>1, <2>1, SameBlocks DEF StartLayer, Promise!vars
<1>2. ASSUME exit = "running",
             LayersExhausted \/ SerialRunnableWait \/ SerialDaemonWait
                \/ LayerVisited \/ LayerFailed \/ FailedDaemonWait
      PROVE UNCHANGED Promise!vars
  <2> USE <1>2 DEF LayersExhausted, SerialRunnableWait, SerialDaemonWait,
                   LayerVisited, LayerFailed, FailedDaemonWait, Proceed
  <2>1. UNCHANGED <<layer, todo, work, result, exit>>
    OBVIOUS
  <2>2. layer > Len(Layers) \/ "layer" \notin {pc, pc'}
    OBVIOUS
  <2>3. \A b \in Block : Visited(b)' = Visited(b)
    BY <2>1, <2>2, LayerIndex DEF Visited, IInv, TypeOK
  <2>4. QED BY <2>1, <2>3, SameBlocks DEF Promise!vars
<1>3. ASSUME exit = "running", NEW b \in Block, Skip(b)
      PROVE Promise!Omit(b)
  <2>1. StateOf(b) = "waiting" /\ Promise!Ready(b)
    BY <1>3, NextIsReady DEF Skip
  <2>2. StateOf(b)' = "skipped"
    <3>1. Visited(b)'
      BY <1>3, LayerIndex DEF Skip, Visited, IInv, TypeOK, InLayer
    <3>2. ~Started(b)'
      BY <1>3, <2>1 DEF Skip, StateOf, Started, Succeeded, InFlight
    <3>3. QED BY <3>1, <3>2 DEF StateOf
  <2>3. \A c \in Block \ {b} : StateOf(c)' = StateOf(c)
    BY <1>3 DEF Skip, StateOf, Started, InFlight, Succeeded, Visited
  <2>4. QED BY <1>3, <2>1, <2>2, <2>3, OneMove DEF Skip, Promise!Omit
<1>4. ASSUME exit = "running", NEW b \in Block, Reject(b)
      PROVE UNCHANGED Promise!vars
  <2>1. \A c \in Block : Visited(c)' = Visited(c)
    BY <1>4 DEF Reject, Visited
  <2>2. QED BY <1>4, <2>1, SameBlocks DEF Reject, Promise!vars
<1>5. ASSUME exit = "running", NEW b \in Block, Launch(b)
      PROVE Promise!Start(b)
  <2>1. StateOf(b) = "waiting" /\ Promise!Ready(b)
    BY <1>5, NextIsReady DEF Launch
  <2>2. StateOf(b)' = "busy"
    BY <1>5 DEF Launch, StateOf, Started, InFlight, IInv, TypeOK
  <2>3. \A c \in Block \ {b} : StateOf(c)' = StateOf(c)
    <3>1. \A c \in Block \ {b} : Visited(c)' = Visited(c)
      BY <1>5 DEF Launch, Visited
    <3>2. QED BY <1>5, <3>1
         DEF Launch, StateOf, Started, InFlight, Succeeded, IInv, TypeOK
  <2>4. QED BY <1>5, <2>1, <2>2, <2>3, OneMove DEF Launch, Promise!Start
<1>6. ASSUME exit = "running", LayerComplete PROVE UNCHANGED Promise!vars
  <2>1. todo = {} /\ layer <= Len(Layers) /\ layer \in Nat \ {0}
    BY <1>6 DEF LayerComplete, IInv, TypeOK, Complete, InLayer
  <2>2. \A b \in Block : Visited(b)' = Visited(b)
    BY <1>6, <2>1 DEF LayerComplete, Visited
  <2>3. QED BY <1>6, <2>2, SameBlocks DEF LayerComplete, Promise!vars
<1>7. ASSUME exit = "running", Return PROVE Promise!Succeed \/ Promise!Fail
  <2>1. BlockState' = BlockState
    BY <1>7, SameBlocks DEF Return, Visited
  <2>2. NoOrphans' /\ SuccessIsComplete'
    BY NoOrphansHere, SuccessHere, PTL
  <2>3. CASE errors
    <3>1. \A b \in Block : ~InFlight(b)
      BY <1>7, <2>2, <2>3 DEF Return, NoOrphans, InFlight
    <3>2. \A b \in Block : BlockState[b] # "busy"
      BY <3>1, StateLemma DEF StateOf
    <3>3. QED BY <1>7, <2>1, <2>3, <3>2 DEF Return, Promise!Fail, Promise!End
  <2>4. CASE ~errors
    <3>1. \A b \in Block : ~InFlight(b)
                            /\ IF Started(b) THEN Succeeded(b) ELSE Visited(b)
      BY <1>7, <2>2, <2>4
         DEF Return, NoOrphans, SuccessIsComplete, InFlight, Started, Succeeded,
             Visited
    <3>2. \A b \in Block : BlockState[b] \in {"good", "skipped"}
      BY <3>1, StateLemma DEF StateOf
    <3>3. QED BY <1>7, <2>1, <2>4, <3>2 DEF Return, Promise!Succeed, Promise!End
  <2>5. QED BY <2>3, <2>4
<1>8. QED
  BY <1>1, <1>2, <1>3, <1>4, <1>5, <1>6, <1>7 DEF Promise!Next

\* The goroutine of a block settles it with DaemonDone or RunnableDone.
LEMMA WorkerKeeps ==
    ASSUME IInv, IInv', NEW b \in Block, Worker(b)
    PROVE  [Promise!Next]_(Promise!vars)
<1> USE DEF Worker, mainVars, trackerVars, workVars, watchdogVars, signalVars,
            RunOutcome, IInv
<1>1. ASSUME exit = "running", NEW r \in Result, Attempt(b, r)
      PROVE UNCHANGED Promise!vars
  <2>1. InFlight(b) /\ AfterAttempt(b, r) \in Work \ {"idle", "done"}
    BY <1>1 DEF Attempt, AfterAttempt, InFlight, Work
  <2>2. \A c \in Block \ {b} : result'[c] = result[c]
    BY <1>1 DEF Attempt, TypeOK
  <2>3. QED BY <1>1, <2>1, <2>2, StaysBusy DEF Attempt, Promise!vars
<1>2. ASSUME exit = "running", AppendCompleted(b) PROVE UNCHANGED Promise!vars
  <2>1. InFlight(b) /\ AfterSignal(b) \in Work \ {"idle", "done"}
    BY <1>2 DEF AppendCompleted, AfterSignal, InFlight, Work
  <2>2. QED BY <1>2, <2>1, StaysBusy DEF AppendCompleted, Promise!vars
<1>3. ASSUME exit = "running", Retry(b) PROVE UNCHANGED Promise!vars
  <2>1. InFlight(b) /\ "running" \in Work \ {"idle", "done"}
    BY <1>3 DEF Retry, InFlight, Work
  <2>2. QED BY <1>3, <2>1, StaysBusy DEF Retry, Promise!vars
<1>4. ASSUME exit = "running", Report(b) PROVE UNCHANGED Promise!vars
  <2>1. InFlight(b) /\ "finish" \in Work \ {"idle", "done"}
    BY <1>4 DEF Report, InFlight, Work
  <2>2. QED BY <1>4, <2>1, StaysBusy DEF Report, Promise!vars
<1>5. ASSUME exit = "running", Done(b) PROVE Promise!Settle(b)
  <2>1. StateOf(b) = "busy"
    BY <1>5 DEF Done, StateOf, Started, InFlight
  <2>2. StateOf(b)' \in {"good", "bad"}
    BY <1>5 DEF Done, StateOf, Started, InFlight, Succeeded, TypeOK
  <2>3. \A c \in Block \ {b} : StateOf(c)' = StateOf(c)
    BY <1>5 DEF Done, StateOf, Started, InFlight, Succeeded, Visited, TypeOK
  <2>4. QED BY <1>5, <2>1, <2>2, <2>3, OneMove DEF Done, Promise!Settle
<1>6. QED BY <1>1, <1>2, <1>3, <1>4, <1>5 DEF Promise!Next

\* The watchdog and the user can only end the run.
LEMMA OthersKeep ==
    ASSUME Watchdog \/ User \/ UNCHANGED vars
    PROVE  [Promise!Next]_(Promise!vars)
<1>1. UNCHANGED <<work, result, pc, layer, todo>>
  BY DEF Watchdog, User, Receive, Scan, HandleInterrupt, ForceQuit, mainVars,
         workVars, vars
<1>2. BlockState' = BlockState
  BY <1>1, SameBlocks DEF Visited
<1>3. \/ UNCHANGED exit
      \/ exit = "running" /\ exit' \in {"panic", "forced"}
  BY DEF Watchdog, User, Receive, Scan, HandleInterrupt, ForceQuit, vars
<1>4. QED BY <1>2, <1>3
     DEF RunOutcome, Promise!vars, Promise!Next, Promise!Abort, Promise!End

\* Pipeline implements Schedule: a block starts once and after the blocks
\* before it, and the run succeeds only when none of them failed.
THEOREM Refinement == Spec => KeepsPromise
<1>1. Init => Promise!Init
  <2> SUFFICES ASSUME Init PROVE Promise!Init
    OBVIOUS
  <2>1. \A b \in Block : StateOf(b) = "waiting"
    BY DEF Init, StateOf, Started, Visited
  <2>2. RunOutcome = "running"
    BY DEF Init, RunOutcome
  <2>3. QED BY <2>1, <2>2, StateLemma DEF Promise!Init
<1>2. IInv /\ IInv' /\ [Next]_vars => [Promise!Next]_(Promise!vars)
  BY MainKeeps, WorkerKeeps, OthersKeep DEF Next, Ended
<1>3. QED BY <1>1, <1>2, Invariance, PTL DEF Spec, KeepsPromise, Promise!Spec
===============================================================================
