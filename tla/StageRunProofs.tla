---------------------------- MODULE StageRunProofs ----------------------------
(***************************************************************************)
(* Proofs about StageRun, for every stage: any number of items and hooks,  *)
(* hooks of hooks included.                                                *)
(***************************************************************************)
EXTENDS StageRun, TLAPS

\* Before the command, and with it.
Early == {"idle", "expand", "each", "items", "pre", "prepare", "exec", "wait",
          "image", "create"}
Underway == {"exec", "wait", "image", "create", "start", "logs", "copy", "remove"}
Started == {"wait", "create", "start", "logs", "copy", "remove"}

\* Of the pre hooks of r, the k-th has returned, and an error it had is known.
Known(r, k) ==
    /\ at[PreHooks[r][k]] = "returned"
    /\ errs[r] \/ result[PreHooks[r][k]] = "ok"

Welcome(r) ==
    \A k \in DOMAIN PreHooks[r] :
        at[PreHooks[r][k]] = "returned" /\ result[PreHooks[r][k]] = "ok"

Guarded(r) == process[r] # "none" \/ container[r] # "none" => ~dryRun /\ Welcome(r)

Tidy(r) == result[r] = "ok" /\ ~cancelled => container[r] \in {"none", "removed"}

\* What a call keeps true of itself.
Sound(r) ==
    /\ at[r] \in {"idle", "expand", "each"} => next[r] = 1
    /\ at[r] = "pre" => \A k \in DOMAIN PreHooks[r] : k < next[r] => Known(r, k)
    /\ at[r] = "prepare" => \A k \in DOMAIN PreHooks[r] : Known(r, k)
    /\ at[r] \in Underway => Welcome(r)
    /\ at[r] \in Started => ~dryRun
    /\ at[r] \in Early => container[r] = "none"
    /\ IF at[r] \in {"post", "returned"} THEN result[r] \in Result ELSE result[r] = "none"
    /\ Guarded(r)
    /\ Tidy(r)

\* The items the loop has not come to are idle.
Waiting ==
    at[Root] \in {"expand", "each", "items"} =>
        \A k \in DOMAIN Items : k >= next[Root] => at[Items[k]] = "idle"

SInv == TypeOK /\ Waiting /\ \A r \in Run : Sound(r)

-------------------------------------------------------------------------------
\* The items and the hooks are calls other than Root, and hooks are no items.
LEMMA Callees ==
    /\ Root \in Run
    /\ Len(Items) \in Nat /\ DOMAIN Items = 1..Len(Items)
    /\ \A k \in DOMAIN Items : Items[k] \in Run /\ Items[k] # Root
    /\ \A r \in Run :
        /\ Len(PreHooks[r]) \in Nat /\ DOMAIN PreHooks[r] = 1..Len(PreHooks[r])
        /\ Len(PostHooks[r]) \in Nat /\ DOMAIN PostHooks[r] = 1..Len(PostHooks[r])
        /\ \A k \in DOMAIN PreHooks[r] :
             PreHooks[r][k] \in Run /\ PreHooks[r][k] # Root /\ PreHooks[r][k] \notin Elements
        /\ \A k \in DOMAIN PostHooks[r] :
             PostHooks[r][k] \in Run /\ PostHooks[r][k] # Root /\ PostHooks[r][k] \notin Elements
<1>1. /\ Root \in Run
      /\ Items \in Seq(Run \ {Root})
      /\ PreHooks \in [Run -> Seq(Run \ {Root})]
      /\ PostHooks \in [Run -> Seq(Run \ {Root})]
  BY StageAssumption DEF StageAssumption
<1>2. \A r \in Run : PreHooks[r] \in Seq(Run \ {Root}) /\ PostHooks[r] \in Seq(Run \ {Root})
  BY <1>1
<1>3. \A r \in Run : Hooks(r) \cap Elements = {}
  BY CallsAssumption DEF CallsAssumption
<1>4. QED
  BY <1>1, <1>2, <1>3 DEF Hooks

\* What a step leaves alone: the calls that have returned, with their results,
\* and those that have panicked.
Settles == \A h \in Run \ {Root} :
              /\ at[h] = "returned" => at'[h] = "returned" /\ result'[h] = result[h]
              /\ at[h] = "panicked" => at'[h] = "panicked"

\* A call that a step does not touch stays sound.
LEMMA Untouched ==
    ASSUME NEW r \in Run, Sound(r), Settles, dryRun' = dryRun, cancelled => cancelled',
           cancelled \in BOOLEAN,
           at'[r] = at[r], next'[r] = next[r], errs'[r] = errs[r],
           result'[r] = result[r], process'[r] = process[r],
           container'[r] = container[r]
    PROVE  Sound(r)'
<1>1. \A k \in DOMAIN PreHooks[r] : PreHooks[r][k] \in Run \ {Root}
  BY Callees
<1>2. \A k \in DOMAIN PreHooks[r] : Known(r, k) => Known(r, k)'
  BY <1>1 DEF Known, Settles
<1>3. Welcome(r) => Welcome(r)'
  BY <1>1 DEF Welcome, Settles
<1>4. Guarded(r)'
  BY <1>3 DEF Sound, Guarded
<1>5. Tidy(r)'
  BY DEF Sound, Tidy
<1>6. QED
  BY <1>2, <1>3, <1>4, <1>5 DEF Sound

\* A step of one call that keeps that call sound keeps the invariant.
LEMMA OneCall ==
    ASSUME SInv, TypeOK', NEW r \in Run, at[r] \notin {"idle", "returned", "panicked"},
           UNCHANGED <<inputVars, cancelled>>,
           \A s \in Run \ {r} :
               /\ at'[s] = at[s] /\ next'[s] = next[s] /\ errs'[s] = errs[s]
               /\ result'[s] = result[s] /\ process'[s] = process[s]
               /\ container'[s] = container[s],
           at'[r] \in {"expand", "each", "items"} =>
               at[r] \in {"expand", "each", "items"} /\ next'[r] = next[r],
           Sound(r)'
    PROVE  SInv'
<1>1. Settles
  BY DEF Settles
<1>2. \A s \in Run \ {r} : Sound(s)'
  <2>1. TAKE s \in Run \ {r}
  <2>2. Sound(s) /\ dryRun' = dryRun /\ cancelled' = cancelled /\ cancelled \in BOOLEAN
    BY DEF SInv, inputVars, TypeOK
  <2>3. QED
    BY <1>1, <2>1, <2>2, Untouched
<1>3. Waiting'
  <2>1. SUFFICES ASSUME at'[Root] \in {"expand", "each", "items"},
                        NEW k \in DOMAIN Items, k >= next'[Root]
                 PROVE  at'[Items[k]] = "idle"
    BY DEF Waiting
  <2>2. at[Root] \in {"expand", "each", "items"} /\ next'[Root] = next[Root]
    BY <2>1, Callees
  <2>3. at[Items[k]] = "idle" /\ Items[k] \in Run
    BY <2>1, <2>2, Callees DEF SInv, Waiting
  <2>4. QED
    BY <2>3
<1>4. QED
  BY <1>2, <1>3 DEF SInv

\* A step that changes only the place of a call.
LEMMA ProceedKeeps ==
    ASSUME SInv, NEW r \in Run, NEW from \in At, NEW to \in At, Proceed(r, from, to),
           from \notin {"idle", "returned", "panicked"},
           to \in {"expand", "each", "items"} => from \in {"expand", "each", "items"},
           to \in {"idle", "expand", "each", "pre"} => next[r] = 1,
           to = "prepare" => \A k \in DOMAIN PreHooks[r] : Known(r, k),
           to \in Underway => Welcome(r),
           to \in Started => ~dryRun,
           to \in Early => container[r] = "none",
           to \in {"post", "returned"} <=> from = "post"
    PROVE  SInv'
<1>1. /\ at[r] = from
      /\ at' = [at EXCEPT ![r] = to]
      /\ UNCHANGED <<inputVars, next, options, resultVars, execVars, cancelled, exit>>
  BY DEF Proceed, Goto
<1>2. TypeOK'
  BY <1>1 DEF SInv, TypeOK, inputVars, resultVars, execVars
<1>3. Settles /\ at'[r] = to
  BY <1>1 DEF Settles, SInv, TypeOK, resultVars
<1>4. \A k \in DOMAIN PreHooks[r] : PreHooks[r][k] \in Run \ {Root}
  BY Callees
<1>5. \A k \in DOMAIN PreHooks[r] : Known(r, k) => Known(r, k)'
  BY <1>1, <1>3, <1>4 DEF Known, Settles, resultVars
<1>6. Welcome(r) => Welcome(r)'
  BY <1>3, <1>4 DEF Welcome, Settles
<1>7. Guarded(r)' /\ Tidy(r)'
  BY <1>1, <1>6 DEF SInv, Sound, Guarded, Tidy, inputVars, resultVars, execVars
<1>8. at'[r] = "pre" => \A k \in DOMAIN PreHooks[r] : k < next'[r] => Known(r, k)'
  BY <1>1, <1>3, Callees
<1>9. IF to \in {"post", "returned"} THEN result'[r] \in Result ELSE result'[r] = "none"
  BY <1>1 DEF SInv, Sound, resultVars
<1>10. Sound(r)'
  BY <1>1, <1>3, <1>5, <1>6, <1>7, <1>8, <1>9 DEF Sound, inputVars, execVars
<1>11. QED
  BY <1>1, <1>2, <1>3, <1>10, OneCall DEF SInv, TypeOK, resultVars, execVars

\* run returns: what it started was started rightly, and nothing is left of it
\* unless it failed.
LEMMA LeaveKeeps ==
    ASSUME SInv, NEW r \in Run, NEW failed \in BOOLEAN, Leave(r, failed),
           at[r] \notin {"idle", "returned", "panicked", "expand", "each", "items"},
           process' \in [Run -> Result \cup {"none", "running"}],
           container' \in [Run -> {"none", "created", "running", "exited", "removed"}],
           \A s \in Run \ {r} : process'[s] = process[s] /\ container'[s] = container[s],
           process'[r] # "none" \/ container'[r] # "none" => ~dryRun /\ Welcome(r),
           ~failed /\ ~cancelled => container'[r] \in {"none", "removed"}
    PROVE  SInv'
<1>1. /\ at' = [at EXCEPT ![r] = "post"]
      /\ next' = [next EXCEPT ![r] = 1]
      /\ errs' = [errs EXCEPT ![r] = failed]
      /\ result' = [result EXCEPT ![r] = Returned(r, failed)]
      /\ UNCHANGED <<inputVars, options, cancelled, exit>>
  BY DEF Leave, Goto
<1>2. Returned(r, failed) \in Result /\ (failed => Returned(r, failed) = "err")
  BY DEF Returned, Result
<1>3. TypeOK'
  BY <1>1, <1>2 DEF SInv, TypeOK, inputVars, At
<1>4. Settles /\ at'[r] = "post"
  BY <1>1 DEF Settles, SInv, TypeOK
<1>5. \A k \in DOMAIN PreHooks[r] : PreHooks[r][k] \in Run \ {Root}
  BY Callees
<1>6. Welcome(r) => Welcome(r)'
  BY <1>4, <1>5 DEF Welcome, Settles
<1>7. Guarded(r)'
  BY <1>1, <1>6 DEF Guarded, inputVars
<1>8. Tidy(r)'
  BY <1>1, <1>2 DEF Tidy, SInv, TypeOK, Result
<1>9. Sound(r)'
  <2>1. result'[r] \in Result
    BY <1>1, <1>2 DEF SInv, TypeOK
  <2>2. QED
    BY <1>4, <1>7, <1>8, <2>1 DEF Sound, Underway, Started, Early
<1>10. QED
  BY <1>1, <1>3, <1>4, <1>9, OneCall DEF SInv, TypeOK

\* A panic in run: what it started stays as it is.
LEMMA UnwindKeeps ==
    ASSUME SInv, NEW r \in Run, NEW failed \in BOOLEAN, Unwind(r, failed),
           at[r] \in {"pre", "prepare", "image", "logs"}
    PROVE  SInv'
<1>1. /\ at' = [at EXCEPT ![r] = "unwind"]
      /\ next' = [next EXCEPT ![r] = 1]
      /\ errs' = [errs EXCEPT ![r] = failed]
      /\ UNCHANGED <<inputVars, options, result, execVars, cancelled, exit>>
  BY DEF Unwind, Goto
<1>2. TypeOK'
  BY <1>1 DEF SInv, TypeOK, inputVars, execVars, At
<1>3. Settles /\ at'[r] = "unwind"
  BY <1>1 DEF Settles, SInv, TypeOK
<1>4. Welcome(r) => Welcome(r)'
  BY <1>3, Callees DEF Welcome, Settles
<1>5. Guarded(r)' /\ Tidy(r)' /\ result'[r] = "none"
  BY <1>1, <1>4 DEF SInv, Sound, Guarded, Tidy, inputVars, execVars
<1>6. Sound(r)'
  BY <1>3, <1>5 DEF Sound, Underway, Started, Early
<1>7. QED
  BY <1>1, <1>2, <1>3, <1>6, OneCall DEF SInv, TypeOK, execVars

-------------------------------------------------------------------------------
LEMMA InitSound == Init => SInv
<1> SUFFICES ASSUME Init PROVE SInv
  OBVIOUS
<1>1. TypeOK
  <2>1. use \in [Run -> Use]
    BY StageAssumption DEF StageAssumption, Init
  <2>2. options \in [Run -> Seq(Option)]
    BY DEF Init
  <2>3. at \in [Run -> At] /\ next \in [Run -> Nat \ {0}]
    BY DEF Init, At
  <2>4. errs \in [Run -> BOOLEAN] /\ result \in [Run -> Result \cup {"none"}]
    BY DEF Init
  <2>5. /\ process \in [Run -> Result \cup {"none", "running"}]
        /\ container \in [Run -> {"none", "created", "running", "exited", "removed"}]
    BY DEF Init
  <2>6. dryRun \in BOOLEAN /\ serial \in BOOLEAN /\ cancelled \in BOOLEAN
    BY DEF Init
  <2>7. QED
    BY <2>1, <2>2, <2>3, <2>4, <2>5, <2>6 DEF Init, TypeOK
<1>2. Waiting
  BY Callees DEF Init, Waiting
<1>3. ASSUME NEW r \in Run PROVE Sound(r)
  BY DEF Init, Sound, Guarded, Tidy, Underway, Started, Early
<1>4. QED
  BY <1>1, <1>2, <1>3 DEF SInv

\* for_each: what is rejected, launched and joined.
LEMMA StageStepKeeps == SInv /\ StageStep => SInv'
<1> SUFFICES ASSUME SInv, StageStep PROVE SInv'
  OBVIOUS
<1> USE Callees
<1>1. Root \in Run /\ TypeOK /\ Sound(Root)
  BY DEF SInv
<1>2. CASE Iterate
  BY <1>1, <1>2, ProceedKeeps DEF Iterate, At, Underway, Started, Early, Proceed, Sound
<1>3. ASSUME NEW o \in Result, at[Root] \in {"each", "items"},
             o = "ok" => at[Root] = "items",
             Goto(Root, "returned"),
             result' = [result EXCEPT ![Root] = o],
             UNCHANGED <<inputVars, next, options, errs, execVars, cancelled, exit>>
      PROVE  SInv'
  <2>1. TypeOK'
    BY <1>1, <1>3 DEF TypeOK, Goto, inputVars, execVars, At
  <2>2. Settles /\ at'[Root] = "returned"
    BY <1>1, <1>3 DEF Settles, Goto, TypeOK
  <2>3. Welcome(Root) => Welcome(Root)'
    BY <2>2 DEF Welcome, Settles
  <2>4. Guarded(Root)'
    BY <1>1, <1>3, <2>3 DEF Guarded, Sound, inputVars, execVars
  <2>5. container[Root] = "none"
    BY <1>1, <1>3 DEF Sound, Early
  <2>6. Tidy(Root)'
    BY <1>3, <2>5 DEF Tidy, execVars
  <2>7. Sound(Root)'
    BY <1>1, <1>3, <2>2, <2>4, <2>6 DEF TypeOK, Sound, Underway, Started, Early
  <2>8. QED
    BY <1>1, <1>3, <2>1, <2>2, <2>7, OneCall DEF SInv, TypeOK, Goto, execVars
<1>4. CASE RejectItems
  BY <1>3, <1>4 DEF RejectItems, Result
<1>5. CASE JoinItems
  BY <1>3, <1>5 DEF JoinItems, Result
<1>6. CASE LaunchItem
  <2> DEFINE i == Items[next[Root]]
  <2>1. /\ next[Root] \in DOMAIN Items
        /\ at[Root] = "items"
        /\ at' = [at EXCEPT ![i] = "expand"]
        /\ options' = [options EXCEPT ![i] = options[Root]]
        /\ next' = [next EXCEPT ![Root] = @ + 1]
        /\ UNCHANGED <<inputVars, resultVars, execVars, cancelled, exit>>
    BY <1>1, <1>6 DEF LaunchItem, TypeOK
  <2>2. i \in Run /\ i # Root /\ at[i] = "idle" /\ next[i] = 1
    BY <1>1, <2>1 DEF SInv, Waiting, Sound, TypeOK
  <2>3. TypeOK'
    BY <1>1, <2>1, <2>2 DEF TypeOK, inputVars, resultVars, execVars, At
  <2>4. Settles
    BY <1>1, <2>1, <2>2 DEF Settles, TypeOK, resultVars
  <2>5. Waiting'
    <3>1. SUFFICES ASSUME NEW k \in DOMAIN Items, k >= next'[Root]
                   PROVE  at'[Items[k]] = "idle"
      BY DEF Waiting
    <3>2. k >= next[Root] /\ k # next[Root]
      BY <1>1, <2>1, <3>1 DEF TypeOK
    <3>3. Items[k] # i
      BY <2>1, <3>2, CallsAssumption DEF CallsAssumption
    <3>4. at[Items[k]] = "idle"
      BY <2>1, <3>2 DEF SInv, Waiting
    <3>5. QED
      BY <1>1, <2>1, <3>3, <3>4 DEF TypeOK
  <2>6. \A r \in Run \ {Root, i} : Sound(r)'
    <3>1. TAKE r \in Run \ {Root, i}
    <3>2. Sound(r) /\ cancelled \in BOOLEAN
      BY DEF SInv, TypeOK
    <3>3. QED
      BY <1>1, <2>1, <2>2, <2>4, <3>2, Untouched
      DEF TypeOK, inputVars, resultVars, execVars
  <2>7. at'[Root] = "items" /\ at'[i] = "expand" /\ next'[i] = 1
    BY <1>1, <2>1, <2>2 DEF TypeOK
  <2>8. ASSUME NEW r \in {Root, i} PROVE Sound(r)'
    <3>1. r \in Run /\ Sound(r) /\ at[r] \in {"items", "idle"}
      BY <1>1, <2>1, <2>2 DEF SInv
    <3>2. Welcome(r) => Welcome(r)'
      BY <2>4, <3>1 DEF Welcome, Settles
    <3>3. Guarded(r)' /\ Tidy(r)' /\ container'[r] = "none"
      BY <2>1, <3>1, <3>2
      DEF Sound, Guarded, Tidy, Early, inputVars, resultVars, execVars
    <3>4. result'[r] = "none"
      BY <2>1, <3>1 DEF Sound, resultVars
    <3>5. QED
      BY <2>7, <3>3, <3>4 DEF Sound, Underway, Started, Early
  <2>9. QED
    BY <2>3, <2>5, <2>6, <2>8 DEF SInv
<1>7. QED
  BY <1>2, <1>4, <1>5, <1>6 DEF StageStep

\* A call of a hook, or its return.
LEMMA HookKeeps ==
    ASSUME SInv, NEW r \in Run, NEW hooks \in {PreHooks[r], PostHooks[r]},
           NEW status \in Status, CallHook(r, hooks, status)
    PROVE  SInv'
<1>1. PICK h \in Run \ {Root} : h = hooks[next[r]] /\ h \notin Elements
  BY Callees DEF CallHook, SInv, TypeOK
<1>2. /\ at[h] = "idle"
      /\ at' = [at EXCEPT ![h] = "expand"]
      /\ options' = [options EXCEPT ![h] =
                        <<[status |-> status, parent |-> r]>> \o options[r]]
      /\ UNCHANGED <<inputVars, next, resultVars, execVars, cancelled, exit>>
  BY <1>1 DEF CallHook
<1>3. [status |-> status, parent |-> r] \in Option /\ options[r] \in Seq(Option)
  BY DEF Option, SInv, TypeOK
<1>4. <<[status |-> status, parent |-> r]>> \o options[r] \in Seq(Option)
  BY <1>3
<1>5. TypeOK'
  BY <1>1, <1>2, <1>4 DEF SInv, TypeOK, inputVars, resultVars, execVars, At
<1>6. Settles
  BY <1>1, <1>2 DEF Settles, SInv, TypeOK, resultVars
<1>7. Waiting'
  BY <1>1, <1>2, Callees DEF Waiting, SInv, TypeOK, Elements
<1>8. \A s \in Run \ {h} : Sound(s)'
  <2>1. TAKE s \in Run \ {h}
  <2>2. Sound(s) /\ cancelled \in BOOLEAN
    BY DEF SInv, TypeOK
  <2>3. QED
    BY <1>1, <1>2, <1>6, <2>2, Untouched DEF SInv, TypeOK, inputVars, resultVars, execVars
<1>9. Sound(h)'
  <2>1. Sound(h) /\ at'[h] = "expand"
    BY <1>1, <1>2 DEF SInv, TypeOK
  <2>2. Welcome(h) => Welcome(h)'
    BY <1>1, <1>6, Callees DEF Welcome, Settles
  <2>3. Guarded(h)' /\ Tidy(h)' /\ container'[h] = "none" /\ next'[h] = 1
    BY <1>2, <2>1, <2>2
    DEF Sound, Guarded, Tidy, Early, inputVars, resultVars, execVars
  <2>4. QED
    BY <1>1, <1>2, <2>1, <2>3 DEF Sound, Underway, Started, resultVars
<1>10. QED
  BY <1>5, <1>7, <1>8, <1>9 DEF SInv

LEMMA PreHookKeeps == ASSUME SInv, NEW r \in Run, PreHook(r) PROVE SInv'
<1>1. CASE CallHook(r, PreHooks[r], "running")
  BY <1>1, HookKeeps DEF Status
<1>2. CASE HookReturned(r, PreHooks[r])
           /\ errs' = [errs EXCEPT ![r] = @ \/ result[PreHooks[r][next[r]]] = "err"]
  <2> DEFINE h == PreHooks[r][next[r]]
  <2>1. /\ at[r] = "pre" /\ at[h] = "returned"
        /\ next' = [next EXCEPT ![r] = @ + 1]
        /\ errs' = [errs EXCEPT ![r] = @ \/ result[h] = "err"]
        /\ UNCHANGED <<inputVars, at, options, result, execVars, cancelled, exit>>
    BY <1>2 DEF HookReturned, PreHook
  <2>2. TypeOK'
    BY <2>1 DEF SInv, TypeOK, inputVars, execVars
  <2>3. next'[r] = next[r] + 1 /\ errs'[r] = (errs[r] \/ result[h] = "err")
    BY <2>1 DEF SInv, TypeOK
  <2>4. result[h] \in {"ok", "err"}
    <3>1. h \in Run
      BY <1>2, Callees DEF HookReturned, SInv, TypeOK
    <3>2. QED
      BY <2>1, <3>1 DEF SInv, Sound, Result
  <2>5. ASSUME NEW k \in DOMAIN PreHooks[r], k < next[r] + 1 PROVE Known(r, k)'
    <3>1. CASE k = next[r]
      BY <2>1, <2>3, <2>4, <3>1 DEF Known
    <3>2. CASE k # next[r]
      <4>1. k < next[r]
        BY <2>5, <3>2, Callees DEF SInv, TypeOK
      <4>2. Known(r, k)
        BY <2>1, <4>1 DEF SInv, Sound
      <4>3. QED
        BY <2>1, <2>3, <4>2 DEF Known
    <3>3. QED
      BY <3>1, <3>2
  <2>6. Guarded(r)' /\ Tidy(r)' /\ container'[r] = "none"
    BY <2>1 DEF SInv, Sound, Guarded, Tidy, Welcome, Early, inputVars, execVars
  <2>7. Sound(r)'
    BY <2>1, <2>3, <2>5, <2>6 DEF SInv, Sound, Underway, Started
  <2>8. QED
    BY <2>1, <2>2, <2>7, OneCall DEF SInv, TypeOK, execVars
<1>3. QED
  BY <1>1, <1>2 DEF PreHook

LEMMA PostHookKeeps == ASSUME SInv, NEW r \in Run, PostHook(r) PROVE SInv'
<1>1. CASE CallHook(r, PostHooks[r], StatusAfter(r))
  BY <1>1, HookKeeps DEF Status, StatusAfter
<1>2. CASE HookReturned(r, PostHooks[r]) /\ UNCHANGED errs
  <2>1. /\ at[r] \in {"post", "unwind"}
        /\ next' = [next EXCEPT ![r] = @ + 1]
        /\ UNCHANGED <<inputVars, at, options, resultVars, execVars, cancelled, exit>>
    BY <1>2 DEF HookReturned, PostHook, resultVars
  <2>2. TypeOK'
    BY <2>1 DEF SInv, TypeOK, inputVars, resultVars, execVars
  <2>3. Sound(r)'
    BY <2>1 DEF SInv, Sound, Guarded, Tidy, Welcome, Known, Underway, Started, Early,
                inputVars, resultVars, execVars
  <2>4. QED
    BY <2>1, <2>2, <2>3, OneCall DEF SInv, TypeOK, resultVars, execVars
<1>3. QED
  BY <1>1, <1>2 DEF PostHook

\* A post hook panics: the call returns nothing.
LEMMA PostHookPanicKeeps == ASSUME SInv, NEW r \in Run, PostHookPanics(r) PROVE SInv'
<1>1. /\ at[r] \in {"post", "unwind"}
      /\ at' = [at EXCEPT ![r] = "panicked"]
      /\ result' = [result EXCEPT ![r] = "none"]
      /\ UNCHANGED <<inputVars, next, options, errs, execVars, cancelled, exit>>
  BY DEF PostHookPanics, Goto
<1>2. TypeOK'
  BY <1>1 DEF SInv, TypeOK, inputVars, execVars, At
<1>3. Settles /\ at'[r] = "panicked"
  BY <1>1 DEF Settles, SInv, TypeOK
<1>4. Welcome(r) => Welcome(r)'
  BY <1>3, Callees DEF Welcome, Settles
<1>5. Guarded(r)' /\ Tidy(r)' /\ result'[r] = "none"
  BY <1>1, <1>4 DEF SInv, TypeOK, Sound, Guarded, Tidy, inputVars, execVars
<1>6. Sound(r)'
  BY <1>3, <1>5 DEF Sound, Underway, Started, Early
<1>7. QED
  BY <1>1, <1>2, <1>3, <1>6, OneCall DEF SInv, TypeOK, execVars

\* The command, outside a container.
LEMMA CommandKeeps ==
    ASSUME SInv, NEW r \in Run, Prepare(r) \/ Start(r) \/ Finish(r) PROVE SInv'
<1>1. TypeOK /\ Sound(r)
  BY DEF SInv
<1>2. CASE Prepare(r)
  <2>1. PICK bad \in {FALSE, TRUE} :
          IF Prepared(r, bad \/ NoCommand(r))
            THEN Proceed(r, "prepare", IF HasContainer[r] THEN "image" ELSE "exec")
            ELSE Leave(r, TRUE) /\ UNCHANGED execVars
    BY <1>2 DEF Prepare
  <2>2. at[r] = "prepare" /\ container[r] = "none"
    BY <1>1, <1>2 DEF Prepare, Sound, Early
  <2>3. CASE Prepared(r, bad \/ NoCommand(r))
    <3>1. Welcome(r)
      BY <1>1, <2>2, <2>3 DEF Sound, Known, Welcome, Prepared
    <3>2. PICK to \in {"image", "exec"} : Proceed(r, "prepare", to)
      BY <2>1, <2>3
    <3>3. QED
      BY <2>2, <3>1, <3>2, ProceedKeeps DEF At, Underway, Started, Early
  <2>4. CASE ~Prepared(r, bad \/ NoCommand(r))
    BY <1>1, <2>1, <2>2, <2>4, LeaveKeeps DEF TypeOK, execVars, Sound, Guarded
  <2>5. QED
    BY <2>3, <2>4
<1>3. CASE Start(r)
  <2>1. at[r] = "exec" /\ container[r] = "none" /\ Welcome(r)
    BY <1>1, <1>3 DEF Start, Sound, Early, Underway
  <2>2. CASE dryRun
    BY <1>1, <1>3, <2>1, <2>2, LeaveKeeps DEF Start, TypeOK, execVars, Sound, Guarded
  <2>3. CASE ~dryRun
    <3>1. /\ at' = [at EXCEPT ![r] = "wait"]
          /\ process' = [process EXCEPT ![r] = "running"]
          /\ UNCHANGED <<inputVars, next, options, resultVars, container, cancelled, exit>>
      BY <1>3, <2>3 DEF Start, Goto
    <3>2. TypeOK'
      BY <1>1, <3>1 DEF TypeOK, At, inputVars, resultVars
    <3>3. Settles /\ at'[r] = "wait"
      BY <1>1, <2>1, <3>1 DEF Settles, TypeOK, resultVars
    <3>4. Welcome(r)' /\ ~dryRun'
      BY <2>1, <2>3, <3>1, <3>3, Callees DEF Welcome, Settles, inputVars
    <3>5. Tidy(r)' /\ container'[r] = "none" /\ result'[r] = "none"
      BY <1>1, <2>1, <3>1 DEF Tidy, Sound, resultVars
    <3>6. Sound(r)'
      BY <3>3, <3>4, <3>5 DEF Sound, Guarded, Underway, Started, Early
    <3>7. QED
      BY <1>1, <2>1, <3>1, <3>2, <3>3, <3>6, OneCall DEF TypeOK, resultVars
  <2>4. QED
    BY <2>2, <2>3
<1>4. CASE Finish(r)
  <2>1. PICK o \in Result :
          /\ process' = [process EXCEPT ![r] = o]
          /\ Leave(r, o = "err")
    BY <1>4, StageAssumption DEF Finish, StageAssumption, Result
  <2>2. at[r] = "wait" /\ container' = container
    BY <1>4 DEF Finish
  <2>3. container[r] = "none" /\ Welcome(r) /\ ~dryRun
    BY <1>1, <2>2 DEF Sound, Early, Underway, Started
  <2>4. /\ process' \in [Run -> Result \cup {"none", "running"}]
        /\ \A s \in Run \ {r} : process'[s] = process[s]
    BY <1>1, <2>1 DEF TypeOK
  <2>5. QED
    BY <1>1, <2>1, <2>2, <2>3, <2>4, LeaveKeeps DEF TypeOK
<1>5. QED
  BY <1>2, <1>3, <1>4

\* A step of executeDocker that leads on and changes the container.
LEMMA ContainerKeeps ==
    ASSUME SInv, NEW r \in Run, NEW to \in {"start", "logs", "remove"},
           NEW state \in {"created", "running", "exited"},
           at[r] \in Started,
           at' = [at EXCEPT ![r] = to],
           container' = [container EXCEPT ![r] = state],
           process' \in [Run -> Result \cup {"none", "running"}],
           \A s \in Run \ {r} : process'[s] = process[s],
           UNCHANGED <<inputVars, next, options, resultVars, cancelled, exit>>
    PROVE  SInv'
<1>1. TypeOK /\ Sound(r) /\ Welcome(r) /\ ~dryRun
  BY DEF SInv, Sound, Started, Underway
<1>2. TypeOK'
  BY <1>1 DEF TypeOK, At, inputVars, resultVars
<1>3. Settles /\ at'[r] = to
  BY <1>1 DEF Settles, TypeOK, resultVars, Started
<1>4. Welcome(r)' /\ ~dryRun'
  BY <1>1, <1>3, Callees DEF Welcome, Settles, inputVars
<1>5. result'[r] = "none" /\ Tidy(r)'
  BY <1>1 DEF Sound, Started, Tidy, resultVars
<1>6. Sound(r)'
  BY <1>3, <1>4, <1>5 DEF Sound, Guarded, Underway, Started, Early
<1>7. QED
  BY <1>1, <1>2, <1>3, <1>6, OneCall DEF TypeOK, resultVars, Started

\* The container, from its image to its removal.
LEMMA DockerKeeps ==
    ASSUME SInv, NEW r \in Run,
           \/ FindImage(r) \/ Create(r) \/ StartContainer(r) \/ OpenLogs(r)
           \/ DockerFails(r) \/ LogsEnd(r) \/ LogsFail(r) \/ LogsCancelled(r)
           \/ Remove(r)
    PROVE  SInv'
<1>1. TypeOK /\ Sound(r)
  BY DEF SInv
<1>2. CASE FindImage(r)
  <2>1. PICK bad \in {FALSE, TRUE} :
          IF bad \/ dryRun
            THEN Leave(r, bad) /\ UNCHANGED execVars
            ELSE Proceed(r, "image", "create")
    BY <1>2 DEF FindImage
  <2>2. at[r] = "image" /\ container[r] = "none" /\ Welcome(r)
    BY <1>1, <1>2 DEF FindImage, Sound, Early, Underway
  <2>3. CASE bad \/ dryRun
    BY <1>1, <2>1, <2>2, <2>3, LeaveKeeps DEF TypeOK, execVars, Sound, Guarded
  <2>4. CASE ~(bad \/ dryRun)
    BY <2>1, <2>2, <2>4, ProceedKeeps DEF At, Early
  <2>5. QED
    BY <2>3, <2>4
<1>3. CASE Create(r)
  BY <1>1, <1>3, ContainerKeeps DEF Create, Contain, Goto, Started, TypeOK
<1>4. CASE StartContainer(r)
  BY <1>1, <1>4, ContainerKeeps DEF StartContainer, Goto, Started, TypeOK
<1>5. CASE OpenLogs(r)
  <2>1. at[r] = "logs" /\ Proceed(r, "logs", "copy")
    BY <1>5 DEF OpenLogs, Proceed
  <2>2. Welcome(r) /\ ~dryRun
    BY <1>1, <2>1 DEF Sound, Underway, Started
  <2>3. QED
    BY <2>1, <2>2, ProceedKeeps DEF At, Early
<1>6. CASE DockerFails(r)
  BY <1>1, <1>6, LeaveKeeps DEF DockerFails, TypeOK, execVars, Sound, Guarded
<1>7. CASE LogsEnd(r)
  <2>1. PICK o \in Result : process' = [process EXCEPT ![r] = o]
    BY <1>7, StageAssumption DEF LogsEnd, StageAssumption
  <2>2. /\ process' \in [Run -> Result \cup {"none", "running"}]
        /\ \A s \in Run \ {r} : process'[s] = process[s]
    BY <1>1, <2>1 DEF TypeOK
  <2>3. QED
    BY <1>7, <2>2, ContainerKeeps DEF LogsEnd, Goto, Started
<1>8. CASE LogsFail(r)
  <2>1. /\ at[r] = "copy" /\ at' = [at EXCEPT ![r] = "remove"]
        /\ errs' = [errs EXCEPT ![r] = TRUE]
        /\ UNCHANGED <<inputVars, next, options, result, execVars, cancelled, exit>>
    BY <1>8 DEF LogsFail, Goto
  <2>2. TypeOK'
    BY <1>1, <2>1 DEF TypeOK, At, inputVars, execVars
  <2>3. Settles /\ at'[r] = "remove"
    BY <1>1, <2>1 DEF Settles, TypeOK
  <2>4. Welcome(r) /\ ~dryRun /\ result[r] = "none"
    BY <1>1, <2>1 DEF Sound, Underway, Started
  <2>5. Welcome(r)'
    BY <2>3, <2>4, Callees DEF Welcome, Settles
  <2>6. Sound(r)'
    BY <2>1, <2>3, <2>4, <2>5
    DEF Sound, Guarded, Tidy, Underway, Started, Early, inputVars
  <2>7. QED
    BY <1>1, <2>1, <2>2, <2>3, <2>6, OneCall DEF TypeOK, execVars
<1>9. CASE LogsCancelled(r)
  BY <1>1, <1>9, LeaveKeeps DEF LogsCancelled, TypeOK, execVars, Sound, Guarded
<1>10. CASE Remove(r)
  <2>1. /\ at[r] = "remove" /\ Leave(r, errs[r]) /\ process' = process
        /\ container' = [container EXCEPT ![r] = "removed"]
    BY <1>10 DEF Remove
  <2>2. Welcome(r) /\ ~dryRun
    BY <1>1, <2>1 DEF Sound, Underway, Started
  <2>3. container'[r] = "removed" /\ errs[r] \in BOOLEAN
        /\ container' \in [Run -> {"none", "created", "running", "exited", "removed"}]
        /\ \A s \in Run \ {r} : container'[s] = container[s]
    BY <1>1, <2>1 DEF TypeOK
  <2>4. QED
    BY <1>1, <2>1, <2>2, <2>3, LeaveKeeps, ZenonT(30) DEF TypeOK
<1>11. QED
  BY <1>2, <1>3, <1>4, <1>5, <1>6, <1>7, <1>8, <1>9, <1>10

\* A step that changes only exit, or cancels the run.
LEMMA ElseKeeps ==
    ASSUME SInv, cancelled' \in BOOLEAN, cancelled => cancelled',
           exit' \in {"running", "panic"},
           UNCHANGED <<inputVars, callVars, resultVars, execVars>>
    PROVE  SInv'
<1>1. TypeOK' /\ Waiting'
  BY DEF SInv, TypeOK, Waiting, inputVars, callVars, resultVars, execVars
<1>2. Settles
  BY DEF Settles, callVars, resultVars
<1>3. ASSUME NEW r \in Run PROVE Sound(r)'
  <2>1. Sound(r) /\ cancelled \in BOOLEAN
    BY DEF SInv, TypeOK
  <2>2. QED
    BY <1>2, <2>1, Untouched DEF inputVars, callVars, resultVars, execVars
<1>4. QED
  BY <1>1, <1>3 DEF SInv

\* Every step of a call keeps the invariant.
LEMMA CallStepKeeps == ASSUME SInv, NEW r \in Run, CallStep(r) PROVE SInv'
<1>1. TypeOK /\ Sound(r)
  BY DEF SInv
<1>2. CASE Expand(r)
  <2>1. PICK to \in {"panicked", "each"} : Proceed(r, "expand", to)
    BY <1>2 DEF Expand
  <2>2. at[r] = "expand" /\ next[r] = 1 /\ container[r] = "none"
    BY <1>1, <2>1 DEF Proceed, Sound, Early
  <2>3. QED
    BY <2>1, <2>2, ProceedKeeps DEF At, Underway, Started, Early
<1>3. CASE RunOnce(r)
  <2>1. at[r] = "each" /\ Proceed(r, "each", "pre")
    BY <1>3 DEF RunOnce, Proceed
  <2>2. next[r] = 1 /\ container[r] = "none"
    BY <1>1, <2>1 DEF Sound, Early
  <2>3. QED
    BY <2>1, <2>2, ProceedKeeps DEF At, Underway, Started
<1>4. CASE PreHooksDone(r)
  <2>1. at[r] = "pre" /\ Proceed(r, "pre", "prepare") /\ next[r] > Len(PreHooks[r])
    BY <1>4 DEF PreHooksDone, Proceed
  <2>2. container[r] = "none" /\ \A k \in DOMAIN PreHooks[r] : Known(r, k)
    BY <1>1, <2>1, Callees DEF Sound, Early, TypeOK
  <2>3. QED
    BY <2>1, <2>2, ProceedKeeps DEF At, Underway, Started
<1>5. CASE PostHooksDone(r)
  <2>1. Proceed(r, "post", "returned") \/ Proceed(r, "unwind", "panicked")
    BY <1>5 DEF PostHooksDone
  <2>2. QED
    BY <2>1, ProceedKeeps DEF At, Underway, Started, Early
<1>6. CASE PreHookPanics(r) \/ EvaluationPanics(r) \/ InspectFails(r)
  <2>1. \E failed \in BOOLEAN : Unwind(r, failed)
    BY <1>1, <1>6 DEF PreHookPanics, EvaluationPanics, InspectFails, TypeOK
  <2>2. at[r] \in {"pre", "prepare", "image", "logs"}
    BY <1>6 DEF PreHookPanics, EvaluationPanics, InspectFails
  <2>3. QED
    BY <2>1, <2>2, UnwindKeeps
<1>7. CASE Crash(r)
  BY <1>1, <1>7, ElseKeeps DEF Crash, TypeOK
<1>8. QED
  BY <1>2, <1>3, <1>4, <1>5, <1>6, <1>7, PreHookKeeps, PostHookKeeps, PostHookPanicKeeps,
     CommandKeeps, DockerKeeps DEF CallStep

\* The invariant of a call of Stage.Run: its hooks, its command and its
\* container keep step with each other, for every stage.
THEOREM StageInvariance == Spec => []SInv
<1>1. SInv /\ [Next]_vars => SInv'
  <2> SUFFICES ASSUME SInv, [Next]_vars PROVE SInv'
    OBVIOUS
  <2>1. CASE StageStep
    BY <2>1, StageStepKeeps
  <2>2. CASE \E r \in Run : CallStep(r)
    BY <2>2, CallStepKeeps
  <2>3. CASE Cancel
    BY <2>3, ElseKeeps DEF Cancel, SInv, TypeOK
  <2>4. CASE UNCHANGED vars
    BY <2>4, ElseKeeps DEF vars, SInv, TypeOK
  <2>5. QED
    BY <2>1, <2>2, <2>3, <2>4 DEF Next
<1>2. QED
  BY InitSound, <1>1, PTL DEF Spec

\* Type correctness of a call of Stage.Run, for every stage.
THEOREM StageTypeCorrect == Spec => []TypeOK
<1>1. SInv => TypeOK
  BY DEF SInv
<1>2. QED
  BY StageInvariance, <1>1, PTL

\* Nothing is started before the pre hooks have succeeded, or in a dry run,
\* however many hooks there are and however the items interleave.
THEOREM GuardedCommands == Spec => []CommandIsGuarded
<1>1. SInv => CommandIsGuarded
  BY DEF SInv, Sound, Guarded, Welcome, CommandIsGuarded
<1>2. QED
  BY StageInvariance, <1>1, PTL

\* A call that succeeds and is not cancelled leaves no container behind.
THEOREM NoContainerLeft == Spec => []ContainersRemoved
<1>1. SInv => ContainersRemoved
  BY DEF SInv, Sound, Tidy, ContainersRemoved
<1>2. QED
  BY StageInvariance, <1>1, PTL

-------------------------------------------------------------------------------
(* What Stage.Run returns, and what its hooks are told *)

\* Before its hooks, between its pre and its post hooks, and in a container.
Upfront == {"idle", "expand", "each", "items"}
Middle == {"pre", "prepare", "exec", "wait", "image", "create", "start", "logs",
           "copy", "remove"}
Inside == {"image", "create", "start", "logs", "copy", "remove"}
\* With the deferred function, and behind it.
Deferred == {"post", "unwind"}
Over == {"returned", "panicked"}

Idle(h) == at[h] = "idle"
Active(h) == at[h] \notin {"idle", "returned", "panicked"}

\* Nothing has gone wrong, been started or been called as yet.
Fresh(r) ==
    /\ at[r] \in Upfront => ~errs[r] /\ \A h \in Hooks(r) : Idle(h)
    /\ at[r] \in Upfront \cup {"pre", "prepare"} => process[r] = "none"

Contained(r) == at[r] \in Inside => HasContainer[r]

\* A hook that runs is the one its caller is waiting for, and a panic of a hook
\* is on its way through its caller, or about to be.
Awaiting(r, h) ==
    \/ at[r] = "pre" /\ next[r] \in DOMAIN PreHooks[r] /\ h = PreHooks[r][next[r]]
    \/ at[r] \in Deferred /\ next[r] \in DOMAIN PostHooks[r] /\ h = PostHooks[r][next[r]]

Awaited(r) ==
    \A h \in Hooks(r) :
        /\ Active(h) => Awaiting(r, h)
        /\ at[h] = "panicked" => Awaiting(r, h) \/ at[r] \in {"unwind", "panicked"}

\* The post hooks return one after the other, and all of them when the stage
\* was run, unless one of them panics.
Posted(r) ==
    /\ at[r] \in Deferred =>
         \A k \in DOMAIN PostHooks[r] : k < next[r] => at[PostHooks[r][k]] = "returned"
    /\ at[r] \in Over /\ (errs[r] \/ process[r] # "none") =>
         \A k \in DOMAIN PostHooks[r] :
             \/ at[PostHooks[r][k]] = "returned"
             \/ at[r] = "panicked" /\ \E j \in 1..k : at[PostHooks[r][j]] = "panicked"

\* A hook of the stage or an item is told what StatusAfter makes of the errors.
Told(r) ==
    r \in Bodies =>
        /\ options[r] = <<>>
        /\ \A h \in Hooks(r) : ~Idle(h) =>
             \E status \in Status :
                 /\ options[h] = <<[status |-> status, parent |-> r]>>
                 /\ status = "success" => at[r] \in Deferred \cup Over /\ ~errs[r]

\* Root returns without a run of its own when for_each has items, and a stage
\* panics without one when its macro does.
Untried(r) ==
    /\ (r = Root /\ at[r] = "returned") \/ at[r] = "panicked"
    /\ \A h \in Hooks(r) : Idle(h)

\* What run leaves behind when it ends without an error, or panics.
Clean(r) ==
    at[r] \in Deferred \cup Over /\ ~errs[r] =>
        /\ \/ Welcome(r)
           \/ Untried(r)
           \/ at[r] \in {"unwind", "panicked"} /\ PreHookPanicked(r)
        /\ process[r] = "err" => HasContainer[r]

Confirmed(r) ==
    result[r] = "ok" => ~errs[r] /\ (process[r] # "none" => use[r] \notin Rejecting)

\* The items are idle unless for_each runs them, and Root returns what they do.
Gathered ==
    /\ at[Root] \notin {"items", "returned"} => \A i \in Elements : Idle(i)
    /\ at[Root] = "returned" =>
         \A i \in Elements : Idle(i) \/ ( /\ at[i] = "returned"
                                          /\ result[Root] = "ok" => result[i] = "ok" )

Own(r) ==
    /\ Fresh(r) /\ Contained(r) /\ Awaited(r) /\ Posted(r)
    /\ Told(r) /\ Clean(r) /\ Confirmed(r)

RInv == Gathered /\ \A r \in Run : Own(r)

\* Who calls whom.
LEMMA Calls ==
    /\ Root \in Run /\ Root \notin Elements /\ Elements \subseteq Run
    /\ \A r \in Run :
         /\ Hooks(r) \subseteq Run
         /\ Root \notin Hooks(r) /\ r \notin Hooks(r) /\ Hooks(r) \cap Bodies = {}
         /\ \A k \in DOMAIN PreHooks[r] : PreHooks[r][k] \in Hooks(r)
         /\ \A k \in DOMAIN PostHooks[r] : PostHooks[r][k] \in Hooks(r)
    /\ \A r, s \in Run : r # s => Hooks(r) \cap Hooks(s) = {}
<1>1. \A r, s \in Run : r # s => Hooks(r) \cap Hooks(s) = {}
  BY CallsAssumption DEF CallsAssumption
<1>2. \A r \in Run : r \notin Hooks(r)
  BY CallsAssumption DEF CallsAssumption
<1>3. Root \in Run /\ Root \notin Elements /\ Elements \subseteq Run
  BY Callees DEF Elements
<1>4. ASSUME NEW r \in Run
      PROVE  /\ Hooks(r) \subseteq Run \ {Root}
             /\ Hooks(r) \cap Elements = {}
             /\ \A k \in DOMAIN PreHooks[r] : PreHooks[r][k] \in Hooks(r)
             /\ \A k \in DOMAIN PostHooks[r] : PostHooks[r][k] \in Hooks(r)
  BY Callees DEF Hooks
<1>5. QED
  BY <1>1, <1>2, <1>3, <1>4 DEF Bodies

\* A call stays as it is while others take their steps: its hooks, if they do,
\* are under way before and after.
LEMMA Apart ==
    ASSUME NEW r \in Run, Own(r), Settles, at[Root] # "returned", use' = use,
           at'[r] = at[r], next'[r] = next[r], options'[r] = options[r],
           errs'[r] = errs[r], result'[r] = result[r], process'[r] = process[r],
           \A h \in Hooks(r) :
               /\ options'[h] = options[h]
               /\ at'[h] = at[h] \/ (Active(h) /\ at'[h] # "idle")
    PROVE  Own(r)'
<1>1. Fresh(r)' /\ Contained(r)' /\ Confirmed(r)'
  BY DEF Own, Fresh, Contained, Confirmed, Idle, Active
<1>2. Awaited(r)'
  BY DEF Own, Awaited, Awaiting, Active
<1>3. \A h \in Hooks(r) : at[h] = "panicked" => at'[h] = "panicked"
  BY Calls DEF Settles
<1>4. Posted(r)'
  <2>1. \A k \in DOMAIN PostHooks[r] :
          /\ at[PostHooks[r][k]] = "returned" => at'[PostHooks[r][k]] = "returned"
          /\ at[PostHooks[r][k]] = "panicked" => at'[PostHooks[r][k]] = "panicked"
    BY <1>3, Calls DEF Active
  <2>2. \A k \in DOMAIN PostHooks[r] : 1..k \subseteq DOMAIN PostHooks[r]
    BY Callees
  <2>3. QED
    BY <2>1, <2>2 DEF Own, Posted
<1>5. Told(r)'
  BY DEF Own, Told, Idle, Active
<1>6. Clean(r)'
  <2>1. Welcome(r) => Welcome(r)'
    BY Calls DEF Welcome, Settles
  <2>2. PreHookPanicked(r) => PreHookPanicked(r)'
    BY <1>3, Calls DEF PreHookPanicked
  <2>3. Untried(r) => Untried(r)'
    BY DEF Untried, Idle, Active
  <2>4. QED
    BY <2>1, <2>2, <2>3 DEF Own, Clean
<1>7. QED
  BY <1>1, <1>2, <1>4, <1>5, <1>6 DEF Own

\* A step of one call that keeps what it owns, and no other call's place.
LEMMA OneOwner ==
    ASSUME SInv, RInv, NEW r \in Run, Active(r), at'[r] # "idle",
           at[Root] # "returned", use' = use, options' = options,
           \A s \in Run \ {r} :
               /\ at'[s] = at[s] /\ next'[s] = next[s] /\ errs'[s] = errs[s]
               /\ result'[s] = result[s] /\ process'[s] = process[s],
           Own(r)', Gathered'
    PROVE  RInv'
<1>1. Settles
  BY DEF Settles, Active
<1>2. ASSUME NEW s \in Run \ {r} PROVE Own(s)'
  <2>1. Own(s)
    BY DEF RInv
  <2>2. \A h \in Hooks(s) : at'[h] = at[h] \/ (Active(h) /\ at'[h] # "idle")
    BY Calls
  <2>3. QED
    BY <1>1, <2>1, <2>2, Apart
<1>3. QED
  BY <1>2 DEF RInv

\* An item runs only while Root is at its items.
LEMMA ItemAtWork ==
    ASSUME RInv, at[Root] # "returned", NEW r \in Elements, Active(r)
    PROVE  at[Root] = "items"
  BY DEF RInv, Gathered, Active, Idle

\* No hook of the call is under way, and no panic about to reach the call.
Quiet(r) ==
    \A h \in Hooks(r) :
        ~Active(h) /\ (at[h] = "panicked" => at[r] \in {"unwind", "panicked"})

LEMMA QuietCall ==
    ASSUME RInv, NEW r \in Run,
           \/ at[r] \notin {"pre", "post", "unwind"}
           \/ at[r] = "pre" /\ next[r] \notin DOMAIN PreHooks[r]
           \/ at[r] = "pre" /\ at[PreHooks[r][next[r]]] \in {"idle", "returned"}
           \/ at[r] \in Deferred /\ next[r] \notin DOMAIN PostHooks[r]
           \/ at[r] \in Deferred /\ at[PostHooks[r][next[r]]] \in {"idle", "returned"}
    PROVE  Quiet(r)
  BY DEF RInv, Own, Awaited, Awaiting, Quiet, Active, Deferred

\* A call goes on between its hooks, or with its pre hooks.
LEMMA MiddleStep ==
    ASSUME SInv, RInv, NEW r \in Run, at[Root] # "returned", Quiet(r),
           at[r] \in Middle \cup {"each"}, at'[r] \in Middle,
           at'[r] \in Inside => HasContainer[r],
           at'[r] \in {"pre", "prepare"} =>
               at[r] \in {"each", "pre"} /\ process'[r] = process[r],
           use' = use, options' = options, result'[r] = result[r],
           \A s \in Run \ {r} :
               /\ at'[s] = at[s] /\ next'[s] = next[s] /\ errs'[s] = errs[s]
               /\ result'[s] = result[s] /\ process'[s] = process[s]
    PROVE  RInv'
<1>1. Own(r) /\ Sound(r)
  BY DEF RInv, SInv
<1>2. \A h \in Hooks(r) : at'[h] = at[h]
  BY Calls
<1>3. Contained(r)' /\ Posted(r)' /\ Clean(r)'
  BY DEF Contained, Posted, Clean, Middle, Deferred, Over
<1>4. Fresh(r)'
  BY <1>1 DEF Own, Fresh, Upfront, Middle
<1>5. Awaited(r)'
  BY <1>2 DEF Quiet, Awaited, Active, Middle
<1>6. Told(r)'
  BY <1>1, <1>2 DEF Own, Told, Idle, Middle, Deferred, Over
<1>7. Confirmed(r)'
  BY <1>1 DEF Sound, Confirmed, Middle
<1>8. Gathered'
  <2>1. CASE r = Root
    BY <1>1, <2>1, Calls DEF RInv, Gathered, Idle, Middle
  <2>2. CASE r # Root
    <3>1. at'[Root] = at[Root]
      BY <2>2, Calls
    <3>2. r \in Elements => at[Root] = "items"
      BY ItemAtWork DEF Active, Middle
    <3>3. QED
      BY <3>1, <3>2, Calls DEF RInv, Gathered, Idle
  <2>3. QED
    BY <2>1, <2>2
<1>9. Active(r) /\ at'[r] # "idle"
  BY DEF Active, Middle
<1>10. QED
  BY <1>3, <1>4, <1>5, <1>6, <1>7, <1>8, <1>9, OneOwner DEF Own

\* run returns: without an error only after its pre hooks and its command.
LEMMA LeaveStep ==
    ASSUME SInv, RInv, NEW r \in Run, at[Root] # "returned", at[r] \in Middle \ {"pre"},
           NEW failed \in BOOLEAN, Leave(r, failed),
           \A s \in Run \ {r} : process'[s] = process[s],
           ~failed => Welcome(r) /\ (process'[r] = "err" => HasContainer[r])
    PROVE  RInv'
<1>1. /\ at' = [at EXCEPT ![r] = "post"]
      /\ next' = [next EXCEPT ![r] = 1]
      /\ errs' = [errs EXCEPT ![r] = failed]
      /\ result' = [result EXCEPT ![r] = Returned(r, failed)]
      /\ UNCHANGED <<inputVars, options, cancelled, exit>>
  BY DEF Leave, Goto
<1>2. /\ at'[r] = "post" /\ next'[r] = 1 /\ errs'[r] = failed
      /\ result'[r] = Returned(r, failed)
      /\ use' = use /\ options' = options
      /\ \A s \in Run \ {r} :
           /\ at'[s] = at[s] /\ next'[s] = next[s] /\ errs'[s] = errs[s]
           /\ result'[s] = result[s] /\ process'[s] = process[s]
  BY <1>1 DEF SInv, TypeOK, inputVars
<1>3. Own(r) /\ Quiet(r)
  BY QuietCall DEF RInv, Middle
<1>4. \A h \in Hooks(r) : at'[h] = at[h]
  BY <1>2, Calls
<1>5. Fresh(r)' /\ Contained(r)' /\ Posted(r)'
  BY <1>2, Callees DEF Fresh, Contained, Posted, Upfront, Inside, Deferred, Over
<1>6. Awaited(r)'
  BY <1>3, <1>4 DEF Quiet, Awaited, Active, Middle
<1>7. Told(r)'
  BY <1>2, <1>3, <1>4 DEF Own, Told, Idle, Middle, Deferred, Over
<1>8. Clean(r)'
  <2>1. Settles
    BY <1>2 DEF Settles, Middle
  <2>2. Welcome(r) => Welcome(r)'
    BY <2>1, Calls DEF Welcome, Settles
  <2>3. QED
    BY <1>2, <2>2 DEF Clean
<1>9. Confirmed(r)'
  BY <1>2 DEF Confirmed, Returned
<1>10. Gathered'
  <2>1. CASE r = Root
    BY <1>2, <2>1, Calls DEF RInv, Gathered, Idle, Middle
  <2>2. CASE r # Root
    <3>1. at'[Root] = at[Root]
      BY <1>2, <2>2, Calls
    <3>2. r \in Elements => at[Root] = "items"
      BY ItemAtWork DEF Active, Middle
    <3>3. QED
      BY <1>2, <3>1, <3>2, Calls DEF RInv, Gathered, Idle
  <2>3. QED
    BY <2>1, <2>2
<1>11. Active(r) /\ at'[r] # "idle"
  BY <1>2 DEF Active, Middle
<1>12. QED
  BY <1>2, <1>5, <1>6, <1>7, <1>8, <1>9, <1>10, <1>11, OneOwner DEF Own

\* A panic in run: when diags hold no error, none had come up, or a pre hook lost
\* it.
LEMMA UnwindStep ==
    ASSUME SInv, RInv, NEW r \in Run, at[Root] # "returned",
           at[r] \in {"pre", "prepare", "image", "logs"},
           NEW failed \in BOOLEAN, Unwind(r, failed),
           Quiet(r) \/ PreHookPanics(r),
           ~failed => Welcome(r) \/ PreHookPanicked(r)
    PROVE  RInv'
<1>1. /\ at' = [at EXCEPT ![r] = "unwind"]
      /\ next' = [next EXCEPT ![r] = 1]
      /\ errs' = [errs EXCEPT ![r] = failed]
      /\ UNCHANGED <<inputVars, options, result, execVars, cancelled, exit>>
  BY DEF Unwind, Goto
<1>2. /\ at'[r] = "unwind" /\ next'[r] = 1 /\ errs'[r] = failed
      /\ use' = use /\ options' = options /\ result' = result /\ process' = process
      /\ \A s \in Run \ {r} : at'[s] = at[s] /\ next'[s] = next[s] /\ errs'[s] = errs[s]
  BY <1>1 DEF SInv, TypeOK, inputVars, execVars
<1>3. Own(r) /\ Sound(r)
  BY DEF RInv, SInv
<1>4. \A h \in Hooks(r) : at'[h] = at[h] /\ ~Active(h)
  <2>1. \A h \in Hooks(r) : at'[h] = at[h]
    BY <1>2, Calls
  <2>2. CASE Quiet(r)
    BY <2>1, <2>2 DEF Quiet
  <2>3. CASE PreHookPanics(r)
    BY <1>3, <2>1, <2>3 DEF PreHookPanics, Own, Awaited, Awaiting, Active, Deferred
  <2>4. QED
    BY <2>2, <2>3
<1>5. Fresh(r)' /\ Contained(r)' /\ Posted(r)'
  BY <1>2, Callees DEF Fresh, Contained, Posted, Upfront, Inside, Deferred, Over
<1>6. Awaited(r)'
  BY <1>2, <1>4 DEF Awaited, Active
<1>7. Told(r)' /\ Confirmed(r)'
  BY <1>2, <1>3, <1>4 DEF Own, Told, Idle, Deferred, Over, Sound, Confirmed
<1>8. Clean(r)'
  <2>1. Settles
    BY <1>2 DEF Settles
  <2>2. Welcome(r) => Welcome(r)'
    BY <2>1, Calls DEF Welcome, Settles
  <2>3. PreHookPanicked(r) => PreHookPanicked(r)'
    BY <1>4, Calls DEF PreHookPanicked
  <2>4. process'[r] = "err" => HasContainer[r]
    BY <1>2, <1>3 DEF Own, Fresh, Contained, Inside
  <2>5. QED
    BY <1>2, <2>2, <2>3, <2>4 DEF Clean
<1>9. Gathered'
  <2>1. CASE r = Root
    BY <1>2, <2>1, Calls DEF RInv, Gathered, Idle
  <2>2. CASE r # Root
    <3>1. at'[Root] = at[Root]
      BY <1>2, <2>2, Calls
    <3>2. r \in Elements => at[Root] = "items"
      BY ItemAtWork DEF Active
    <3>3. QED
      BY <1>2, <3>1, <3>2, Calls DEF RInv, Gathered, Idle
  <2>3. QED
    BY <2>1, <2>2
<1>10. Active(r) /\ at'[r] # "idle"
  BY <1>2 DEF Active
<1>11. QED
  BY <1>2, <1>5, <1>6, <1>7, <1>8, <1>9, <1>10, OneOwner DEF Own

\* A hook is called: it is fresh, and is told what its caller knows.
LEMMA CallStepOwned ==
    ASSUME SInv, RInv, NEW r \in Run, at[Root] # "returned", NEW status \in Status,
           NEW hooks \in {PreHooks[r], PostHooks[r]}, CallHook(r, hooks, status),
           \/ at[r] = "pre" /\ hooks = PreHooks[r] /\ status # "success"
           \/ at[r] \in Deferred /\ hooks = PostHooks[r] /\ (status = "success" => ~errs[r])
    PROVE  RInv'
<1>1. next[r] \in DOMAIN hooks
  BY Callees DEF CallHook, SInv, TypeOK
<1>2. PICK h \in Hooks(r) : h = hooks[next[r]]
  BY <1>1, Calls
<1>3. h \in Run /\ h # r /\ h # Root /\ h \notin Bodies
  BY Calls
<1>4. /\ at[h] = "idle"
      /\ at' = [at EXCEPT ![h] = "expand"]
      /\ options' = [options EXCEPT ![h] =
                        <<[status |-> status, parent |-> r]>> \o options[r]]
      /\ UNCHANGED <<inputVars, next, resultVars, execVars, cancelled, exit>>
  BY <1>2 DEF CallHook
<1>5. /\ at'[h] = "expand"
      /\ options'[h] = <<[status |-> status, parent |-> r]>> \o options[r]
      /\ \A s \in Run \ {h} : at'[s] = at[s] /\ options'[s] = options[s]
      /\ next' = next /\ errs' = errs /\ result' = result /\ process' = process
      /\ use' = use
  BY <1>3, <1>4 DEF SInv, TypeOK, inputVars, resultVars, execVars
<1>6. Settles
  BY <1>4, <1>5 DEF Settles
<1>7. ASSUME NEW s \in Run \ {r, h} PROVE Own(s)'
  <2>1. Own(s)
    BY DEF RInv
  <2>2. \A g \in Hooks(s) : options'[g] = options[g] /\ at'[g] = at[g]
    BY <1>2, <1>5, Calls
  <2>3. QED
    BY <1>5, <1>6, <2>1, <2>2, Apart
<1>8. Own(h)'
  <2>1. Own(h) /\ Sound(h)
    BY <1>3 DEF RInv, SInv
  <2>2. \A g \in Hooks(h) : at'[g] = "idle"
    BY <1>3, <1>4, <1>5, <2>1, Calls DEF Own, Fresh, Upfront, Idle
  <2>3. ~errs[h] /\ process[h] = "none" /\ result[h] = "none"
    BY <1>4, <2>1 DEF Own, Fresh, Upfront, Sound
  <2>4. Fresh(h)' /\ Contained(h)' /\ Awaited(h)' /\ Posted(h)'
    BY <1>5, <2>2, <2>3
    DEF Fresh, Contained, Inside, Awaited, Active, Posted, Idle, Deferred, Over
  <2>5. Told(h)' /\ Clean(h)' /\ Confirmed(h)'
    BY <1>3, <1>5, <2>3 DEF Told, Clean, Confirmed, Deferred, Over
  <2>6. QED
    BY <2>4, <2>5 DEF Own
<1>9. Own(r)'
  <2>1. Own(r) /\ at'[r] = at[r]
    BY <1>3, <1>5 DEF RInv
  <2>2. Fresh(r)' /\ Contained(r)' /\ Confirmed(r)'
    BY <1>5, <2>1 DEF Own, Fresh, Contained, Confirmed, Upfront, Deferred
  <2>3. Awaited(r)'
    <3>1. \A g \in Hooks(r) \ {h} : at'[g] = at[g]
      BY <1>5, Calls
    <3>2. \A g \in Hooks(r) : Awaiting(r, g) <=> g = h
      BY <1>1, <1>2 DEF Awaiting, Deferred
    <3>3. \A g \in Hooks(r) : Awaiting(r, g)' <=> g = h
      BY <1>5, <2>1, <3>2 DEF Awaiting
    <3>4. \A g \in Hooks(r) \ {h} : ~Active(g) /\ (at[g] = "panicked" => at[r] = "unwind")
      BY <2>1, <3>2 DEF Own, Awaited, Deferred
    <3>5. QED
      BY <1>5, <2>1, <3>1, <3>3, <3>4 DEF Awaited, Active
  <2>4. Posted(r)'
    BY <1>4, <1>5, <2>1, Calls DEF Own, Posted, Deferred, Over
  <2>5. Told(r)'
    <3>1. SUFFICES ASSUME r \in Bodies
                   PROVE  /\ options'[r] = <<>>
                          /\ \A g \in Hooks(r) : at'[g] # "idle" =>
                               \E st \in Status :
                                 /\ options'[g] = <<[status |-> st, parent |-> r]>>
                                 /\ st = "success" =>
                                      at'[r] \in Deferred \cup Over /\ ~errs'[r]
      BY DEF Told, Idle
    <3>2. options[r] = <<>> /\ options'[r] = <<>>
      BY <1>3, <1>5, <2>1, <3>1 DEF Own, Told
    <3>3. options'[h] = <<[status |-> status, parent |-> r]>>
      BY <1>5, <3>2
    <3>4. \A g \in Hooks(r) \ {h} : at'[g] = at[g] /\ options'[g] = options[g]
      BY <1>5, Calls
    <3>5. status = "success" => at'[r] \in Deferred \cup Over /\ ~errs'[r]
      BY <1>5, <2>1
    <3>6. ASSUME NEW g \in Hooks(r) \ {h}, at[g] # "idle"
          PROVE \E st \in Status :
                    /\ options[g] = <<[status |-> st, parent |-> r]>>
                    /\ st = "success" => at[r] \in Deferred \cup Over /\ ~errs[r]
      BY <2>1, <3>1, <3>6 DEF Own, Told, Idle
    <3>7. QED
      BY <1>5, <2>1, <3>2, <3>3, <3>4, <3>5, <3>6
  <2>6. Clean(r)'
    <3>1. Welcome(r) => Welcome(r)'
      BY <1>6, Calls DEF Welcome, Settles
    <3>2. PreHookPanicked(r) => PreHookPanicked(r)'
      BY <1>4, <1>5, Calls DEF PreHookPanicked
    <3>3. QED
      BY <1>5, <2>1, <3>1, <3>2 DEF Own, Clean, Untried, Deferred
  <2>7. QED
    BY <2>2, <2>3, <2>4, <2>5, <2>6 DEF Own
<1>10. Gathered'
  <2>1. \A i \in Elements \cup {Root} : at'[i] = at[i]
    BY <1>3, <1>5, Calls DEF Bodies
  <2>2. QED
    BY <1>5, <2>1 DEF RInv, Gathered, Idle
<1>11. QED
  BY <1>7, <1>8, <1>9, <1>10 DEF RInv

\* Pre hooks return: their errors are the stage's.
LEMMA PreHookOwned ==
    ASSUME SInv, RInv, NEW r \in Run, at[Root] # "returned", PreHook(r) PROVE RInv'
<1>1. CASE CallHook(r, PreHooks[r], "running")
  BY <1>1, CallStepOwned DEF PreHook, Status
<1>2. CASE /\ HookReturned(r, PreHooks[r])
           /\ errs' = [errs EXCEPT ![r] = @ \/ result[PreHooks[r][next[r]]] = "err"]
  <2>1. /\ at[r] = "pre" /\ at[PreHooks[r][next[r]]] = "returned"
        /\ next' = [next EXCEPT ![r] = @ + 1]
        /\ UNCHANGED <<inputVars, at, options, result, execVars, cancelled, exit>>
    BY <1>2 DEF HookReturned, PreHook
  <2>2. Quiet(r)
    BY <2>1, QuietCall
  <2>3. \A s \in Run \ {r} :
          /\ at'[s] = at[s] /\ next'[s] = next[s] /\ errs'[s] = errs[s]
          /\ result'[s] = result[s] /\ process'[s] = process[s]
    BY <1>2, <2>1 DEF SInv, TypeOK, execVars
  <2>4. QED
    BY <2>1, <2>2, <2>3, MiddleStep DEF Middle, Inside, inputVars, execVars
<1>3. QED
  BY <1>1, <1>2 DEF PreHook

\* Post hooks return: nobody hears of their errors.
LEMMA PostHookOwned ==
    ASSUME SInv, RInv, NEW r \in Run, at[Root] # "returned", PostHook(r) PROVE RInv'
<1>1. CASE CallHook(r, PostHooks[r], StatusAfter(r))
  BY <1>1, CallStepOwned DEF PostHook, Status, StatusAfter, Deferred
<1>2. CASE HookReturned(r, PostHooks[r]) /\ UNCHANGED errs
  <2>1. /\ at[r] \in Deferred /\ at[PostHooks[r][next[r]]] = "returned"
        /\ next' = [next EXCEPT ![r] = @ + 1]
        /\ UNCHANGED <<inputVars, at, options, result, execVars, cancelled, exit, errs>>
    BY <1>2 DEF HookReturned, PostHook, Deferred
  <2>2. Quiet(r) /\ Own(r)
    BY <2>1, QuietCall DEF RInv
  <2>3. /\ next'[r] = next[r] + 1
        /\ \A s \in Run \ {r} : next'[s] = next[s]
    BY <2>1 DEF SInv, TypeOK
  <2>4. Fresh(r)' /\ Contained(r)' /\ Told(r)' /\ Confirmed(r)' /\ Awaited(r)'
    BY <2>1, <2>2 DEF Own, Fresh, Contained, Told, Confirmed, Awaited, Quiet, Active,
       Idle, Upfront, Deferred, inputVars, execVars
  <2>5. Clean(r)'
    BY <2>1, <2>2 DEF Own, Clean, Welcome, Untried, PreHookPanicked, Idle, inputVars, execVars
  <2>6. Posted(r)'
    <3>1. SUFFICES ASSUME NEW k \in DOMAIN PostHooks[r], k < next[r] + 1
                   PROVE  at[PostHooks[r][k]] = "returned"
      BY <2>1, <2>3 DEF Posted, Deferred, Over
    <3>2. CASE k = next[r]
      BY <2>1, <3>2
    <3>3. CASE k # next[r]
      <4>1. k < next[r]
        BY <3>1, <3>3, Callees DEF SInv, TypeOK
      <4>2. QED
        BY <2>1, <2>2, <4>1 DEF Own, Posted
    <3>4. QED
      BY <3>2, <3>3
  <2>7. Own(r)' /\ Gathered'
    BY <2>1, <2>4, <2>5, <2>6 DEF Own, RInv, Gathered, Idle
  <2>8. QED
    BY <2>1, <2>3, <2>7, OneOwner DEF Active, Deferred, inputVars, execVars
<1>3. QED
  BY <1>1, <1>2 DEF PostHook

\* A post hook panics, and the ones after it are not run.
LEMMA PostHookPanicOwned ==
    ASSUME SInv, RInv, NEW r \in Run, at[Root] # "returned", PostHookPanics(r) PROVE RInv'
<1>1. /\ at[r] \in Deferred
      /\ next[r] <= Len(PostHooks[r]) /\ at[PostHooks[r][next[r]]] = "panicked"
      /\ at' = [at EXCEPT ![r] = "panicked"]
      /\ result' = [result EXCEPT ![r] = "none"]
      /\ UNCHANGED <<inputVars, next, options, errs, execVars, cancelled, exit>>
  BY DEF PostHookPanics, Goto, Deferred
<1>2. /\ at'[r] = "panicked" /\ result'[r] = "none"
      /\ \A s \in Run \ {r} : at'[s] = at[s] /\ result'[s] = result[s]
      /\ next' = next /\ options' = options /\ errs' = errs /\ process' = process
      /\ use' = use
  BY <1>1 DEF SInv, TypeOK, inputVars, execVars
<1>3. Own(r) /\ next[r] \in DOMAIN PostHooks[r]
  BY <1>1, Callees DEF RInv, SInv, TypeOK
<1>4. \A h \in Hooks(r) : at'[h] = at[h] /\ ~Active(h)
  BY <1>1, <1>2, <1>3, Calls DEF Own, Awaited, Awaiting, Active, Deferred
<1>5. Fresh(r)' /\ Contained(r)' /\ Confirmed(r)' /\ Awaited(r)'
  BY <1>2, <1>4 DEF Fresh, Contained, Confirmed, Awaited, Active, Upfront, Inside
<1>6. Posted(r)'
  <2>1. SUFFICES ASSUME NEW k \in DOMAIN PostHooks[r]
                 PROVE  \/ at[PostHooks[r][k]] = "returned"
                        \/ \E j \in 1..k : at[PostHooks[r][j]] = "panicked"
    <3>1. \A k \in DOMAIN PostHooks[r] : 1..k \subseteq DOMAIN PostHooks[r]
      BY Callees
    <3>2. \A k \in DOMAIN PostHooks[r] : at'[PostHooks[r][k]] = at[PostHooks[r][k]]
      BY <1>4, Calls
    <3>3. QED
      BY <1>2, <3>1, <3>2 DEF Posted, Deferred
  <2>2. CASE k < next[r]
    BY <1>1, <1>3, <2>2 DEF Own, Posted
  <2>3. CASE next[r] <= k
    <3>1. next[r] \in Nat \ {0} /\ k \in Nat
      BY <2>1, Callees DEF SInv, TypeOK
    <3>2. next[r] \in 1..k
      BY <2>3, <3>1
    <3>3. QED
      BY <1>1, <3>2
  <2>4. k \in Nat /\ next[r] \in Nat
    BY <2>1, Callees DEF SInv, TypeOK
  <2>5. QED
    BY <2>2, <2>3, <2>4
<1>7. Told(r)'
  BY <1>2, <1>3, <1>4 DEF Own, Told, Idle, Over
<1>8. Clean(r)'
  <2>1. Welcome(r) => ~PreHookPanicked(r) /\ Welcome(r)'
    BY <1>2, Calls DEF Welcome, PreHookPanicked
  <2>2. PreHookPanicked(r) => PreHookPanicked(r)'
    BY <1>4, Calls DEF PreHookPanicked
  <2>3. Untried(r) => Untried(r)'
    BY <1>2, <1>4 DEF Untried, Idle
  <2>4. QED
    BY <1>1, <1>2, <1>3, <2>1, <2>2, <2>3 DEF Own, Clean
<1>9. Gathered'
  <2>1. CASE r = Root
    BY <1>1, <1>2, <2>1, Calls DEF RInv, Gathered, Idle, Deferred
  <2>2. CASE r # Root
    <3>1. at'[Root] = at[Root]
      BY <1>2, <2>2, Calls
    <3>2. r \in Elements => at[Root] = "items"
      BY <1>1, ItemAtWork DEF Active, Deferred
    <3>3. QED
      BY <1>2, <3>1, <3>2, Calls DEF RInv, Gathered, Idle
  <2>3. QED
    BY <2>1, <2>2
<1>10. QED
  BY <1>1, <1>2, <1>5, <1>6, <1>7, <1>8, <1>9, OneOwner DEF Own, Active, Deferred

\* Root returns without having run a command itself.
LEMMA RootReturns ==
    ASSUME SInv, RInv, at[Root] \in {"each", "items"}, Goto(Root, "returned"),
           NEW o \in Result, result' = [result EXCEPT ![Root] = o],
           UNCHANGED <<inputVars, next, options, errs, execVars, cancelled, exit>>,
           \A i \in Elements : \/ Idle(i)
                               \/ at[i] = "returned" /\ (o = "ok" => result[i] = "ok")
    PROVE  RInv'
<1>1. /\ at'[Root] = "returned" /\ result'[Root] = o
      /\ \A s \in Run \ {Root} : at'[s] = at[s] /\ result'[s] = result[s]
      /\ next' = next /\ options' = options /\ errs' = errs /\ process' = process
      /\ use' = use
  BY Calls DEF SInv, TypeOK, Goto, inputVars, execVars
<1>2. /\ Own(Root) /\ ~errs[Root] /\ process[Root] = "none"
      /\ \A h \in Hooks(Root) : Idle(h)
  BY Calls DEF RInv, Own, Fresh, Upfront
<1>3. \A h \in Hooks(Root) : at'[h] = "idle"
  BY <1>1, <1>2, Calls DEF Idle
<1>4. Fresh(Root)' /\ Contained(Root)' /\ Awaited(Root)' /\ Posted(Root)' /\ Clean(Root)'
  BY <1>1, <1>2, <1>3 DEF Fresh, Contained, Awaited, Active, Posted, Clean, Untried, Idle,
     Upfront, Inside, Deferred, Over
<1>5. Told(Root)' /\ Confirmed(Root)'
  BY <1>1, <1>2, <1>3 DEF Own, Told, Confirmed, Idle
<1>6. Gathered'
  BY <1>1, Calls DEF Gathered, Idle
<1>7. QED
  BY <1>1, <1>4, <1>5, <1>6, Calls, OneOwner DEF Own, Active

\* for_each: items are launched with the options of Root, and Root returns what
\* they return.
LEMMA StageStepOwned ==
    ASSUME SInv, RInv, at[Root] # "returned", StageStep PROVE RInv'
<1>1. TypeOK /\ Root \in Run /\ Own(Root)
  BY Calls DEF SInv, RInv
<1>2. CASE RejectItems
  <2>1. at[Root] = "each" /\ \A i \in Elements : Idle(i)
    BY <1>2 DEF RejectItems, RInv, Gathered
  <2>2. QED
    BY <1>2, <2>1, RootReturns DEF RejectItems, Result
<1>3. CASE Iterate
  <2>1. /\ at[Root] = "each" /\ at' = [at EXCEPT ![Root] = "items"]
        /\ UNCHANGED <<inputVars, next, options, resultVars, execVars, cancelled, exit>>
    BY <1>3 DEF Iterate, Proceed, Goto
  <2>2. /\ at'[Root] = "items" /\ \A s \in Run \ {Root} : at'[s] = at[s]
        /\ next' = next /\ options' = options /\ errs' = errs /\ process' = process
        /\ result' = result /\ use' = use
    BY <1>1, <2>1 DEF TypeOK, inputVars, resultVars, execVars
  <2>3. \A h \in Hooks(Root) : at[h] = "idle" /\ at'[h] = "idle"
    BY <1>1, <2>1, <2>2, Calls DEF Own, Fresh, Upfront, Idle
  <2>4. Fresh(Root)' /\ Contained(Root)' /\ Awaited(Root)' /\ Posted(Root)' /\ Clean(Root)'
    BY <1>1, <2>1, <2>2, <2>3 DEF Own, Fresh, Contained, Awaited, Active, Posted, Clean,
       Idle, Upfront, Inside, Deferred, Over
  <2>5. Told(Root)' /\ Confirmed(Root)' /\ Gathered'
    BY <1>1, <2>2, <2>3 DEF Own, Told, Confirmed, Idle, Gathered
  <2>6. QED
    BY <1>1, <2>1, <2>2, <2>4, <2>5, OneOwner DEF Own, Active
<1>4. CASE JoinItems
  <2> DEFINE o == IF \E i \in Elements : result[i] = "err" THEN "err" ELSE "ok"
  <2>1. /\ at[Root] = "items" /\ next[Root] > Len(Items) /\ ItemsReturned
        /\ Goto(Root, "returned")
        /\ result' = [result EXCEPT ![Root] = o]
        /\ UNCHANGED <<inputVars, next, options, errs, execVars, cancelled, exit>>
    BY <1>4 DEF JoinItems
  <2>2. ASSUME NEW i \in Elements
        PROVE  at[i] = "returned" /\ (o = "ok" => result[i] = "ok")
    <3>1. i \in Launched
      BY <1>1, <2>1, Callees DEF Elements, Launched, TypeOK
    <3>2. at[i] = "returned" /\ i \in Run
      BY <2>1, <3>1, Calls DEF ItemsReturned
    <3>3. result[i] \in Result
      BY <3>2 DEF SInv, Sound
    <3>4. QED
      BY <3>2, <3>3 DEF Result
  <2>3. o \in Result
    BY DEF Result
  <2> HIDE DEF o
  <2>4. QED
    BY <2>1, <2>2, <2>3, RootReturns
<1>5. CASE LaunchItem
  <2>1. next[Root] \in DOMAIN Items
    BY <1>1, <1>5, Callees DEF LaunchItem, TypeOK
  <2>2. PICK i \in Elements : i = Items[next[Root]]
    BY <2>1 DEF Elements
  <2>3. /\ i \in Run /\ i # Root /\ at[Root] = "items" /\ at[i] = "idle"
    BY <1>5, <2>1, <2>2, Calls, Callees DEF LaunchItem, SInv, Waiting, TypeOK
  <2>4. /\ at' = [at EXCEPT ![i] = "expand"]
        /\ options' = [options EXCEPT ![i] = options[Root]]
        /\ next' = [next EXCEPT ![Root] = @ + 1]
        /\ UNCHANGED <<inputVars, resultVars, execVars, cancelled, exit>>
    BY <1>5, <2>2 DEF LaunchItem
  <2>5. /\ at'[i] = "expand" /\ options'[i] = options[Root]
        /\ \A s \in Run \ {i} : at'[s] = at[s] /\ options'[s] = options[s]
        /\ \A s \in Run \ {Root} : next'[s] = next[s]
        /\ errs' = errs /\ process' = process /\ result' = result /\ use' = use
    BY <1>1, <2>3, <2>4 DEF TypeOK, inputVars, resultVars, execVars
  <2>6. Settles
    BY <2>3, <2>5 DEF Settles
  <2>7. \A s \in Run : i \notin Hooks(s)
    BY <2>2, Calls DEF Bodies
  <2>8. ASSUME NEW s \in Run \ {Root, i} PROVE Own(s)'
    <3>1. Own(s) /\ \A h \in Hooks(s) : at'[h] = at[h] /\ options'[h] = options[h]
      BY <2>5, <2>7, Calls DEF RInv
    <3>2. QED
      BY <2>3, <2>5, <2>6, <3>1, Apart
  <2>9. ASSUME NEW s \in {Root, i} PROVE Own(s)'
    <3>1. /\ s \in Run /\ Own(s) /\ at[s] \in Upfront
          /\ at'[s] \in Upfront \ {"idle"}
      BY <1>1, <2>3, <2>5 DEF RInv, Upfront
    <3>2. ~errs[s] /\ process[s] = "none" /\ \A h \in Hooks(s) : at'[h] = "idle"
      BY <2>5, <2>7, <3>1, Calls DEF Own, Fresh, Idle
    <3>3. options'[s] = <<>>
      BY <1>1, <2>3, <2>5 DEF Own, Told, Bodies
    <3>4. Fresh(s)' /\ Contained(s)' /\ Awaited(s)' /\ Posted(s)' /\ Clean(s)'
      BY <2>5, <3>1, <3>2 DEF Fresh, Contained, Awaited, Active, Posted, Clean, Idle,
         Upfront, Inside, Deferred, Over
    <3>5. Told(s)' /\ Confirmed(s)'
      BY <2>5, <3>2, <3>3 DEF Told, Confirmed, Idle
    <3>6. QED
      BY <3>4, <3>5 DEF Own
  <2>10. Gathered'
    BY <1>1, <2>3, <2>5 DEF Gathered
  <2>11. QED
    BY <2>8, <2>9, <2>10 DEF RInv
<1>6. QED
  BY <1>2, <1>3, <1>4, <1>5 DEF StageStep

\* A call goes from one place to another and changes nothing else.
LEMMA ProceedStep ==
    ASSUME SInv, RInv, NEW r \in Run, at[Root] # "returned",
           NEW from \in At, NEW to \in At, Proceed(r, from, to),
           \/ from = "expand" /\ to \in {"each", "panicked"}
           \/ from \in Middle \cup {"each"} /\ to \in Middle /\ Quiet(r)
              /\ (to \in Inside => HasContainer[r])
              /\ (to \in {"pre", "prepare"} => from \in {"each", "pre"})
           \/ /\ <<from, to>> \in {<<"post", "returned">>, <<"unwind", "panicked">>}
              /\ next[r] > Len(PostHooks[r])
    PROVE  RInv'
<1>1. /\ at[r] = from /\ at' = [at EXCEPT ![r] = to]
      /\ UNCHANGED <<inputVars, next, options, resultVars, execVars, cancelled, exit>>
  BY DEF Proceed, Goto
<1>2. /\ at'[r] = to /\ \A s \in Run \ {r} : at'[s] = at[s]
      /\ next' = next /\ options' = options /\ errs' = errs /\ process' = process
      /\ result' = result /\ use' = use
  BY <1>1 DEF SInv, TypeOK, inputVars, resultVars, execVars
<1>3. CASE from \in Middle \cup {"each"} /\ to \in Middle /\ Quiet(r)
           /\ (to \in Inside => HasContainer[r])
           /\ (to \in {"pre", "prepare"} => from \in {"each", "pre"})
  BY <1>1, <1>2, <1>3, MiddleStep
<1>4. CASE \/ from = "expand" /\ to \in {"each", "panicked"}
           \/ /\ <<from, to>> \in {<<"post", "returned">>, <<"unwind", "panicked">>}
              /\ next[r] > Len(PostHooks[r])
  <2>1. Own(r) /\ Active(r) /\ at'[r] # "idle" /\ \A h \in Hooks(r) : at'[h] = at[h]
    BY <1>1, <1>2, <1>4, Calls DEF RInv, Active
  <2>2. Quiet(r)
    BY <1>1, <1>4, Callees, QuietCall DEF SInv, TypeOK, Deferred
  <2>3. Fresh(r)' /\ Contained(r)' /\ Awaited(r)' /\ Confirmed(r)' /\ Told(r)'
    <3>1. Fresh(r)' /\ Contained(r)'
      BY <1>1, <1>2, <1>4, <2>1 DEF Own, Fresh, Contained, Active, Idle, Upfront, Inside
    <3>2. Awaited(r)'
      BY <1>1, <1>2, <1>4, <2>1, <2>2 DEF Own, Awaited, Quiet, Active, Idle
    <3>3. Confirmed(r)' /\ Told(r)'
      BY <1>1, <1>2, <1>4, <2>1, <2>2
      DEF Own, Confirmed, Told, Quiet, Active, Idle, Deferred, Over
    <3>4. QED
      BY <3>1, <3>2, <3>3
  <2>4. Posted(r)'
    <3>1. CASE from = "expand"
      BY <1>1, <1>2, <1>4, <2>1, <3>1 DEF Own, Fresh, Posted, Upfront, Deferred, Over
    <3>2. CASE from \in Deferred
      <4>1. \A k \in DOMAIN PostHooks[r] : k < next[r]
        BY <1>4, <3>2, Callees DEF SInv, TypeOK, Deferred
      <4>2. \A k \in DOMAIN PostHooks[r] : at[PostHooks[r][k]] = "returned"
        BY <1>1, <2>1, <3>2, <4>1 DEF Own, Posted
      <4>3. QED
        BY <1>2, <1>4, <2>1, <3>2, <4>2, Calls DEF Posted, Deferred
    <3>3. QED
      BY <1>4, <3>1, <3>2 DEF Deferred
  <2>5. Clean(r)'
    <3>1. Welcome(r) => Welcome(r)'
      BY <1>2, <2>1, Calls DEF Welcome
    <3>2. PreHookPanicked(r) => PreHookPanicked(r)'
      BY <2>1, Calls DEF PreHookPanicked
    <3>3. Untried(r) => Untried(r)'
      BY <1>1, <1>2, <1>4, <2>1 DEF Untried, Idle
    <3>4. CASE from = "expand"
      BY <1>1, <1>2, <1>4, <2>1, <3>4
      DEF Own, Fresh, Clean, Untried, Idle, Upfront, Deferred, Over
    <3>5. CASE from \in Deferred
      BY <1>1, <1>2, <1>4, <2>1, <3>1, <3>2, <3>3, <3>5 DEF Own, Clean, Deferred, Over
    <3>6. QED
      BY <1>4, <3>4, <3>5 DEF Deferred
  <2>6. Gathered'
    <3>1. CASE r = Root
      BY <1>1, <1>2, <1>4, <3>1, Calls DEF RInv, Gathered, Idle
    <3>2. CASE r # Root
      <4>1. at'[Root] = at[Root]
        BY <1>2, <3>2, Calls
      <4>2. r \in Elements => at[Root] = "items"
        BY <2>1, ItemAtWork
      <4>3. QED
        BY <1>2, <4>1, <4>2, Calls DEF RInv, Gathered, Idle
    <3>3. QED
      BY <3>1, <3>2
  <2>7. QED
    BY <1>2, <2>1, <2>3, <2>4, <2>5, <2>6, OneOwner DEF Own
<1>5. QED
  BY <1>3, <1>4

\* The command and the container of a call.
LEMMA BodyOwned ==
    ASSUME SInv, RInv, NEW r \in Run, at[Root] # "returned",
           \/ Prepare(r) \/ Start(r) \/ Finish(r)
           \/ FindImage(r) \/ Create(r) \/ StartContainer(r) \/ OpenLogs(r)
           \/ DockerFails(r) \/ LogsEnd(r) \/ LogsFail(r) \/ LogsCancelled(r)
           \/ Remove(r)
    PROVE  RInv'
<1>1. TypeOK /\ Sound(r) /\ Own(r)
  BY DEF SInv, RInv
<1>2. at[r] \in Middle \ {"pre"} /\ Quiet(r)
  <2>1. at[r] \in Middle \ {"pre"}
    BY DEF Prepare, Start, Finish, FindImage, Create, Contain, StartContainer, OpenLogs,
       Proceed, DockerFails, LogsEnd, LogsFail, LogsCancelled, Remove, Middle
  <2>2. QED
    BY <2>1, QuietCall DEF Middle
<1>3. CASE Prepare(r)
  <2>1. PICK bad \in {FALSE, TRUE} :
          \/ Proceed(r, "prepare", IF HasContainer[r] THEN "image" ELSE "exec")
          \/ Leave(r, TRUE) /\ UNCHANGED execVars
    BY <1>3 DEF Prepare
  <2>2. CASE Leave(r, TRUE) /\ UNCHANGED execVars
    BY <1>2, <2>2, LeaveStep DEF execVars
  <2>3. CASE HasContainer[r] /\ Proceed(r, "prepare", "image")
    BY <1>2, <2>3, ProceedStep DEF At, Middle
  <2>4. CASE ~HasContainer[r] /\ Proceed(r, "prepare", "exec")
    BY <1>2, <2>4, ProceedStep DEF At, Middle, Inside
  <2>5. QED
    BY <2>1, <2>2, <2>3, <2>4
<1>4. CASE Start(r)
  <2>1. at[r] = "exec" /\ Welcome(r)
    BY <1>1, <1>4 DEF Start, Sound, Underway
  <2>2. CASE dryRun
    <3>1. Leave(r, FALSE) /\ UNCHANGED execVars
      BY <1>4, <2>2 DEF Start
    <3>2. process[r] = "none"
      BY <1>1, <2>2 DEF Sound, Guarded
    <3>3. QED
      BY <1>2, <2>1, <3>1, <3>2, LeaveStep DEF execVars
  <2>3. CASE ~dryRun
    <3>1. /\ at' = [at EXCEPT ![r] = "wait"]
          /\ process' = [process EXCEPT ![r] = "running"]
          /\ UNCHANGED <<inputVars, next, options, resultVars, container, cancelled, exit>>
      BY <1>4, <2>3 DEF Start, Goto
    <3>2. QED
      BY <1>1, <1>2, <3>1, MiddleStep DEF TypeOK, Middle, Inside, inputVars, resultVars
  <2>4. QED
    BY <2>2, <2>3
<1>5. CASE Finish(r)
  <2>1. PICK o \in Result :
          /\ process' = [process EXCEPT ![r] = o]
          /\ Leave(r, o = "err")
    BY <1>5, StageAssumption DEF Finish, StageAssumption, Result
  <2>2. at[r] = "wait" /\ Welcome(r)
    BY <1>1, <1>5 DEF Finish, Sound, Underway
  <2>3. process'[r] = o /\ \A s \in Run \ {r} : process'[s] = process[s]
    BY <1>1, <2>1 DEF TypeOK
  <2>4. QED
    BY <1>2, <2>1, <2>2, <2>3, LeaveStep
<1>6. CASE FindImage(r)
  <2>1. at[r] = "image" /\ Welcome(r) /\ HasContainer[r]
    BY <1>1, <1>6 DEF FindImage, Sound, Underway, Own, Contained, Inside
  <2>2. PICK bad \in {FALSE, TRUE} :
          \/ Leave(r, bad) /\ UNCHANGED execVars
          \/ Proceed(r, "image", "create")
    BY <1>6 DEF FindImage
  <2>3. CASE Leave(r, bad) /\ UNCHANGED execVars
    BY <1>2, <2>1, <2>3, LeaveStep DEF execVars
  <2>4. CASE Proceed(r, "image", "create")
    BY <1>2, <2>1, <2>4, ProceedStep DEF At, Middle
  <2>5. QED
    BY <2>2, <2>3, <2>4
<1>7. CASE Create(r) \/ StartContainer(r) \/ OpenLogs(r) \/ LogsEnd(r) \/ LogsFail(r)
  <2>1. /\ at[r] \in Inside
        /\ \E to \in {"start", "logs", "copy", "remove"} : at' = [at EXCEPT ![r] = to]
        /\ errs' = errs \/ errs' = [errs EXCEPT ![r] = TRUE]
        /\ process' = process \/ \E o \in Result \cup {"running"} :
                                     process' = [process EXCEPT ![r] = o]
        /\ UNCHANGED <<inputVars, next, options, result>>
    BY <1>7, StageAssumption DEF Create, Contain, StartContainer, OpenLogs, Proceed, Goto,
       LogsEnd, LogsFail, Inside, resultVars, execVars, StageAssumption
  <2>2. HasContainer[r]
    BY <1>1, <2>1 DEF Own, Contained
  <2>3. at'[r] \in Middle \ {"pre", "prepare"}
    BY <1>1, <2>1 DEF TypeOK, Middle
  <2>4. \A s \in Run \ {r} : /\ at'[s] = at[s] /\ next'[s] = next[s] /\ errs'[s] = errs[s]
                            /\ result'[s] = result[s] /\ process'[s] = process[s]
    BY <1>1, <2>1 DEF TypeOK
  <2>5. QED
    BY <1>2, <2>1, <2>2, <2>3, <2>4, MiddleStep DEF inputVars
<1>8. CASE DockerFails(r)
  BY <1>2, <1>8, LeaveStep DEF DockerFails, execVars
<1>9. CASE LogsCancelled(r)
  <2>1. at[r] = "copy" /\ Welcome(r) /\ HasContainer[r]
    BY <1>1, <1>9 DEF LogsCancelled, Sound, Underway, Own, Contained, Inside
  <2>2. QED
    BY <1>2, <1>9, <2>1, LeaveStep DEF LogsCancelled, execVars
<1>10. CASE Remove(r)
  <2>1. at[r] = "remove" /\ Welcome(r) /\ HasContainer[r]
    BY <1>1, <1>10 DEF Remove, Sound, Underway, Own, Contained, Inside
  <2>2. errs[r] \in BOOLEAN
    BY <1>1 DEF TypeOK
  <2>3. QED
    BY <1>2, <1>10, <2>1, <2>2, LeaveStep DEF Remove
<1>11. QED
  BY <1>3, <1>4, <1>5, <1>6, <1>7, <1>8, <1>9, <1>10

\* A step that changes only exit, or cancels the run.
LEMMA StillOwned ==
    ASSUME RInv, UNCHANGED <<inputVars, callVars, resultVars, execVars>> PROVE RInv'
<1>1. UNCHANGED <<use, at, next, options, errs, result, process>>
  BY DEF inputVars, callVars, resultVars, execVars
<1>2. Gathered'
  BY <1>1 DEF RInv, Gathered, Idle
<1>3. ASSUME NEW r \in Run PROVE Own(r)'
  <2>1. Own(r)
    BY DEF RInv
  <2>2. Fresh(r)' /\ Contained(r)' /\ Awaited(r)' /\ Posted(r)' /\ Told(r)'
    BY <1>1, <2>1 
    DEF Own, Fresh, Contained, Awaited, Awaiting, Posted, Told, Active, Idle
  <2>3. Clean(r)' /\ Confirmed(r)'
    BY <1>1, <2>1 DEF Own, Clean, Welcome, Untried, PreHookPanicked, Confirmed, Idle
  <2>4. QED
    BY <2>2, <2>3 DEF Own
<1>4. QED
  BY <1>2, <1>3 DEF RInv

\* Every step of a call keeps what the calls own.
LEMMA CallOwned ==
    ASSUME SInv, RInv, NEW r \in Run, at[Root] # "returned", CallStep(r) PROVE RInv'
<1>1. TypeOK /\ Sound(r) /\ Own(r)
  BY DEF SInv, RInv
<1>2. CASE Expand(r)
  BY <1>2, ProceedStep DEF Expand, At
<1>3. CASE RunOnce(r)
  <2>1. Proceed(r, "each", "pre") /\ at[r] = "each"
    BY <1>3 DEF RunOnce, Proceed
  <2>2. Quiet(r)
    BY <2>1, QuietCall
  <2>3. QED
    BY <2>1, <2>2, ProceedStep DEF At, Middle, Inside
<1>4. CASE PreHooksDone(r)
  <2>1. /\ Proceed(r, "pre", "prepare") /\ at[r] = "pre"
        /\ next[r] \notin DOMAIN PreHooks[r]
    BY <1>4, Callees DEF PreHooksDone, Proceed, SInv, TypeOK
  <2>2. Quiet(r)
    BY <2>1, QuietCall
  <2>3. QED
    BY <2>1, <2>2, ProceedStep DEF At, Middle, Inside
<1>5. CASE PostHooksDone(r)
  <2>1. \/ Proceed(r, "post", "returned")
        \/ Proceed(r, "unwind", "panicked")
    BY <1>5 DEF PostHooksDone
  <2>2. next[r] > Len(PostHooks[r])
    BY <1>5 DEF PostHooksDone
  <2>3. CASE Proceed(r, "post", "returned")
    BY <2>2, <2>3, ProceedStep DEF At
  <2>4. CASE Proceed(r, "unwind", "panicked")
    BY <2>2, <2>4, ProceedStep DEF At
  <2>5. QED
    BY <2>1, <2>3, <2>4
<1>6. CASE PreHookPanics(r)
  <2>1. PreHookPanicked(r)
    BY <1>1, <1>6, Callees DEF PreHookPanics, PreHookPanicked, TypeOK
  <2>2. QED
    BY <1>6, <2>1, UnwindStep DEF PreHookPanics
<1>7. CASE EvaluationPanics(r) \/ InspectFails(r)
  <2>1. at[r] \in {"prepare", "image", "logs"} /\ Quiet(r)
    BY <1>7, QuietCall DEF EvaluationPanics, InspectFails
  <2>2. PICK failed \in BOOLEAN : Unwind(r, failed) /\ (~failed => ~errs[r] \/ at[r] = "logs")
    BY <1>1, <1>7 DEF EvaluationPanics, InspectFails, TypeOK
  <2>3. ~failed => Welcome(r)
    BY <1>1, <2>1, <2>2 DEF Sound, Underway, Known, Welcome
  <2>4. QED
    BY <2>1, <2>2, <2>3, UnwindStep
<1>8. CASE Crash(r)
  BY <1>8, StillOwned DEF Crash
<1>9. QED
  BY <1>2, <1>3, <1>4, <1>5, <1>6, <1>7, <1>8, PreHookOwned, PostHookOwned,
     PostHookPanicOwned, BodyOwned DEF CallStep

\* What the calls own stays theirs, until Root returns and nothing more happens.
THEOREM OwnershipInvariance == Spec => []RInv
<1>1. Init => RInv
  <2> SUFFICES ASSUME Init PROVE RInv
    OBVIOUS
  <2>1. \A r \in Run : at[r] \in {"idle", "expand"} /\ (at[r] = "idle" <=> r # Root)
    BY DEF Init
  <2>2. Gathered
    BY <2>1, Calls DEF Gathered, Idle
  <2>3. ASSUME NEW r \in Run PROVE Own(r)
    <3>1. \A h \in Hooks(r) : Idle(h)
      BY <2>1, Calls DEF Idle
    <3>2. ~errs[r] /\ process[r] = "none" /\ result[r] = "none" /\ options[r] = <<>>
      BY DEF Init
    <3>3. Fresh(r) /\ Contained(r) /\ Awaited(r) /\ Posted(r) /\ Told(r)
      BY <2>1, <3>1, <3>2
      DEF Fresh, Contained, Inside, Awaited, Active, Posted, Told, Idle, Deferred, Over
    <3>4. Clean(r) /\ Confirmed(r)
      BY <2>1, <3>2 DEF Clean, Confirmed, Deferred, Over
    <3>5. QED
      BY <3>3, <3>4 DEF Own
  <2>4. QED
    BY <2>2, <2>3 DEF RInv
<1>2. SInv /\ RInv /\ [Next]_vars => RInv'
  <2> SUFFICES ASSUME SInv, RInv, [Next]_vars PROVE RInv'
    OBVIOUS
  <2>1. CASE at[Root] # "returned" /\ StageStep
    BY <2>1, StageStepOwned
  <2>2. CASE at[Root] # "returned" /\ \E r \in Run : CallStep(r)
    BY <2>2, CallOwned
  <2>3. CASE Cancel
    BY <2>3, StillOwned DEF Cancel
  <2>4. CASE UNCHANGED vars
    BY <2>4, StillOwned DEF vars
  <2>5. QED
    BY <2>1, <2>2, <2>3, <2>4 DEF Next
<1>3. QED
  BY <1>1, <1>2, StageInvariance, PTL DEF Spec

\* When Run returns, nothing that it has called is still under way, whatever
\* the items did, and every post hook of a stage that was run has been run, or
\* panicked, or comes after one that did.
THEOREM RunReturnsLast == Spec => []ReturnsLast
<1>1. RInv => ReturnsLast
  <2> SUFFICES ASSUME RInv, NEW r \in Run
               PROVE  /\ at[r] = "returned" =>
                          /\ r = Root => \A i \in Elements : at[i] \in {"idle", "returned"}
                          /\ \A h \in Hooks(r) : at[h] \in {"idle", "returned"}
                      /\ at[r] \in {"returned", "panicked"} /\ (errs[r] \/ process[r] # "none") =>
                          \A k \in DOMAIN PostHooks[r] :
                             \/ at[PostHooks[r][k]] = "returned"
                             \/ at[r] = "panicked" /\
                                   \E j \in 1..k : at[PostHooks[r][j]] = "panicked"
    BY DEF ReturnsLast
  <2>1. at[r] = "returned" /\ r = Root => \A i \in Elements : at[i] \in {"idle", "returned"}
    BY DEF RInv, Gathered, Idle
  <2>2. at[r] = "returned" => \A h \in Hooks(r) : at[h] \in {"idle", "returned"}
    BY DEF RInv, Own, Awaited, Awaiting, Active, Deferred
  <2>3. QED
    BY <2>1, <2>2 DEF RInv, Own, Posted, Over
<1>2. QED
  BY <1>1, OwnershipInvariance, PTL

\* A call that came to its post hooks without an error had no pre hook that
\* failed, unless another one panicked and the call with it.
LEMMA CleanCall ==
    ASSUME SInv, RInv, NEW r \in Run, at[r] \in Deferred \cup Over, ~errs[r]
    PROVE  /\ CommandFailed(r) => HasContainer[r]
           /\ PreHookFailed(r) =>
                PreHookPanicked(r) /\ at[r] \in {"unwind", "panicked"}
<1>1. Welcome(r) => ~PreHookFailed(r)
  BY DEF Welcome, PreHookFailed
<1>2. Untried(r) => ~PreHookFailed(r)
  BY Calls DEF Untried, Idle, PreHookFailed, SInv, Sound
<1>3. QED
  BY <1>1, <1>2 DEF RInv, Own, Clean, CommandFailed

\* A post hook is told success only when pre hooks and command succeeded, or a
\* pre hook panicked, however many hooks there are and wherever else the stage
\* panics: the status is set once, from all the errors that reached diags.
THEOREM PostHooksSeeFailure == Spec => []HooksSeeFailure
<1>1. SInv /\ RInv => HooksSeeFailure
  <2> SUFFICES ASSUME SInv, RInv, NEW r \in Bodies, SeesSuccess(r)
               PROVE  /\ CommandFailed(r) => HasContainer[r]
                      /\ PreHookFailed(r) => PreHookPanicked(r)
    BY DEF HooksSeeFailure
  <2>1. r \in Run
    BY Calls DEF Bodies
  <2>2. PICK k \in DOMAIN PostHooks[r] :
          /\ at[PostHooks[r][k]] # "idle"
          /\ Config(PostHooks[r][k]) = [status |-> "success", parent |-> r]
    BY DEF SeesSuccess
  <2> DEFINE h == PostHooks[r][k]
  <2>3. h \in Hooks(r)
    BY <2>1, <2>2, Calls
  <2>4. PICK status \in Status :
          /\ options[h] = <<[status |-> status, parent |-> r]>>
          /\ status = "success" => at[r] \in Deferred \cup Over /\ ~errs[r]
    BY <2>1, <2>2, <2>3 DEF RInv, Own, Told, Idle
  <2>5. Config(h) = [status |-> status, parent |-> r]
    BY <2>4 DEF Config
  <2>6. status = "success"
    BY <2>2, <2>5
  <2>7. QED
    BY <2>1, <2>4, <2>6, CleanCall
<1>2. QED
  BY <1>1, StageInvariance, OwnershipInvariance, PTL

\* Run returns no error only when no pre hook, no command outside a container
\* and no macro of the stage or of any of its items failed.
THEOREM ErrorsAreReturned == Spec => []ErrorsReachResult
<1>1. SInv /\ RInv => ErrorsReachResult
  <2> SUFFICES ASSUME SInv, RInv, result[Root] = "ok", NEW r \in Bodies, at[r] # "idle"
               PROVE /\ result[r] = "ok"
                     /\ ~PreHookFailed(r)
                     /\ CommandFailed(r) => HasContainer[r]
                     /\ process[r] # "none" => use[r] \notin Rejecting
    BY DEF ErrorsReachResult
  <2>1. r \in Run /\ Root \in Run
    BY Calls DEF Bodies
  <2>2. at[Root] \in {"post", "returned"}
    BY <2>1 DEF SInv, Sound
  <2>3. result[r] = "ok"
    BY <2>2 DEF Bodies, RInv, Gathered, Idle
  <2>4. at[r] \in {"post", "returned"}
    BY <2>1, <2>3 DEF SInv, Sound
  <2>5. ~errs[r] /\ (process[r] # "none" => use[r] \notin Rejecting)
    BY <2>1, <2>3 DEF RInv, Own, Confirmed
  <2>6. QED
    BY <2>1, <2>3, <2>4, <2>5, CleanCall DEF Deferred, Over
<1>2. QED
  BY <1>1, StageInvariance, OwnershipInvariance, PTL
===============================================================================
