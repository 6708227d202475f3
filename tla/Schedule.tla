------------------------------- MODULE Schedule -------------------------------
(***************************************************************************)
(* What Pipeline.Run promises about a set of blocks, whatever loops,       *)
(* goroutines and channels it uses: a block starts at most once, only when *)
(* the blocks before it have succeeded or were skipped, and the run ends   *)
(* with success only when every block succeeded or was skipped. A service  *)
(* (a daemon) need not end before the blocks that come after it start.     *)
(***************************************************************************)
CONSTANTS
    Block,      \* the blocks of the pipeline
    Service,    \* those that go on running beside later blocks
    Before      \* the blocks that come before a block

VARIABLES
    state,      \* of each block
    outcome     \* of the run

vars == <<state, outcome>>

Init ==
    /\ state = [b \in Block |-> "waiting"]
    /\ outcome = "running"

\* The blocks before b allow it to start, or to be passed over.
Ready(b) ==
    \A c \in Before[b] :
        IF c \in Service THEN state[c] # "waiting"
                         ELSE state[c] \in {"good", "skipped"}

Move(b, from, to) ==
    /\ outcome = "running"
    /\ state[b] = from
    /\ state' = [state EXCEPT ![b] = to]
    /\ UNCHANGED outcome

Start(b) == Ready(b) /\ Move(b, "waiting", "busy")
Omit(b) == Ready(b) /\ Move(b, "waiting", "skipped")
Settle(b) == \E end \in {"good", "bad"} : Move(b, "busy", end)

End(verdict) ==
    /\ outcome = "running"
    /\ outcome' = verdict
    /\ UNCHANGED state

Succeed ==
    /\ \A b \in Block : state[b] \in {"good", "skipped"}
    /\ End("success")

Fail ==
    /\ \A b \in Block : state[b] # "busy"
    /\ End("failure")

\* The process may be killed, or die, at any time.
Abort == End("aborted")

Next ==
    \/ \E b \in Block : Start(b) \/ Omit(b) \/ Settle(b)
    \/ Succeed
    \/ Fail
    \/ Abort

Spec == Init /\ [][Next]_vars
===============================================================================
