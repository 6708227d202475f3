------------------------------ MODULE MCStageRun ------------------------------
(***************************************************************************)
(* The small stages on which TLC checks StageRun: for_each over two items, *)
(* with pre hooks, some in a container, and post hooks.                    *)
(***************************************************************************)
EXTENDS StageRun

\* Hooks of the stage s by name.
Hook(s, name) == s \o name
StageIds == {"build", "build[0]", "build[1]"}
HookIds == {Hook(s, ".post") : s \in StageIds}
    \cup {Hook("build", ".pre"), Hook("build[0]", ".check"), Hook("build[0]", ".pre")}

HookedRun == StageIds \cup HookIds
HookedItems == <<"build[0]", "build[1]">>
\* One pre hook, one in a container after another, or none.
HookedPre ==
    [r \in HookedRun |->
        CASE r = "build" -> <<Hook(r, ".pre")>>
          [] r = "build[0]" -> <<Hook(r, ".check"), Hook(r, ".pre")>>
          [] OTHER -> <<>>]
HookedPost ==
    [r \in HookedRun |-> IF r \in StageIds THEN <<Hook(r, ".post")>> ELSE <<>>]

\* The use block of the stage, which its items share, and of its post hooks.
Using(own, post) ==
    [r \in HookedRun |->
        IF r \in StageIds THEN own
        ELSE IF \E s \in StageIds : r = Hook(s, ".post") THEN post ELSE "none"]
HookedUses ==
    {Using("none", "none"), Using("invalid", "files"), Using("self", "none")}
HookedScript == [r \in HookedRun |-> TRUE]
HookedContainer ==
    [r \in HookedRun |-> \E s \in StageIds : r = Hook(s, ".pre")]
\* What a post hook returns reaches nobody.
HookedOutcomes ==
    [r \in HookedRun |->
        IF \E s \in StageIds : r = Hook(s, ".post") THEN {"ok"} ELSE Result]
===============================================================================
