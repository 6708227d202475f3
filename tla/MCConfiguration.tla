---------------------------- MODULE MCConfiguration ----------------------------
(* Instances of Configuration for TLC. *)
EXTENDS Configuration

\* Two files at the root and a directory each for two imports, which may both
\* import a third one; a fourth is empty.
TreeFiles ==
    [d \in {"root", "left", "right", "base", "empty"} |->
        CASE d = "root" -> <<"root.a", "root.togomak">>
          [] d = "left" -> <<"left.a">>
          [] d = "right" -> <<"right.a">>
          [] d = "base" -> <<"base.a">>
          [] d = "empty" -> <<>>]
TreeSources ==
    {[f \in {"root.a", "root.togomak", "left.a", "right.a", "base.a"} |->
        CASE f = "root.a" -> a
          [] f = "root.togomak" -> main
          [] f = "left.a" -> left
          [] f = "right.a" -> right
          [] f = "base.a" -> <<>>] :
        a \in {<<>>, <<"left">>, <<"left", "left">>},
        main \in {<<>>, <<"right">>},
        left \in {<<>>, <<"base">>},
        right \in {<<>>, <<"base", "empty">>}}

Content(version, defs) ==
    [broken |-> FALSE, version |-> version, defs |-> defs, pre |-> FALSE, post |-> FALSE]
Build == [kind |-> "stage", id |-> "build"]
BuildModule == [kind |-> "module", id |-> "build"]
Locals == [kind |-> "locals", id |-> "names"]
TreeContents ==
    {[Content(2, <<>>) EXCEPT !.broken = TRUE],
     Content(1, <<Locals>>),
     Content(2, <<Locals>>),
     Content(2, <<Build, Build>>),
     Content(2, <<BuildModule>>),
     [Content(2, <<>>) EXCEPT !.pre = TRUE, !.post = TRUE]}
===============================================================================
