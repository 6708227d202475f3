------------------------------ MODULE Definitions ------------------------------
(***************************************************************************)
(* What the blocks of a run may rely on when they share the variables of   *)
(* an evaluation context: a value block defines its one name at once, the  *)
(* outputs of stages appear at once, nothing that is defined goes away,    *)
(* and an evaluation sees what is defined at one moment.                   *)
(***************************************************************************)
CONSTANTS
    Context, \* the evaluation contexts: of the root pipeline and of modules
    Value,   \* the blocks that define a value: locals, data, variables
    Output,  \* the stages, whose outputs become values
    Reader,  \* the blocks that evaluate expressions
    In       \* the context of a block

VARIABLES
    defined, \* the names an evaluation in a context finds
    view     \* the names the latest evaluation of a block found

Init ==
    /\ defined = [c \in Context |-> {}]
    /\ view = [b \in Reader |-> {}]

Define(b) ==
    /\ defined' = [defined EXCEPT ![In[b]] = @ \cup {b}]
    /\ UNCHANGED view

Publish(c, names) ==
    /\ defined' = [defined EXCEPT ![c] = @ \cup names]
    /\ UNCHANGED view

Evaluate(b) ==
    /\ view' = [view EXCEPT ![b] = defined[In[b]]]
    /\ UNCHANGED defined

Next ==
    \/ \E b \in Value : Define(b)
    \/ \E c \in Context : \E names \in SUBSET Output : Publish(c, names)
    \/ \E b \in Reader : Evaluate(b)

Spec == Init /\ [][Next]_<<defined, view>>
===============================================================================
