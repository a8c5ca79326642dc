---------------------------- MODULE ContentStore ----------------------------
(***************************************************************************)
(* What .nixgg/thunks promises to everyone who holds a thunk id: the id    *)
(* either names nothing yet or names the whole expression it is the hash   *)
(* of, and once it names the expression it does so for ever.  Publishing   *)
(* is one indivisible step.                                                *)
(***************************************************************************)
CONSTANT Ids            \* thunk ids; an id stands for the body it is the hash of

VARIABLE visible        \* the ids whose expression a reader can open

Init == visible = {}

Publish(id) ==
    /\ id \notin visible
    /\ visible' = visible \cup {id}

Next == \E id \in Ids : Publish(id)

Spec == Init /\ [][Next]_visible
=============================================================================
