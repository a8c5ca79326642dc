---------------------------- MODULE StoreService ----------------------------
(***************************************************************************)
(* What a shim asks of the store in sandbox mode, whichever way the call   *)
(* travels: one request at a time, performed at most once, answered with   *)
(* the path of the object that was asked for, or with an error.  An error  *)
(* does not say whether the request was performed.                         *)
(***************************************************************************)
CONSTANTS
    Requests,       \* what can be asked
    PathOf(_),      \* the store path a request is answered with
    NoPath          \* no answer

VARIABLES
    performed,      \* the requests the store has carried out
    call            \* the call in progress, or the last one

Idle == [state |-> "idle"]
Calls == [state : {"asked", "failed"}, req : Requests]
             \cup [state : {"answered"}, req : Requests, path : {PathOf(r) : r \in Requests}]
             \cup {Idle}

Init ==
    /\ performed = {}
    /\ call = Idle

InProgress == call.state = "asked"

Ask(r) ==
    /\ ~InProgress
    /\ call' = [state |-> "asked", req |-> r]
    /\ UNCHANGED performed

Perform ==
    /\ InProgress
    /\ performed' = performed \cup {call.req}
    /\ UNCHANGED call

Answer ==
    /\ InProgress
    /\ call.req \in performed
    /\ call' = [state |-> "answered", req |-> call.req, path |-> PathOf(call.req)]
    /\ UNCHANGED performed

Refuse ==
    /\ InProgress
    /\ call' = [state |-> "failed", req |-> call.req]
    /\ UNCHANGED performed

Next == (\E r \in Requests : Ask(r)) \/ Perform \/ Answer \/ Refuse

Spec == Init /\ [][Next]_<<performed, call>>
=============================================================================
