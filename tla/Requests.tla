------------------------------ MODULE Requests ------------------------------
(***************************************************************************)
(* What mget2 promises (CodisClient.h: "fully asynchronous"): a request is *)
(* refused or its callback gets the values of its own keys, once.          *)
(***************************************************************************)
EXTENDS Sequences

CONSTANT Request

VARIABLES
    state,  \* of each request: "new", "asked", "refused" or "done"
    values  \* what its callbacks got: the requests whose values these are

Init ==
    /\ state = [r \in Request |-> "new"]
    /\ values = [r \in Request |-> << >>]

Move(r, from, to) ==
    /\ state[r] = from
    /\ state' = [state EXCEPT ![r] = to]

Ask(r) == Move(r, "new", "asked") /\ UNCHANGED values

Refuse(r) == Move(r, "asked", "refused") /\ UNCHANGED values

Answer(r) ==
    /\ Move(r, "asked", "done")
    /\ values' = [values EXCEPT ![r] = Append(@, r)]

Next == \E r \in Request : Ask(r) \/ Refuse(r) \/ Answer(r)

Spec == Init /\ [][Next]_<<state, values>>
=============================================================================
