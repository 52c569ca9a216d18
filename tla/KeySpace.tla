------------------------------ MODULE KeySpace ------------------------------
(***************************************************************************)
(* What the business ID is for (README.md of the repository: it is put     *)
(* before every key "to tell different businesses apart"): every business  *)
(* has a map of its own, as if there were one Redis for each.              *)
(***************************************************************************)
EXTENDS Naturals, Sequences

CONSTANTS Bids, Keys, Values, None

VARIABLES
    view,  \* the map of each business
    reply  \* the values the last read returned, in the order of its keys

\* Several keys at once, as mset and del do; None deletes.
Write(b, new) ==
    /\ view' = [view EXCEPT ![b] =
                  [k \in Keys |-> IF k \in DOMAIN new THEN new[k] ELSE @[k]]]
    /\ UNCHANGED reply

Read(b, ks) ==
    /\ reply' = [i \in DOMAIN ks |-> view[b][ks[i]]]
    /\ UNCHANGED view

Init ==
    /\ view = [b \in Bids |-> [k \in Keys |-> None]]
    /\ reply = << >>

\* Requests have one key or two.
Pairs == {<<k>> : k \in Keys} \cup {<<k, l>> : k, l \in Keys}

Next ==
    \E b \in Bids :
        \/ \E K \in SUBSET Keys : \E new \in [K -> Values \cup {None}] :
              Write(b, new)
        \/ \E ks \in Pairs : Read(b, ks)

Spec == Init /\ [][Next]_<<view, reply>>
=============================================================================
