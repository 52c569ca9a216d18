------------------------------ MODULE Commands ------------------------------
(***************************************************************************)
(* The keys of the commands that the clients send: C++                     *)
(* (CodisClient::RedisCommand and its wrappers), Java (BfdJodis) and       *)
(* Python (BfdCodis.py), for several businesses that share one Codis.      *)
(*                                                                         *)
(* A word is a sequence of characters.  Modelled are the commands that the *)
(* rule for keys tells apart: MSET, MGET and DEL, and one that has its     *)
(* only key in the first place, for which SET and GET stand.  Names are in *)
(* capitals; RedisCommand also knows their form in small letters.          *)
(* External: the store behind the proxies.                                 *)
(***************************************************************************)
EXTENDS Naturals, Sequences, Functions

CONSTANTS
    Bids,      \* business IDs
    JavaMset,  \* those that call mset of BfdJodis
    Keys, Values, None,
    Sep        \* the character '_'

\* Business IDs have no '_' in them, and an empty m_BID, with which the C++
\* client sends keys as they are, is left out.
ASSUME CommandsAssumption ==
    /\ JavaMset \subseteq Bids
    /\ \A w \in Bids \cup Keys : w \in Seq(Range(w))
    /\ \A b \in Bids : b # << >> /\ Sep \notin Range(b)

VARIABLES
    store,  \* the values, by full key
    reply   \* the values that the last read returned

vars == <<store, reply>>
----------------------------------------------------------------------------
\* AddBid, __convertKey, and m_BID + "_" + command[i]
AddBid(b, k) == b \o <<Sep>> \o k

FullKeys == {AddBid(b, k) : b \in Bids, k \in Keys} \cup Keys

\* Mutant: the values of MSET are taken for keys, and the keys for values.
IsKeyShifted(name, i) ==
    CASE name \in {"MGET", "DEL"} -> TRUE
      [] name = "MSET" -> i % 2 = 0
      [] OTHER -> i = 1

\* The rule of RedisCommand for the i-th argument of a command.
IsKey(name, i) ==
    CASE name \in {"MGET", "DEL"} -> TRUE
      [] name = "MSET" -> i % 2 = 1
      [] OTHER -> i = 1

\* The arguments that are sent.
Inner(b, name, args) ==
    [i \in DOMAIN args |-> IF IsKey(name, i) THEN AddBid(b, args[i])
                                             ELSE args[i]]

\* AddBidsDiv of BfdJodis: `ret[i]=keys[i]` stands after the if, not in its
\* else branch, so it undoes the prefix of the keys.
AddBidsDiv(b, args) == args

MsetArgs(b, args) ==
    IF b \in JavaMset THEN AddBidsDiv(b, args) ELSE Inner(b, "MSET", args)
----------------------------------------------------------------------------
(* The store (external).                                                   *)

\* SET and MSET: of a key that comes twice, the last value stays.
Stored(args) ==
    [w \in FullKeys |->
       LET at == {i \in DOMAIN args : i % 2 = 1 /\ args[i] = w}
       IN  IF at = {} THEN store[w]
           ELSE args[1 + CHOOSE i \in at : \A j \in at : j <= i]]

Deleted(args) ==
    [w \in FullKeys |-> IF w \in Range(args) THEN None ELSE store[w]]

Fetched(args) == [i \in DOMAIN args |-> store[args[i]]]
----------------------------------------------------------------------------
Set(b, k, v) ==
    /\ store' = Stored(Inner(b, "SET", <<k, v>>))
    /\ UNCHANGED reply

Get(b, k) ==
    /\ reply' = Fetched(Inner(b, "GET", <<k>>))
    /\ UNCHANGED store

Mset(b, k, v, l, w) ==
    /\ store' = Stored(MsetArgs(b, <<k, v, l, w>>))
    /\ UNCHANGED reply

Mget(b, k, l) ==
    /\ reply' = Fetched(Inner(b, "MGET", <<k, l>>))
    /\ UNCHANGED store

Del(b, k, l) ==
    /\ store' = Deleted(Inner(b, "DEL", <<k, l>>))
    /\ UNCHANGED reply

Init ==
    /\ store = [w \in FullKeys |-> None]
    /\ reply = << >>

Next ==
    \E b \in Bids, k, l \in Keys :
        \/ \E v \in Values : Set(b, k, v)
        \/ Get(b, k)
        \/ \E v, w \in Values : Mset(b, k, v, l, w)
        \/ Mget(b, k, l)
        \/ Del(b, k, l)

Spec == Init /\ [][Next]_vars
----------------------------------------------------------------------------
view == [b \in Bids |-> [k \in Keys |-> store[AddBid(b, k)]]]

\* The clients implement one map for each business: a command reads and
\* writes its own business's keys, all of them, and no other's.
Abstract == INSTANCE KeySpace WITH view <- view, reply <- reply
SeparateMaps == Abstract!Spec

\* TestBfdJodis.java:52-55: what mset has written, get reads.
MsetIsRead ==
    [][\A b \in Bids, k, l \in Keys, v, w \in Values :
         k # l /\ Mset(b, k, v, l, w) => view'[b][k] = v /\ view'[b][l] = w]_vars
=============================================================================
