--------------------------- MODULE CommandsProofs ---------------------------
(***************************************************************************)
(* For every set of business IDs and of keys: if no business calls mset of *)
(* BfdJodis, the commands over the shared store implement one map for each *)
(* business.  The full keys of two businesses never coincide, although one *)
(* ID may be a prefix of another and keys may look like prefixed ones.     *)
(***************************************************************************)
EXTENDS Commands, TLAPS

----------------------------------------------------------------------------
(* Full keys.                                                              *)

LEMMA SeqMonotonic ==
    ASSUME NEW S, NEW T, S \subseteq T, NEW w \in Seq(S)
    PROVE  w \in Seq(T)
  OBVIOUS

\* What is at each place of a full key.
LEMMA FullKeyShape ==
    ASSUME NEW b \in Bids, NEW k \in Keys
    PROVE  /\ Len(b) \in Nat /\ Len(k) \in Nat
           /\ DOMAIN b = 1..Len(b) /\ DOMAIN k = 1..Len(k)
           /\ Len(AddBid(b, k)) = Len(b) + 1 + Len(k)
           /\ \A i \in 1..Len(b) : AddBid(b, k)[i] = b[i]
           /\ AddBid(b, k)[Len(b) + 1] = Sep
           /\ \A i \in 1..Len(k) : AddBid(b, k)[Len(b) + 1 + i] = k[i]
<1> DEFINE S == Range(b) \cup Range(k) \cup {Sep}
<1>1. b \in Seq(Range(b)) /\ k \in Seq(Range(k))
  BY CommandsAssumption
<1>2. b \in Seq(S) /\ k \in Seq(S) /\ <<Sep>> \in Seq(S)
  <2>1. b \in Seq(S)
    BY <1>1, SeqMonotonic
  <2>2. k \in Seq(S)
    BY <1>1, SeqMonotonic
  <2> QED  BY <2>1, <2>2
<1> HIDE DEF S
<1> QED  BY <1>2 DEF AddBid

\* The first separator of a full key ends the business ID.
LEMMA FullKeysDiffer ==
    ASSUME NEW b \in Bids, NEW c \in Bids, NEW k \in Keys, NEW l \in Keys,
           AddBid(b, k) = AddBid(c, l)
    PROVE  b = c /\ k = l
<1>1. \A d \in Bids : \A i \in DOMAIN d : d[i] # Sep
  BY CommandsAssumption DEF Range
<1>2. Len(b) = Len(c)
  <2>1. ~(Len(b) < Len(c))
    <3>1. SUFFICES ASSUME Len(b) < Len(c) PROVE FALSE
      OBVIOUS
    <3>2. Len(b) + 1 \in 1..Len(c)
      BY <3>1, FullKeyShape
    <3>3. c[Len(b) + 1] = Sep
      BY <3>2, FullKeyShape
    <3> QED  BY <1>1, <3>2, <3>3, FullKeyShape
  <2>2. ~(Len(c) < Len(b))
    <3>1. SUFFICES ASSUME Len(c) < Len(b) PROVE FALSE
      OBVIOUS
    <3>2. Len(c) + 1 \in 1..Len(b)
      BY <3>1, FullKeyShape
    <3>3. b[Len(c) + 1] = Sep
      BY <3>2, FullKeyShape
    <3> QED  BY <1>1, <3>2, <3>3, FullKeyShape
  <2> QED  BY <2>1, <2>2, FullKeyShape
<1>3. Len(k) = Len(l)
  BY <1>2, FullKeyShape
<1>4. b = c
  <2>1. ASSUME NEW i \in 1..Len(b) PROVE b[i] = c[i]
    <3>1. AddBid(b, k)[i] = b[i]
      BY FullKeyShape
    <3>2. AddBid(c, l)[i] = c[i]
      BY <1>2, FullKeyShape
    <3> QED  BY <3>1, <3>2
  <2>2. b \in Seq(Range(b)) /\ c \in Seq(Range(c))
    BY CommandsAssumption
  <2> QED  BY <1>2, <2>1, <2>2
<1>5. k = l
  <2>1. ASSUME NEW i \in 1..Len(k) PROVE k[i] = l[i]
    <3>1. k[i] = AddBid(b, k)[Len(b) + 1 + i]
      BY FullKeyShape
    <3>2. l[i] = AddBid(c, l)[Len(c) + 1 + i]
      BY <1>3, FullKeyShape
    <3> QED  BY <1>2, <3>1, <3>2
  <2>2. k \in Seq(Range(k)) /\ l \in Seq(Range(l))
    BY CommandsAssumption
  <2> QED  BY <1>3, <2>1, <2>2
<1> QED  BY <1>4, <1>5

LEMMA FullKeyKnown ==
    ASSUME NEW b \in Bids, NEW k \in Keys
    PROVE  AddBid(b, k) \in FullKeys
  BY DEF FullKeys

----------------------------------------------------------------------------
(* The arguments that are sent, and what the store makes of them.          *)

LEMMA SentSet ==
    ASSUME NEW b, NEW k, NEW v
    PROVE  Inner(b, "SET", <<k, v>>) = <<AddBid(b, k), v>>
  BY DEF Inner, IsKey

LEMMA SentGet ==
    ASSUME NEW b, NEW k
    PROVE  Inner(b, "GET", <<k>>) = <<AddBid(b, k)>>
  BY DEF Inner, IsKey

LEMMA SentMset ==
    ASSUME NEW b, NEW k, NEW v, NEW l, NEW w
    PROVE  Inner(b, "MSET", <<k, v, l, w>>)
             = <<AddBid(b, k), v, AddBid(b, l), w>>
  BY DEF Inner, IsKey

LEMMA SentKeys ==
    ASSUME NEW b, NEW k, NEW l, NEW name \in {"MGET", "DEL"}
    PROVE  Inner(b, name, <<k, l>>) = <<AddBid(b, k), AddBid(b, l)>>
  BY DEF Inner, IsKey

\* The last place at which a key stands decides its value.
LEMMA StoredAt ==
    ASSUME NEW args, DOMAIN args \subseteq Nat,
           NEW w \in FullKeys, NEW m \in DOMAIN args,
           m % 2 = 1, args[m] = w,
           \A j \in DOMAIN args : j % 2 = 1 /\ args[j] = w => j <= m
    PROVE  Stored(args)[w] = args[1 + m]
<1> DEFINE at == {i \in DOMAIN args : i % 2 = 1 /\ args[i] = w}
           last == CHOOSE i \in at : \A j \in at : j <= i
<1>1. m \in at /\ \A j \in at : j <= m
  OBVIOUS
<1>2. last \in at /\ \A j \in at : j <= last
  BY <1>1
<1>3. last = m
  <2>1. last <= m /\ m <= last
    BY <1>1, <1>2
  <2>2. last \in Nat /\ m \in Nat
    BY <1>2
  <2> HIDE DEF last
  <2> QED  BY <2>1, <2>2
<1>4. at # {}
  BY <1>1
<1> QED  BY <1>3, <1>4 DEF Stored

LEMMA StoredElsewhere ==
    ASSUME NEW args, NEW w \in FullKeys,
           \A j \in DOMAIN args : j % 2 = 1 => args[j] # w
    PROVE  Stored(args)[w] = store[w]
<1>1. {i \in DOMAIN args : i % 2 = 1 /\ args[i] = w} = {}
  OBVIOUS
<1> QED  BY <1>1 DEF Stored

----------------------------------------------------------------------------
(* Every command is a step of the abstract maps.                           *)

\* A step that changes some keys of one business is a Write.
LEMMA IsWrite ==
    ASSUME NEW b \in Bids, NEW K \in SUBSET Keys,
           NEW new \in [K -> Values \cup {None}],
           reply' = reply,
           \A c \in Bids, k \in Keys :
              store'[AddBid(c, k)] = IF c = b /\ k \in K
                                       THEN new[k] ELSE store[AddBid(c, k)]
    PROVE  Abstract!Next
<1>1. view' = [view EXCEPT ![b] =
                 [k \in Keys |-> IF k \in DOMAIN new THEN new[k] ELSE @[k]]]
  <2> DEFINE row == [k \in Keys |-> IF k \in K THEN new[k]
                                                ELSE store[AddBid(b, k)]]
  <2>1. view' = [c \in Bids |-> [k \in Keys |-> store'[AddBid(c, k)]]]
    BY DEF view
  <2>2. [k \in Keys |-> store'[AddBid(b, k)]] = row
    OBVIOUS
  <2>3. \A c \in Bids : c # b => [k \in Keys |-> store'[AddBid(c, k)]] = view[c]
    BY DEF view
  <2>4. [k \in Keys |-> IF k \in DOMAIN new THEN new[k] ELSE view[b][k]] = row
    BY DEF view
  <2>5. view' = [view EXCEPT ![b] = row]
    <3> HIDE DEF row
    <3> QED  BY <2>1, <2>2, <2>3 DEF view
  <2> QED  BY <2>4, <2>5
<1>2. Abstract!Write(b, new)
  BY <1>1 DEF Abstract!Write
<1> QED  BY <1>2 DEF Abstract!Next

\* A step that fetches one key or two of a business is a Read.
LEMMA IsRead ==
    ASSUME NEW b \in Bids, NEW ks \in Abstract!Pairs,
           store' = store,
           reply' = [i \in DOMAIN ks |-> store[AddBid(b, ks[i])]]
    PROVE  Abstract!Next
<1>1. \A i \in DOMAIN ks : ks[i] \in Keys
  BY DEF Abstract!Pairs
<1>2. view' = view
  BY DEF view
<1>3. Abstract!Read(b, ks)
  BY <1>1, <1>2 DEF Abstract!Read, view
<1> QED  BY <1>3 DEF Abstract!Next

LEMMA SetWrites ==
    ASSUME NEW b \in Bids, NEW k \in Keys, NEW v \in Values, Set(b, k, v)
    PROVE  Abstract!Next
<1> DEFINE args == <<AddBid(b, k), v>>
           new == [n \in {k} |-> v]
<1>1. store' = Stored(args) /\ reply' = reply
  BY SentSet DEF Set
<1>2. ASSUME NEW c \in Bids, NEW n \in Keys
      PROVE  store'[AddBid(c, n)] = IF c = b /\ n \in {k}
                                      THEN new[n] ELSE store[AddBid(c, n)]
  <2>1. CASE c = b /\ n = k
    <3>1. Stored(args)[AddBid(c, n)] = args[1 + 1]
      BY <2>1, FullKeyKnown, StoredAt
    <3> QED  BY <1>1, <2>1, <3>1
  <2>2. CASE ~(c = b /\ n = k)
    <3>1. AddBid(c, n) # AddBid(b, k)
      BY <2>2, FullKeysDiffer
    <3>2. Stored(args)[AddBid(c, n)] = store[AddBid(c, n)]
      BY <3>1, FullKeyKnown, StoredElsewhere
    <3> QED  BY <1>1, <2>2, <3>2
  <2> QED  BY <2>1, <2>2
<1>3. {k} \in SUBSET Keys /\ new \in [{k} -> Values \cup {None}]
  OBVIOUS
<1> HIDE DEF new
<1> QED  BY <1>1, <1>2, <1>3, IsWrite

LEMMA MsetWrites ==
    ASSUME NEW b \in Bids, b \notin JavaMset, NEW k \in Keys, NEW l \in Keys,
           NEW v \in Values, NEW w \in Values, Mset(b, k, v, l, w)
    PROVE  Abstract!Next
<1> DEFINE args == <<AddBid(b, k), v, AddBid(b, l), w>>
           new == [n \in {k, l} |-> IF n = l THEN w ELSE v]
<1>1. store' = Stored(args) /\ reply' = reply
  BY SentMset DEF Mset, MsetArgs
<1>2. ASSUME NEW c \in Bids, NEW n \in Keys
      PROVE  store'[AddBid(c, n)] = IF c = b /\ n \in {k, l}
                                      THEN new[n] ELSE store[AddBid(c, n)]
  <2>1. CASE c = b /\ n = l
    <3>1. Stored(args)[AddBid(c, n)] = args[1 + 3]
      BY <2>1, FullKeyKnown, StoredAt
    <3> QED  BY <1>1, <2>1, <3>1
  <2>2. CASE c = b /\ n = k /\ n # l
    <3>1. AddBid(c, n) # AddBid(b, l)
      BY <2>2, FullKeysDiffer
    <3>2. \A j \in DOMAIN args : j % 2 = 1 /\ args[j] = AddBid(c, n) => j <= 1
      BY <3>1
    <3>3. /\ DOMAIN args \subseteq Nat /\ 1 \in DOMAIN args /\ 1 % 2 = 1
          /\ args[1] = AddBid(c, n) /\ AddBid(c, n) \in FullKeys
      BY <2>2, FullKeyKnown
    <3>4. Stored(args)[AddBid(c, n)] = args[1 + 1]
      <4> HIDE DEF args
      <4> QED  BY <3>2, <3>3, StoredAt
    <3> QED  BY <1>1, <2>2, <3>4
  <2>3. CASE ~(c = b /\ n \in {k, l})
    <3>1. AddBid(c, n) # AddBid(b, k) /\ AddBid(c, n) # AddBid(b, l)
      BY <2>3, FullKeysDiffer
    <3>2. Stored(args)[AddBid(c, n)] = store[AddBid(c, n)]
      BY <3>1, FullKeyKnown, StoredElsewhere
    <3> QED  BY <1>1, <2>3, <3>2
  <2> QED  BY <2>1, <2>2, <2>3
<1>3. {k, l} \in SUBSET Keys /\ new \in [{k, l} -> Values \cup {None}]
  OBVIOUS
<1> HIDE DEF new
<1> QED  BY <1>1, <1>2, <1>3, IsWrite

LEMMA DelWrites ==
    ASSUME NEW b \in Bids, NEW k \in Keys, NEW l \in Keys, Del(b, k, l)
    PROVE  Abstract!Next
<1> DEFINE args == <<AddBid(b, k), AddBid(b, l)>>
           new == [n \in {k, l} |-> None]
<1>1. store' = Deleted(args) /\ reply' = reply
  BY SentKeys DEF Del
<1>2. Range(args) = {AddBid(b, k), AddBid(b, l)}
  BY DEF Range
<1>3. ASSUME NEW c \in Bids, NEW n \in Keys
      PROVE  store'[AddBid(c, n)] = IF c = b /\ n \in {k, l}
                                      THEN new[n] ELSE store[AddBid(c, n)]
  <2>1. AddBid(c, n) \in {AddBid(b, k), AddBid(b, l)}
          <=> c = b /\ n \in {k, l}
    BY FullKeysDiffer
  <2> HIDE DEF args
  <2> QED  BY <1>1, <1>2, <2>1, FullKeyKnown DEF Deleted
<1> QED  BY <1>1, <1>3, IsWrite

LEMMA GetReads ==
    ASSUME NEW b \in Bids, NEW k \in Keys, Get(b, k)
    PROVE  Abstract!Next
<1>1. reply' = Fetched(<<AddBid(b, k)>>) /\ store' = store
  BY SentGet DEF Get
<1>2. Fetched(<<AddBid(b, k)>>) = [i \in DOMAIN <<k>> |-> store[AddBid(b, <<k>>[i])]]
  BY DEF Fetched
<1> QED  BY <1>1, <1>2, IsRead DEF Abstract!Pairs

LEMMA MgetReads ==
    ASSUME NEW b \in Bids, NEW k \in Keys, NEW l \in Keys, Mget(b, k, l)
    PROVE  Abstract!Next
<1>1. reply' = Fetched(<<AddBid(b, k), AddBid(b, l)>>) /\ store' = store
  BY SentKeys DEF Mget
<1>2. Fetched(<<AddBid(b, k), AddBid(b, l)>>)
        = [i \in DOMAIN <<k, l>> |-> store[AddBid(b, <<k, l>>[i])]]
  BY DEF Fetched
<1> QED  BY <1>1, <1>2, IsRead DEF Abstract!Pairs

----------------------------------------------------------------------------
\* Where no business calls mset of BfdJodis, the prefix that RedisCommand,
\* AddBid and __convertKey put before every key gives each business a map
\* of its own.
THEOREM MapsAreSeparate == JavaMset = {} => (Spec => SeparateMaps)
<1> SUFFICES ASSUME JavaMset = {} PROVE Spec => SeparateMaps
  OBVIOUS
<1>1. Init => Abstract!Init
  BY FullKeyKnown DEF Init, Abstract!Init, view
<1>2. [Next]_vars => [Abstract!Next]_<<view, reply>>
  <2>1. CASE UNCHANGED vars
    BY <2>1 DEF vars, view
  <2>2. ASSUME Next PROVE Abstract!Next
    <3>1. PICK b \in Bids, k \in Keys, l \in Keys :
            \/ \E v \in Values : Set(b, k, v)
            \/ Get(b, k)
            \/ \E v, w \in Values : Mset(b, k, v, l, w)
            \/ Mget(b, k, l)
            \/ Del(b, k, l)
      BY <2>2 DEF Next
    <3> QED  BY <3>1, SetWrites, GetReads, MsetWrites, MgetReads, DelWrites
  <2> QED  BY <2>1, <2>2
<1> QED  BY <1>1, <1>2, PTL DEF Spec, SeparateMaps, Abstract!Spec
=============================================================================
