--------------------- MODULE RoundRobinJedisPoolProofs ---------------------
(***************************************************************************)
(* Theorems about RoundRobinJedisPool, for any number of threads and       *)
(* proxies: getResource, whatever lists resetPools publishes in between,   *)
(* the account that resetPools keeps of the JedisPools it opens, and the   *)
(* list it leaves when it has seen the last change.                        *)
(***************************************************************************)
EXTENDS RoundRobinJedisPool, FiniteSetTheorems, SequenceTheorems,
        WellFoundedInduction, TLAPS

----------------------------------------------------------------------------
(* Lists are sequences, whatever is in them.                               *)

IsList(s) == s \in Seq(Range(s))

ListInv ==
    /\ IsList(pools)
    /\ \A r \in Resetters : IsList(built[r])
    /\ \A t \in Threads : IsList(snap[t])
    /\ pc \in [Threads -> {"idle", "get", "pick", "borrow", "got", "failed"}]
    /\ DOMAIN snap = Threads /\ DOMAIN idx = Threads
    /\ DOMAIN built = Resetters /\ DOMAIN phase = Resetters

\* The index is never below -1, and a thread that has not found its list
\* empty never does afterwards.
IndexInv ==
    /\ nextIdx \in Int /\ nextIdx >= -1
    /\ \A t \in Threads : pc[t] \in {"pick", "borrow"} => snap[t] # << >>

LEMMA EmptyIsList == IsList(<< >>)
  BY DEF IsList

\* A list built by numbering is a sequence.
LEMMA NumberedIsList ==
    ASSUME NEW n \in Nat, NEW f, f = [i \in 1..n |-> f[i]]
    PROVE  IsList(f)
<1>1. \A i \in 1..n : f[i] \in Range(f)
  BY DEF Range
<1> QED  BY <1>1 DEF IsList

LEMMA OnlineIsFinite == Cardinality(Online) \in Nat
<1>1. Online \subseteq Nodes
  BY DEF Online
<1> QED  BY <1>1, FS_Subset, FS_CardinalityType, JedisPoolAssumption

----------------------------------------------------------------------------
PickInv == ListInv /\ IndexInv /\ PickInRange

LEMMA PickInit == Init => PickInv
  BY EmptyIsList DEF Init, PickInv, ListInv, IndexInv, PickInRange

\* Steps that leave threads, lists and index alone.
LEMMA PickFrame ==
    ASSUME PickInv, UNCHANGED <<pools, nextIdx, built, userVars>>,
           DOMAIN phase' = Resetters
    PROVE  PickInv'
  BY DEF PickInv, ListInv, IndexInv, PickInRange, userVars, IsList

LEMMA PickReset ==
    ASSUME PickInv, NEW r \in Resetters, ResetPools(r)
    PROVE  PickInv'
<1> USE DEF GoTo
<1>1. CASE ReadPools(r)
  BY <1>1, PickFrame DEF ReadPools, PickInv, ListInv
<1>2. CASE BuildList(r)
  <2>1. /\ UNCHANGED <<pools, nextIdx, userVars>>
        /\ DOMAIN phase' = Resetters
    BY <1>2 DEF BuildList, PickInv, ListInv
  <2>2. PICK e : built' = [built EXCEPT ![r] = [i \in 1..Cardinality(Online) |-> e[i]]]
    <3> DEFINE map == Addr2Pool(was[r])
               fresh == {n \in Online : ~Reuses(n, map)}
               poolOf == [n \in Online |-> IF n \in fresh THEN created + Rank(n, fresh)
                                                          ELSE map[cache[n]]]
               w == [i \in 1..Cardinality(Online) |->
                       poolOf[CHOOSE n \in Online : Rank(n, Online) = i]]
    <3>1. built' = [built EXCEPT ![r] = w]
      BY <1>2 DEF BuildList
    <3>2. w = [i \in 1..Cardinality(Online) |-> w[i]]
      OBVIOUS
    <3> HIDE DEF w
    <3> QED  BY <3>1, <3>2
  <2>3. IsList([i \in 1..Cardinality(Online) |-> e[i]])
    BY OnlineIsFinite, NumberedIsList
  <2>4. DOMAIN built' = Resetters /\ \A q \in Resetters : IsList(built'[q])
    BY <2>2, <2>3 DEF PickInv, ListInv
  <2> QED
    BY <2>1, <2>4 DEF PickInv, ListInv, IndexInv, PickInRange, userVars, IsList
<1>3. CASE PublishPools(r)
  BY <1>3 DEF PublishPools, PickInv, ListInv, IndexInv, PickInRange, userVars,
              IsList
<1>4. CASE CloseRemoved(r)
  BY <1>4, PickFrame DEF CloseRemoved, PickInv, ListInv
<1>5. CASE ResetDone(r)
  BY <1>5, EmptyIsList
  DEF ResetDone, PickInv, ListInv, IndexInv, PickInRange, userVars, IsList
<1> QED  BY <1>1, <1>2, <1>3, <1>4, <1>5 DEF ResetPools

LEMMA PickClose ==
    ASSUME PickInv, Close
    PROVE  PickInv'
<1> USE DEF GoTo
<1>1. CASE CloseWatcher
  BY <1>1, PickFrame DEF CloseWatcher, PickInv, ListInv
<1>2. CASE ClearPools
  BY <1>2, EmptyIsList
  DEF ClearPools, PickInv, ListInv, IndexInv, PickInRange, userVars, IsList
<1>3. CASE CloseAll
  BY <1>3, PickFrame DEF CloseAll, PickInv, ListInv
<1> QED  BY <1>1, <1>2, <1>3 DEF Close

\* The index that a thread computes is one of the list it has read.
LEMMA NextIdxInRange ==
    ASSUME PickInv, NEW t \in Threads, pc[t] = "pick"
    PROVE  /\ Len(snap[t]) \in Nat \ {0}
           /\ NextIdx(t) \in 0..(Len(snap[t]) - 1)
<1>1. snap[t] \in Seq(Range(snap[t])) /\ snap[t] # << >>
  BY DEF PickInv, ListInv, IndexInv, IsList
<1>2. Len(snap[t]) \in Nat \ {0}
  BY <1>1
<1> QED  BY <1>2 DEF PickInv, IndexInv, NextIdx

LEMMA PickThread ==
    ASSUME PickInv, NEW t \in Threads,
           CallStarts(t) \/ GetResource(t) \/ CallEnds(t)
    PROVE  PickInv'
<1> USE DEF PickInv, ListInv, IndexInv, PickInRange, IsList
<1>1. CASE CallStarts(t)
  BY <1>1 DEF CallStarts, resetVars
<1>2. CASE GetPools(t)
  BY <1>2 DEF GetPools, resetVars
<1>3. CASE PickPool(t)
  BY <1>3, NextIdxInRange DEF PickPool, resetVars
<1>4. CASE BorrowJedis(t)
  BY <1>4 DEF BorrowJedis, resetVars
<1>5. CASE BorrowThrows(t)
  BY <1>5 DEF BorrowThrows, resetVars
<1>6. CASE CallEnds(t)
  BY <1>6, EmptyIsList DEF CallEnds, Leave, resetVars
<1> QED  BY <1>1, <1>2, <1>3, <1>4, <1>5, <1>6 DEF GetResource

LEMMA PickNext == PickInv /\ [Next]_vars => PickInv'
<1> SUFFICES ASSUME PickInv, [Next]_vars PROVE PickInv'
  OBVIOUS
<1>1. CASE UNCHANGED vars
  BY <1>1, PickFrame DEF vars, userVars, resetVars, PickInv, ListInv
<1>2. ASSUME NEW n \in Nodes, Change(n) \/ Refresh(n) PROVE PickInv'
  BY <1>2, PickFrame DEF Change, Refresh, userVars, resetVars, PickInv, ListInv
<1>3. CASE ChildEvent
  BY <1>3, PickFrame DEF ChildEvent, GoTo, userVars, PickInv, ListInv
<1> QED  BY <1>1, <1>2, <1>3, PickReset, PickClose, PickThread
         DEF Next, Zookeeper, Background

LEMMA PickInvariant == Spec => []PickInv
  BY PickInit, PickNext, PTL DEF Spec

\* getResource never indexes outside the list it has read, although nextIdx
\* may have been moved last for a longer list, or by other threads.
THEOREM PickInRangeHolds == Spec => []PickInRange
<1>1. PickInv => PickInRange
  BY DEF PickInv
<1> QED  BY <1>1, PickInvariant, PTL

----------------------------------------------------------------------------
(* The proxies that had a turn in a round are an arc of the list, which    *)
(* ends at nextIdx and may go over the end of the list.                    *)

Arc(s, e, n) ==
    {i \in 1..n : IF s <= e THEN s <= i /\ i <= e ELSE s <= i \/ i <= e}

RoundInv ==
    /\ round = [list |-> round.list, seen |-> round.seen]
    /\ round.list # << >> =>
          /\ Len(round.list) \in Nat \ {0}
          /\ nextIdx \in 0..(Len(round.list) - 1)
          /\ \E s \in 1..Len(round.list) :
                round.seen = Arc(s, nextIdx + 1, Len(round.list))

\* The place after the end of an arc is not in it, unless the arc is full.
LEMMA ArcGrows ==
    ASSUME NEW n \in Nat \ {0}, NEW s \in 1..n, NEW e \in 1..n,
           Arc(s, e, n) # 1..n,
           NEW f, f = IF e = n THEN 1 ELSE e + 1
    PROVE  /\ f \in 1..n
           /\ f \notin Arc(s, e, n)
           /\ Arc(s, e, n) \cup {f} = Arc(s, f, n)
<1>1. f \in 1..n
  OBVIOUS
<1>2. ~(s = 1 /\ e = n) /\ ~(s = e + 1)
  <2>1. CASE s = 1 /\ e = n
    BY <2>1 DEF Arc
  <2>2. CASE s = e + 1
    BY <2>2 DEF Arc
  <2> QED  BY <2>1, <2>2
<1>3. f \notin Arc(s, e, n)
  BY <1>1, <1>2 DEF Arc
<1>4. \A i \in 1..n : i \in Arc(s, e, n) \/ i = f <=> i \in Arc(s, f, n)
  BY <1>1, <1>2 DEF Arc
<1> QED  BY <1>1, <1>3, <1>4 DEF Arc

\* One place is an arc.
LEMMA ArcStarts ==
    ASSUME NEW n \in Nat \ {0}, NEW f \in 1..n
    PROVE  {f} = Arc(f, f, n)
<1>1. \A i \in 1..n : i \in Arc(f, f, n) <=> i = f
  BY DEF Arc
<1>2. Arc(f, f, n) \subseteq 1..n
  BY DEF Arc
<1> QED  BY <1>1, <1>2

\* A turn that goes on with a round: the next proxy is new to it.
LEMMA TurnIsNew ==
    ASSUME PickInv, RoundInv, NEW t \in Threads, pc[t] = "pick",
           round.list = snap[t], round.seen # 1..Len(snap[t])
    PROVE  /\ NextIdx(t) + 1 \notin round.seen
           /\ \E s \in 1..Len(snap[t]) :
                round.seen \cup {NextIdx(t) + 1}
                  = Arc(s, NextIdx(t) + 1, Len(snap[t]))
<1> DEFINE n == Len(snap[t])
           e == nextIdx + 1
           f == NextIdx(t) + 1
<1>1. n \in Nat \ {0} /\ snap[t] # << >>
  BY NextIdxInRange DEF PickInv, IndexInv
<1>2. PICK s \in 1..n : round.seen = Arc(s, e, n)
  BY <1>1 DEF RoundInv
<1>3. nextIdx \in 0..(n - 1)
  BY <1>1 DEF RoundInv
<1>4. e \in 1..n /\ f = IF e = n THEN 1 ELSE e + 1
  BY <1>1, <1>3 DEF NextIdx
<1>5. Arc(s, e, n) # 1..n
  BY <1>2
<1> HIDE DEF n, e, f
<1>6. f \notin Arc(s, e, n) /\ Arc(s, e, n) \cup {f} = Arc(s, f, n)
  BY <1>1, <1>2, <1>4, <1>5, ArcGrows
<1> QED  BY <1>2, <1>6 DEF n, f

LEMMA RoundPick ==
    ASSUME PickInv, RoundInv, NEW t \in Threads, PickPool(t)
    PROVE  RoundInv'
<1> DEFINE n == Len(snap[t])
           f == NextIdx(t) + 1
           goesOn == round.list = snap[t] /\ round.seen # 1..n
           seen == (IF goesOn THEN round.seen ELSE {}) \cup {f}
<1>1. /\ pc[t] = "pick" /\ nextIdx' = NextIdx(t)
      /\ round' = [list |-> snap[t], seen |-> seen]
  BY DEF PickPool
<1>2. n \in Nat \ {0} /\ NextIdx(t) \in 0..(n - 1)
  BY <1>1, NextIdxInRange
<1>3. \E s \in 1..n : seen = Arc(s, f, n)
  <2>1. CASE goesOn
    BY <1>1, <2>1, TurnIsNew
  <2>2. CASE ~goesOn
    <3>1. f \in 1..n
      BY <1>2
    <3>2. seen = {f}
      BY <2>2
    <3> HIDE DEF f, n, seen
    <3> QED  BY <1>2, <3>1, <3>2, ArcStarts
  <2> QED  BY <2>1, <2>2
<1> HIDE DEF seen
<1> QED  BY <1>1, <1>2, <1>3 DEF RoundInv

\* Only PickPool moves the index, and a thread from "pick" to "borrow".
LEMMA OnlyPickPicks ==
    ASSUME PickInv, [Next]_vars
    PROVE  \/ \E t \in Threads : PickPool(t)
           \/ /\ UNCHANGED <<nextIdx, round>>
              /\ \A t \in Threads : ~(pc[t] = "pick" /\ pc'[t] = "borrow")
<1> DEFINE Quiet == /\ UNCHANGED <<nextIdx, round>>
                    /\ \A t \in Threads : ~(pc[t] = "pick" /\ pc'[t] = "borrow")
<1> USE DEF userVars
<1>1. CASE UNCHANGED vars
  BY <1>1 DEF vars
<1>2. ASSUME NEW n \in Nodes, Change(n) \/ Refresh(n) PROVE Quiet
  BY <1>2 DEF Change, Refresh
<1>3. CASE ChildEvent
  BY <1>3 DEF ChildEvent
<1>4. ASSUME NEW r \in Resetters, ResetPools(r) PROVE Quiet
  BY <1>4 DEF ResetPools, ReadPools, BuildList, PublishPools, CloseRemoved,
              ResetDone
<1>5. CASE Close
  BY <1>5 DEF Close, CloseWatcher, ClearPools, CloseAll
<1>6. ASSUME NEW t \in Threads, CallStarts(t) \/ CallEnds(t) PROVE Quiet
  BY <1>6 DEF CallStarts, CallEnds, PickInv, ListInv
<1>7. ASSUME NEW t \in Threads,
             GetPools(t) \/ BorrowJedis(t) \/ BorrowThrows(t)
      PROVE  Quiet
  BY <1>7 DEF GetPools, BorrowJedis, BorrowThrows, PickInv, ListInv
<1> QED  BY <1>1, <1>2, <1>3, <1>4, <1>5, <1>6, <1>7
         DEF Next, Zookeeper, Background, GetResource

LEMMA RoundNext == PickInv /\ RoundInv /\ [Next]_vars => RoundInv'
<1> SUFFICES ASSUME PickInv, RoundInv, [Next]_vars PROVE RoundInv'
  OBVIOUS
<1>1. CASE UNCHANGED <<nextIdx, round>>
  BY <1>1 DEF RoundInv
<1> QED  BY <1>1, RoundPick, OnlyPickPicks

LEMMA RoundInvariant == Spec => [](PickInv /\ RoundInv)
<1>1. Init => RoundInv
  BY DEF Init, RoundInv
<1> QED  BY <1>1, RoundNext, PickInvariant, PTL DEF Spec

\* getResource gives every proxy of a list its turn before any has a second
\* one, however many threads move nextIdx, as long as they work on that list.
THEOREM RoundRobinHolds == Spec => RoundRobin
<1> DEFINE Turn ==
      \A t \in Threads :
         pc[t] = "pick" /\ pc'[t] = "borrow" /\ round.list = snap[t] =>
            idx'[t] + 1 \notin round.seen
            \/ round.seen = 1..Len(snap[t])
<1>1. PickInv /\ RoundInv /\ [Next]_vars => [Turn]_vars
  <2> SUFFICES ASSUME PickInv, RoundInv, [Next]_vars,
                      NEW t \in Threads,
                      pc[t] = "pick", pc'[t] = "borrow", round.list = snap[t],
                      round.seen # 1..Len(snap[t])
               PROVE  idx'[t] + 1 \notin round.seen
    OBVIOUS
  <2>1. PICK u \in Threads : PickPool(u)
    BY OnlyPickPicks
  <2>2. u = t /\ idx'[t] = NextIdx(t)
    BY <2>1 DEF PickPool, PickInv, ListInv
  <2> QED  BY <2>2, TurnIsNew
<1> QED  BY <1>1, RoundInvariant, PTL DEF Spec, RoundRobin

----------------------------------------------------------------------------
(* What resetPools computes: places in the sorted cache, pools by address. *)

LEMMA RankBounds ==
    ASSUME NEW S \in SUBSET Nat, IsFiniteSet(S), NEW n \in S
    PROVE  Rank(n, S) \in 1..Cardinality(S)
<1> DEFINE U == {m \in S : m <= n}
<1>1. IsFiniteSet(U) /\ Cardinality(U) <= Cardinality(S)
  BY FS_Subset
<1>2. U # {} /\ Cardinality(U) \in Nat /\ Cardinality(S) \in Nat
  <2>1. n \in U
    OBVIOUS
  <2> QED  BY <1>1, <2>1, FS_CardinalityType
<1>3. Cardinality(U) # 0
  BY <1>1, <1>2, FS_EmptySet
<1> QED  BY <1>1, <1>2, <1>3 DEF Rank

LEMMA RankGrows ==
    ASSUME NEW S \in SUBSET Nat, IsFiniteSet(S), NEW m \in S, NEW n \in S, m < n
    PROVE  Rank(m, S) # Rank(n, S)
<1> DEFINE U == {k \in S : k <= m}
           V == {k \in S : k <= n}
<1>1. U \subseteq V /\ n \in V /\ n \notin U
  <2>1. \A k \in S : k \in Nat
    OBVIOUS
  <2>2. m \in Nat /\ n \in Nat
    BY <2>1
  <2>3. \A k \in S : k <= m => k <= n
    BY <2>1, <2>2
  <2>4. ~(n <= m) /\ n <= n
    BY <2>2
  <2> QED  BY <2>3, <2>4
<1>2. IsFiniteSet(V)
  BY FS_Subset
<1>3. Cardinality(V) = Cardinality(U) => V = U
  BY <1>1, <1>2, FS_Subset
<1> QED  BY <1>1, <1>3 DEF Rank

\* Every place is taken.
LEMMA RankOnto ==
    ASSUME NEW S \in SUBSET Nat, IsFiniteSet(S), NEW i \in 1..Cardinality(S)
    PROVE  \E n \in S : Rank(n, S) = i
<1> DEFINE T == 1..Cardinality(S)
           f == [n \in S |-> Rank(n, S)]
<1>1. Cardinality(S) \in Nat
  BY FS_CardinalityType
<1>2. IsFiniteSet(T) /\ Cardinality(T) = Cardinality(S)
  BY <1>1, FS_Interval
<1>3. f \in [S -> T]
  BY RankBounds
<1>4. f \in Injection(S, T)
  <2>1. ASSUME NEW m \in S, NEW n \in S, f[m] = f[n] PROVE m = n
    <3>1. m \in Nat /\ n \in Nat /\ Rank(m, S) = Rank(n, S)
      BY <2>1
    <3> QED  BY <3>1, RankGrows
  <2> QED  BY <1>3, <2>1 DEF Injection, IsInjective
<1>5. f \in Surjection(S, T)
  BY <1>2, <1>4, FS_Injection
<1>6. \E n \in S : f[n] = i
  BY <1>5 DEF Surjection
<1> QED  BY <1>6

\* A set of places of a list has a last one.
LEMMA LastPlace ==
    ASSUME NEW n \in Nat, NEW U \in SUBSET (1..n), U # {}
    PROVE  \E i \in U : \A j \in U : j <= i
<1> DEFINE T == {n - i : i \in U}
<1>1. T \subseteq Nat /\ T # {}
  <2>1. \A i \in U : i \in 1..n
    OBVIOUS
  <2>2. \A i \in U : n - i \in Nat
    BY <2>1
  <2>3. PICK i \in U : TRUE
    OBVIOUS
  <2>4. n - i \in T
    BY <2>3
  <2> QED  BY <2>2, <2>4
<1>2. PICK x \in T : \A y \in T : ~(<<y, x>> \in OpToRel(<, Nat))
  BY <1>1, NatLessThanWellFounded, WFMin
<1>3. \A y \in T : ~(y < x)
  BY <1>1, <1>2 DEF OpToRel
<1>4. PICK i \in U : x = n - i
  OBVIOUS
<1>5. \A j \in U : n - j \in T
  OBVIOUS
<1>6. \A j \in U : ~(n - j < n - i)
  BY <1>3, <1>4, <1>5
<1> QED  BY <1>6

\* Addr2Pool finds a pool of the list, with the address.
LEMMA MapFinds ==
    ASSUME NEW S, NEW list \in Seq(S), NEW a \in DOMAIN Addr2Pool(list)
    PROVE  /\ Addr2Pool(list)[a] \in Range(list)
           /\ poolAddr[Addr2Pool(list)[a]] = a
<1> DEFINE U == {i \in DOMAIN list : poolAddr[list[i]] = a}
           Last(i) == /\ poolAddr[list[i]] = a
                      /\ \A j \in DOMAIN list : poolAddr[list[j]] = a => j <= i
<1>1. U # {} /\ U \subseteq 1..Len(list) /\ Len(list) \in Nat
  BY DEF Addr2Pool
<1>2. PICK i \in U : \A j \in U : j <= i
  BY <1>1, LastPlace
<1>3. \E k \in DOMAIN list : Last(k)
  BY <1>2
<1>4. Addr2Pool(list)[a] = list[CHOOSE k \in DOMAIN list : Last(k)]
  BY DEF Addr2Pool
<1>5. PICK k \in DOMAIN list : Last(k) /\ Addr2Pool(list)[a] = list[k]
  BY <1>3, <1>4
<1> QED  BY <1>5 DEF Range

----------------------------------------------------------------------------
(* The types.  No list is longer than the cache, and every list is one of  *)
(* pools that were created.                                                *)

ShortLists == {s \in Seq(PoolIds) : Len(s) <= Cardinality(Nodes)}

PoolTypes ==
    /\ zk \in [Nodes -> {Null, Offline} \cup Addrs]
    /\ cache \in [Nodes -> {Null, Offline} \cup Addrs]
    /\ changes \in 0..MaxChanges /\ events \in Nat
    /\ pools \in ShortLists
    /\ nextIdx \in -1..(Cardinality(Nodes) - 1)
    /\ phase \in [Resetters -> {"idle", "reset", "build", "publish", "close",
                                "ended", "up", "clear", "closing", "closed"}]
    /\ was \in [Resetters -> ShortLists]
    /\ built \in [Resetters -> ShortLists]
    /\ doomed \in [Resetters -> SUBSET PoolIds]
    /\ created \in 0..MaxPools
    /\ poolAddr \in [PoolIds -> Addrs \cup {Null}]
    /\ open \subseteq 1..created
    /\ pc \in [Threads -> {"idle", "get", "pick", "borrow", "got", "failed"}]
    /\ snap \in [Threads -> ShortLists]

LEMMA NodesCount == Cardinality(Nodes) \in Nat
  BY FS_CardinalityType, JedisPoolAssumption

LEMMA EmptyIsShort == << >> \in ShortLists
<1>1. << >> \in Seq(PoolIds) /\ Len(<< >>) = 0
  OBVIOUS
<1> QED  BY <1>1, NodesCount DEF ShortLists

LEMMA ShortListRange ==
    ASSUME NEW s \in ShortLists
    PROVE  s \in Seq(PoolIds) /\ Range(s) \subseteq PoolIds
<1>1. s \in Seq(PoolIds)
  BY DEF ShortLists
<1> QED  BY <1>1, ElementOfSeq DEF Range

\* Ranks tell the elements of a set apart.
LEMMA RanksDiffer ==
    ASSUME NEW S \in SUBSET Nat, IsFiniteSet(S), NEW m \in S, NEW n \in S,
           Rank(m, S) = Rank(n, S)
    PROVE  m = n
<1>1. m \in Nat /\ n \in Nat
  OBVIOUS
<1> QED  BY <1>1, RankGrows

\* What the second loop of resetPools is about: the map from addresses to the
\* pools of the old list, the nodes that get a new pool, the pool of a node.
Map(r) == Addr2Pool(was[r])
Fresh(r) == {n \in Online : ~Reuses(n, Map(r))}
PoolOf(r, n) ==
    IF n \in Fresh(r) THEN created + Rank(n, Fresh(r)) ELSE Map(r)[cache[n]]

NodesCounted(r) ==
    /\ Online \in SUBSET Nat /\ Fresh(r) \in SUBSET Nat
    /\ Online \subseteq Nodes /\ Fresh(r) \subseteq Online
    /\ IsFiniteSet(Online) /\ IsFiniteSet(Fresh(r))
    /\ Cardinality(Online) \in Nat /\ Cardinality(Fresh(r)) \in Nat
    /\ Cardinality(Online) <= Cardinality(Nodes)

LEMMA OnlineNodes == ASSUME NEW r \in Resetters PROVE NodesCounted(r)
<1>1. Online \subseteq Nodes /\ Fresh(r) \subseteq Online
  BY DEF Online, Fresh
<1> QED  BY <1>1, FS_Subset, FS_CardinalityType, JedisPoolAssumption
         DEF NodesCounted

ListsBuilt(r) ==
    /\ created' = created + Cardinality(Fresh(r)) /\ created' <= MaxPools
    /\ poolAddr' = [p \in PoolIds |->
         IF \E n \in Fresh(r) : PoolOf(r, n) = p
           THEN cache[CHOOSE n \in Fresh(r) : PoolOf(r, n) = p] ELSE poolAddr[p]]
    /\ open' = open \cup {PoolOf(r, n) : n \in Fresh(r)}
    /\ doomed'[r] = {Map(r)[a] : a \in DOMAIN Map(r) \ {cache[n] : n \in Online}}
    /\ built'[r] = [i \in 1..Cardinality(Online) |-> built'[r][i]]
    /\ \A i \in 1..Cardinality(Online) : \E n \in Online :
          Rank(n, Online) = i /\ built'[r][i] = PoolOf(r, n)

LEMMA BuildsLists ==
    ASSUME PoolTypes, NEW r \in Resetters, BuildList(r) PROVE ListsBuilt(r)
<1> DEFINE w == [i \in 1..Cardinality(Online) |->
                   PoolOf(r, CHOOSE n \in Online : Rank(n, Online) = i)]
           poolOf == [n \in Online |-> PoolOf(r, n)]
<1>1. \A i \in 1..Cardinality(Online) :
        (CHOOSE n \in Online : Rank(n, Online) = i) \in Online
        /\ Rank(CHOOSE n \in Online : Rank(n, Online) = i, Online) = i
  <2> SUFFICES ASSUME NEW i \in 1..Cardinality(Online)
               PROVE  (CHOOSE n \in Online : Rank(n, Online) = i) \in Online
                      /\ Rank(CHOOSE n \in Online : Rank(n, Online) = i, Online) = i
    OBVIOUS
  <2>1. \E n \in Online : Rank(n, Online) = i
    <3>1. Online \in SUBSET Nat /\ IsFiniteSet(Online)
      BY OnlineNodes DEF NodesCounted
    <3> QED  BY <3>1, RankOnto
  <2> QED  BY <2>1
<1>2. Fresh(r) \subseteq Online
  BY DEF Fresh
<1>3. poolOf = [n \in Online |-> IF n \in Fresh(r)
                                   THEN created + Rank(n, Fresh(r))
                                   ELSE Map(r)[cache[n]]]
  BY DEF PoolOf
<1>4. /\ created + Cardinality(Fresh(r)) <= MaxPools
      /\ created' = created + Cardinality(Fresh(r))
      /\ poolAddr' = [p \in PoolIds |->
           IF \E n \in Fresh(r) : poolOf[n] = p
             THEN cache[CHOOSE n \in Fresh(r) : poolOf[n] = p] ELSE poolAddr[p]]
      /\ open' = open \cup {poolOf[n] : n \in Fresh(r)}
      /\ built'[r] = [i \in 1..Cardinality(Online) |->
                        poolOf[CHOOSE n \in Online : Rank(n, Online) = i]]
      /\ doomed'[r] =
           {Map(r)[a] : a \in DOMAIN Map(r) \ {cache[n] : n \in Online}}
  <2> HIDE DEF poolOf
  <2> QED  BY <1>3 DEF BuildList, PoolTypes, Map, Fresh
<1>5. \A n \in Online : poolOf[n] = PoolOf(r, n)
  OBVIOUS
<1> HIDE DEF poolOf
<1>6. \A n \in Fresh(r) : poolOf[n] = PoolOf(r, n)
  BY <1>2, <1>5
<1>7. poolAddr' = [p \in PoolIds |->
                IF \E n \in Fresh(r) : PoolOf(r, n) = p
                  THEN cache[CHOOSE n \in Fresh(r) : PoolOf(r, n) = p]
                  ELSE poolAddr[p]]
  <2>1. ASSUME NEW p \in PoolIds
        PROVE  /\ (\E n \in Fresh(r) : PoolOf(r, n) = p)
                    <=> \E n \in Fresh(r) : poolOf[n] = p
               /\ (CHOOSE n \in Fresh(r) : PoolOf(r, n) = p)
                    = CHOOSE n \in Fresh(r) : poolOf[n] = p
    BY <1>6
  <2> QED  BY <1>4, <2>1
<1>8. open' = open \cup {PoolOf(r, n) : n \in Fresh(r)}
  BY <1>4, <1>6
<1>9. ASSUME NEW i \in 1..Cardinality(Online)
      PROVE  \E n \in Online : Rank(n, Online) = i /\ built'[r][i] = PoolOf(r, n)
  <2> DEFINE m == CHOOSE n \in Online : Rank(n, Online) = i
  <2>1. m \in Online /\ Rank(m, Online) = i
    BY <1>1
  <2>2. built'[r][i] = poolOf[m]
    BY <1>4
  <2> QED  BY <1>5, <2>1, <2>2
<1>10. built'[r] = [i \in 1..Cardinality(Online) |-> built'[r][i]]
  BY <1>4
<1> QED  BY <1>4, <1>7, <1>8, <1>9, <1>10 DEF ListsBuilt

\* New pools are new, and one for each node; all others are of the old list.
PoolsBuilt(r) ==
    /\ \A n \in Fresh(r) : /\ PoolOf(r, n) \in (created + 1)..created'
                           /\ PoolOf(r, n) \in PoolIds
    /\ \A m, n \in Fresh(r) : PoolOf(r, m) = PoolOf(r, n) => m = n
    /\ \A n \in Online \ Fresh(r) : /\ cache[n] \in DOMAIN Map(r)
                                    /\ PoolOf(r, n) = Map(r)[cache[n]]
    /\ \A a \in DOMAIN Map(r) : /\ Map(r)[a] \in Range(was[r])
                                /\ poolAddr[Map(r)[a]] = a

LEMMA BuildsPools ==
    ASSUME PoolTypes, NEW r \in Resetters, BuildList(r) PROVE PoolsBuilt(r)
<1>1. /\ was[r] \in Seq(PoolIds) /\ Range(was[r]) \subseteq PoolIds
      /\ created \in Nat
  BY ShortListRange DEF PoolTypes
<1>2. NodesCounted(r) /\ ListsBuilt(r)
  BY OnlineNodes, BuildsLists
<1>3. \A a \in DOMAIN Map(r) : /\ Map(r)[a] \in Range(was[r])
                               /\ poolAddr[Map(r)[a]] = a
  BY <1>1, MapFinds DEF Map
<1>4. \A n \in Fresh(r) : /\ PoolOf(r, n) = created + Rank(n, Fresh(r))
                          /\ Rank(n, Fresh(r)) \in 1..Cardinality(Fresh(r))
  BY <1>2, RankBounds DEF PoolOf, NodesCounted
<1>5. ASSUME NEW n \in Fresh(r)
      PROVE  PoolOf(r, n) \in (created + 1)..created' /\ PoolOf(r, n) \in PoolIds
  <2>1. PICK k \in 1..Cardinality(Fresh(r)) : PoolOf(r, n) = created + k
    BY <1>4
  <2>2. /\ created' = created + Cardinality(Fresh(r)) /\ created' <= MaxPools
        /\ Cardinality(Fresh(r)) \in Nat
    BY <1>2 DEF NodesCounted, ListsBuilt
  <2> QED  BY <1>1, <2>1, <2>2, JedisPoolAssumption DEF PoolIds
<1>6. ASSUME NEW m \in Fresh(r), NEW n \in Fresh(r), PoolOf(r, m) = PoolOf(r, n)
      PROVE  m = n
  <2>1. Rank(m, Fresh(r)) \in Nat /\ Rank(n, Fresh(r)) \in Nat
    BY <1>2, <1>4 DEF NodesCounted
  <2>2. Rank(m, Fresh(r)) = Rank(n, Fresh(r))
    BY <1>1, <1>4, <1>6, <2>1
  <2> QED  BY <1>2, <2>2, RanksDiffer DEF NodesCounted
<1>7. \A n \in Online \ Fresh(r) : /\ cache[n] \in DOMAIN Map(r)
                                   /\ PoolOf(r, n) = Map(r)[cache[n]]
  BY DEF Fresh, Reuses, PoolOf
<1> QED  BY <1>3, <1>5, <1>6, <1>7 DEF PoolsBuilt

\* The new list has a pool for every node, new ones and ones of the old list;
\* none of those that are to be closed.
LEMMA Builds ==
    ASSUME PoolTypes, NEW r \in Resetters, BuildList(r)
    PROVE  /\ created' \in 0..MaxPools /\ created <= created'
           /\ poolAddr' \in [PoolIds -> Addrs \cup {Null}]
           /\ open \subseteq open' /\ open' \subseteq 1..created'
           /\ built'[r] \in ShortLists
           /\ doomed'[r] \subseteq Range(was[r])
           /\ Range(was[r]) \subseteq open =>
                /\ Range(built'[r]) \subseteq open'
                /\ Range(built'[r]) \cap doomed'[r] = {}
<1>0. NodesCounted(r) /\ ListsBuilt(r) /\ PoolsBuilt(r)
  BY OnlineNodes, BuildsLists, BuildsPools
<1> USE <1>0, JedisPoolAssumption DEF NodesCounted, ListsBuilt, PoolsBuilt
<1> DEFINE w == built'[r]
           gone == doomed'[r]
<1>1. /\ was[r] \in Seq(PoolIds) /\ Range(was[r]) \subseteq PoolIds
      /\ created \in Nat
      /\ poolAddr \in [PoolIds -> Addrs \cup {Null}] /\ open \subseteq 1..created
  BY ShortListRange DEF PoolTypes
<1>2. \A n \in Online : PoolOf(r, n) \in PoolIds
  BY <1>1
<1>3. created' \in 0..MaxPools /\ created <= created'
  BY <1>1
<1>4. poolAddr' \in [PoolIds -> Addrs \cup {Null}]
  <2>1. ASSUME NEW p \in PoolIds, \E n \in Fresh(r) : PoolOf(r, n) = p
        PROVE  cache[CHOOSE n \in Fresh(r) : PoolOf(r, n) = p] \in Addrs
    <3>1. (CHOOSE n \in Fresh(r) : PoolOf(r, n) = p) \in Fresh(r)
      BY <2>1
    <3> QED  BY <3>1 DEF Online
  <2> QED  BY <1>1, <2>1
<1>5. open \subseteq open' /\ open' \subseteq 1..created'
  <2>1. \A p \in open : p \in 1..created'
    BY <1>1, <1>3
  <2>2. \A n \in Fresh(r) : PoolOf(r, n) \in 1..created'
    BY <1>1, <1>3
  <2> QED  BY <2>1, <2>2
<1>6. w \in ShortLists
  <2>1. \A i \in 1..Cardinality(Online) : w[i] \in PoolIds
    BY <1>2
  <2>2. w \in Seq(PoolIds)
    <3>1. w = [i \in 1..Cardinality(Online) |-> w[i]]
      OBVIOUS
    <3> QED  BY <2>1, <3>1
  <2>3. Len(w) = Cardinality(Online)
    BY <2>2
  <2> QED  BY <2>2, <2>3 DEF ShortLists
<1>7. gone \subseteq Range(was[r])
  OBVIOUS
<1>8. ASSUME Range(was[r]) \subseteq open
      PROVE  /\ Range(w) \subseteq open'
             /\ Range(w) \cap gone = {}
  <2>1. ASSUME NEW n \in Online
        PROVE  PoolOf(r, n) \in open' /\ PoolOf(r, n) \notin gone
    <3>1. CASE n \in Fresh(r)
      <4>1. PoolOf(r, n) \in open'
        BY <3>1
      <4>2. PoolOf(r, n) \notin 1..created
        BY <1>1, <3>1
      <4> QED  BY <1>1, <1>7, <1>8, <4>1, <4>2
    <3>2. CASE n \notin Fresh(r)
      <4>1. PoolOf(r, n) = Map(r)[cache[n]] /\ cache[n] \in DOMAIN Map(r)
        BY <3>2
      <4>2. PoolOf(r, n) \in open'
        BY <1>5, <1>8, <4>1
      <4>3. \A a \in DOMAIN Map(r) \ {cache[m] : m \in Online} :
               Map(r)[a] # Map(r)[cache[n]]
        BY <4>1
      <4> QED  BY <4>1, <4>2, <4>3
    <3> QED  BY <3>1, <3>2
  <2>2. \A x \in Range(w) : \E n \in Online : x = PoolOf(r, n)
    <3>1. DOMAIN w = 1..Cardinality(Online)
      OBVIOUS
    <3>2. ASSUME NEW i \in DOMAIN w PROVE \E n \in Online : w[i] = PoolOf(r, n)
      BY <3>1
    <3> HIDE <1>0 DEF w
    <3> QED  BY <3>2 DEF Range
  <2> QED  BY <2>1, <2>2
<1> QED  BY <1>3, <1>4, <1>5, <1>6, <1>7, <1>8

LEMMA InitTypes == Init => PoolTypes
<1> SUFFICES ASSUME Init PROVE PoolTypes
  OBVIOUS
<1> USE JedisPoolAssumption
<1>1. /\ zk \in [Nodes -> {Null, Offline} \cup Addrs] /\ cache = zk
      /\ changes = 0 /\ events = 0 /\ created = 0 /\ open = {}
      /\ poolAddr \in [PoolIds -> Addrs \cup {Null}]
      /\ nextIdx = -1
  BY DEF Init
<1>2. nextIdx \in -1..(Cardinality(Nodes) - 1)
  BY <1>1, NodesCount
<1>3. /\ pools \in ShortLists
      /\ was \in [Resetters -> ShortLists] /\ built \in [Resetters -> ShortLists]
      /\ snap \in [Threads -> ShortLists]
  BY EmptyIsShort DEF Init
<1>4. /\ doomed \in [Resetters -> SUBSET PoolIds]
      /\ phase \in [Resetters -> {"idle", "reset", "build", "publish", "close",
                                  "ended", "up", "clear", "closing", "closed"}]
      /\ pc \in [Threads -> {"idle", "get", "pick", "borrow", "got", "failed"}]
  BY DEF Init
<1> QED  BY <1>1, <1>2, <1>3, <1>4 DEF PoolTypes

LEMMA CacheTypes ==
    ASSUME PoolTypes, NEW n \in Nodes, Change(n) \/ Refresh(n)
    PROVE  PoolTypes'
<1> USE DEF resetVars, poolVars, userVars
<1>1. CASE Change(n)
  <2>1. PICK d \in {Null, Offline} \cup AddrsOf[n] : zk' = [zk EXCEPT ![n] = d]
    BY <1>1 DEF Change
  <2>2. d \in {Null, Offline} \cup Addrs
    BY <2>1 DEF Addrs
  <2>3. zk' \in [Nodes -> {Null, Offline} \cup Addrs]
    BY <2>1, <2>2 DEF PoolTypes
  <2>4. changes' \in 0..MaxChanges
    BY <1>1, JedisPoolAssumption DEF Change, PoolTypes
  <2> QED  BY <1>1, <2>3, <2>4 DEF Change, PoolTypes
<1>2. CASE Refresh(n)
  <2>1. cache' \in [Nodes -> {Null, Offline} \cup Addrs]
    BY <1>2 DEF Refresh, PoolTypes
  <2>2. events' \in Nat
    BY <1>2 DEF Refresh, PoolTypes
  <2> QED  BY <1>2, <2>1, <2>2 DEF Refresh, PoolTypes
<1> QED  BY <1>1, <1>2

LEMMA ResetTypes ==
    ASSUME PoolTypes, NEW r \in Resetters, ResetPools(r)
    PROVE  PoolTypes'
<1> USE DEF zkVars, poolVars, userVars, GoTo
<1>1. CASE ReadPools(r)
  BY <1>1 DEF ReadPools, PoolTypes
<1>2. CASE BuildList(r)
  <2>1. PICK b, d : /\ built' = [built EXCEPT ![r] = b]
                    /\ doomed' = [doomed EXCEPT ![r] = d]
    BY <1>2 DEF BuildList
  <2>2. b = built'[r] /\ d = doomed'[r]
    BY <2>1 DEF PoolTypes
  <2>3. /\ created' \in 0..MaxPools
        /\ poolAddr' \in [PoolIds -> Addrs \cup {Null}]
        /\ open' \subseteq 1..created'
        /\ b \in ShortLists /\ d \subseteq Range(was[r])
    BY <1>2, <2>2, Builds
  <2>4. d \subseteq PoolIds
    BY <2>3, ShortListRange DEF PoolTypes
  <2>5. /\ built' \in [Resetters -> ShortLists]
        /\ doomed' \in [Resetters -> SUBSET PoolIds]
    BY <2>1, <2>3, <2>4 DEF PoolTypes
  <2>6. /\ phase' \in [Resetters -> {"idle", "reset", "build", "publish",
                                     "close", "ended", "up", "clear", "closing",
                                     "closed"}]
        /\ UNCHANGED <<zk, changes, cache, events, pools, nextIdx, was, pc, snap>>
    BY <1>2 DEF BuildList, PoolTypes
  <2> QED  BY <2>3, <2>5, <2>6 DEF PoolTypes, ShortLists, PoolIds
<1>3. CASE PublishPools(r)
  BY <1>3 DEF PublishPools, PoolTypes
<1>4. CASE CloseRemoved(r)
  <2>1. /\ open' \subseteq open
        /\ doomed' \in [Resetters -> SUBSET PoolIds]
    BY <1>4 DEF CloseRemoved, PoolTypes
  <2> QED  BY <1>4, <2>1 DEF CloseRemoved, PoolTypes
<1>5. CASE ResetDone(r)
  <2>1. was' \in [Resetters -> ShortLists] /\ built' \in [Resetters -> ShortLists]
    BY <1>5, EmptyIsShort DEF ResetDone, PoolTypes
  <2> QED  BY <1>5, <2>1 DEF ResetDone, PoolTypes
<1> QED  BY <1>1, <1>2, <1>3, <1>4, <1>5 DEF ResetPools

LEMMA PoolStepTypes ==
    ASSUME PoolTypes, Zookeeper \/ Background \/ Close
    PROVE  PoolTypes'
<1> USE DEF zkVars, resetVars, poolVars, userVars, GoTo
<1>1. CASE ChildEvent
  <2>1. events' \in Nat
    BY <1>1 DEF ChildEvent, PoolTypes
  <2> QED  BY <1>1, <2>1 DEF ChildEvent, PoolTypes, Resetters
<1>2. CASE CloseWatcher
  <2>1. Range(pools) \subseteq PoolIds
    BY ShortListRange DEF PoolTypes
  <2>2. doomed' \in [Resetters -> SUBSET PoolIds]
    BY <1>2, <2>1 DEF CloseWatcher, PoolTypes
  <2> QED  BY <1>2, <2>2 DEF CloseWatcher, PoolTypes
<1>3. CASE ClearPools
  BY <1>3, EmptyIsShort DEF ClearPools, PoolTypes
<1>4. CASE CloseAll
  <2>1. open' \subseteq open /\ doomed' \in [Resetters -> SUBSET PoolIds]
    BY <1>4 DEF CloseAll, PoolTypes
  <2> QED  BY <1>4, <2>1 DEF CloseAll, PoolTypes
<1> QED  BY <1>1, <1>2, <1>3, <1>4, CacheTypes, ResetTypes
         DEF Zookeeper, Background, Close

LEMMA ThreadTypes ==
    ASSUME PoolTypes, PickInv, NEW t \in Threads,
           CallStarts(t) \/ GetResource(t) \/ CallEnds(t)
    PROVE  PoolTypes'
<1> USE DEF zkVars, resetVars, poolVars
<1>1. CASE CallStarts(t)
  BY <1>1 DEF CallStarts, PoolTypes
<1>2. CASE GetPools(t)
  BY <1>2 DEF GetPools, PoolTypes
<1>3. CASE PickPool(t)
  <2>1. NextIdx(t) \in 0..(Len(snap[t]) - 1) /\ Len(snap[t]) \in Nat
    BY <1>3, NextIdxInRange DEF PickPool
  <2>2. Len(snap[t]) <= Cardinality(Nodes)
    BY DEF PoolTypes, ShortLists
  <2>3. nextIdx' \in -1..(Cardinality(Nodes) - 1)
    BY <1>3, <2>1, <2>2, NodesCount DEF PickPool
  <2> QED  BY <1>3, <2>3 DEF PickPool, PoolTypes
<1>4. CASE BorrowJedis(t) \/ BorrowThrows(t)
  BY <1>4 DEF BorrowJedis, BorrowThrows, PoolTypes
<1>5. CASE CallEnds(t)
  BY <1>5, EmptyIsShort DEF CallEnds, Leave, PoolTypes
<1> QED  BY <1>1, <1>2, <1>3, <1>4, <1>5 DEF GetResource

LEMMA TypesNext == PoolTypes /\ PickInv /\ [Next]_vars => PoolTypes'
<1> SUFFICES ASSUME PoolTypes, PickInv, [Next]_vars PROVE PoolTypes'
  OBVIOUS
<1>1. CASE UNCHANGED vars
  BY <1>1 DEF vars, zkVars, resetVars, poolVars, userVars, PoolTypes
<1> QED  BY <1>1, PoolStepTypes, ThreadTypes DEF Next

----------------------------------------------------------------------------
(* With one resetPools at a time, a JedisPool is closed only when no list  *)
(* that can be read has it.                                                *)

\* Before close() is called; afterwards nothing is promised.
ResetInv ==
    ~Overlap /\ ~Closed =>
        /\ phase["main"] \notin {"idle", "ended"}
        /\ phase["main"] # "up" => phase["listener"] = "idle"
        /\ Range(pools) \subseteq open
        /\ \A r \in Resetters :
              /\ phase[r] = "build" => was[r] = pools
              /\ phase[r] = "publish" => /\ Range(built[r]) \subseteq open
                                         /\ Range(built[r]) \cap doomed[r] = {}
              /\ phase[r] = "close" => Range(pools) \cap doomed[r] = {}

OpenInv == PickInv /\ PoolTypes /\ ResetInv

\* Only one of them is in resetPools.
LEMMA OneResets ==
    ASSUME OpenInv, ~Overlap, ~Closed, NEW r \in Resetters, NEW q \in Resetters,
           r # q, phase[r] \in {"reset", "build", "publish", "close"}
    PROVE  phase[q] \in {"idle", "up"}
<1>1. phase["main"] \in {"reset", "build", "publish", "close", "up", "idle",
                         "ended"}
  BY DEF OpenInv, PoolTypes, Closed, Resetters
<1>2. CASE r = "main"
  BY <1>2 DEF OpenInv, ResetInv, Resetters
<1>3. CASE r = "listener"
  BY <1>3 DEF OpenInv, ResetInv, Resetters
<1> QED  BY <1>2, <1>3 DEF Resetters

LEMMA ResetOpen ==
    ASSUME OpenInv, NEW r \in Resetters, ResetPools(r)
    PROVE  ResetInv'
<1> USE DEF GoTo, poolVars
<1>1. /\ phase[r] \in {"reset", "build", "publish", "close"}
      /\ \A q \in Resetters \ {r} : /\ phase'[q] = phase[q] /\ was'[q] = was[q]
                                    /\ built'[q] = built[q]
                                    /\ doomed'[q] = doomed[q]
  BY DEF ResetPools, ReadPools, BuildList, PublishPools, CloseRemoved, ResetDone,
         OpenInv, PoolTypes
<1>2. Closed' <=> Closed
  <2>1. phase'[r] \notin {"clear", "closing", "closed"}
    BY <1>1 DEF ResetPools, ReadPools, BuildList, PublishPools, CloseRemoved,
                ResetDone, OpenInv, PoolTypes
  <2> QED  BY <1>1, <2>1 DEF Closed, Resetters
<1> SUFFICES ASSUME ~Overlap, ~Closed PROVE ResetInv'
  BY <1>2 DEF ResetInv
<1>3. \A q \in Resetters \ {r} : phase'[q] \in {"idle", "up"}
  BY <1>1, OneResets
<1>4. /\ phase'["main"] \notin {"idle", "ended"}
      /\ phase'["main"] # "up" => phase'["listener"] = "idle"
  <2>0. r = "main" => phase'["main"] \notin {"idle", "ended"}
    BY DEF ResetPools, ReadPools, BuildList, PublishPools, CloseRemoved,
           ResetDone, OpenInv, PoolTypes
  <2>1. CASE r = "main"
    BY <1>1, <2>0, <2>1 DEF OpenInv, ResetInv, Resetters
  <2>2. CASE r = "listener"
    BY <1>1, <2>2 DEF OpenInv, ResetInv, Resetters
  <2> QED  BY <2>1, <2>2 DEF Resetters
<1>5. ASSUME Range(pools') \subseteq open',
             phase'[r] = "build" => was'[r] = pools',
             phase'[r] = "publish" => /\ Range(built'[r]) \subseteq open'
                                      /\ Range(built'[r]) \cap doomed'[r] = {},
             phase'[r] = "close" => Range(pools') \cap doomed'[r] = {}
      PROVE  ResetInv'
  <2>1. \A q \in Resetters : phase'[q] \in {"build", "publish", "close"} => q = r
    BY <1>3
  <2> QED  BY <1>4, <1>5, <2>1 DEF ResetInv
<1>6. Range(pools) \subseteq open
  BY DEF OpenInv, ResetInv
<1>7. CASE ReadPools(r)
  <2>1. phase'[r] = "build" /\ was'[r] = pools /\ UNCHANGED <<pools, open>>
    BY <1>7 DEF ReadPools, OpenInv, PoolTypes
  <2> QED  BY <1>5, <1>6, <2>1
<1>8. CASE BuildList(r)
  <2>1. phase[r] = "build" /\ phase'[r] = "publish" /\ pools' = pools
    BY <1>8 DEF BuildList, OpenInv, PoolTypes
  <2>2. Range(was[r]) \subseteq open
    BY <1>6, <2>1 DEF OpenInv, ResetInv
  <2>3. /\ open \subseteq open' /\ Range(built'[r]) \subseteq open'
        /\ Range(built'[r]) \cap doomed'[r] = {}
    BY <1>8, <2>2, Builds DEF OpenInv
  <2> QED  BY <1>5, <1>6, <2>1, <2>3
<1>9. CASE PublishPools(r)
  <2>1. /\ phase[r] = "publish" /\ phase'[r] = "close" /\ pools' = built[r]
        /\ UNCHANGED <<open, doomed>>
    BY <1>9 DEF PublishPools, OpenInv, PoolTypes
  <2>2. Range(built[r]) \subseteq open /\ Range(built[r]) \cap doomed[r] = {}
    BY <2>1 DEF OpenInv, ResetInv
  <2> QED  BY <1>5, <2>1, <2>2
<1>10. CASE CloseRemoved(r)
  <2>1. PICK p \in doomed[r] :
          open' = open \ {p} /\ doomed' = [doomed EXCEPT ![r] = @ \ {p}]
    BY <1>10 DEF CloseRemoved
  <2>2. /\ phase[r] = "close" /\ phase'[r] = "close" /\ pools' = pools
        /\ doomed'[r] \subseteq doomed[r]
    BY <1>10, <2>1 DEF CloseRemoved, OpenInv, PoolTypes
  <2>3. Range(pools) \cap doomed[r] = {}
    BY <2>2 DEF OpenInv, ResetInv
  <2> QED  BY <1>5, <1>6, <2>1, <2>2, <2>3
<1>11. CASE ResetDone(r)
  <2>1. phase'[r] \in {"up", "idle"} /\ UNCHANGED <<pools, open>>
    BY <1>11 DEF ResetDone, OpenInv, PoolTypes
  <2> QED  BY <1>5, <1>6, <2>1
<1> QED  BY <1>7, <1>8, <1>9, <1>10, <1>11 DEF ResetPools

LEMMA OpenNext == OpenInv /\ [Next]_vars => OpenInv'
<1> SUFFICES ASSUME OpenInv, [Next]_vars PROVE ResetInv'
  BY PickNext, TypesNext DEF OpenInv
<1> USE DEF GoTo, resetVars, poolVars
<1>1. ASSUME UNCHANGED <<pools, resetVars, poolVars>>
      PROVE  ResetInv'
  BY <1>1 DEF OpenInv, ResetInv, Closed
<1>2. CASE UNCHANGED vars
  BY <1>1, <1>2 DEF vars
<1>3. ASSUME NEW n \in Nodes, Change(n) \/ Refresh(n) PROVE ResetInv'
  BY <1>1, <1>3 DEF Change, Refresh
<1>4. CASE ChildEvent
  <2>1. /\ phase["listener"] = "idle" /\ UNCHANGED <<pools, open>>
        /\ phase'["listener"] = "reset" /\ phase'["main"] = phase["main"]
        /\ Overlap \/ phase["main"] \notin {"reset", "build", "publish", "close"}
    BY <1>4 DEF ChildEvent, OpenInv, PoolTypes, Resetters
  <2>2. ~Overlap /\ ~Closed => phase["main"] = "up"
    BY <2>1 DEF OpenInv, ResetInv, PoolTypes, Closed, Resetters
  <2> QED  BY <1>4, <2>1, <2>2
           DEF ChildEvent, OpenInv, ResetInv, Closed, Resetters
<1>5. CASE Close
  <2>1. Closed'
    BY <1>5 DEF Close, CloseWatcher, ClearPools, CloseAll, Closed, OpenInv,
                PoolTypes, Resetters
  <2> QED  BY <2>1 DEF ResetInv
<1>6. ASSUME NEW t \in Threads, CallStarts(t) \/ GetResource(t) \/ CallEnds(t)
      PROVE  ResetInv'
  BY <1>1, <1>6 DEF CallStarts, GetResource, GetPools, PickPool, BorrowJedis,
                    BorrowThrows, CallEnds
<1> QED  BY <1>2, <1>3, <1>4, <1>5, <1>6, ResetOpen
         DEF Next, Zookeeper, Background

LEMMA OpenInvariant == Spec => []OpenInv
<1>1. Init => OpenInv
  <2>1. Init => ResetInv
    BY DEF Init, ResetInv, Resetters, Range
  <2> QED  BY <2>1, PickInit, InitTypes DEF OpenInv
<1> QED  BY <1>1, OpenNext, PTL DEF Spec

\* If the constructor's resetPools and the listener's do not overlap, a thread
\* that reads the list before close() finds no closed pool in it, however
\* often the proxies change.
THEOREM PublishedOpenHolds == Spec => [](~Overlap => PublishedOpen)
<1>1. OpenInv => (~Overlap => PublishedOpen)
  BY DEF OpenInv, ResetInv, PublishedOpen
<1> QED  BY <1>1, OpenInvariant, PTL

----------------------------------------------------------------------------
(* With one node for each address, the open pools are the listed ones.     *)

OneNodeEach ==
    \A m, n \in Nodes : m # n => AddrsOf[m] \cap AddrsOf[n] = {}

CacheInv ==
    \A n \in Nodes : /\ zk[n] \in {Null, Offline} \cup AddrsOf[n]
                     /\ cache[n] \in {Null, Offline} \cup AddrsOf[n]

Distinct(s) ==
    \A i, j \in DOMAIN s : poolAddr[s[i]] = poolAddr[s[j]] => i = j

\* What is open: the list, or the one that will be, and what is still to be
\* closed.
AccountInv ==
    ~Overlap /\ ~Closed /\ OneNodeEach =>
        /\ (\A r \in Resetters : phase[r] \notin {"publish", "close"}) =>
              open = Range(pools) /\ Distinct(pools)
        /\ \A r \in Resetters :
              /\ phase[r] = "publish" => /\ open = Range(built[r]) \cup doomed[r]
                                         /\ Distinct(built[r])
              /\ phase[r] = "close" => /\ open = Range(pools) \cup doomed[r]
                                       /\ Distinct(pools)

AllInv == OpenInv /\ CacheInv /\ AccountInv

\* No two nodes in the cache have one address.
LEMMA AddressesDiffer ==
    ASSUME CacheInv, OneNodeEach, NEW m \in Online, NEW n \in Online,
           cache[m] = cache[n]
    PROVE  m = n
<1>1. m \in Nodes /\ n \in Nodes /\ cache[m] \in Addrs
  BY DEF Online
<1>2. cache[m] \in AddrsOf[m] /\ cache[n] \in AddrsOf[n]
  BY <1>1, JedisPoolAssumption DEF CacheInv
<1> QED  BY <1>1, <1>2 DEF OneNodeEach

\* A pool of a list without doubles is in the map.
LEMMA MapHasAll ==
    ASSUME NEW S, NEW list \in Seq(S), Distinct(list), NEW i \in DOMAIN list
    PROVE  /\ poolAddr[list[i]] \in DOMAIN Addr2Pool(list)
           /\ Addr2Pool(list)[poolAddr[list[i]]] = list[i]
<1> DEFINE a == poolAddr[list[i]]
<1>1. a \in DOMAIN Addr2Pool(list)
  BY DEF Addr2Pool
<1>2. PICK j \in DOMAIN list : Addr2Pool(list)[a] = list[j] /\ poolAddr[list[j]] = a
  BY <1>1, MapFinds DEF Range
<1> QED  BY <1>1, <1>2 DEF Distinct

\* The new list has the pools of the nodes that are online, and no other.
LEMMA PoolsListed ==
    ASSUME NEW r \in Resetters, NodesCounted(r), ListsBuilt(r)
    PROVE  Range(built'[r]) = {PoolOf(r, n) : n \in Online}
<1> DEFINE w == built'[r]
<1>1. DOMAIN w = 1..Cardinality(Online)
  BY DEF ListsBuilt
<1>2. \A i \in 1..Cardinality(Online) : \E n \in Online :
        Rank(n, Online) = i /\ w[i] = PoolOf(r, n)
  BY DEF ListsBuilt
<1> HIDE DEF w
<1>3. ASSUME NEW n \in Online PROVE PoolOf(r, n) \in Range(w)
  <2>1. Online \in SUBSET Nat /\ IsFiniteSet(Online)
    BY DEF NodesCounted
  <2>2. Rank(n, Online) \in 1..Cardinality(Online)
    BY <2>1, RankBounds
  <2>3. PICK m \in Online : /\ Rank(m, Online) = Rank(n, Online)
                            /\ w[Rank(n, Online)] = PoolOf(r, m)
    BY <1>2, <2>2
  <2>4. m = n
    BY <2>1, <2>3, RanksDiffer
  <2> QED  BY <1>1, <2>2, <2>3, <2>4 DEF Range
<1>4. \A x \in Range(w) : \E n \in Online : x = PoolOf(r, n)
  BY <1>1, <1>2 DEF Range
<1>5. Range(w) = {PoolOf(r, n) : n \in Online}
  BY <1>3, <1>4
<1> QED  BY <1>5 DEF w

\* The pool of a node is one for the node's address.
LEMMA PoolHasAddress ==
    ASSUME PoolTypes, NEW r \in Resetters, BuildList(r),
           Range(was[r]) \subseteq 1..created, NEW n \in Online
    PROVE  poolAddr'[PoolOf(r, n)] = cache[n]
<1>1. NodesCounted(r) /\ ListsBuilt(r) /\ PoolsBuilt(r)
  BY OnlineNodes, BuildsLists, BuildsPools
<1>2. Range(was[r]) \subseteq PoolIds /\ created \in Nat
  BY ShortListRange DEF PoolTypes
<1>3. poolAddr' = [p \in PoolIds |->
        IF \E m \in Fresh(r) : PoolOf(r, m) = p
          THEN cache[CHOOSE m \in Fresh(r) : PoolOf(r, m) = p] ELSE poolAddr[p]]
  BY <1>1 DEF ListsBuilt
<1>4. \A m \in Fresh(r) : /\ PoolOf(r, m) \in (created + 1)..created'
                          /\ PoolOf(r, m) \in PoolIds
  BY <1>1 DEF PoolsBuilt
<1>5. CASE n \in Fresh(r)
  <2> DEFINE c == CHOOSE m \in Fresh(r) : PoolOf(r, m) = PoolOf(r, n)
  <2>1. c \in Fresh(r) /\ PoolOf(r, c) = PoolOf(r, n)
    BY <1>5
  <2>2. c = n
    BY <1>1, <1>5, <2>1 DEF PoolsBuilt
  <2>3. poolAddr'[PoolOf(r, n)] = cache[c]
    BY <1>3, <1>4, <1>5
  <2> QED  BY <2>2, <2>3
<1>6. CASE n \notin Fresh(r)
  <2>1. cache[n] \in DOMAIN Map(r) /\ PoolOf(r, n) = Map(r)[cache[n]]
    BY <1>1, <1>6 DEF PoolsBuilt
  <2>2. PoolOf(r, n) \in Range(was[r]) /\ poolAddr[PoolOf(r, n)] = cache[n]
    BY <1>1, <2>1 DEF PoolsBuilt
  <2>3. PoolOf(r, n) \in 1..created /\ PoolOf(r, n) \in PoolIds
    BY <1>2, <2>2
  <2>4. ASSUME NEW m \in Fresh(r) PROVE PoolOf(r, m) # PoolOf(r, n)
    <3>1. PoolOf(r, m) \in (created + 1)..created'
      BY <1>4
    <3> QED  BY <1>2, <2>3, <3>1
  <2> QED  BY <1>3, <2>2, <2>3, <2>4
<1> QED  BY <1>5, <1>6

LEMMA BuildsAccount ==
    ASSUME PoolTypes, CacheInv, OneNodeEach, NEW r \in Resetters, BuildList(r),
           open = Range(was[r]), Distinct(was[r])
    PROVE  open' = Range(built'[r]) \cup doomed'[r] /\ Distinct(built[r])'
<1>0. NodesCounted(r) /\ ListsBuilt(r) /\ PoolsBuilt(r)
  BY OnlineNodes, BuildsLists, BuildsPools
<1> DEFINE w == built'[r]
<1>1. /\ was[r] \in Seq(PoolIds) /\ Range(was[r]) \subseteq PoolIds
      /\ created \in Nat /\ open \subseteq 1..created
  BY ShortListRange DEF PoolTypes
<1>counted. /\ Online \in SUBSET Nat /\ IsFiniteSet(Online)
            /\ Fresh(r) \subseteq Online /\ Cardinality(Online) \in Nat
  BY <1>0 DEF NodesCounted
<1>addrs.
  poolAddr' = [p \in PoolIds |->
    IF \E n \in Fresh(r) : PoolOf(r, n) = p
      THEN cache[CHOOSE n \in Fresh(r) : PoolOf(r, n) = p] ELSE poolAddr[p]]
  BY <1>0 DEF ListsBuilt
<1>opened. open' = open \cup {PoolOf(r, n) : n \in Fresh(r)}
  BY <1>0 DEF ListsBuilt
<1>removed.
  doomed'[r] = {Map(r)[a] : a \in DOMAIN Map(r) \ {cache[n] : n \in Online}}
  BY <1>0 DEF ListsBuilt
<1>2. DOMAIN w = 1..Cardinality(Online)
  BY <1>0 DEF ListsBuilt
<1>list. \A i \in 1..Cardinality(Online) : \E n \in Online :
           Rank(n, Online) = i /\ w[i] = PoolOf(r, n)
  BY <1>0 DEF ListsBuilt
<1>fresh. \A n \in Fresh(r) : /\ PoolOf(r, n) \in (created + 1)..created'
                              /\ PoolOf(r, n) \in PoolIds
  BY <1>0 DEF PoolsBuilt
<1>oneEach. \A m, n \in Fresh(r) : PoolOf(r, m) = PoolOf(r, n) => m = n
  BY <1>0 DEF PoolsBuilt
<1>kept. \A n \in Online \ Fresh(r) : /\ cache[n] \in DOMAIN Map(r)
                                      /\ PoolOf(r, n) = Map(r)[cache[n]]
  BY <1>0 DEF PoolsBuilt
<1>map. \A a \in DOMAIN Map(r) : /\ Map(r)[a] \in Range(was[r])
                                 /\ poolAddr[Map(r)[a]] = a
  BY <1>0 DEF PoolsBuilt
<1> HIDE DEF w
<1>3. \A n \in Fresh(r) : cache[n] \notin DOMAIN Map(r)
  <2>1. ASSUME NEW n \in Fresh(r) PROVE \A m \in Online : m < n => cache[m] # cache[n]
    <3>1. n \in Online /\ \A m \in Online : m < n => m # n
      BY <1>counted
    <3> QED  BY <3>1, AddressesDiffer
  <2> QED  BY <2>1 DEF Fresh, Reuses
<1>4. \A n \in Online : PoolOf(r, n) \in Range(w)
  BY <1>0, PoolsListed DEF w
<1>5. \A x \in Range(w) : \E n \in Online : x = PoolOf(r, n)
  BY <1>0, PoolsListed DEF w
<1>6. \A x \in Range(was[r]) : \E a \in DOMAIN Map(r) : x = Map(r)[a]
  <2>1. ASSUME NEW i \in DOMAIN was[r]
        PROVE  \E a \in DOMAIN Map(r) : was[r][i] = Map(r)[a]
    BY <1>1, MapHasAll DEF Map
  <2> QED  BY <2>1 DEF Range
<1>7. open' \subseteq Range(w) \cup doomed'[r]
  <2>1. ASSUME NEW x \in Range(was[r]) PROVE x \in Range(w) \cup doomed'[r]
    <3>1. PICK a \in DOMAIN Map(r) : x = Map(r)[a]
      BY <1>6
    <3>2. CASE a \in {cache[n] : n \in Online}
      <4>1. PICK n \in Online : a = cache[n]
        BY <3>2
      <4>2. n \notin Fresh(r)
        BY <1>3, <3>1, <4>1
      <4>3. PoolOf(r, n) = x
        BY <1>kept, <3>1, <4>1, <4>2
      <4> QED  BY <1>4, <4>3
    <3>3. CASE a \notin {cache[n] : n \in Online}
      BY <1>removed, <3>1, <3>3
    <3> QED  BY <3>2, <3>3
  <2>2. \A n \in Fresh(r) : PoolOf(r, n) \in Range(w)
    BY <1>counted, <1>4
  <2> QED  BY <1>opened, <2>1, <2>2
<1>8. Range(w) \cup doomed'[r] \subseteq open'
  <2>1. ASSUME NEW n \in Online PROVE PoolOf(r, n) \in open'
    <3>1. CASE n \in Fresh(r)
      BY <1>opened, <3>1
    <3>2. CASE n \notin Fresh(r)
      <4>1. cache[n] \in DOMAIN Map(r) /\ PoolOf(r, n) = Map(r)[cache[n]]
        BY <1>kept, <3>2
      <4> QED  BY <1>map, <1>opened, <4>1
    <3> QED  BY <3>1, <3>2
  <2>2. doomed'[r] \subseteq Range(was[r])
    BY <1>removed, <1>map
  <2> QED  BY <1>5, <1>opened, <2>1, <2>2
<1>9. ASSUME NEW n \in Online PROVE poolAddr'[PoolOf(r, n)] = cache[n]
  BY <1>1, PoolHasAddress
<1>10. ASSUME NEW i \in DOMAIN w, NEW j \in DOMAIN w,
              poolAddr'[w[i]] = poolAddr'[w[j]]
       PROVE  i = j
  <2>1. PICK m \in Online : Rank(m, Online) = i /\ w[i] = PoolOf(r, m)
    BY <1>2, <1>list
  <2>2. PICK n \in Online : Rank(n, Online) = j /\ w[j] = PoolOf(r, n)
    BY <1>2, <1>list
  <2>3. cache[m] = cache[n]
    BY <1>9, <1>10, <2>1, <2>2
  <2>4. m = n
    BY <2>3, AddressesDiffer
  <2> QED  BY <2>1, <2>2, <2>4
<1>11. Distinct(built[r])'
  BY <1>10 DEF Distinct, w
<1> QED  BY <1>7, <1>8, <1>11 DEF w

LEMMA ResetAccount ==
    ASSUME AllInv, NEW r \in Resetters, ResetPools(r)
    PROVE  AccountInv'
<1> USE DEF GoTo, poolVars
<1>1. phase[r] \in {"reset", "build", "publish", "close"}
      /\ phase'[r] \notin {"clear", "closing", "closed"}
  BY DEF ResetPools, ReadPools, BuildList, PublishPools, CloseRemoved, ResetDone,
         AllInv, OpenInv, PoolTypes
<1>2. \A q \in Resetters \ {r} : phase'[q] = phase[q]
  BY DEF ResetPools, ReadPools, BuildList, PublishPools, CloseRemoved, ResetDone,
         AllInv, OpenInv, PoolTypes
<1>3. Closed' <=> Closed
  BY <1>1, <1>2 DEF Closed, Resetters
<1> SUFFICES ASSUME ~Overlap, ~Closed, OneNodeEach PROVE AccountInv'
  BY <1>3 DEF AccountInv, OneNodeEach
<1>4. \A q \in Resetters : q # r => phase[q] \in {"idle", "up"}
                                    /\ phase'[q] \in {"idle", "up"}
  BY <1>1, <1>2, OneResets DEF AllInv
<1>5. ASSUME phase'[r] \notin {"publish", "close"} =>
               open' = Range(pools') /\ Distinct(pools)',
             phase'[r] = "publish" =>
               open' = Range(built'[r]) \cup doomed'[r] /\ Distinct(built[r])',
             phase'[r] = "close" =>
               open' = Range(pools') \cup doomed'[r] /\ Distinct(pools)'
      PROVE  AccountInv'
  <2>1. \A q \in Resetters : phase'[q] \in {"publish", "close"} => q = r
    BY <1>4
  <2> QED  BY <1>5, <2>1 DEF AccountInv
<1>6. phase[r] \notin {"publish", "close"} => open = Range(pools) /\ Distinct(pools)
  BY <1>4 DEF AllInv, AccountInv
<1>7. CASE ReadPools(r)
  <2>1. /\ phase[r] = "reset" /\ phase'[r] = "build"
        /\ UNCHANGED <<pools, open, poolAddr>>
    BY <1>7 DEF ReadPools, AllInv, OpenInv, PoolTypes
  <2> QED  BY <1>5, <1>6, <2>1 DEF Distinct
<1>8. CASE BuildList(r)
  <2>1. phase[r] = "build" /\ phase'[r] = "publish"
    BY <1>8 DEF BuildList, AllInv, OpenInv, PoolTypes
  <2>2. was[r] = pools
    BY <2>1 DEF AllInv, OpenInv, ResetInv
  <2>3. open' = Range(built'[r]) \cup doomed'[r] /\ Distinct(built[r])'
    BY <1>6, <1>8, <2>1, <2>2, BuildsAccount DEF AllInv, OpenInv
  <2> QED  BY <1>5, <2>1, <2>3
<1>9. CASE PublishPools(r)
  <2>1. /\ phase[r] = "publish" /\ phase'[r] = "close" /\ pools' = built[r]
        /\ UNCHANGED <<open, doomed, poolAddr>>
    BY <1>9 DEF PublishPools, AllInv, OpenInv, PoolTypes
  <2>2. open = Range(built[r]) \cup doomed[r] /\ Distinct(built[r])
    BY <2>1 DEF AllInv, AccountInv
  <2> QED  BY <1>5, <2>1, <2>2 DEF Distinct
<1>10. CASE CloseRemoved(r)
  <2>1. PICK p \in doomed[r] :
          open' = open \ {p} /\ doomed' = [doomed EXCEPT ![r] = @ \ {p}]
    BY <1>10 DEF CloseRemoved
  <2>2. /\ phase[r] = "close" /\ phase'[r] = "close"
        /\ doomed'[r] = doomed[r] \ {p} /\ UNCHANGED <<pools, poolAddr>>
    BY <1>10, <2>1 DEF CloseRemoved, AllInv, OpenInv, PoolTypes
  <2>3. /\ Range(pools) \cap doomed[r] = {} /\ Distinct(pools)
        /\ open = Range(pools) \cup doomed[r]
    BY <2>2 DEF AllInv, OpenInv, ResetInv, AccountInv
  <2>4. open' = Range(pools) \cup doomed'[r]
    BY <2>1, <2>2, <2>3
  <2> QED  BY <1>5, <2>2, <2>3, <2>4 DEF Distinct
<1>11. CASE ResetDone(r)
  <2>1. /\ phase[r] = "close" /\ doomed[r] = {} /\ phase'[r] \in {"up", "idle"}
        /\ UNCHANGED <<pools, open, poolAddr>>
    BY <1>11 DEF ResetDone, AllInv, OpenInv, PoolTypes
  <2>2. open = Range(pools) /\ Distinct(pools)
    BY <2>1 DEF AllInv, AccountInv
  <2> QED  BY <1>5, <2>1, <2>2 DEF Distinct
<1> QED  BY <1>7, <1>8, <1>9, <1>10, <1>11 DEF ResetPools

LEMMA CacheNext == CacheInv /\ PoolTypes /\ [Next]_vars => CacheInv'
<1> SUFFICES ASSUME CacheInv, PoolTypes, [Next]_vars PROVE CacheInv'
  OBVIOUS
<1> USE DEF zkVars
<1>1. ASSUME UNCHANGED <<zk, cache>> PROVE CacheInv'
  BY <1>1 DEF CacheInv
<1>2. ASSUME NEW n \in Nodes, Change(n) PROVE CacheInv'
  <2>1. PICK d \in {Null, Offline} \cup AddrsOf[n] : zk' = [zk EXCEPT ![n] = d]
    BY <1>2 DEF Change
  <2> QED  BY <1>2, <2>1 DEF Change, CacheInv, PoolTypes
<1>3. ASSUME NEW n \in Nodes, Refresh(n) PROVE CacheInv'
  BY <1>3 DEF Refresh, CacheInv, PoolTypes
<1>4. ASSUME NEW r \in Resetters, ResetPools(r) PROVE CacheInv'
  BY <1>1, <1>4 DEF ResetPools, ReadPools, BuildList, PublishPools, CloseRemoved,
                    ResetDone
<1>5. CASE ChildEvent \/ Close
  BY <1>1, <1>5 DEF ChildEvent, Close, CloseWatcher, ClearPools, CloseAll
<1>6. ASSUME NEW t \in Threads, CallStarts(t) \/ GetResource(t) \/ CallEnds(t)
      PROVE  CacheInv'
  BY <1>1, <1>6 DEF CallStarts, GetResource, GetPools, PickPool, BorrowJedis,
                    BorrowThrows, CallEnds
<1>7. CASE UNCHANGED vars
  BY <1>1, <1>7 DEF vars
<1> QED  BY <1>2, <1>3, <1>4, <1>5, <1>6, <1>7 DEF Next, Zookeeper, Background

LEMMA AllNext == AllInv /\ [Next]_vars => AllInv'
<1> SUFFICES ASSUME AllInv, [Next]_vars PROVE AccountInv'
  BY OpenNext, CacheNext DEF AllInv, OpenInv
<1> USE DEF GoTo, resetVars, poolVars
<1>1. ASSUME UNCHANGED <<pools, resetVars, poolVars>>
      PROVE  AccountInv'
  BY <1>1 DEF AllInv, AccountInv, Closed, Distinct, OneNodeEach
<1>2. CASE UNCHANGED vars
  BY <1>1, <1>2 DEF vars
<1>3. ASSUME NEW n \in Nodes, Change(n) \/ Refresh(n) PROVE AccountInv'
  BY <1>1, <1>3 DEF Change, Refresh
<1>4. CASE ChildEvent
  <2>1. /\ phase' = [phase EXCEPT !["listener"] = "reset"]
        /\ phase["listener"] = "idle"
        /\ UNCHANGED <<pools, built, doomed, open, poolAddr>>
    BY <1>4 DEF ChildEvent
  <2>2. phase \in [Resetters -> {"idle", "reset", "build", "publish", "close",
                                 "ended", "up", "clear", "closing", "closed"}]
    BY DEF AllInv, OpenInv, PoolTypes
  <2>3. /\ \A r \in Resetters : \A p \in {"publish", "close"} :
              phase'[r] = p <=> phase[r] = p
        /\ Closed' <=> Closed
    BY <2>1, <2>2 DEF Closed, Resetters
  <2> QED  BY <2>1, <2>3 DEF AllInv, AccountInv, Distinct, OneNodeEach
<1>5. CASE Close
  <2>1. Closed'
    BY <1>5 DEF Close, CloseWatcher, ClearPools, CloseAll, Closed, AllInv, OpenInv,
                PoolTypes, Resetters
  <2> QED  BY <2>1 DEF AccountInv
<1>6. ASSUME NEW t \in Threads, CallStarts(t) \/ GetResource(t) \/ CallEnds(t)
      PROVE  AccountInv'
  BY <1>1, <1>6 DEF CallStarts, GetResource, GetPools, PickPool, BorrowJedis,
                    BorrowThrows, CallEnds
<1> QED  BY <1>2, <1>3, <1>4, <1>5, <1>6, ResetAccount
         DEF Next, Zookeeper, Background

LEMMA AllInit == Init => AllInv
<1> SUFFICES ASSUME Init PROVE AllInv
  OBVIOUS
<1>1. OpenInv
  <2>1. ResetInv
    BY DEF Init, ResetInv, Resetters, Range
  <2> QED  BY <2>1, PickInit, InitTypes DEF OpenInv
<1>2. CacheInv
  BY DEF Init, CacheInv
<1>3. AccountInv
  BY DEF Init, AccountInv, Resetters, Range, Distinct
<1> QED  BY <1>1, <1>2, <1>3 DEF AllInv

\* Between resets that do not overlap, the open JedisPools are exactly the
\* listed ones, one for each proxy: none is leaked by a change, and none opened
\* twice, however often the proxies come, go and change.
THEOREM PoolsAccountedHolds ==
    Spec => [](~Overlap /\ OneNodeEach => PoolsAccounted)
<1>1. AllInv => (~Overlap /\ OneNodeEach => PoolsAccounted)
  BY DEF AllInv, AccountInv, PoolsAccounted, Resetting, Distinct
<1> QED  BY <1>1, AllInit, AllNext, PTL DEF Spec

\* What close() has still to close, when it has found no reset running.
ClosedInv ==
    ~Overlap /\ OneNodeEach /\ Closed /\ phase["listener"] = "idle" =>
        /\ open = doomed["main"]
        /\ phase["main"] \in {"closing", "closed"} => pools = << >>
        /\ phase["main"] = "closed" => open = {}

LEMMA ClosedNext == AllInv /\ ClosedInv /\ [Next]_vars => ClosedInv'
<1> SUFFICES ASSUME AllInv, ClosedInv, [Next]_vars,
                    ~Overlap, OneNodeEach, Closed', phase'["listener"] = "idle"
             PROVE  /\ open' = doomed'["main"]
                    /\ phase'["main"] \in {"closing", "closed"} => pools' = << >>
                    /\ phase'["main"] = "closed" => open' = {}
  BY DEF ClosedInv, OneNodeEach
<1> USE DEF GoTo, resetVars, poolVars
<1>1. phase \in [Resetters -> {"idle", "reset", "build", "publish", "close",
                               "ended", "up", "clear", "closing", "closed"}]
      /\ doomed \in [Resetters -> SUBSET PoolIds]
  BY DEF AllInv, OpenInv, PoolTypes
<1>2. ASSUME UNCHANGED <<pools, phase, doomed, open>>
      PROVE  /\ open' = doomed'["main"]
             /\ phase'["main"] \in {"closing", "closed"} => pools' = << >>
             /\ phase'["main"] = "closed" => open' = {}
  BY <1>2 DEF ClosedInv, Closed
<1>3. ASSUME NEW r \in Resetters, ResetPools(r) PROVE FALSE
  <2>1. /\ phase[r] \in {"reset", "build", "publish", "close"}
        /\ phase'[r] \notin {"clear", "closing", "closed"}
        /\ \A q \in Resetters \ {r} : phase'[q] = phase[q]
    BY <1>1, <1>3 DEF ResetPools, ReadPools, BuildList, PublishPools,
                      CloseRemoved, ResetDone
  <2>2. r = "listener" /\ Closed
    BY <2>1 DEF Closed, Resetters
  <2>3. phase'[r] # "idle"
    BY <1>1, <1>3, <2>2 DEF ResetPools, ReadPools, BuildList, PublishPools,
                            CloseRemoved, ResetDone
  <2> QED  BY <2>2, <2>3
<1>4. ~ChildEvent
  BY <1>1 DEF ChildEvent, Resetters
<1>5. CASE CloseWatcher
  <2>1. /\ phase["main"] = "up" /\ phase'["main"] = "clear"
        /\ phase["listener"] = "idle"
        /\ doomed'["main"] = Range(pools) /\ UNCHANGED <<open, pools>>
    BY <1>1, <1>5 DEF CloseWatcher, Resetters
  <2>2. open = Range(pools)
    BY <2>1 DEF AllInv, AccountInv, Closed, Resetters
  <2> QED  BY <2>1, <2>2
<1>6. CASE ClearPools
  <2>1. /\ phase["main"] = "clear" /\ phase'["main"] = "closing"
        /\ phase["listener"] = "idle"
        /\ pools' = << >> /\ UNCHANGED <<open, doomed>>
    BY <1>1, <1>6 DEF ClearPools, Resetters
  <2> QED  BY <2>1 DEF ClosedInv, Closed
<1>7. CASE CloseAll
  <2>1. /\ phase["main"] = "closing" /\ phase["listener"] = "idle"
        /\ open' = open \ doomed["main"] /\ doomed'["main"] = {}
        /\ UNCHANGED pools
    BY <1>1, <1>7 DEF CloseAll, Resetters
  <2> QED  BY <2>1 DEF ClosedInv, Closed
<1>8. ASSUME NEW n \in Nodes, Change(n) \/ Refresh(n)
      PROVE  UNCHANGED <<pools, phase, doomed, open>>
  BY <1>8 DEF Change, Refresh
<1>9. ASSUME NEW t \in Threads, CallStarts(t) \/ GetResource(t) \/ CallEnds(t)
      PROVE  UNCHANGED <<pools, phase, doomed, open>>
  BY <1>9 DEF CallStarts, GetResource, GetPools, PickPool, BorrowJedis,
              BorrowThrows, CallEnds
<1>10. CASE UNCHANGED vars
  BY <1>2, <1>10 DEF vars
<1> QED  BY <1>2, <1>3, <1>4, <1>5, <1>6, <1>7, <1>8, <1>9, <1>10
         DEF Next, Zookeeper, Background, Close

\* The safety half of CloseIsComplete.
ClosedIsEmpty ==
    phase["main"] = "closed" /\ phase["listener"] = "idle" =>
        open = {} /\ pools = << >>

\* When close() has returned, no JedisPool is open and the list is empty, for
\* good: whatever proxies there were and whoever still calls, unless a reset
\* was running that publishes its own list afterwards.
THEOREM ClosedIsEmptyHolds ==
    Spec => [](~Overlap /\ OneNodeEach => ClosedIsEmpty)
<1>1. Init => ClosedInv
  BY DEF Init, ClosedInv, Closed, Resetters
<1>2. ClosedInv => (~Overlap /\ OneNodeEach => ClosedIsEmpty)
  BY DEF ClosedInv, ClosedIsEmpty, Closed
<1> QED  BY <1>1, <1>2, AllInit, AllNext, ClosedNext, PTL DEF Spec

----------------------------------------------------------------------------
(* What the list has when the listener has caught up.                      *)

Listed(list) == {poolAddr[p] : p \in Range(list)}
OnlineAddrs == {cache[n] : n \in Online}

\* While no event waits: the list that is published, or will be, has the
\* addresses of the cache, unless a reset has still to look at the cache.
CurrentInv ==
    ~Overlap /\ ~Closed /\ events = 0 =>
        /\ (\A r \in Resetters : phase[r] \notin {"reset", "build", "publish"})
              => Listed(pools) = OnlineAddrs
        /\ \A r \in Resetters :
              phase[r] = "publish" => Listed(built[r]) = OnlineAddrs

LEMMA BuildsCurrent ==
    ASSUME PoolTypes, NEW r \in Resetters, BuildList(r),
           Range(was[r]) \subseteq open
    PROVE  Listed(built[r])' = OnlineAddrs'
<1>1. Range(was[r]) \subseteq 1..created
  BY DEF PoolTypes
<1>2. Range(built'[r]) = {PoolOf(r, n) : n \in Online}
  BY OnlineNodes, BuildsLists, PoolsListed
<1>3. \A n \in Online : poolAddr'[PoolOf(r, n)] = cache[n]
  BY <1>1, PoolHasAddress
<1>4. {poolAddr'[p] : p \in Range(built'[r])} = {cache[n] : n \in Online}
  BY <1>2, <1>3
<1>5. OnlineAddrs' = {cache[n] : n \in Online}
  BY DEF BuildList, zkVars, OnlineAddrs, Online
<1> QED  BY <1>4, <1>5 DEF Listed

LEMMA ResetCurrent ==
    ASSUME OpenInv, CurrentInv, NEW r \in Resetters, ResetPools(r)
    PROVE  CurrentInv'
<1> USE DEF GoTo, poolVars, zkVars
<1>1. /\ phase[r] \in {"reset", "build", "publish", "close"}
      /\ phase'[r] \notin {"clear", "closing", "closed"}
      /\ \A q \in Resetters \ {r} : phase'[q] = phase[q]
      /\ UNCHANGED <<cache, events>>
  BY DEF ResetPools, ReadPools, BuildList, PublishPools, CloseRemoved, ResetDone,
         OpenInv, PoolTypes
<1>2. Closed' <=> Closed
  BY <1>1 DEF Closed, Resetters
<1> SUFFICES ASSUME ~Overlap, ~Closed, events = 0 PROVE CurrentInv'
  BY <1>1, <1>2 DEF CurrentInv
<1>3. \A q \in Resetters : q # r => /\ phase[q] \in {"idle", "up"}
                                    /\ phase'[q] \in {"idle", "up"}
  BY <1>1, OneResets
<1>4. OnlineAddrs' = OnlineAddrs
  BY <1>1 DEF OnlineAddrs, Online
<1>5. ASSUME phase'[r] \notin {"reset", "build", "publish"} =>
               Listed(pools)' = OnlineAddrs',
             phase'[r] = "publish" => Listed(built[r])' = OnlineAddrs'
      PROVE  CurrentInv'
  <2>1. \A q \in Resetters : phase'[q] = "publish" => q = r
    BY <1>3
  <2>2. ASSUME NEW q \in Resetters, phase'[q] = "publish"
        PROVE  Listed(built[q])' = OnlineAddrs'
    BY <1>5, <2>1, <2>2
  <2> QED  BY <1>5, <2>2 DEF CurrentInv
<1>6. CASE ReadPools(r)
  <2>1. phase'[r] = "build"
    BY <1>6 DEF ReadPools, OpenInv, PoolTypes
  <2> QED  BY <1>5, <2>1
<1>7. CASE BuildList(r)
  <2>1. phase[r] = "build" /\ phase'[r] = "publish"
    BY <1>7 DEF BuildList, OpenInv, PoolTypes
  <2>2. Range(was[r]) \subseteq open
    BY <2>1 DEF OpenInv, ResetInv
  <2>3. Listed(built[r])' = OnlineAddrs'
    BY <1>7, <2>2, BuildsCurrent DEF OpenInv
  <2> QED  BY <1>5, <2>1, <2>3
<1>8. CASE PublishPools(r)
  <2>1. /\ phase[r] = "publish" /\ phase'[r] = "close" /\ pools' = built[r]
        /\ poolAddr' = poolAddr
    BY <1>8 DEF PublishPools, OpenInv, PoolTypes
  <2>2. Listed(built[r]) = OnlineAddrs
    BY <2>1 DEF CurrentInv
  <2> QED  BY <1>4, <1>5, <2>1, <2>2 DEF Listed
<1>9. CASE CloseRemoved(r) \/ ResetDone(r)
  <2>1. /\ phase[r] = "close" /\ phase'[r] \in {"close", "up", "idle"}
        /\ UNCHANGED <<pools, poolAddr>>
    BY <1>9 DEF CloseRemoved, ResetDone, OpenInv, PoolTypes
  <2>2. Listed(pools) = OnlineAddrs
    <3>1. \A q \in Resetters : phase[q] \notin {"reset", "build", "publish"}
      BY <1>3, <2>1
    <3> QED  BY <3>1 DEF CurrentInv
  <2> QED  BY <1>4, <1>5, <2>1, <2>2 DEF Listed
<1> QED  BY <1>6, <1>7, <1>8, <1>9 DEF ResetPools

LEMMA CurrentNext == OpenInv /\ CurrentInv /\ [Next]_vars => CurrentInv'
<1> SUFFICES ASSUME OpenInv, CurrentInv, [Next]_vars PROVE CurrentInv'
  OBVIOUS
<1> USE DEF GoTo, resetVars, poolVars, zkVars
<1>1. ASSUME UNCHANGED <<pools, resetVars, poolVars, cache, events>>
      PROVE  CurrentInv'
  BY <1>1 DEF CurrentInv, Closed, Listed, OnlineAddrs, Online
<1>2. CASE UNCHANGED vars
  BY <1>1, <1>2 DEF vars
<1>3. ASSUME NEW n \in Nodes, Change(n) PROVE CurrentInv'
  BY <1>1, <1>3 DEF Change
<1>4. ASSUME NEW n \in Nodes, Refresh(n) PROVE CurrentInv'
  <2>1. events' # 0
    BY <1>4 DEF Refresh, OpenInv, PoolTypes
  <2> QED  BY <2>1 DEF CurrentInv
<1>5. CASE ChildEvent
  <2>1. /\ phase'["listener"] = "reset" /\ phase'["main"] = phase["main"]
        /\ Overlap \/ phase["main"] # "publish"
    BY <1>5 DEF ChildEvent, OpenInv, PoolTypes, Resetters
  <2> QED  BY <2>1 DEF CurrentInv, Resetters
<1>6. CASE Close
  <2>1. Closed'
    BY <1>6 DEF Close, CloseWatcher, ClearPools, CloseAll, Closed, OpenInv,
                PoolTypes, Resetters
  <2> QED  BY <2>1 DEF CurrentInv
<1>7. ASSUME NEW t \in Threads, CallStarts(t) \/ GetResource(t) \/ CallEnds(t)
      PROVE  CurrentInv'
  BY <1>1, <1>7 DEF CallStarts, GetResource, GetPools, PickPool, BorrowJedis,
                    BorrowThrows, CallEnds
<1> QED  BY <1>2, <1>3, <1>4, <1>5, <1>6, <1>7, ResetCurrent
         DEF Next, Zookeeper, Background

\* The safety half of DetectsProxies: when the cache agrees with ZooKeeper, its
\* events have been taken and no reset is running, the list has the proxies
\* that are online, and only those.
ListIsCurrent ==
    events = 0 /\ cache = zk /\ ~Resetting /\ ~Closed =>
        {poolAddr[p] : p \in Range(pools)} = {zk[n] : n \in Nodes} \cap Addrs

\* resetPools loses no change: whenever it has nothing left to do, the list is
\* right, however often the proxies came, went and changed while it ran.
THEOREM ListIsCurrentHolds == Spec => [](~Overlap => ListIsCurrent)
<1>1. Init => CurrentInv
  BY DEF Init, CurrentInv, Resetters
<1>2. OpenInv /\ CurrentInv => (~Overlap => ListIsCurrent)
  <2> SUFFICES ASSUME CurrentInv, ~Overlap, events = 0, cache = zk,
                      ~Resetting, ~Closed
               PROVE  {poolAddr[p] : p \in Range(pools)}
                        = {zk[n] : n \in Nodes} \cap Addrs
    BY DEF ListIsCurrent
  <2>1. Listed(pools) = OnlineAddrs
    BY DEF CurrentInv, Resetting
  <2>2. OnlineAddrs = {zk[n] : n \in Nodes} \cap Addrs
    BY DEF OnlineAddrs, Online
  <2> QED  BY <2>1, <2>2 DEF Listed
<1> QED  BY <1>1, <1>2, CurrentNext, OpenInvariant, PTL DEF Spec
=============================================================================
