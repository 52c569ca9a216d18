------------------------ MODULE RoundRobinJedisPool ------------------------
(***************************************************************************)
(* The Java pool: RoundRobinJedisPool.java.  A volatile, immutable list of *)
(* JedisPools is rebuilt from the PathChildrenCache by resetPools, which   *)
(* the constructor's thread calls once and the cache's listener calls for  *)
(* every change of a child; nothing excludes the two calls.  getResource   *)
(* works on the list it read and moves nextIdx by compare-and-set.         *)
(*                                                                         *)
(* External: ZooKeeper, Curator's cache (a copy of the children that       *)
(* follows them node by node and queues one event per change for a single  *)
(* listener thread), and JedisPool (at most MaxTotal instances out at a    *)
(* time; a closed pool only throws).                                       *)
(***************************************************************************)
EXTENDS Integers, Sequences, FiniteSets, Functions

CONSTANTS
    Nodes,       \* children of zkPath; the cache lists them in order
    AddrsOf,     \* the addresses each of them may advertise
    Threads,     \* application threads
    Null,        \* no node; no pool
    Offline,     \* a node whose data is not that of an online proxy
    MaxChanges,  \* bound on the changes of children
    MaxPools,    \* bound on the JedisPools created
    MaxTotal,    \* JedisPoolConfig.maxTotal
    Overlap      \* may the constructor's resetPools overlap a listener's?

Addrs == UNION {AddrsOf[n] : n \in Nodes}
PoolIds == 1..MaxPools

ASSUME JedisPoolAssumption ==
    /\ IsFiniteSet(Nodes) /\ Nodes \subseteq Nat
    /\ DOMAIN AddrsOf = Nodes
    /\ {Null, Offline} \cap Addrs = {} /\ Null # Offline
    /\ MaxChanges \in Nat /\ MaxPools \in Nat /\ MaxTotal \in Nat \ {0}
    /\ Overlap \in BOOLEAN

VARIABLES
    \* ZooKeeper and Curator
    zk, changes,  \* the children's data, and how often they changed
    cache,        \* watcher.getCurrentData()
    events,       \* events waiting for the listener
    \* RoundRobinJedisPool
    pools,        \* the list, of pool ids
    nextIdx,      \* nextIdx
    \* resetPools in "main" (the constructor) and "listener"; close in "main"
    phase, was, built, doomed,
    \* JedisPool objects, by id
    created,      \* how many there are
    poolAddr,     \* PooledObject.addr of each
    open,         \* those that are not closed
    borrowed,     \* instances out of each
    \* threads in getResource
    pc, snap, idx,
    \* history: the list of the last pick, and its indices picked this round
    round

zkVars == <<zk, changes, cache, events>>
resetVars == <<phase, was, built, doomed>>
poolVars == <<created, poolAddr, open>>
userVars == <<pc, snap, idx>>
vars == <<zkVars, pools, nextIdx, resetVars, poolVars, borrowed, userVars,
          round>>

Resetters == {"main", "listener"}

Init ==
    /\ zk \in [Nodes -> {Null, Offline} \cup Addrs]
    /\ \A n \in Nodes : zk[n] \in {Null, Offline} \cup AddrsOf[n]
    /\ changes = 0
    /\ cache = zk  \* StartMode.BUILD_INITIAL_CACHE
    /\ events = 0
    /\ pools = << >> /\ nextIdx = -1
    /\ phase = [r \in Resetters |-> IF r = "main" THEN "reset" ELSE "idle"]
    /\ was = [r \in Resetters |-> << >>]
    /\ built = [r \in Resetters |-> << >>]
    /\ doomed = [r \in Resetters |-> {}]
    /\ created = 0
    /\ poolAddr = [p \in PoolIds |-> Null]
    /\ open = {}
    /\ borrowed = [p \in PoolIds |-> 0]
    /\ pc = [t \in Threads |-> "idle"]
    /\ snap = [t \in Threads |-> << >>]
    /\ idx = [t \in Threads |-> -1]
    /\ round = [list |-> << >>, seen |-> {}]

GoTo(r, p) == phase' = [phase EXCEPT ![r] = p]
Closed == phase["main"] \in {"clear", "closing", "closed"}
----------------------------------------------------------------------------
(* ZooKeeper and the cache (external).                                     *)

Change(n) ==
    /\ changes < MaxChanges
    /\ changes' = changes + 1
    /\ \E d \in ({Null, Offline} \cup AddrsOf[n]) \ {zk[n]} :
          zk' = [zk EXCEPT ![n] = d]
    /\ UNCHANGED <<cache, events, pools, nextIdx, resetVars, poolVars,
                   borrowed, userVars, round>>

\* Mutant: CHILD_UPDATED is not one of RESET_TYPES.
RefreshNoUpdate(n) ==
    /\ ~Closed
    /\ cache[n] # zk[n]
    /\ cache' = [cache EXCEPT ![n] = zk[n]]
    /\ events' = IF Null \in {cache[n], zk[n]} THEN events + 1 ELSE events
    /\ UNCHANGED <<zk, changes, pools, nextIdx, resetVars, poolVars, borrowed,
                   userVars, round>>

\* CHILD_ADDED, CHILD_UPDATED or CHILD_REMOVED: all three are RESET_TYPES.
Refresh(n) ==
    /\ ~Closed
    /\ cache[n] # zk[n]
    /\ cache' = [cache EXCEPT ![n] = zk[n]]
    /\ events' = events + 1
    /\ UNCHANGED <<zk, changes, pools, nextIdx, resetVars, poolVars, borrowed,
                   userVars, round>>
----------------------------------------------------------------------------
(* resetPools                                                              *)

\* childEvent
ChildEvent ==
    /\ phase["listener"] = "idle"
    /\ events > 0
    /\ Overlap \/ phase["main"] \notin {"reset", "build", "publish", "close"}
    /\ events' = events - 1
    /\ GoTo("listener", "reset")
    /\ UNCHANGED <<zk, changes, cache, pools, nextIdx, was, built, doomed,
                   poolVars, borrowed, userVars, round>>

\* ImmutableList<PooledObject> pools = this.pools
ReadPools(r) ==
    /\ phase[r] = "reset"
    /\ was' = [was EXCEPT ![r] = pools]
    /\ GoTo(r, "build")
    /\ UNCHANGED <<zkVars, pools, nextIdx, built, doomed, poolVars, borrowed,
                   userVars, round>>

Online == {n \in Nodes : cache[n] \in Addrs}

\* Mutant: the loop over the old list is missing.
Addr2PoolEmpty(list) == [a \in {} |-> list[1]]

\* addr2Pool after the first loop: for an address listed twice, the later
\* entry replaces the earlier one.
Addr2Pool(list) ==
    [a \in {poolAddr[list[i]] : i \in DOMAIN list} |->
       list[CHOOSE i \in DOMAIN list :
              /\ poolAddr[list[i]] = a
              /\ \A j \in DOMAIN list : poolAddr[list[j]] = a => j <= i]]

\* remove() finds the pool for the first node with the address only.
Reuses(n, map) == /\ cache[n] \in DOMAIN map
                  /\ \A m \in Online : m < n => cache[m] # cache[n]

\* The position of n in a sorted set.
Rank(n, S) == Cardinality({m \in S : m <= n})

\* The second loop over one copy of the cache.
BuildList(r) ==
    LET map == Addr2Pool(was[r])
        fresh == {n \in Online : ~Reuses(n, map)}
        poolOf == [n \in Online |-> IF n \in fresh THEN created + Rank(n, fresh)
                                                   ELSE map[cache[n]]]
    IN  /\ phase[r] = "build"
        /\ created + Cardinality(fresh) <= MaxPools
        /\ created' = created + Cardinality(fresh)
        /\ poolAddr' = [p \in PoolIds |->
              IF \E n \in fresh : poolOf[n] = p
                THEN cache[CHOOSE n \in fresh : poolOf[n] = p] ELSE poolAddr[p]]
        /\ open' = open \cup {poolOf[n] : n \in fresh}
        /\ built' = [built EXCEPT ![r] =
              [i \in 1..Cardinality(Online) |->
                 poolOf[CHOOSE n \in Online : Rank(n, Online) = i]]]
        /\ doomed' = [doomed EXCEPT ![r] =
              {map[a] : a \in DOMAIN map \ {cache[n] : n \in Online}}]
        /\ GoTo(r, "publish")
        /\ UNCHANGED <<zkVars, pools, nextIdx, was, borrowed, userVars, round>>

\* Mutant: the index starts again with a new list.
PublishPoolsRestarts(r) ==
    /\ phase[r] = "publish"
    /\ pools' = built[r]
    /\ nextIdx' = -1
    /\ GoTo(r, "close")
    /\ UNCHANGED <<zkVars, was, built, doomed, poolVars, borrowed, userVars,
                   round>>

\* this.pools = builder.build()
PublishPools(r) ==
    /\ phase[r] = "publish"
    /\ pools' = built[r]
    /\ GoTo(r, "close")
    /\ UNCHANGED <<zkVars, nextIdx, was, built, doomed, poolVars, borrowed,
                   userVars, round>>

\* Mutant: closes what was removed before the new list is published.
CloseRemovedEarly(r) ==
    /\ phase[r] \in {"publish", "close"}
    /\ \E p \in doomed[r] :
          /\ open' = open \ {p}
          /\ doomed' = [doomed EXCEPT ![r] = @ \ {p}]
    /\ UNCHANGED <<zkVars, pools, nextIdx, phase, was, built, created,
                   poolAddr, borrowed, userVars, round>>

CloseRemoved(r) ==
    /\ phase[r] = "close"
    /\ \E p \in doomed[r] :
          /\ open' = open \ {p}
          /\ doomed' = [doomed EXCEPT ![r] = @ \ {p}]
    /\ UNCHANGED <<zkVars, pools, nextIdx, phase, was, built, created,
                   poolAddr, borrowed, userVars, round>>

\* close() lets the listener's thread end with the reset it is in.
ResetDone(r) ==
    /\ phase[r] = "close" /\ doomed[r] = {}
    /\ GoTo(r, IF r = "main" THEN "up" ELSE IF Closed THEN "ended" ELSE "idle")
    /\ was' = [was EXCEPT ![r] = << >>]
    /\ built' = [built EXCEPT ![r] = << >>]
    /\ UNCHANGED <<zkVars, pools, nextIdx, doomed, poolVars, borrowed,
                   userVars, round>>

ResetPools(r) ==
    \/ ReadPools(r) \/ BuildList(r) \/ PublishPools(r)
    \/ CloseRemoved(r) \/ ResetDone(r)
----------------------------------------------------------------------------
(* close                                                                   *)

\* Mutant: the list is read after it has been emptied.
CloseWatcherReadsLate ==
    /\ phase["main"] = "up"
    /\ events' = 0
    /\ doomed' = [doomed EXCEPT !["main"] = {}]
    /\ GoTo("main", "clear")
    /\ UNCHANGED <<zk, changes, cache, pools, nextIdx, was, built, poolVars,
                   borrowed, userVars, round>>

\* Closeables.close(watcher): no more events; then the list is read.
CloseWatcher ==
    /\ phase["main"] = "up"
    /\ events' = 0
    /\ doomed' = [doomed EXCEPT !["main"] = Range(pools)]
    /\ GoTo("main", "clear")
    /\ UNCHANGED <<zk, changes, cache, pools, nextIdx, was, built, poolVars,
                   borrowed, userVars, round>>

ClearPools ==
    /\ phase["main"] = "clear"
    /\ pools' = << >>
    /\ GoTo("main", "closing")
    /\ UNCHANGED <<zkVars, nextIdx, was, built, doomed, poolVars, borrowed,
                   userVars, round>>

CloseAll ==
    /\ phase["main"] = "closing"
    /\ open' = open \ doomed["main"]
    /\ doomed' = [doomed EXCEPT !["main"] = {}]
    /\ GoTo("main", "closed")
    /\ UNCHANGED <<zkVars, pools, nextIdx, was, built, created, poolAddr,
                   borrowed, userVars, round>>

Close == CloseWatcher \/ ClearPools \/ CloseAll
----------------------------------------------------------------------------
(* getResource, in three steps that leave the thread at "got" or "failed". *)

Constructed == phase["main"] \notin {"reset", "build", "publish", "close"}

\* The list is read once; "Proxy list empty" if there is nothing in it.
GetPools(t) ==
    /\ pc[t] = "get"
    /\ snap' = [snap EXCEPT ![t] = pools]
    /\ pc' = [pc EXCEPT ![t] = IF pools = << >> THEN "failed" ELSE "pick"]
    /\ UNCHANGED <<zkVars, pools, nextIdx, resetVars, poolVars, borrowed, idx,
                   round>>

\* Mutant: no wrap at all.
NextIdxNoWrap(t) == nextIdx + 1

\* The turn of the loop whose compareAndSet succeeds.
NextIdx(t) == IF nextIdx >= Len(snap[t]) - 1 THEN 0 ELSE nextIdx + 1

\* Mutant: the index that was used is not stored.
PickPoolUnstored(t) ==
    /\ pc[t] = "pick"
    /\ idx' = [idx EXCEPT ![t] = NextIdx(t)]
    /\ pc' = [pc EXCEPT ![t] = "borrow"]
    /\ UNCHANGED <<zkVars, pools, nextIdx, resetVars, poolVars, borrowed, snap,
                   round>>

PickPool(t) ==
    /\ pc[t] = "pick"
    /\ nextIdx' = NextIdx(t)
    /\ idx' = [idx EXCEPT ![t] = NextIdx(t)]
    /\ pc' = [pc EXCEPT ![t] = "borrow"]
    /\ LET goesOn == round.list = snap[t] /\ round.seen # 1..Len(snap[t])
       IN  round' = [list |-> snap[t],
                     seen |-> (IF goesOn THEN round.seen ELSE {})
                              \cup {NextIdx(t) + 1}]
    /\ UNCHANGED <<zkVars, pools, resetVars, poolVars, borrowed, snap>>

Chosen(t) == snap[t][idx[t] + 1]

\* JedisPool.getResource waits while MaxTotal instances are out.
BorrowJedis(t) ==
    /\ pc[t] = "borrow"
    /\ Chosen(t) \in open
    /\ borrowed[Chosen(t)] < MaxTotal
    /\ borrowed' = [borrowed EXCEPT ![Chosen(t)] = @ + 1]
    /\ pc' = [pc EXCEPT ![t] = "got"]
    /\ UNCHANGED <<zkVars, pools, nextIdx, resetVars, poolVars, snap, idx,
                   round>>

\* It throws if it is closed, also while the thread waits.
BorrowThrows(t) ==
    /\ pc[t] = "borrow"
    /\ Chosen(t) \notin open
    /\ pc' = [pc EXCEPT ![t] = "failed"]
    /\ UNCHANGED <<zkVars, pools, nextIdx, resetVars, poolVars, borrowed, snap,
                   idx, round>>

GetResource(t) ==
    GetPools(t) \/ PickPool(t) \/ BorrowJedis(t) \/ BorrowThrows(t)

CloseJedis(t) ==
    /\ pc[t] = "got"
    /\ borrowed' = [borrowed EXCEPT ![Chosen(t)] = @ - 1]

\* getResource is left, and its local variables are gone.
Leave(t) ==
    /\ snap' = [snap EXCEPT ![t] = << >>]
    /\ idx' = [idx EXCEPT ![t] = -1]
----------------------------------------------------------------------------
(* The pool under a caller that does what JedisResourcePool.java asks for: *)
(* it closes every instance it gets.                                       *)

CallStarts(t) ==
    /\ pc[t] = "idle" /\ Constructed
    /\ pc' = [pc EXCEPT ![t] = "get"]
    /\ UNCHANGED <<zkVars, pools, nextIdx, resetVars, poolVars, borrowed, snap,
                   idx, round>>

CallEnds(t) ==
    /\ \/ CloseJedis(t)
       \/ pc[t] = "failed" /\ UNCHANGED borrowed
    /\ pc' = [pc EXCEPT ![t] = "idle"]
    /\ Leave(t)
    /\ UNCHANGED <<zkVars, pools, nextIdx, resetVars, poolVars, round>>

Zookeeper == \E n \in Nodes : Change(n)
Background ==
    \/ \E n \in Nodes : Refresh(n)
    \/ ChildEvent
    \/ \E r \in Resetters : ResetPools(r)

Next ==
    \/ Zookeeper
    \/ Background
    \/ Close
    \/ \E t \in Threads : CallStarts(t) \/ GetResource(t) \/ CallEnds(t)

Spec == Init /\ [][Next]_vars

\* Curator delivers what changed, the threads in resetPools run, and a close()
\* that has begun goes on.
FairSpec == Spec /\ WF_vars(Background) /\ WF_vars(ClearPools \/ CloseAll)
----------------------------------------------------------------------------
(* What the pool promises.                                                 *)

Resetting == \E r \in Resetters : phase[r] \in {"reset", "build", "publish", "close"}

\* Every variable has a value the program can give it.
TypeOK ==
    /\ zk \in [Nodes -> {Null, Offline} \cup Addrs]
    /\ cache \in [Nodes -> {Null, Offline} \cup Addrs]
    /\ changes \in 0..MaxChanges /\ events \in Nat
    /\ pools \in Seq(PoolIds)
    /\ nextIdx \in -1..(Cardinality(Nodes) - 1)
    /\ phase \in [Resetters -> {"idle", "reset", "build", "publish", "close",
                                "ended", "up", "clear", "closing", "closed"}]
    /\ \A r \in Resetters : /\ was[r] \in Seq(PoolIds)
                            /\ built[r] \in Seq(PoolIds)
                            /\ doomed[r] \subseteq PoolIds
    /\ created \in 0..MaxPools
    /\ poolAddr \in [PoolIds -> Addrs \cup {Null}]
    /\ open \subseteq 1..created
    /\ borrowed \in [PoolIds -> 0..MaxTotal]
    /\ pc \in [Threads -> {"idle", "get", "pick", "borrow", "got", "failed"}]
    /\ \A t \in Threads : snap[t] \in Seq(PoolIds)

\* Until close(), and with one resetPools at a time, whoever reads the list
\* finds pools that are open: a pool is closed only after a list without it has
\* been published.
PublishedOpen == ~Closed => Range(pools) \subseteq open

\* Between resets, with one address per node and no overlap, the open pools
\* are exactly the listed ones, one per address: resetPools neither leaks a
\* JedisPool nor opens a second one for a proxy it already has.
PoolsAccounted ==
    ~Resetting /\ ~Closed =>
        /\ open = Range(pools)
        /\ \A i, j \in DOMAIN pools :
              poolAddr[pools[i]] = poolAddr[pools[j]] => i = j

\* After close() every JedisPool is closed, soon and for good, also while other
\* threads use them, if no reset is running when it stops the watcher.  One that
\* is may publish its list afterwards, and what it has opened stays open: in the
\* end that is at most one pool per node.
CloseIsComplete ==
    /\ Closed /\ phase["listener"] = "idle" ~> [](open = {} /\ pools = << >>)
    /\ Closed ~> [](Cardinality(open) <= Cardinality(Nodes))

\* The index that getResource computes is one of the list it has read, even
\* if nextIdx was last moved for a list of another length.
PickInRange ==
    \A t \in Threads : pc[t] = "borrow" => idx[t] \in 0..(Len(snap[t]) - 1)

\* Round robin: as long as the threads work on the same list, no proxy has a
\* second turn before every other one has had its first.
RoundRobin ==
    [][\A t \in Threads :
         pc[t] = "pick" /\ pc'[t] = "borrow" /\ round.list = snap[t] =>
            idx'[t] + 1 \notin round.seen
            \/ round.seen = 1..Len(snap[t])]_vars

\* java/README.md "Detect proxy online and offline automatically": when the
\* children stop changing, the list is the proxies that are online.
DetectsProxies ==
    <>[](Closed \/ {poolAddr[p] : p \in Range(pools)}
                     = {zk[n] : n \in Nodes} \cap Addrs)
=============================================================================
