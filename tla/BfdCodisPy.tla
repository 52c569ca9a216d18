----------------------------- MODULE BfdCodisPy -----------------------------
(***************************************************************************)
(* The Python client, python/BfdCodis.py: the list of connections that     *)
(* __InitFromZK builds from ZooKeeper, the watcher that builds it again,   *)
(* __getProxy, the calls with their one retry, and close.                  *)
(*                                                                         *)
(* __InitFromZK runs in the thread of the constructor and in Kazoo's       *)
(* callback thread; it and __getProxy hold the module's lock, close does   *)
(* not.  The lock is not reentrant and is left by release() alone: an      *)
(* exception between acquire() and release() leaves it taken.              *)
(*                                                                         *)
(* External: ZooKeeper and Kazoo (one-shot watches, one queue of events    *)
(* and one thread for their callbacks; a lost connection may cost the      *)
(* watches), the connections of redis-py.                                  *)
(***************************************************************************)
EXTENDS Integers, Sequences, FiniteSets, Functions

CONSTANTS
    Proxies,     \* the proxies that may register below proxyPath
    Threads,     \* the threads that call the client
    Null,        \* no thread, no connection
    MaxChanges,  \* bound on the changes below proxyPath
    MaxLosses,   \* bound on the lost connections to ZooKeeper
    MaxFaults    \* bound on the connections to proxies that fail

ASSUME PyAssumption ==
    /\ IsFiniteSet(Proxies)
    /\ Null \notin Proxies \cup Threads
    /\ {"main", "callback"} \cap (Threads \cup {Null}) = {}
    /\ MaxChanges \in Nat /\ MaxLosses \in Nat /\ MaxFaults \in Nat

VARIABLES
    \* ZooKeeper and Kazoo
    zk, changes,  \* the proxies' nodes, and how often they changed
    session,      \* of the KazooClient in __zk
    losses,       \* connections lost so far
    childWatch, dataWatch,  \* watches set: on proxyPath, on these nodes
    queue,        \* events for __watcher
    \* the module and the object
    lock,         \* who holds it
    proxylist, connPool, connPoolIndex,
    \* __InitFromZK in "main" (the constructor) and in "callback"; close
    phase, todo, pos,
    \* threads in a call
    pc, conn, attempt, faults,
    \* history: places of connPool picked in this round; the connection of a
    \* call's first attempt until the list or another thread's pick disturbs
    \* it; a lost connection to ZooKeeper; close() while the lock was held
    seen, first, disrupted, torn

zkVars == <<zk, changes, session, losses, childWatch, dataWatch, queue>>
listVars == <<proxylist, connPool, phase, todo, pos>>
callVars == <<pc, conn, attempt, faults, first>>
vars == <<zkVars, lock, listVars, connPoolIndex, callVars, seen, disrupted,
          torn>>

Workers == {"main", "callback"}
InInit(w) == phase[w] \in {"start", "read"}

Init ==
    /\ zk \in [Proxies -> {"absent", "online", "other"}]
    /\ changes = 0
    /\ session = "idle"
    /\ losses = 0
    /\ childWatch = FALSE /\ dataWatch = {}
    /\ queue = << >>
    /\ lock = Null
    /\ proxylist = << >> /\ connPool = << >>
    /\ connPoolIndex = -1
    /\ phase = [w \in Workers |-> IF w = "main" THEN "wait" ELSE "idle"]
    /\ todo = [w \in Workers |-> {}]
    /\ pos = [w \in Workers |-> 0]
    /\ pc = [t \in Threads |-> "idle"]
    /\ conn = [t \in Threads |-> Null]
    /\ attempt = [t \in Threads |-> 0]
    /\ faults = 0
    /\ seen = {}
    /\ first = [t \in Threads |-> Null]
    /\ disrupted = FALSE
    /\ torn = FALSE

GoTo(w, p) == phase' = [phase EXCEPT ![w] = p]
Step(t, p) == pc' = [pc EXCEPT ![t] = p]
----------------------------------------------------------------------------
(* ZooKeeper and Kazoo (external).                                         *)

\* A change that fires n watches; Kazoo knows __watcher once per path.
One(fires) == IF fires THEN 1 ELSE 0

ChangeNode(p, d, n) ==
    /\ changes < MaxChanges
    /\ changes' = changes + 1
    /\ zk' = [zk EXCEPT ![p] = d]
    /\ queue' = queue \o [i \in 1..n |-> "node"]
    /\ UNCHANGED <<session, losses, lock, listVars, connPoolIndex, callVars,
                   seen, disrupted, torn>>

Register(p) ==
    /\ zk[p] = "absent"
    /\ \E d \in {"online", "other"} : ChangeNode(p, d, One(childWatch))
    /\ childWatch' = FALSE
    /\ UNCHANGED dataWatch

Deregister(p) ==
    /\ zk[p] # "absent"
    /\ ChangeNode(p, "absent", One(p \in dataWatch) + One(childWatch))
    /\ childWatch' = FALSE
    /\ dataWatch' = dataWatch \ {p}

SetState(p) ==
    /\ zk[p] # "absent"
    /\ ChangeNode(p, IF zk[p] = "online" THEN "other" ELSE "online",
                  One(p \in dataWatch))
    /\ dataWatch' = dataWatch \ {p}
    /\ UNCHANGED childWatch

ClearWatches == childWatch' = FALSE /\ dataWatch' = {}

\* The connection breaks; the session lives on or has expired.
LoseConnection ==
    /\ session = "connected" /\ losses < MaxLosses
    /\ losses' = losses + 1
    /\ disrupted' = TRUE
    /\ \/ /\ session' = "lost"
          /\ UNCHANGED queue
          /\ ClearWatches \/ UNCHANGED <<childWatch, dataWatch>>
       \/ /\ session' = "expired"
          /\ queue' = Append(queue, "expired")
          /\ ClearWatches
    /\ UNCHANGED <<zk, changes, lock, listVars, connPoolIndex, callVars, seen,
                   torn>>

Reconnect ==
    /\ session \in {"lost", "expired"}
    /\ session' = "connected"
    /\ UNCHANGED <<zk, changes, losses, childWatch, dataWatch, queue, lock,
                   listVars, connPoolIndex, callVars, seen, disrupted, torn>>

Zookeeper ==
    \/ \E p \in Proxies : Register(p) \/ Deregister(p) \/ SetState(p)
    \/ LoseConnection \/ Reconnect
----------------------------------------------------------------------------
(* __watcher, in the callback thread.                                      *)

\* CREATED, DELETED, CHANGED or CHILD: __InitFromZK.
OnNodeEvent ==
    /\ phase["callback"] = "idle"
    /\ queue # << >> /\ Head(queue) = "node"
    /\ queue' = Tail(queue)
    /\ GoTo("callback", "wait")
    /\ UNCHANGED <<zk, changes, session, losses, childWatch, dataWatch, lock,
                   proxylist, connPool, todo, pos, connPoolIndex, callVars,
                   seen, disrupted, torn>>

\* EXPIRED_SESSION: a new KazooClient, which nothing here starts.
OnExpired ==
    /\ phase["callback"] = "idle"
    /\ queue # << >> /\ Head(queue) = "expired"
    /\ session' = "idle"
    /\ ClearWatches
    /\ queue' = << >>
    /\ UNCHANGED <<zk, changes, losses, lock, listVars, connPoolIndex,
                   callVars, seen, disrupted, torn>>
----------------------------------------------------------------------------
(* __InitFromZK                                                            *)

NoFirst == [t \in Threads |-> Null]

\* Mutant: the lock is not taken.
BeginUnlocked(w) ==
    /\ phase[w] = "wait"
    /\ UNCHANGED lock
    /\ proxylist' = << >> /\ connPool' = << >>
    /\ seen' = {} /\ first' = NoFirst
    /\ GoTo(w, "start")
    /\ UNCHANGED <<zkVars, todo, pos, connPoolIndex, pc, conn, attempt, faults,
                   disrupted, torn>>

\* lock.acquire() and the empty lists.
Begin(w) ==
    /\ phase[w] = "wait"
    /\ lock = Null
    /\ lock' = w
    /\ proxylist' = << >> /\ connPool' = << >>
    /\ seen' = {} /\ first' = NoFirst
    /\ GoTo(w, "start")
    /\ UNCHANGED <<zkVars, todo, pos, connPoolIndex, pc, conn, attempt, faults,
                   disrupted, torn>>

Filling(w) == phase[w] = "read" /\ todo[w] = {}
UsesZk(w) == phase[w] = "start" \/ (phase[w] = "read" /\ todo[w] # {})

\* __zk.start(), before get_children and before every get.
StartZk(w) ==
    /\ UsesZk(w)
    /\ session \in {"idle", "stopped"}
    /\ session' = "connected"
    /\ UNCHANGED <<zk, changes, losses, childWatch, dataWatch, queue, lock,
                   listVars, connPoolIndex, callVars, seen, disrupted, torn>>

\* Mutant: get_children without the watch.
GetChildrenUnwatched(w) ==
    /\ phase[w] = "start" /\ session = "connected"
    /\ todo' = [todo EXCEPT ![w] = {p \in Proxies : zk[p] # "absent"}]
    /\ GoTo(w, "read")
    /\ UNCHANGED <<zkVars, lock, proxylist, connPool, pos, connPoolIndex,
                   callVars, seen, disrupted, torn>>

GetChildren(w) ==
    /\ phase[w] = "start" /\ session = "connected"
    /\ todo' = [todo EXCEPT ![w] = {p \in Proxies : zk[p] # "absent"}]
    /\ childWatch' = TRUE
    /\ GoTo(w, "read")
    /\ UNCHANGED <<zk, changes, session, losses, dataWatch, queue, lock,
                   proxylist, connPool, pos, connPoolIndex, callVars, seen,
                   disrupted, torn>>

\* get of a node that exists sets a watch on its data.
GetNode(w) ==
    /\ phase[w] = "read" /\ session = "connected"
    /\ \E p \in todo[w] :
          /\ zk[p] # "absent"
          /\ todo' = [todo EXCEPT ![w] = @ \ {p}]
          /\ dataWatch' = dataWatch \cup {p}
          /\ proxylist' = IF zk[p] = "online" THEN Append(proxylist, p)
                                              ELSE proxylist
    /\ UNCHANGED <<zk, changes, session, losses, childWatch, queue, lock,
                   connPool, phase, pos, connPoolIndex, callVars, seen,
                   disrupted, torn>>

\* connPool.append, once for each element of proxylist.
Fill(w) ==
    /\ Filling(w) /\ pos[w] < Len(proxylist)
    /\ connPool' = Append(connPool, proxylist[pos[w] + 1])
    /\ pos' = [pos EXCEPT ![w] = @ + 1]
    /\ UNCHANGED <<zkVars, lock, proxylist, phase, todo, connPoolIndex,
                   callVars, seen, disrupted, torn>>

\* lock.release(), after the list is filled or an exception was logged.
Release(w) ==
    /\ lock' = Null
    /\ GoTo(w, IF w = "main" THEN "up" ELSE "idle")
    /\ todo' = [todo EXCEPT ![w] = {}]
    /\ pos' = [pos EXCEPT ![w] = 0]
    /\ UNCHANGED <<proxylist, connPool, connPoolIndex, callVars, seen, torn>>

InitDone(w) ==
    /\ Filling(w) /\ pos[w] = Len(proxylist)
    /\ Release(w)
    /\ UNCHANGED <<zkVars, disrupted>>

\* NoNodeError: a child that was listed is gone.
NodeGone(w) ==
    /\ phase[w] = "read" /\ session = "connected"
    /\ \E p \in todo[w] : zk[p] = "absent"
    /\ Release(w)
    /\ UNCHANGED <<zkVars, disrupted>>

\* There is no connection: start() gives up, and stops the client, or the
\* request fails.
ZkFails(w) ==
    /\ UsesZk(w) /\ session # "connected"
    /\ session' \in {session, "stopped"}
    /\ IF session' = "stopped" THEN ClearWatches
                               ELSE UNCHANGED <<childWatch, dataWatch>>
    /\ disrupted' = TRUE
    /\ Release(w)
    /\ UNCHANGED <<zk, changes, losses, queue>>

InitFromZK(w) ==
    \/ StartZk(w) \/ GetChildren(w) \/ GetNode(w) \/ Fill(w)
    \/ InitDone(w) \/ NodeGone(w) \/ ZkFails(w)
----------------------------------------------------------------------------
(* close: __zk.stop(), then the list is emptied without the lock.          *)

StopZk ==
    /\ phase["main"] = "up"
    /\ session' = "stopped"
    /\ ClearWatches
    /\ queue' = << >>
    /\ GoTo("main", "closing")
    /\ UNCHANGED <<zk, changes, losses, lock, proxylist, connPool, todo, pos,
                   connPoolIndex, callVars, seen, disrupted, torn>>

EmptyPool ==
    /\ phase["main"] = "closing"
    /\ connPool' = << >>
    /\ seen' = {} /\ first' = NoFirst
    /\ torn' = (torn \/ lock # Null)
    /\ GoTo("main", "closed")
    /\ UNCHANGED <<zkVars, lock, proxylist, todo, pos, connPoolIndex, pc, conn,
                   attempt, faults, disrupted>>

Close == StopZk \/ EmptyPool
----------------------------------------------------------------------------
(* The calls: delete .. pfmerge are all written in the same way,           *)
(*     try:    return self.__getProxy().cmd(..)                            *)
(*     except redis.exceptions.ConnectionError: the same once more         *)

StartCall(t) ==
    /\ pc[t] = "idle"
    /\ phase["main"] \in {"up", "closing", "closed"}
    /\ Step(t, "get")
    /\ attempt' = [attempt EXCEPT ![t] = 1]
    /\ UNCHANGED <<zkVars, lock, listVars, connPoolIndex, conn, faults, first,
                   seen, disrupted, torn>>

\* The call returns or raises.
Leave(t) ==
    /\ Step(t, "idle")
    /\ conn' = [conn EXCEPT ![t] = Null]
    /\ attempt' = [attempt EXCEPT ![t] = 0]
    /\ first' = [first EXCEPT ![t] = Null]

\* Mutants: the index wraps one place too late, or too early; it stays.
NextIndexEarly ==
    IF connPoolIndex + 2 >= Len(connPool) THEN 0 ELSE connPoolIndex + 1
NextIndexLate ==
    IF connPoolIndex + 1 > Len(connPool) THEN 0 ELSE connPoolIndex + 1
NextIndexStuck ==
    IF connPoolIndex >= Len(connPool) \/ connPoolIndex < 0
      THEN 0 ELSE connPoolIndex

NextIndex ==
    IF connPoolIndex + 1 >= Len(connPool) THEN 0 ELSE connPoolIndex + 1

\* __getProxy up to the test for an empty list.
AdvanceIndex(t) ==
    /\ pc[t] = "get"
    /\ lock = Null
    /\ connPool # << >>
    /\ connPoolIndex' = NextIndex
    /\ lock' = t
    /\ Step(t, "take")
    /\ UNCHANGED <<zkVars, listVars, conn, attempt, faults, first, seen,
                   disrupted, torn>>

\* It returns None, and the call raises AttributeError.
NoProxy(t) ==
    /\ pc[t] = "get"
    /\ lock = Null
    /\ connPool = << >>
    /\ connPoolIndex' = NextIndex
    /\ Leave(t)
    /\ UNCHANGED <<zkVars, lock, listVars, faults, seen, disrupted, torn>>

TakeConn(t) ==
    /\ pc[t] = "take"
    /\ connPoolIndex < Len(connPool)
    /\ LET c == connPool[connPoolIndex + 1]
       IN  /\ conn' = [conn EXCEPT ![t] = c]
           /\ first' = [u \in Threads |->
                          IF u # t THEN Null
                          ELSE IF attempt[t] = 1 THEN c ELSE first[t]]
    /\ seen' = {connPoolIndex + 1}
               \cup (IF seen = 1..Len(connPool) THEN {} ELSE seen)
    /\ lock' = Null
    /\ Step(t, "command")
    /\ UNCHANGED <<zkVars, listVars, connPoolIndex, attempt, faults, disrupted,
                   torn>>

\* IndexError: the list was emptied in between.  Nothing releases the lock.
TakeFails(t) ==
    /\ pc[t] = "take"
    /\ connPoolIndex >= Len(connPool)
    /\ Leave(t)
    /\ UNCHANGED <<zkVars, lock, listVars, connPoolIndex, faults, seen,
                   disrupted, torn>>

\* The command returns, or raises what the call does not catch.
Command(t) ==
    /\ pc[t] = "command"
    /\ Leave(t)
    /\ UNCHANGED <<zkVars, lock, listVars, connPoolIndex, faults, seen,
                   disrupted, torn>>

\* Mutant: every attempt is in the try block.
ConnectionErrorRetries(t) ==
    /\ pc[t] = "command" /\ faults < MaxFaults
    /\ faults' = faults + 1
    /\ Step(t, "get")
    /\ attempt' = [attempt EXCEPT ![t] = @ + 1]
    /\ conn' = [conn EXCEPT ![t] = Null]
    /\ UNCHANGED <<zkVars, lock, listVars, connPoolIndex, first, seen,
                   disrupted, torn>>

\* ConnectionError, whether the proxy executed the command or not.
ConnectionError(t) ==
    /\ pc[t] = "command" /\ faults < MaxFaults
    /\ faults' = faults + 1
    /\ IF attempt[t] = 1
         THEN /\ Step(t, "get")
              /\ attempt' = [attempt EXCEPT ![t] = 2]
              /\ conn' = [conn EXCEPT ![t] = Null]
              /\ UNCHANGED first
         ELSE Leave(t)
    /\ UNCHANGED <<zkVars, lock, listVars, connPoolIndex, seen, disrupted,
                   torn>>

GetProxy(t) ==
    AdvanceIndex(t) \/ NoProxy(t) \/ TakeConn(t) \/ TakeFails(t)

Call(t) == GetProxy(t) \/ Command(t) \/ ConnectionError(t)

\* An IndexError has left the lock taken: whoever needs it waits for ever.
Stuck == torn /\ UNCHANGED vars

Next ==
    \/ Zookeeper
    \/ OnNodeEvent \/ OnExpired
    \/ \E w \in Workers : Begin(w) \/ InitFromZK(w)
    \/ Close
    \/ \E t \in Threads : StartCall(t) \/ Call(t)
    \/ Stuck

Spec == Init /\ [][Next]_vars

\* The threads that build the list go on, and so does one that is inside
\* __getProxy; the lock is given to a thread that waits while it is released
\* again and again (the calls in between spend their time in the network).
FairSpec ==
    /\ Spec
    /\ WF_vars(OnNodeEvent \/ OnExpired)
    /\ \A w \in Workers : WF_vars(InitFromZK(w)) /\ SF_vars(Begin(w))
    /\ \A t \in Threads : WF_vars(TakeConn(t) \/ TakeFails(t))
----------------------------------------------------------------------------
(* What the client promises.                                               *)

Closing == phase["main"] \in {"closing", "closed"}
Online == {p \in Proxies : zk[p] = "online"}

Typed ==
    /\ zk \in [Proxies -> {"absent", "online", "other"}]
    /\ changes \in 0..MaxChanges /\ losses \in 0..MaxLosses
    /\ session \in {"idle", "connected", "lost", "expired", "stopped"}
    /\ childWatch \in BOOLEAN /\ dataWatch \subseteq Proxies
    /\ queue \in Seq({"node", "expired"})
    /\ lock \in Workers \cup Threads \cup {Null}
    /\ proxylist \in Seq(Proxies) /\ connPool \in Seq(Proxies)
    /\ connPoolIndex \in Nat \cup {-1}
    /\ phase \in [Workers -> {"idle", "wait", "start", "read", "up",
                              "closing", "closed"}]
    /\ todo \in [Workers -> SUBSET Proxies]
    /\ pos \in [Workers -> Nat]
    /\ pc \in [Threads -> {"idle", "get", "take", "command"}]
    /\ conn \in [Threads -> Proxies \cup {Null}]
    /\ attempt \in [Threads -> 0..2]
    /\ faults \in 0..MaxFaults
    /\ first \in [Threads -> Proxies \cup {Null}]
    /\ seen \subseteq Nat
    /\ disrupted \in BOOLEAN /\ torn \in BOOLEAN

\* Every variable has a value the program can give it: no call makes a third
\* attempt, and the index is below the number of proxies after any number of
\* lists, because no list ever has a proxy twice.
TypeOK ==
    /\ Typed
    /\ connPoolIndex \in {-1, 0} \cup 1..(Cardinality(Proxies) - 1)

\* The lock is held exactly by an __InitFromZK that is under way and by a
\* __getProxy between its two steps: nobody reads a list that is being built,
\* two lists are never built at the same time, and the lock is always given
\* back, as long as close() does not empty the list inside a __getProxy.
LockDiscipline ==
    /\ \A w \in Workers : InInit(w) <=> lock = w
    /\ \A t \in Threads : pc[t] = "take" => lock = t
    /\ \A t \in Threads : lock = t => pc[t] = "take" \/ torn

\* The index that __getProxy computes is one of the list it is used for, also
\* after the list has become shorter: only close() can break this.
IndexInRange ==
    \A t \in Threads :
        pc[t] = "take" => connPoolIndex \in 0..(Len(connPool) - 1) \/ torn

\* The retry of a call goes to another proxy than the one that failed, if
\* there are two and neither the list nor another thread's pick came between.
RetryElsewhere ==
    \A t \in Threads :
        attempt[t] = 2 /\ pc[t] = "command" /\ first[t] # Null
        /\ Len(connPool) > 1 => conn[t] # first[t]

\* Round robin: as long as the list stays, no proxy has a second turn before
\* every other one has had its first.
RoundRobin ==
    [][\A t \in Threads :
         pc[t] = "take" /\ pc'[t] = "command" =>
            \/ connPoolIndex + 1 \notin seen
            \/ seen = 1..Len(connPool)]_vars

\* When the nodes stop changing, the list is the proxies that are online: no
\* change is missed, not even one between a listing and its reads.  A lost
\* connection to ZooKeeper is enough to miss one for ever.
Convergence == <>[](disrupted \/ Closing \/ Range(connPool) = Online)
=============================================================================
