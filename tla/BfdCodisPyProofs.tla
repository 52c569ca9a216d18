-------------------------- MODULE BfdCodisPyProofs --------------------------
(***************************************************************************)
(* For any number of proxies, threads, changes, lost connections and       *)
(* failures: the module's lock keeps the list, its index and whoever uses  *)
(* them together, up to the moment when close() empties the list inside a  *)
(* __getProxy, the one retry of a call goes to another proxy, the proxies  *)
(* of a list are served in turn, and the list is the proxies that are      *)
(* there whenever the callback thread has caught up with ZooKeeper.        *)
(***************************************************************************)
EXTENDS BfdCodisPy, SequenceTheorems, FunctionTheorems, FiniteSetTheorems,
        TLAPS

----------------------------------------------------------------------------
(* The lock, the list and the index depend on each other.                  *)

\* __getProxy has computed its index before it uses it.
TakesPlace == \A t \in Threads : pc[t] = "take" => connPoolIndex \in Nat

PyInv == Typed /\ TakesPlace /\ LockDiscipline /\ IndexInRange

\* What the invariant is about, besides the types.
lockVars == <<phase, lock, pc, connPoolIndex, connPool, torn>>

LEMMA SameLock ==
    ASSUME PyInv, UNCHANGED lockVars
    PROVE  TakesPlace' /\ LockDiscipline' /\ IndexInRange'
  BY DEF PyInv, lockVars, TakesPlace, LockDiscipline, IndexInRange, InInit

\* Nobody is two of the lock's holders.
LEMMA Holders ==
    /\ \A w \in Workers : w # Null /\ w \notin Threads
    /\ \A t \in Threads : t # Null /\ t \notin Workers
  BY PyAssumption DEF Workers

LEMMA NextIndexInRange ==
    ASSUME PyInv
    PROVE  /\ NextIndex \in Nat
           /\ connPool # << >> => NextIndex \in 0..(Len(connPool) - 1)
  <1>1. connPool \in Seq(Proxies) /\ connPoolIndex \in Nat \cup {-1}
    BY DEF PyInv, Typed
  <1>2. Len(connPool) \in Nat /\ (connPool # << >> => Len(connPool) > 0)
    BY <1>1
  <1>. QED BY <1>1, <1>2 DEF NextIndex

LEMMA InitPyInv == Init => PyInv
  <1>. SUFFICES ASSUME Init PROVE PyInv
    OBVIOUS
  <1>1. Typed
    <2>1. /\ << >> \in Seq({"node", "expired"}) /\ << >> \in Seq(Proxies)
          /\ -1 \in Nat \cup {-1}
          /\ changes \in 0..MaxChanges /\ losses \in 0..MaxLosses
          /\ faults \in 0..MaxFaults
      BY PyAssumption DEF Init
    <2>2. phase \in [Workers -> {"idle", "wait", "start", "read", "up",
                                 "closing", "closed"}]
      BY DEF Init
    <2>3. /\ todo \in [Workers -> SUBSET Proxies] /\ pos \in [Workers -> Nat]
          /\ pc \in [Threads -> {"idle", "get", "take", "command"}]
          /\ conn \in [Threads -> Proxies \cup {Null}]
          /\ attempt \in [Threads -> 0..2]
          /\ first \in [Threads -> Proxies \cup {Null}]
      BY DEF Init
    <2>4. /\ zk \in [Proxies -> {"absent", "online", "other"}]
          /\ session = "idle" /\ childWatch = FALSE /\ dataWatch = {}
          /\ queue = << >> /\ lock = Null /\ proxylist = << >>
          /\ connPool = << >> /\ connPoolIndex = -1 /\ seen = {}
          /\ disrupted = FALSE /\ torn = FALSE
      BY DEF Init
    <2>. QED BY <2>1, <2>2, <2>3, <2>4 DEF Typed
  <1>2. TakesPlace /\ IndexInRange
    BY DEF Init, TakesPlace, IndexInRange
  <1>3. LockDiscipline
    BY PyAssumption DEF Init, LockDiscipline, InInit, Workers
  <1>. QED BY <1>1, <1>2, <1>3 DEF PyInv

----------------------------------------------------------------------------
(* The types.                                                              *)

LEMMA ZookeeperTyped ==
    ASSUME Typed, Zookeeper
    PROVE  Typed'
  <1>. USE DEF listVars, callVars
  <1>1. ASSUME NEW p \in Proxies, NEW d \in {"absent", "online", "other"},
               NEW n \in 0..2, ChangeNode(p, d, n),
               childWatch' \in BOOLEAN, dataWatch' \subseteq Proxies
        PROVE  Typed'
    <2>1. changes' \in 0..MaxChanges
      BY <1>1, PyAssumption DEF ChangeNode, Typed
    <2>2. queue' \in Seq({"node", "expired"})
      <3>1. [i \in 1..n |-> "node"] \in Seq({"node", "expired"})
        BY <1>1
      <3>. QED BY <1>1, <3>1, ConcatProperties DEF ChangeNode, Typed
    <2>. QED BY <1>1, <2>1, <2>2 DEF ChangeNode, Typed
  <1>2. ASSUME NEW p \in Proxies, Register(p) \/ Deregister(p) \/ SetState(p)
        PROVE  Typed'
    <2>2. CASE Register(p)
      <3>1. One(childWatch) \in 0..2
        BY DEF One
      <3>. QED BY <2>2, <3>1, <1>1 DEF Register, Typed
    <2>3. CASE Deregister(p)
      <3>1. One(p \in dataWatch) + One(childWatch) \in 0..2
        BY DEF One
      <3>2. childWatch' \in BOOLEAN /\ dataWatch' \subseteq Proxies
        BY <2>3 DEF Deregister, Typed
      <3>. QED BY <2>3, <3>1, <3>2, <1>1 DEF Deregister
    <2>4. CASE SetState(p)
      <3>1. One(p \in dataWatch) \in 0..2
        BY DEF One
      <3>. QED BY <2>4, <3>1, <1>1 DEF SetState, Typed
    <2>. QED BY <1>2, <2>2, <2>3, <2>4
  <1>3. CASE LoseConnection
    <2>1. losses' \in 0..MaxLosses
      BY <1>3, PyAssumption DEF LoseConnection, Typed
    <2>2. queue' \in Seq({"node", "expired"})
      <3>1. queue \in Seq({"node", "expired"})
        BY DEF Typed
      <3>2. queue' = queue \/ queue' = Append(queue, "expired")
        BY <1>3 DEF LoseConnection
      <3>. QED BY <3>1, <3>2, AppendProperties
    <2>3. childWatch' \in BOOLEAN /\ dataWatch' \subseteq Proxies
      BY <1>3 DEF LoseConnection, ClearWatches, Typed
    <2>4. session' \in {"lost", "expired"} /\ disrupted' = TRUE
      BY <1>3 DEF LoseConnection
    <2>5. UNCHANGED <<zk, changes, lock, listVars, connPoolIndex, callVars,
                      seen, torn>>
      BY <1>3 DEF LoseConnection
    <2>. QED BY <2>1, <2>2, <2>3, <2>4, <2>5 DEF Typed
  <1>4. CASE Reconnect
    BY <1>4 DEF Reconnect, Typed
  <1>. QED BY <1>2, <1>3, <1>4 DEF Zookeeper

LEMMA WatcherTyped ==
    ASSUME Typed, OnNodeEvent \/ OnExpired
    PROVE  Typed'
  <1>. USE DEF listVars, callVars
  <1>1. CASE OnNodeEvent
    <2>1. queue' \in Seq({"node", "expired"})
      BY <1>1 DEF OnNodeEvent, Typed
    <2>. QED BY <1>1, <2>1 DEF OnNodeEvent, GoTo, Typed
  <1>2. CASE OnExpired
    <2>1. queue' \in Seq({"node", "expired"})
      BY <1>2 DEF OnExpired
    <2>2. childWatch' \in BOOLEAN /\ dataWatch' \subseteq Proxies
      BY <1>2 DEF OnExpired, ClearWatches
    <2>. QED BY <1>2, <2>1, <2>2 DEF OnExpired, Typed
  <1>. QED BY <1>1, <1>2

LEMMA InitFromZKTyped ==
    ASSUME Typed, NEW w \in Workers, Begin(w) \/ InitFromZK(w)
    PROVE  Typed'
  <1>. USE DEF zkVars, listVars, callVars, GoTo
  <1>1. CASE Begin(w)
    BY <1>1 DEF Begin, NoFirst, Typed
  <1>2. CASE StartZk(w)
    BY <1>2 DEF StartZk, Typed
  <1>3. CASE GetChildren(w)
    BY <1>3 DEF GetChildren, Typed
  <1>4. CASE GetNode(w)
    <2>1. PICK p \in todo[w] :
             /\ todo' = [todo EXCEPT ![w] = @ \ {p}]
             /\ dataWatch' = dataWatch \cup {p}
             /\ proxylist' = IF zk[p] = "online" THEN Append(proxylist, p)
                                                 ELSE proxylist
      BY <1>4 DEF GetNode
    <2>2. p \in Proxies
      BY <2>1 DEF Typed
    <2>3. proxylist' \in Seq(Proxies)
      BY <2>1, <2>2 DEF Typed
    <2>4. todo' \in [Workers -> SUBSET Proxies] /\ dataWatch' \subseteq Proxies
      BY <2>1, <2>2 DEF Typed
    <2>. QED BY <1>4, <2>3, <2>4 DEF GetNode, Typed
  <1>5. CASE Fill(w)
    <2>1. pos[w] + 1 \in 1..Len(proxylist)
      BY <1>5 DEF Fill, Typed
    <2>2. connPool' \in Seq(Proxies)
      BY <1>5, <2>1, ElementOfSeq DEF Fill, Typed
    <2>3. pos' \in [Workers -> Nat]
      BY <1>5 DEF Fill, Typed
    <2>. QED BY <1>5, <2>2, <2>3 DEF Fill, Typed
  <1>6. CASE InitDone(w)
    BY <1>6 DEF InitDone, Release, Typed
  <1>7. CASE NodeGone(w)
    BY <1>7 DEF NodeGone, Release, Typed
  <1>8. CASE ZkFails(w)
    BY <1>8 DEF ZkFails, ClearWatches, Release, Typed
  <1>. QED BY <1>1, <1>2, <1>3, <1>4, <1>5, <1>6, <1>7, <1>8 DEF InitFromZK

LEMMA CloseTyped ==
    ASSUME Typed, Close
    PROVE  Typed'
  <1>. USE DEF zkVars, listVars, callVars, GoTo
  <1>1. CASE StopZk
    <2>1. queue' \in Seq({"node", "expired"})
      BY <1>1 DEF StopZk
    <2>2. childWatch' \in BOOLEAN /\ dataWatch' \subseteq Proxies
      BY <1>1 DEF StopZk, ClearWatches
    <2>. QED BY <1>1, <2>1, <2>2 DEF StopZk, Typed
  <1>2. CASE EmptyPool
    <2>1. connPool' \in Seq(Proxies) /\ torn' \in BOOLEAN
      BY <1>2 DEF EmptyPool
    <2>. QED BY <1>2, <2>1 DEF EmptyPool, NoFirst, Typed
  <1>. QED BY <1>1, <1>2 DEF Close

LEMMA CallTyped ==
    ASSUME PyInv, NEW t \in Threads, StartCall(t) \/ Call(t)
    PROVE  Typed'
  <1>. USE DEF zkVars, listVars, callVars, Step, Leave
  <1>. Typed
    BY DEF PyInv
  <1>1. CASE StartCall(t)
    BY <1>1 DEF StartCall, Typed
  <1>2. CASE AdvanceIndex(t)
    BY <1>2, NextIndexInRange DEF AdvanceIndex, Typed
  <1>3. CASE NoProxy(t)
    BY <1>3, NextIndexInRange DEF NoProxy, Typed
  <1>4. CASE TakeConn(t)
    <2>. DEFINE c == connPool[connPoolIndex + 1]
    <2>1. connPoolIndex \in Nat /\ connPoolIndex + 1 \in 1..Len(connPool)
      BY <1>4 DEF TakeConn, PyInv, TakesPlace, Typed
    <2>2. c \in Proxies
      BY <2>1, ElementOfSeq DEF Typed
    <2>3. /\ conn' = [conn EXCEPT ![t] = c]
          /\ first' = [u \in Threads |->
                          IF u # t THEN Null
                          ELSE IF attempt[t] = 1 THEN c ELSE first[t]]
      BY <1>4 DEF TakeConn
    <2>. HIDE DEF c
    <2>4. /\ conn' \in [Threads -> Proxies \cup {Null}]
          /\ first' \in [Threads -> Proxies \cup {Null}]
      BY <2>2, <2>3 DEF Typed
    <2>5. seen' \subseteq Nat
      BY <1>4, <2>1 DEF TakeConn, Typed
    <2>. QED BY <1>4, <2>4, <2>5 DEF TakeConn, Typed
  <1>5. CASE TakeFails(t)
    BY <1>5 DEF TakeFails, Typed
  <1>6. CASE Command(t)
    BY <1>6 DEF Command, Typed
  <1>7. CASE ConnectionError(t)
    <2>1. faults' \in 0..MaxFaults
      BY <1>7, PyAssumption DEF ConnectionError, Typed
    <2>2. /\ pc' \in [Threads -> {"idle", "get", "take", "command"}]
          /\ attempt' \in [Threads -> 0..2]
          /\ conn' \in [Threads -> Proxies \cup {Null}]
          /\ first' \in [Threads -> Proxies \cup {Null}]
      <3>1. /\ pc \in [Threads -> {"idle", "get", "take", "command"}]
            /\ attempt \in [Threads -> 0..2]
            /\ conn \in [Threads -> Proxies \cup {Null}]
            /\ first \in [Threads -> Proxies \cup {Null}]
        BY DEF Typed
      <3>2. CASE attempt[t] = 1
        BY <1>7, <3>1, <3>2 DEF ConnectionError
      <3>3. CASE attempt[t] # 1
        BY <1>7, <3>1, <3>3 DEF ConnectionError
      <3>. QED BY <3>2, <3>3
    <2>3. UNCHANGED <<zkVars, lock, listVars, connPoolIndex, seen, disrupted,
                      torn>>
      BY <1>7 DEF ConnectionError
    <2>. QED BY <2>1, <2>2, <2>3 DEF Typed
  <1>. QED BY <1>1, <1>2, <1>3, <1>4, <1>5, <1>6, <1>7 DEF Call, GetProxy

LEMMA TypedStep == PyInv /\ [Next]_vars => Typed'
  <1>. SUFFICES ASSUME PyInv, [Next]_vars PROVE Typed'
    OBVIOUS
  <1>1. Typed
    BY DEF PyInv
  <1>2. CASE UNCHANGED vars
    BY <1>1, <1>2 DEF vars, zkVars, listVars, callVars, Typed
  <1>. QED BY <1>1, <1>2, ZookeeperTyped, WatcherTyped, InitFromZKTyped,
              CloseTyped, CallTyped DEF Next, Stuck

----------------------------------------------------------------------------
(* Who holds the lock.                                                     *)

Locking == TakesPlace /\ LockDiscipline /\ IndexInRange

\* Without the lock nobody builds the list or is about to use its index.
LEMMA LockFree ==
    ASSUME PyInv, lock = Null
    PROVE  /\ \A w \in Workers : ~InInit(w)
           /\ \A t \in Threads : pc[t] # "take"
  BY Holders DEF PyInv, LockDiscipline

\* While a list is built nobody is about to use its index.
LEMMA LockOfWorker ==
    ASSUME PyInv, NEW w \in Workers, InInit(w)
    PROVE  /\ lock = w
           /\ \A v \in Workers : InInit(v) => v = w
           /\ \A t \in Threads : pc[t] # "take" /\ lock # t
  BY Holders DEF PyInv, LockDiscipline

LEMMA LockOfThread ==
    ASSUME PyInv, NEW t \in Threads, pc[t] = "take"
    PROVE  /\ lock = t
           /\ \A w \in Workers : ~InInit(w)
           /\ \A u \in Threads : pc[u] = "take" => u = t
  BY Holders DEF PyInv, LockDiscipline

LEMMA InitFromZKLocks ==
    ASSUME PyInv, NEW w \in Workers, Begin(w) \/ InitFromZK(w)
    PROVE  Locking'
  <1>. USE DEF zkVars, listVars, callVars, GoTo
  <1>1. DOMAIN phase = Workers
    BY DEF PyInv, Typed
  <1>2. CASE Begin(w)
    <2>1. /\ lock = Null /\ lock' = w /\ phase' = [phase EXCEPT ![w] = "start"]
          /\ UNCHANGED <<pc, connPoolIndex, torn>>
      BY <1>2 DEF Begin
    <2>2. /\ \A v \in Workers : ~InInit(v)
          /\ \A t \in Threads : pc[t] # "take"
      BY <2>1, LockFree
    <2>3. TakesPlace' /\ IndexInRange'
      BY <2>1, <2>2 DEF TakesPlace, IndexInRange
    <2>4. \A v \in Workers : InInit(v)' <=> v = w
      BY <1>1, <2>1, <2>2 DEF InInit
    <2>5. LockDiscipline'
      BY <2>1, <2>2, <2>4, Holders DEF LockDiscipline
    <2>. QED BY <2>3, <2>5 DEF Locking
  <1>3. CASE StartZk(w) \/ GetNode(w)
    BY <1>3, SameLock DEF StartZk, GetNode, lockVars, Locking
  <1>4. CASE GetChildren(w)
    <2>1. /\ phase[w] = "start" /\ phase' = [phase EXCEPT ![w] = "read"]
          /\ UNCHANGED <<lock, pc, connPoolIndex, connPool, torn>>
      BY <1>4 DEF GetChildren
    <2>2. \A v \in Workers : InInit(v)' <=> InInit(v)
      BY <1>1, <2>1 DEF InInit
    <2>. QED BY <2>1, <2>2
             DEF PyInv, Locking, TakesPlace, LockDiscipline, IndexInRange
  <1>5. CASE Fill(w)
    <2>1. /\ InInit(w)
          /\ UNCHANGED <<phase, lock, pc, connPoolIndex, torn>>
      BY <1>5 DEF Fill, Filling, InInit
    <2>2. \A t \in Threads : pc[t] # "take"
      BY <2>1, LockOfWorker
    <2>. QED BY <2>1, <2>2
             DEF PyInv, Locking, TakesPlace, LockDiscipline, IndexInRange, InInit
  <1>6. CASE InitDone(w) \/ NodeGone(w) \/ ZkFails(w)
    <2>1. /\ InInit(w) /\ lock' = Null
          /\ phase' = [phase EXCEPT ![w] = IF w = "main" THEN "up" ELSE "idle"]
          /\ UNCHANGED <<pc, connPool, connPoolIndex, torn>>
      BY <1>6 DEF InitDone, NodeGone, ZkFails, Filling, UsesZk, Release, InInit
    <2>2. /\ \A v \in Workers : InInit(v) => v = w
          /\ \A t \in Threads : pc[t] # "take"
      BY <2>1, LockOfWorker
    <2>3. \A v \in Workers : ~InInit(v)'
      BY <1>1, <2>1, <2>2 DEF InInit
    <2>4. TakesPlace' /\ IndexInRange'
      BY <2>1, <2>2 DEF TakesPlace, IndexInRange
    <2>5. LockDiscipline'
      BY <2>1, <2>2, <2>3, Holders DEF LockDiscipline
    <2>. QED BY <2>4, <2>5 DEF Locking
  <1>. QED BY <1>2, <1>3, <1>4, <1>5, <1>6 DEF InitFromZK

LEMMA CloseLocks ==
    ASSUME PyInv, Close
    PROVE  Locking'
  <1>. USE DEF zkVars, listVars, callVars, GoTo
  <1>1. DOMAIN phase = Workers
    BY DEF PyInv, Typed
  <1>2. CASE StopZk
    <2>1. /\ phase["main"] = "up" /\ phase' = [phase EXCEPT !["main"] = "closing"]
          /\ UNCHANGED <<lock, pc, connPoolIndex, connPool, torn>>
      BY <1>2 DEF StopZk
    <2>2. \A v \in Workers : InInit(v)' <=> InInit(v)
      BY <1>1, <2>1 DEF InInit
    <2>. QED BY <2>1, <2>2
             DEF PyInv, Locking, TakesPlace, LockDiscipline, IndexInRange
  <1>3. CASE EmptyPool
    <2>1. /\ phase["main"] = "closing"
          /\ phase' = [phase EXCEPT !["main"] = "closed"]
          /\ torn' = (torn \/ lock # Null)
          /\ UNCHANGED <<lock, pc, connPoolIndex>>
      BY <1>3 DEF EmptyPool
    <2>2. \A v \in Workers : InInit(v)' <=> InInit(v)
      BY <1>1, <2>1 DEF InInit
    <2>3. TakesPlace' /\ LockDiscipline'
      BY <2>1, <2>2 DEF PyInv, TakesPlace, LockDiscipline
    <2>4. ASSUME NEW t \in Threads, pc[t] = "take"
          PROVE  torn'
      <3>1. lock # Null
        BY <2>4, LockOfThread, Holders
      <3>. QED BY <2>1, <3>1
    <2>5. IndexInRange'
      BY <2>1, <2>4 DEF IndexInRange
    <2>. QED BY <2>3, <2>5 DEF Locking
  <1>. QED BY <1>2, <1>3 DEF Close

LEMMA CallLocks ==
    ASSUME PyInv, NEW t \in Threads, StartCall(t) \/ Call(t)
    PROVE  Locking'
  <1>. USE DEF zkVars, listVars, callVars, Step, Leave
  <1>1. DOMAIN pc = Threads
    BY DEF PyInv, Typed
  <1>2. CASE StartCall(t) \/ Command(t) \/ ConnectionError(t)
    <2>1. /\ pc[t] # "take"
          /\ \E p \in {"idle", "get"} : pc' = [pc EXCEPT ![t] = p]
          /\ UNCHANGED <<phase, lock, connPoolIndex, connPool, torn>>
      BY <1>2 DEF StartCall, Command, ConnectionError
    <2>2. \A u \in Threads : pc'[u] = "take" <=> pc[u] = "take"
      BY <1>1, <2>1
    <2>. QED BY <2>1, <2>2
             DEF PyInv, Locking, TakesPlace, LockDiscipline, IndexInRange, InInit
  <1>3. CASE AdvanceIndex(t)
    <2>1. /\ lock = Null /\ lock' = t /\ connPool # << >>
          /\ connPoolIndex' = NextIndex
          /\ pc' = [pc EXCEPT ![t] = "take"]
          /\ UNCHANGED <<phase, connPool, torn>>
      BY <1>3 DEF AdvanceIndex
    <2>2. /\ \A w \in Workers : ~InInit(w)
          /\ \A u \in Threads : pc[u] # "take"
      BY <2>1, LockFree
    <2>3. TakesPlace' /\ IndexInRange'
      BY <2>1, <2>2, NextIndexInRange DEF TakesPlace, IndexInRange
    <2>4. \A w \in Workers : ~InInit(w)'
      BY <2>1, <2>2 DEF InInit
    <2>5. \A u \in Threads : pc'[u] = "take" <=> u = t
      BY <1>1, <2>1, <2>2
    <2>6. LockDiscipline'
      BY <2>1, <2>4, <2>5, Holders DEF LockDiscipline
    <2>. QED BY <2>3, <2>6 DEF Locking
  <1>4. CASE NoProxy(t)
    <2>1. /\ lock = Null /\ pc' = [pc EXCEPT ![t] = "idle"]
          /\ UNCHANGED <<phase, lock, connPool, torn>>
      BY <1>4 DEF NoProxy
    <2>2. \A u \in Threads : pc'[u] # "take"
      BY <1>1, <2>1, LockFree
    <2>. QED BY <2>1, <2>2, LockFree, Holders
             DEF Locking, TakesPlace, LockDiscipline, IndexInRange, InInit
  <1>5. CASE TakeConn(t)
    <2>1. /\ pc[t] = "take" /\ lock' = Null
          /\ pc' = [pc EXCEPT ![t] = "command"]
          /\ UNCHANGED <<phase, connPool, connPoolIndex, torn>>
      BY <1>5 DEF TakeConn
    <2>2. \A u \in Threads : pc'[u] # "take"
      BY <1>1, <2>1, LockOfThread
    <2>3. \A w \in Workers : ~InInit(w)'
      BY <2>1, LockOfThread DEF InInit
    <2>. QED BY <2>1, <2>2, <2>3, Holders
             DEF Locking, TakesPlace, LockDiscipline, IndexInRange
  <1>6. CASE TakeFails(t)
    <2>1. /\ pc[t] = "take" /\ connPoolIndex >= Len(connPool)
          /\ pc' = [pc EXCEPT ![t] = "idle"]
          /\ UNCHANGED <<phase, lock, connPool, connPoolIndex, torn>>
      BY <1>6 DEF TakeFails
    <2>2. torn
      <3>1. connPoolIndex \in 0..(Len(connPool) - 1) \/ torn
        BY <2>1 DEF PyInv, IndexInRange
      <3>2. connPoolIndex \in Nat /\ Len(connPool) \in Nat
        BY <2>1 DEF PyInv, TakesPlace, Typed
      <3>. QED BY <2>1, <3>1, <3>2
    <2>3. \A u \in Threads : pc'[u] # "take"
      BY <1>1, <2>1, LockOfThread
    <2>. QED BY <2>1, <2>2, <2>3
             DEF PyInv, Locking, TakesPlace, LockDiscipline, IndexInRange, InInit
  <1>. QED BY <1>2, <1>3, <1>4, <1>5, <1>6 DEF Call, GetProxy

LEMMA LockStep == PyInv /\ [Next]_vars => Locking'
  <1>. SUFFICES ASSUME PyInv, [Next]_vars PROVE Locking'
    OBVIOUS
  <1>. USE DEF listVars, callVars, lockVars, Locking
  <1>1. CASE Zookeeper
    BY <1>1, SameLock DEF Zookeeper, Register, Deregister, SetState, ChangeNode,
                          LoseConnection, Reconnect
  <1>2. CASE OnExpired \/ UNCHANGED vars
    BY <1>2, SameLock DEF OnExpired, vars
  <1>3. CASE OnNodeEvent
    <2>1. /\ phase["callback"] = "idle"
          /\ phase' = [phase EXCEPT !["callback"] = "wait"]
          /\ UNCHANGED <<lock, pc, connPoolIndex, connPool, torn>>
      BY <1>3 DEF OnNodeEvent, GoTo
    <2>2. \A w \in Workers : InInit(w)' <=> InInit(w)
      BY <2>1 DEF InInit, PyInv, Typed
    <2>. QED BY <2>1, <2>2 DEF PyInv, TakesPlace, LockDiscipline, IndexInRange
  <1>. QED BY <1>1, <1>2, <1>3, InitFromZKLocks, CloseLocks, CallLocks
           DEF Next, Stuck

LEMMA PyInvariant == Spec => []PyInv
  <1>1. PyInv /\ [Next]_vars => PyInv'
    BY TypedStep, LockStep DEF PyInv, Locking
  <1>. QED BY <1>1, InitPyInv, PTL DEF Spec

\* The lock is held by whoever builds the list or is between the two steps of
\* __getProxy, and by nobody else: for any number of threads, and whatever
\* ZooKeeper and the connections do.
THEOREM LockDisciplineHolds == Spec => []LockDiscipline
  <1>1. PyInv => LockDiscipline
    BY DEF PyInv
  <1>. QED BY <1>1, PyInvariant, PTL

\* The index that __getProxy has computed is one of the list when it is used,
\* unless close() has emptied the list in between.
THEOREM IndexInRangeHolds == Spec => []IndexInRange
  <1>1. PyInv => IndexInRange
    BY DEF PyInv
  <1>. QED BY <1>1, PyInvariant, PTL

----------------------------------------------------------------------------
(* Where the retry goes.                                                   *)

Distinct(s) == \A i, j \in 1..Len(s) : s[i] = s[j] => i = j

\* A list is built of the proxies that were listed and read, each once, and
\* no call has its first connection of an older one.
Builds(w) ==
    /\ phase[w] = "start" => proxylist = << >>
    /\ \A i \in 1..Len(proxylist) : proxylist[i] \notin todo[w]
    /\ pos[w] \in 0..Len(proxylist)
    /\ phase[w] = "start" \/ todo[w] # {} => pos[w] = 0
    /\ \A i \in 1..Len(connPool) :
          \E j \in 1..pos[w] : connPool[i] = proxylist[j]
    /\ first = NoFirst

ListsInv ==
    /\ Distinct(proxylist) /\ Distinct(connPool)
    /\ \A w \in Workers : /\ InInit(w) => Builds(w)
                          /\ ~InInit(w) => todo[w] = {} /\ pos[w] = 0

Places == 0..(Len(connPool) - 1)
After(i) == IF i + 1 >= Len(connPool) THEN 0 ELSE i + 1

\* The index is still where the first attempt of a call has left it, as long
\* as that attempt's connection is known, until the retry moves it on.
WaitsAt(t) ==
    /\ lock = Null
    /\ pc[t] = "get" \/ (pc[t] = "command" /\ attempt[t] = 1)
FirstOf(t) ==
    /\ pc[t] = "idle" \/ (pc[t] \in {"get", "take"} /\ attempt[t] = 1)
         => first[t] = Null
    /\ pc[t] # "idle" => attempt[t] \in {1, 2}
    /\ first[t] # Null /\ WaitsAt(t) =>
         connPoolIndex \in Places /\ first[t] = connPool[connPoolIndex + 1]
    /\ first[t] # Null /\ pc[t] = "take" =>
         \E i \in Places : /\ first[t] = connPool[i + 1]
                           /\ connPoolIndex = After(i)
    /\ attempt[t] = 2 /\ pc[t] = "command" /\ first[t] # Null
         /\ Len(connPool) > 1 => conn[t] # first[t]

FirstInv == \A t \in Threads : FirstOf(t)

RetryInv == PyInv /\ ListsInv /\ FirstInv

LEMMA InitRetryInv == Init => RetryInv
  <1>. SUFFICES ASSUME Init PROVE RetryInv
    OBVIOUS
  <1>1. ListsInv
    BY DEF Init, ListsInv, Distinct, InInit
  <1>2. FirstInv
    BY DEF Init, FirstInv, FirstOf, WaitsAt
  <1>. QED BY <1>1, <1>2, InitPyInv DEF RetryInv

\* Nothing that the two invariants are about has changed.
LEMMA SameRetry ==
    ASSUME RetryInv,
           UNCHANGED <<proxylist, connPool, todo, pos, pc, conn, attempt,
                       first, lock, connPoolIndex>>,
           \A w \in Workers : /\ InInit(w)' <=> InInit(w)
                              /\ phase'[w] = "start" <=> phase[w] = "start"
    PROVE  ListsInv' /\ FirstInv'
  <1>1. ListsInv'
    BY DEF RetryInv, ListsInv, Builds, Distinct, NoFirst
  <1>2. FirstInv'
    BY DEF RetryInv, FirstInv, FirstOf, WaitsAt, Places, After
  <1>. QED BY <1>1, <1>2

\* Calls that have no first connection.
LEMMA NoFirstInv ==
    ASSUME RetryInv, first' = NoFirst, UNCHANGED <<pc, attempt>>
    PROVE  FirstInv'
  BY DEF RetryInv, FirstInv, FirstOf, NoFirst

LEMMA BeginKeepsRetry ==
    ASSUME RetryInv, NEW w \in Workers, Begin(w)
    PROVE  ListsInv' /\ FirstInv'
  <1>1. /\ lock = Null /\ phase[w] = "wait"
        /\ proxylist' = << >> /\ connPool' = << >> /\ first' = NoFirst
        /\ phase' = [phase EXCEPT ![w] = "start"]
        /\ UNCHANGED <<todo, pos, pc, attempt>>
    BY DEF Begin, GoTo
  <1>2. \A v \in Workers : ~InInit(v) /\ todo[v] = {} /\ pos[v] = 0
    BY <1>1, LockFree DEF RetryInv, ListsInv
  <1>3. \A v \in Workers : InInit(v)' <=> v = w
    BY <1>1, <1>2 DEF InInit, RetryInv, PyInv, Typed
  <1>4. Builds(w)'
    BY <1>1, <1>2 DEF Builds, NoFirst
  <1>5. ListsInv'
    BY <1>1, <1>2, <1>3, <1>4 DEF ListsInv, Distinct
  <1>. QED BY <1>1, <1>5, NoFirstInv

\* Steps of one __InitFromZK: the other thread is not in its own.
LEMMA OnlyBuilder ==
    ASSUME RetryInv, NEW w \in Workers, InInit(w)
    PROVE  /\ first = NoFirst /\ Builds(w)
           /\ \A v \in Workers \ {w} :
                 ~InInit(v) /\ todo[v] = {} /\ pos[v] = 0
  BY LockOfWorker DEF RetryInv, ListsInv, Builds

LEMMA ReadKeepsRetry ==
    ASSUME RetryInv, NEW w \in Workers, GetChildren(w) \/ GetNode(w)
    PROVE  ListsInv' /\ FirstInv'
  <1>. USE DEF listVars, callVars, GoTo
  <1>1. InInit(w)
    BY DEF GetChildren, GetNode, InInit
  <1>2. /\ first = NoFirst /\ Builds(w)
        /\ \A v \in Workers \ {w} : ~InInit(v) /\ todo[v] = {} /\ pos[v] = 0
    BY <1>1, OnlyBuilder
  <1>3. /\ DOMAIN phase = Workers /\ todo \in [Workers -> SUBSET Proxies]
        /\ proxylist \in Seq(Proxies) /\ connPool \in Seq(Proxies)
        /\ pos[w] \in Nat
    BY DEF RetryInv, PyInv, Typed
  <1>4. CASE GetChildren(w)
    <2>1. /\ phase[w] = "start" /\ phase' = [phase EXCEPT ![w] = "read"]
          /\ \E c : todo' = [todo EXCEPT ![w] = c]
          /\ UNCHANGED <<proxylist, connPool, pos, first, pc, attempt>>
      BY <1>4 DEF GetChildren
    <2>2. \A v \in Workers : InInit(v)' <=> InInit(v)
      BY <1>3, <2>1 DEF InInit
    <2>3. Builds(w)'
      BY <1>2, <1>3, <2>1 DEF Builds, NoFirst
    <2>4. ListsInv'
      BY <1>1, <1>2, <1>3, <2>1, <2>2, <2>3 DEF RetryInv, ListsInv, Distinct
    <2>. QED BY <1>2, <2>1, <2>4, NoFirstInv DEF NoFirst
  <1>5. CASE GetNode(w)
    <2>1. /\ phase[w] = "read"
          /\ UNCHANGED <<phase, connPool, pos, first, pc, attempt>>
      BY <1>5 DEF GetNode
    <2>2. PICK p \in todo[w] :
             /\ todo' = [todo EXCEPT ![w] = @ \ {p}]
             /\ proxylist' = proxylist \/ proxylist' = Append(proxylist, p)
      BY <1>5 DEF GetNode
    <2>3. p \in Proxies /\ pos[w] = 0 /\ Len(connPool) = 0
      BY <1>2, <1>3, <2>2 DEF Builds
    <2>4. /\ Distinct(proxylist')
          /\ \A i \in 1..Len(proxylist') : proxylist'[i] \notin todo'[w]
          /\ Len(proxylist') \in Nat
      <3>1. /\ Distinct(proxylist) /\ Len(proxylist) \in Nat
            /\ \A i \in 1..Len(proxylist) : /\ proxylist[i] \notin todo[w]
                                            /\ proxylist[i] # p
        BY <1>2, <1>3, <2>2 DEF RetryInv, ListsInv, Builds
      <3>2. CASE proxylist' = proxylist
        BY <1>3, <2>2, <3>1, <3>2
      <3>3. CASE proxylist' = Append(proxylist, p)
        <4>1. /\ Len(proxylist') = Len(proxylist) + 1
              /\ \A i \in 1..Len(proxylist) : proxylist'[i] = proxylist[i]
              /\ proxylist'[Len(proxylist) + 1] = p
          BY <1>3, <2>3, <3>3, AppendProperties
        <4>2. todo'[w] = todo[w] \ {p}
          BY <1>3, <2>2
        <4>3. \A i \in 1..Len(proxylist') :
                 i \in 1..Len(proxylist) \/ i = Len(proxylist) + 1
          BY <3>1, <4>1
        <4>4. Distinct(proxylist')
          BY <3>1, <4>1, <4>3 DEF Distinct
        <4>5. \A i \in 1..Len(proxylist') : proxylist'[i] \notin todo'[w]
          BY <3>1, <4>1, <4>2, <4>3
        <4>. QED BY <3>1, <4>1, <4>4, <4>5
      <3>. QED BY <2>2, <3>2, <3>3
    <2>5. Builds(w)'
      BY <1>2, <2>1, <2>3, <2>4 DEF Builds, NoFirst
    <2>6. \A v \in Workers : InInit(v)' <=> InInit(v)
      BY <2>1 DEF InInit
    <2>7. ListsInv'
      BY <1>1, <1>2, <1>3, <2>1, <2>2, <2>4, <2>5, <2>6
      DEF RetryInv, ListsInv, Distinct
    <2>. QED BY <1>2, <2>1, <2>7, NoFirstInv DEF NoFirst
  <1>. QED BY <1>4, <1>5

LEMMA FillKeepsRetry ==
    ASSUME RetryInv, NEW w \in Workers, Fill(w)
    PROVE  ListsInv' /\ FirstInv'
  <1>1. /\ InInit(w) /\ phase[w] = "read" /\ todo[w] = {}
        /\ pos[w] < Len(proxylist)
        /\ connPool' = Append(connPool, proxylist[pos[w] + 1])
        /\ pos' = [pos EXCEPT ![w] = @ + 1]
        /\ UNCHANGED <<proxylist, phase, todo, first, pc, attempt>>
    BY DEF Fill, Filling, InInit, callVars
  <1>2. /\ first = NoFirst /\ Builds(w)
        /\ \A v \in Workers \ {w} : ~InInit(v) /\ todo[v] = {} /\ pos[v] = 0
    BY <1>1, OnlyBuilder
  <1>3. /\ proxylist \in Seq(Proxies) /\ connPool \in Seq(Proxies)
        /\ pos \in [Workers -> Nat]
        /\ Len(proxylist) \in Nat /\ Len(connPool) \in Nat
    BY DEF RetryInv, PyInv, Typed
  <1>. DEFINE e == proxylist[pos[w] + 1]
  <1>4. pos[w] + 1 \in 1..Len(proxylist) /\ e \in Proxies
    BY <1>1, <1>3, ElementOfSeq
  <1>5. /\ Len(connPool') = Len(connPool) + 1
        /\ \A i \in 1..Len(connPool) : connPool'[i] = connPool[i]
        /\ connPool'[Len(connPool) + 1] = e
    BY <1>1, <1>3, <1>4, AppendProperties
  <1>6. \A i \in 1..Len(connPool) :
           \E j \in 1..pos[w] : connPool[i] = proxylist[j]
    BY <1>2 DEF Builds
  <1>7. Distinct(connPool')
    <2>1. Distinct(connPool) /\ Distinct(proxylist)
      BY DEF RetryInv, ListsInv
    <2>2. \A i \in 1..Len(connPool) : connPool[i] # e
      <3>. TAKE i \in 1..Len(connPool)
      <3>1. PICK j \in 1..pos[w] : connPool[i] = proxylist[j]
        BY <1>6
      <3>2. j \in 1..Len(proxylist) /\ j # pos[w] + 1
        BY <1>1, <1>3
      <3>. QED BY <1>4, <2>1, <3>1, <3>2 DEF Distinct
    <2>. HIDE DEF e
    <2>. QED BY <1>3, <1>5, <2>1, <2>2 DEF Distinct
  <1>8. Builds(w)'
    <2>1. pos'[w] = pos[w] + 1
      BY <1>1, <1>3
    <2>2. ASSUME NEW i \in 1..Len(connPool')
          PROVE  \E j \in 1..pos'[w] : connPool'[i] = proxylist[j]
      <3>1. CASE i \in 1..Len(connPool)
        BY <3>1, <1>3, <1>5, <1>6, <2>1
      <3>2. CASE i = Len(connPool) + 1
        <4>1. pos[w] + 1 \in 1..pos'[w]
          BY <1>3, <2>1
        <4>. QED BY <3>2, <1>5, <4>1
      <3>. QED BY <3>1, <3>2, <1>3, <1>5
    <2>3. pos'[w] \in 0..Len(proxylist)
      BY <1>1, <1>3, <2>1
    <2>4. /\ phase'[w] # "start" /\ todo'[w] = {} /\ first' = NoFirst'
          /\ UNCHANGED <<proxylist, todo>>
      BY <1>1, <1>2 DEF NoFirst
    <2>. QED BY <1>2, <2>2, <2>3, <2>4 DEF Builds
  <1>9. \A v \in Workers : InInit(v)' <=> InInit(v)
    BY <1>1 DEF InInit
  <1>10. ListsInv'
    BY <1>1, <1>2, <1>3, <1>7, <1>8, <1>9 DEF RetryInv, ListsInv
  <1>. QED BY <1>1, <1>2, <1>10, NoFirstInv DEF NoFirst

LEMMA ReleaseKeepsRetry ==
    ASSUME RetryInv, NEW w \in Workers, InitDone(w) \/ NodeGone(w) \/ ZkFails(w)
    PROVE  ListsInv' /\ FirstInv'
  <1>1. /\ InInit(w)
        /\ phase' = [phase EXCEPT ![w] = IF w = "main" THEN "up" ELSE "idle"]
        /\ todo' = [todo EXCEPT ![w] = {}]
        /\ pos' = [pos EXCEPT ![w] = 0]
        /\ UNCHANGED <<proxylist, connPool, first, pc, attempt>>
    BY DEF InitDone, NodeGone, ZkFails, Filling, UsesZk, Release, InInit, GoTo,
           callVars
  <1>2. /\ first = NoFirst
        /\ \A v \in Workers \ {w} : ~InInit(v) /\ todo[v] = {} /\ pos[v] = 0
    BY <1>1, OnlyBuilder
  <1>3. DOMAIN phase = Workers /\ DOMAIN todo = Workers /\ DOMAIN pos = Workers
    BY DEF RetryInv, PyInv, Typed
  <1>4. \A v \in Workers : ~InInit(v)' /\ todo'[v] = {} /\ pos'[v] = 0
    BY <1>1, <1>2, <1>3 DEF InInit
  <1>5. ListsInv'
    BY <1>1, <1>4 DEF RetryInv, ListsInv, Distinct
  <1>. QED BY <1>1, <1>2, <1>5, NoFirstInv DEF NoFirst

LEMMA CloseKeepsRetry ==
    ASSUME RetryInv, Close
    PROVE  ListsInv' /\ FirstInv'
  <1>. USE DEF listVars, callVars, GoTo
  <1>1. DOMAIN phase = Workers
    BY DEF RetryInv, PyInv, Typed
  <1>2. CASE StopZk
    <2>1. /\ phase["main"] = "up" /\ phase' = [phase EXCEPT !["main"] = "closing"]
          /\ UNCHANGED <<proxylist, connPool, todo, pos, pc, conn, attempt,
                         first, lock, connPoolIndex>>
      BY <1>2 DEF StopZk
    <2>2. \A w \in Workers : /\ InInit(w)' <=> InInit(w)
                             /\ phase'[w] = "start" <=> phase[w] = "start"
      BY <1>1, <2>1 DEF InInit
    <2>. QED BY <2>1, <2>2, SameRetry
  <1>3. CASE EmptyPool
    <2>1. /\ phase["main"] = "closing"
          /\ phase' = [phase EXCEPT !["main"] = "closed"]
          /\ connPool' = << >> /\ first' = NoFirst
          /\ UNCHANGED <<proxylist, todo, pos, pc, attempt>>
      BY <1>3 DEF EmptyPool
    <2>2. \A w \in Workers : /\ InInit(w)' <=> InInit(w)
                             /\ phase'[w] = "start" <=> phase[w] = "start"
      BY <1>1, <2>1 DEF InInit
    <2>3. \A w \in Workers : Builds(w) => Builds(w)'
      BY <2>1, <2>2 DEF Builds, NoFirst
    <2>4. ListsInv'
      BY <2>1, <2>2, <2>3 DEF RetryInv, ListsInv, Distinct
    <2>. QED BY <2>1, <2>4, NoFirstInv
  <1>. QED BY <1>2, <1>3 DEF Close

----------------------------------------------------------------------------
\* A thread's steps leave the lists alone, and change only its own
\* connections, except where it takes one.
LEMMA CallKeepsLists ==
    ASSUME RetryInv, NEW t \in Threads, StartCall(t) \/ Call(t)
    PROVE  ListsInv'
  <1>. USE DEF listVars, callVars, Leave
  <1>1. UNCHANGED <<proxylist, connPool, phase, todo, pos>>
    BY DEF StartCall, Call, GetProxy, AdvanceIndex, NoProxy, TakeConn,
           TakeFails, Command, ConnectionError
  <1>2. ASSUME NEW w \in Workers, InInit(w)
        PROVE  Builds(w)'
    <2>1. first = NoFirst /\ Builds(w)
      BY <1>2, OnlyBuilder
    <2>2. ~TakeConn(t)
      BY <1>2, LockOfWorker DEF TakeConn, RetryInv
    <2>3. first' = first \/ first' = [first EXCEPT ![t] = Null]
      BY <2>2 DEF StartCall, Call, GetProxy, AdvanceIndex, NoProxy,
                  TakeFails, Command, ConnectionError
    <2>4. first' = NoFirst
      BY <2>1, <2>3 DEF NoFirst
    <2>. QED BY <1>1, <2>1, <2>4 DEF Builds, NoFirst
  <1>. QED BY <1>1, <1>2 DEF RetryInv, ListsInv, Distinct, InInit

\* Another thread's call is not disturbed by a step that leaves the lock, the
\* list and its index alone.
LEMMA OtherCall ==
    ASSUME RetryInv, NEW t \in Threads, NEW u \in Threads, u # t,
           NEW p, NEW c, NEW a, NEW f,
           pc' = [pc EXCEPT ![t] = p], conn' = [conn EXCEPT ![t] = c],
           attempt' = [attempt EXCEPT ![t] = a],
           first' = [first EXCEPT ![t] = f],
           UNCHANGED <<lock, connPool, connPoolIndex>>
    PROVE  FirstOf(u)'
  <1>1. /\ pc'[u] = pc[u] /\ conn'[u] = conn[u] /\ attempt'[u] = attempt[u]
        /\ first'[u] = first[u]
    BY DEF RetryInv, PyInv, Typed
  <1>2. FirstOf(u)
    BY DEF RetryInv, FirstInv
  <1>. QED BY <1>1, <1>2 DEF FirstOf, WaitsAt, Places, After

LEMMA CallKeepsFirst ==
    ASSUME RetryInv, NEW t \in Threads, StartCall(t) \/ Call(t)
    PROVE  FirstInv'
  <1>. USE DEF listVars, callVars, Leave, Step
  <1>1. /\ pc \in [Threads -> {"idle", "get", "take", "command"}]
        /\ conn \in [Threads -> Proxies \cup {Null}]
        /\ attempt \in [Threads -> 0..2]
        /\ first \in [Threads -> Proxies \cup {Null}]
        /\ connPool \in Seq(Proxies) /\ Len(connPool) \in Nat
        /\ connPoolIndex \in Int
    BY DEF RetryInv, PyInv, Typed
  <1>2. FirstOf(t)
    BY DEF RetryInv, FirstInv
  <1>3. CASE StartCall(t)
    <2>1. /\ pc[t] = "idle" /\ pc' = [pc EXCEPT ![t] = "get"]
          /\ attempt' = [attempt EXCEPT ![t] = 1]
          /\ UNCHANGED <<conn, first, lock, connPool, connPoolIndex>>
      BY <1>3 DEF StartCall
    <2>2. FirstOf(t)'
      BY <1>1, <1>2, <2>1 DEF FirstOf, WaitsAt
    <2>3. ASSUME NEW u \in Threads, u # t
          PROVE  FirstOf(u)'
      <3>1. pc'[u] = pc[u] /\ attempt'[u] = attempt[u]
        BY <1>1, <2>1, <2>3
      <3>2. FirstOf(u)
        BY DEF RetryInv, FirstInv
      <3>. QED BY <2>1, <3>1, <3>2 DEF FirstOf, WaitsAt, Places, After
    <2>. QED BY <2>2, <2>3 DEF FirstInv
  <1>4. CASE AdvanceIndex(t)
    <2>1. /\ pc[t] = "get" /\ lock = Null /\ connPool # << >>
          /\ connPoolIndex' = NextIndex /\ lock' = t
          /\ pc' = [pc EXCEPT ![t] = "take"]
          /\ UNCHANGED <<conn, attempt, first, connPool>>
      BY <1>4 DEF AdvanceIndex
    <2>2. lock' # Null
      BY <2>1, Holders
    <2>3. FirstOf(t)'
      <3>1. ASSUME first[t] # Null
            PROVE  \E i \in Places : first[t] = connPool[i + 1] /\ NextIndex = After(i)
        <4>1. connPoolIndex \in Places /\ first[t] = connPool[connPoolIndex + 1]
          BY <1>2, <2>1, <3>1 DEF FirstOf, WaitsAt
        <4>. QED BY <4>1 DEF NextIndex, After
      <3>2. pc'[t] = "take"
        BY <1>1, <2>1
      <3>3. (\E i \in Places : first[t] = connPool[i + 1] /\ NextIndex = After(i))
              => (\E i \in Places : first[t] = connPool[i + 1] /\ connPoolIndex = After(i))'
        BY <2>1 DEF Places, After
      <3>. QED BY <1>2, <2>1, <2>2, <3>1, <3>2, <3>3 DEF FirstOf, WaitsAt
    <2>4. ASSUME NEW u \in Threads, u # t
          PROVE  FirstOf(u)'
      <3>1. pc[u] # "take" /\ pc'[u] = pc[u]
        BY <1>1, <2>1, <2>4, LockFree DEF RetryInv
      <3>2. FirstOf(u)
        BY DEF RetryInv, FirstInv
      <3>. QED BY <2>1, <2>2, <3>1, <3>2 DEF FirstOf, WaitsAt
    <2>. QED BY <2>3, <2>4 DEF FirstInv
  <1>5. CASE NoProxy(t)
    <2>1. /\ pc[t] = "get" /\ lock = Null /\ connPool = << >>
          /\ pc' = [pc EXCEPT ![t] = "idle"]
          /\ conn' = [conn EXCEPT ![t] = Null]
          /\ attempt' = [attempt EXCEPT ![t] = 0]
          /\ first' = [first EXCEPT ![t] = Null]
          /\ UNCHANGED <<lock, connPool>>
      BY <1>5 DEF NoProxy
    <2>2. FirstOf(t)'
      BY <1>1, <2>1 DEF FirstOf, WaitsAt
    <2>3. ASSUME NEW u \in Threads, u # t
          PROVE  FirstOf(u)'
      <3>1. /\ pc'[u] = pc[u] /\ conn'[u] = conn[u]
            /\ attempt'[u] = attempt[u] /\ first'[u] = first[u]
        BY <1>1, <2>1, <2>3
      <3>2. FirstOf(u) /\ pc[u] # "take" /\ Len(connPool) = 0
        BY <2>1, LockFree DEF RetryInv, FirstInv
      <3>3. Places = {}
        BY <3>2 DEF Places
      <3>. QED BY <2>1, <3>1, <3>2, <3>3 DEF FirstOf, WaitsAt
    <2>. QED BY <2>2, <2>3 DEF FirstInv
  <1>6. CASE TakeConn(t)
    <2>. DEFINE c == connPool[connPoolIndex + 1]
    <2>1. /\ pc[t] = "take" /\ connPoolIndex < Len(connPool)
          /\ conn' = [conn EXCEPT ![t] = c]
          /\ first' = [u \in Threads |->
                          IF u # t THEN Null
                          ELSE IF attempt[t] = 1 THEN c ELSE first[t]]
          /\ pc' = [pc EXCEPT ![t] = "command"]
          /\ UNCHANGED <<attempt, connPool, connPoolIndex>>
      BY <1>6 DEF TakeConn
    <2>2. connPoolIndex \in Places
      BY <1>1, <2>1 DEF RetryInv, PyInv, TakesPlace, Places
    <2>3. ASSUME NEW u \in Threads, u # t
          PROVE  FirstOf(u)'
      <3>1. first'[u] = Null /\ pc'[u] = pc[u] /\ attempt'[u] = attempt[u]
        BY <1>1, <2>1, <2>3
      <3>2. FirstOf(u)
        BY DEF RetryInv, FirstInv
      <3>. QED BY <3>1, <3>2 DEF FirstOf
    <2>4. ASSUME attempt[t] = 2, first[t] # Null, Len(connPool) > 1
          PROVE  c # first[t]
      <3>1. PICK i \in Places : first[t] = connPool[i + 1] /\ connPoolIndex = After(i)
        BY <1>2, <2>1, <2>4 DEF FirstOf
      <3>2. /\ i + 1 \in 1..Len(connPool)
            /\ connPoolIndex + 1 \in 1..Len(connPool)
            /\ connPoolIndex + 1 # i + 1
        BY <1>1, <2>2, <2>4, <3>1 DEF Places, After
      <3>. QED BY <3>1, <3>2 DEF RetryInv, ListsInv, Distinct
    <2>5. attempt[t] \in {1, 2}
      BY <1>2, <2>1 DEF FirstOf
    <2>6. /\ pc'[t] = "command" /\ conn'[t] = c /\ attempt'[t] = attempt[t]
          /\ first'[t] = IF attempt[t] = 1 THEN c ELSE first[t]
      BY <1>1, <2>1
    <2>. HIDE DEF c
    <2>7. FirstOf(t)'
      <3>1. UNCHANGED Places /\ c = connPool'[connPoolIndex' + 1]
        BY <2>1 DEF Places, c
      <3>. QED BY <2>1, <2>2, <2>4, <2>5, <2>6, <3>1 DEF FirstOf, WaitsAt
    <2>. QED BY <2>3, <2>7 DEF FirstInv
  <1>7. CASE TakeFails(t) \/ Command(t)
    <2>1. /\ pc' = [pc EXCEPT ![t] = "idle"]
          /\ conn' = [conn EXCEPT ![t] = Null]
          /\ attempt' = [attempt EXCEPT ![t] = 0]
          /\ first' = [first EXCEPT ![t] = Null]
          /\ UNCHANGED <<lock, connPool, connPoolIndex>>
      BY <1>7 DEF TakeFails, Command
    <2>2. FirstOf(t)'
      BY <1>1, <2>1 DEF FirstOf, WaitsAt
    <2>. QED BY <2>1, <2>2, OtherCall DEF FirstInv
  <1>8. CASE ConnectionError(t)
    <2>1. pc[t] = "command" /\ UNCHANGED <<lock, connPool, connPoolIndex>>
      BY <1>8 DEF ConnectionError
    <2>2. CASE attempt[t] = 1
      <3>1. /\ pc' = [pc EXCEPT ![t] = "get"]
            /\ conn' = [conn EXCEPT ![t] = Null]
            /\ attempt' = [attempt EXCEPT ![t] = 2]
            /\ first' = [first EXCEPT ![t] = first[t]]
        BY <1>1, <1>8, <2>2 DEF ConnectionError
      <3>2. /\ pc'[t] = "get" /\ attempt'[t] = 2 /\ first'[t] = first[t]
        BY <1>1, <3>1
      <3>3. FirstOf(t)'
        BY <1>2, <2>1, <2>2, <3>2 DEF FirstOf, WaitsAt, Places
      <3>. QED BY <2>1, <3>1, <3>3, OtherCall DEF FirstInv
    <2>3. CASE attempt[t] # 1
      <3>1. /\ pc' = [pc EXCEPT ![t] = "idle"]
            /\ conn' = [conn EXCEPT ![t] = Null]
            /\ attempt' = [attempt EXCEPT ![t] = 0]
            /\ first' = [first EXCEPT ![t] = Null]
        BY <1>8, <2>3 DEF ConnectionError
      <3>2. FirstOf(t)'
        BY <1>1, <3>1 DEF FirstOf, WaitsAt
      <3>. QED BY <2>1, <3>1, <3>2, OtherCall DEF FirstInv
    <2>. QED BY <2>2, <2>3
  <1>. QED BY <1>3, <1>4, <1>5, <1>6, <1>7, <1>8 DEF Call, GetProxy

LEMMA RetryStep == RetryInv /\ [Next]_vars => RetryInv'
  <1>. SUFFICES ASSUME RetryInv, [Next]_vars PROVE RetryInv'
    OBVIOUS
  <1>1. PyInv'
    BY TypedStep, LockStep DEF RetryInv, PyInv, Locking
  <1>2. ListsInv' /\ FirstInv'
    <2>. USE DEF listVars, callVars
    <2>1. ASSUME UNCHANGED <<listVars, callVars, lock, connPoolIndex>>
          PROVE  ListsInv' /\ FirstInv'
      BY <2>1, SameRetry DEF InInit
    <2>2. CASE Zookeeper \/ OnExpired \/ UNCHANGED vars
      <3>1. UNCHANGED <<listVars, callVars, lock, connPoolIndex>>
        BY <2>2 DEF Zookeeper, Register, Deregister, SetState, ChangeNode,
                    LoseConnection, Reconnect, OnExpired, vars
      <3>. QED BY <2>1, <3>1
    <2>3. CASE OnNodeEvent
      <3>1. /\ phase["callback"] = "idle"
            /\ phase' = [phase EXCEPT !["callback"] = "wait"]
            /\ UNCHANGED <<proxylist, connPool, todo, pos, callVars, lock,
                           connPoolIndex>>
        BY <2>3 DEF OnNodeEvent, GoTo
      <3>2. \A w \in Workers : /\ InInit(w)' <=> InInit(w)
                               /\ phase'[w] = "start" <=> phase[w] = "start"
        BY <3>1 DEF InInit, RetryInv, PyInv, Typed
      <3>. QED BY <3>1, <3>2, SameRetry
    <2>4. ASSUME NEW w \in Workers, Begin(w) \/ InitFromZK(w)
          PROVE  ListsInv' /\ FirstInv'
      <3>1. CASE StartZk(w)
        BY <2>1, <3>1 DEF StartZk
      <3>. QED BY <2>4, <3>1, BeginKeepsRetry, ReadKeepsRetry, FillKeepsRetry,
                  ReleaseKeepsRetry DEF InitFromZK
    <2>5. ASSUME NEW t \in Threads, StartCall(t) \/ Call(t)
          PROVE  ListsInv' /\ FirstInv'
      BY <2>5, CallKeepsLists, CallKeepsFirst
    <2>. QED BY <2>2, <2>3, <2>4, <2>5, CloseKeepsRetry DEF Next, Stuck
  <1>. QED BY <1>1, <1>2 DEF RetryInv

\* The retry of a call goes to another proxy than its first attempt, if the
\* list has two and nothing came between: for any number of proxies and
\* threads.
THEOREM RetryElsewhereHolds == Spec => []RetryElsewhere
  <1>1. RetryInv => RetryElsewhere
    BY DEF RetryInv, FirstInv, FirstOf, RetryElsewhere
  <1>. QED BY <1>1, InitRetryInv, RetryStep, PTL DEF Spec

----------------------------------------------------------------------------
(* The index never grows beyond the proxies: a list has each of them once. *)

\* A list without repetitions is not longer than there are proxies.
LEMMA PoolBounded ==
    ASSUME RetryInv
    PROVE  Len(connPool) <= Cardinality(Proxies)
  <1>1. connPool \in Seq(Proxies) /\ Distinct(connPool)
    BY DEF RetryInv, PyInv, Typed, ListsInv
  <1>2. /\ Len(connPool) \in Nat
        /\ connPool \in [1..Len(connPool) -> Proxies]
    BY <1>1, LenProperties
  <1>3. connPool \in Injection(1..Len(connPool), Proxies)
    BY <1>1, <1>2 DEF Distinct, Injection, IsInjective
  <1>4. Cardinality(1..Len(connPool)) <= Cardinality(Proxies)
    BY <1>3, FS_Injection, PyAssumption
  <1>5. Cardinality(1..Len(connPool)) = Len(connPool)
    <2>. DEFINE n == Len(connPool)
    <2>1. n \in Nat
      BY <1>2
    <2>. HIDE DEF n
    <2>2. Cardinality(1..n) = IF 1 > n THEN 0 ELSE n - 1 + 1
      BY <2>1, FS_Interval
    <2>. QED BY <2>1, <2>2 DEF n
  <1>. QED BY <1>4, <1>5

IndexBound == connPoolIndex \in {-1, 0} \cup 1..(Cardinality(Proxies) - 1)

LEMMA IndexStep == RetryInv /\ IndexBound /\ [Next]_vars => IndexBound'
  <1>. SUFFICES ASSUME RetryInv, IndexBound, [Next]_vars PROVE IndexBound'
    OBVIOUS
  <1>. USE DEF zkVars, listVars, callVars
  <1>1. ASSUME NEW t \in Threads, AdvanceIndex(t) \/ NoProxy(t)
        PROVE  IndexBound'
    <2>1. connPoolIndex' = NextIndex
      BY <1>1 DEF AdvanceIndex, NoProxy
    <2>2. /\ connPoolIndex \in Nat \cup {-1}
          /\ connPool \in Seq(Proxies) /\ Len(connPool) \in Nat
      BY LenProperties DEF RetryInv, PyInv, Typed
    <2>3. Cardinality(Proxies) \in Nat /\ Len(connPool) <= Cardinality(Proxies)
      BY PoolBounded, FS_CardinalityType, PyAssumption
    <2>. QED BY <2>1, <2>2, <2>3 DEF NextIndex, IndexBound
  <1>2. ASSUME UNCHANGED connPoolIndex PROVE IndexBound'
    BY <1>2 DEF IndexBound
  <1>3. CASE Zookeeper \/ OnNodeEvent \/ OnExpired \/ Close
    BY <1>2, <1>3 DEF Zookeeper, Register, Deregister, SetState, ChangeNode,
       LoseConnection, Reconnect, OnNodeEvent, OnExpired, Close, StopZk,
       EmptyPool
  <1>4. ASSUME NEW w \in Workers, Begin(w) \/ InitFromZK(w) PROVE IndexBound'
    BY <1>2, <1>4 DEF Begin, InitFromZK, StartZk, GetChildren, GetNode, Fill,
       InitDone, NodeGone, ZkFails, Release
  <1>5. ASSUME NEW t \in Threads, StartCall(t) \/ Call(t) PROVE IndexBound'
    BY <1>1, <1>2, <1>5 DEF StartCall, Call, GetProxy, TakeConn, TakeFails,
       Command, ConnectionError
  <1>6. CASE Stuck \/ UNCHANGED vars
    BY <1>2, <1>6 DEF Stuck, vars
  <1>. QED BY <1>3, <1>4, <1>5, <1>6 DEF Next

\* Every variable of the Python client has a value that the program can give
\* it: no call makes a third attempt, and the index is below the number of
\* proxies, however often the list is built again.
THEOREM TypeOKHolds == Spec => []TypeOK
  <1>1. Init => RetryInv /\ IndexBound
    BY InitRetryInv DEF Init, IndexBound
  <1>2. RetryInv /\ IndexBound /\ [Next]_vars => (RetryInv /\ IndexBound)'
    BY RetryStep, IndexStep
  <1>3. RetryInv /\ IndexBound => TypeOK
    BY DEF RetryInv, PyInv, IndexBound, TypeOK
  <1>. QED BY <1>1, <1>2, <1>3, PTL DEF Spec

----------------------------------------------------------------------------
(* Round robin.  The places of connPool that had a turn in a round are an  *)
(* arc of the list, which may go over its end.  It ends at connPoolIndex,  *)
(* or right before it while a __getProxy is between its two steps.         *)

Arc(s, e, n) ==
    {i \in 1..n : IF s <= e THEN s <= i /\ i <= e ELSE s <= i \/ i <= e}

Successor(e, n) == IF e = n THEN 1 ELSE e + 1

Taking == \E t \in Threads : pc[t] = "take"

RoundInv ==
    seen # {} =>
        /\ connPool # << >> /\ \A w \in Workers : ~InInit(w)
        /\ \E s, e \in 1..Len(connPool) :
              /\ seen = Arc(s, e, Len(connPool))
              /\ connPoolIndex + 1 = IF Taking THEN Successor(e, Len(connPool))
                                               ELSE e

\* The place after the end of an arc is not in it, unless the arc is full.
LEMMA ArcGrows ==
    ASSUME NEW n \in Nat \ {0}, NEW s \in 1..n, NEW e \in 1..n,
           Arc(s, e, n) # 1..n,
           NEW f, f = Successor(e, n)
    PROVE  /\ f \in 1..n
           /\ f \notin Arc(s, e, n)
           /\ Arc(s, e, n) \cup {f} = Arc(s, f, n)
  <1>1. f \in 1..n
    BY DEF Successor
  <1>2. ~(s = 1 /\ e = n) /\ s # e + 1
    BY DEF Arc
  <1>3. \A i \in 1..n : i \in Arc(s, e, n) \/ i = f <=> i \in Arc(s, f, n)
    BY <1>1, <1>2 DEF Arc, Successor
  <1>4. f \notin Arc(s, e, n)
    BY <1>1, <1>2 DEF Arc, Successor
  <1>. QED BY <1>1, <1>3, <1>4 DEF Arc

\* One place is an arc.
LEMMA ArcStarts ==
    ASSUME NEW n \in Nat \ {0}, NEW f \in 1..n
    PROVE  Arc(f, f, n) = {f}
  BY DEF Arc

\* The steps that have to do with a round.
LEMMA RoundKinds ==
    ASSUME PyInv, [Next]_vars
    PROVE  \/ seen' = {}
           \/ \E w \in Workers : Fill(w)
           \/ \E t \in Threads : GetProxy(t)
           \/ /\ UNCHANGED <<seen, connPool, connPoolIndex>>
              /\ \A w \in Workers : InInit(w)' => InInit(w)
              /\ \A t \in Threads : pc'[t] = "take" <=> pc[t] = "take"
  <1>. DEFINE Quiet == /\ UNCHANGED <<seen, connPool, connPoolIndex>>
                       /\ \A w \in Workers : InInit(w)' => InInit(w)
                       /\ \A t \in Threads : pc'[t] = "take" <=> pc[t] = "take"
  <1>. USE DEF zkVars, listVars, callVars, InInit, GoTo
  <1>1. CASE Zookeeper
    BY <1>1 DEF Zookeeper, Register, Deregister, SetState, ChangeNode,
                LoseConnection, Reconnect
  <1>2. CASE OnNodeEvent \/ OnExpired
    BY <1>2 DEF OnNodeEvent, OnExpired, PyInv, Typed
  <1>3. ASSUME NEW w \in Workers, Begin(w) PROVE seen' = {}
    BY <1>3 DEF Begin
  <1>4. ASSUME NEW w \in Workers, StartZk(w) \/ GetChildren(w) \/ GetNode(w)
        PROVE  Quiet
    BY <1>4 DEF StartZk, GetChildren, GetNode, PyInv, Typed
  <1>5. ASSUME NEW w \in Workers, InitDone(w) \/ NodeGone(w) \/ ZkFails(w)
        PROVE  Quiet
    BY <1>5 DEF InitDone, NodeGone, ZkFails, Release, PyInv, Typed
  <1>6. CASE StopZk
    BY <1>6 DEF StopZk, PyInv, Typed
  <1>7. CASE EmptyPool
    BY <1>7 DEF EmptyPool
  <1>8. ASSUME NEW t \in Threads,
               StartCall(t) \/ Command(t) \/ ConnectionError(t)
        PROVE  Quiet
    BY <1>8 DEF StartCall, Command, ConnectionError, Leave, Step, PyInv, Typed
  <1>9. CASE UNCHANGED vars
    BY <1>9 DEF vars
  <1>. QED BY <1>1, <1>2, <1>3, <1>4, <1>5, <1>6, <1>7, <1>8, <1>9
           DEF Next, InitFromZK, Close, Call, Stuck

\* A turn that goes on with a round is a new place's.
LEMMA TurnIsNew ==
    ASSUME PyInv, RoundInv, NEW t \in Threads, pc[t] = "take",
           seen # {}, seen # 1..Len(connPool)
    PROVE  /\ connPoolIndex + 1 \in 1..Len(connPool)
           /\ connPoolIndex + 1 \notin seen
           /\ \E s \in 1..Len(connPool) :
                seen \cup {connPoolIndex + 1}
                  = Arc(s, connPoolIndex + 1, Len(connPool))
  <1>. DEFINE n == Len(connPool)  f == connPoolIndex + 1
  <1>1. Taking
    BY DEF Taking
  <1>2. PICK s \in 1..n, e \in 1..n : seen = Arc(s, e, n) /\ f = Successor(e, n)
    BY <1>1 DEF RoundInv
  <1>3. n \in Nat \ {0}
    BY DEF PyInv, Typed, RoundInv
  <1>4. seen # 1..n
    OBVIOUS
  <1>. HIDE DEF n, f
  <1>5. f \in 1..n /\ f \notin Arc(s, e, n) /\ Arc(s, e, n) \cup {f} = Arc(s, f, n)
    BY <1>2, <1>3, <1>4, ArcGrows
  <1>. QED BY <1>2, <1>5 DEF n, f

LEMMA RoundGetProxy ==
    ASSUME PyInv, RoundInv, NEW t \in Threads, GetProxy(t)
    PROVE  RoundInv'
  <1>. USE DEF listVars, Step
  <1>1. CASE AdvanceIndex(t)
    <2>1. /\ lock = Null /\ connPoolIndex' = NextIndex
          /\ pc' = [pc EXCEPT ![t] = "take"]
          /\ UNCHANGED <<seen, connPool, phase>>
      BY <1>1 DEF AdvanceIndex
    <2>2. ~Taking /\ Taking'
      BY <2>1, LockFree DEF Taking, PyInv, Typed
    <2>3. ASSUME NEW e \in 1..Len(connPool), connPoolIndex + 1 = e
          PROVE  NextIndex + 1 = Successor(e, Len(connPool))
      <3>1. connPoolIndex \in Int /\ Len(connPool) \in Nat
        BY DEF PyInv, Typed
      <3>. QED BY <2>3, <3>1 DEF NextIndex, Successor
    <2>. QED BY <2>1, <2>2, <2>3 DEF RoundInv, InInit
  <1>2. CASE NoProxy(t)
    BY <1>2 DEF NoProxy, RoundInv
  <1>3. CASE TakeConn(t)
    <2>. DEFINE n == Len(connPool)  f == connPoolIndex + 1
    <2>1. /\ pc[t] = "take" /\ connPoolIndex < Len(connPool)
          /\ seen' = {f} \cup (IF seen = 1..n THEN {} ELSE seen)
          /\ pc' = [pc EXCEPT ![t] = "command"]
          /\ UNCHANGED <<connPool, connPoolIndex, phase>>
      BY <1>3 DEF TakeConn
    <2>2. /\ \A w \in Workers : ~InInit(w)
          /\ \A u \in Threads : pc[u] = "take" => u = t
      BY <2>1, LockOfThread
    <2>3. ~Taking'
      BY <2>1, <2>2 DEF Taking, PyInv, Typed
    <2>4. n \in Nat \ {0} /\ f \in 1..n /\ connPool # << >>
      BY <2>1 DEF PyInv, Typed, TakesPlace
    <2>5. \E s \in 1..n : seen' = Arc(s, f, n)
      <3>1. CASE seen # {} /\ seen # 1..n
        BY <2>1, <3>1, TurnIsNew
      <3>2. CASE seen = {} \/ seen = 1..n
        <4>1. seen' = {f}
          BY <2>1, <3>2
        <4>. HIDE DEF n, f
        <4>. QED BY <2>4, <4>1, ArcStarts
      <3>. QED BY <3>1, <3>2
    <2>. QED BY <2>1, <2>2, <2>3, <2>4, <2>5 DEF RoundInv, InInit
  <1>4. CASE TakeFails(t)
    <2>1. pc[t] = "take" /\ connPoolIndex >= Len(connPool) /\ seen' = seen
      BY <1>4 DEF TakeFails
    <2>2. CASE seen # {}
      <3>1. Taking
        BY <2>1 DEF Taking
      <3>2. PICK e \in 1..Len(connPool) :
                   connPoolIndex + 1 = Successor(e, Len(connPool))
        BY <2>2, <3>1 DEF RoundInv
      <3>. QED BY <2>1, <3>2 DEF Successor, PyInv, Typed
    <2>. QED BY <2>1, <2>2 DEF RoundInv
  <1>. QED BY <1>1, <1>2, <1>3, <1>4 DEF GetProxy

LEMMA RoundStep == PyInv /\ RoundInv /\ [Next]_vars => RoundInv'
  <1>. SUFFICES ASSUME PyInv, RoundInv, [Next]_vars PROVE RoundInv'
    OBVIOUS
  <1>1. CASE seen' = {}
    BY <1>1 DEF RoundInv
  <1>2. ASSUME NEW w \in Workers, Fill(w) PROVE RoundInv'
    <2>1. InInit(w) /\ seen' = seen
      BY <1>2 DEF Fill, Filling, InInit
    <2>. QED BY <2>1 DEF RoundInv
  <1>3. CASE /\ UNCHANGED <<seen, connPool, connPoolIndex>>
             /\ \A w \in Workers : InInit(w)' => InInit(w)
             /\ \A t \in Threads : pc'[t] = "take" <=> pc[t] = "take"
    BY <1>3 DEF RoundInv, Taking
  <1>. QED BY <1>1, <1>2, <1>3, RoundGetProxy, RoundKinds

\* __getProxy gives every proxy of a list its turn before any has a second
\* one, for any number of threads, and also when close() has emptied the list
\* inside a __getProxy.
THEOREM RoundRobinHolds == Spec => RoundRobin
  <1>. DEFINE Turn ==
         \A t \in Threads :
            pc[t] = "take" /\ pc'[t] = "command" =>
               \/ connPoolIndex + 1 \notin seen
               \/ seen = 1..Len(connPool)
  <1>1. Init => RoundInv
    BY DEF Init, RoundInv
  <1>2. PyInv /\ RoundInv => Turn
    BY TurnIsNew
  <1>. QED BY <1>1, <1>2, RoundStep, PyInvariant, PTL DEF Spec, RoundRobin

----------------------------------------------------------------------------
(* What the list has when the callback thread has caught up.               *)

Present == {p \in Proxies : zk[p] # "absent"}

\* A list will still be built, from what ZooKeeper has by then.
Pending == queue # << >> \/ \E w \in Workers : phase[w] \in {"wait", "start"}

\* connPool is filled from proxylist, place by place.
FilledInv ==
    ~Closing => \A w \in Workers :
        InInit(w) => Range(connPool) = {proxylist[j] : j \in 1..pos[w]}

\* Only a lost connection brings the event of an expired session.
QueueInv == ~disrupted => \A i \in 1..Len(queue) : queue[i] = "node"

\* If no list will be built, every change of what has been read will bring an
\* event, and what has been read is what ZooKeeper has.
FreshInv ==
    ~disrupted /\ ~Closing /\ ~Pending =>
        /\ childWatch
        /\ (\A w \in Workers : phase[w] # "read") =>
              Present \subseteq dataWatch /\ Range(connPool) = Online
        /\ \A w \in Workers : phase[w] = "read" =>
              /\ todo[w] \subseteq Present
              /\ Present \ todo[w] \subseteq dataWatch
              /\ Range(proxylist) = Online \ todo[w]

CurrentInv == FilledInv /\ QueueInv /\ FreshInv

LEMMA SameCurrent ==
    ASSUME CurrentInv,
           UNCHANGED <<zk, childWatch, dataWatch, queue, disrupted, listVars>>
    PROVE  CurrentInv'
  BY DEF CurrentInv, FilledInv, QueueInv, FreshInv, Closing, InInit, Pending,
         Present, Online, listVars

\* Events that a change adds to the queue.
LEMMA QueueGrows ==
    ASSUME Typed, NEW n \in Nat, queue' = queue \o [i \in 1..n |-> "node"]
    PROVE  /\ n = 0 => queue' = queue
           /\ n # 0 \/ queue # << >> => queue' # << >>
           /\ (\A i \in 1..Len(queue) : queue[i] = "node")
                => \A i \in 1..Len(queue') : queue'[i] = "node"
  <1>. DEFINE new == [i \in 1..n |-> "node"]
  <1>1. /\ queue \in Seq({"node", "expired"}) /\ new \in Seq({"node", "expired"})
        /\ Len(new) = n /\ \A i \in 1..n : new[i] = "node"
    BY DEF Typed
  <1>. HIDE DEF new
  <1>2. /\ Len(queue') = Len(queue) + n /\ Len(queue) \in Nat
        /\ \A i \in 1..Len(queue) : queue'[i] = queue[i]
        /\ \A i \in (Len(queue) + 1)..(Len(queue) + n) :
              queue'[i] = new[i - Len(queue)]
    BY <1>1, ConcatProperties DEF new
  <1>3. n = 0 => queue' = queue
    BY <1>1 DEF new
  <1>4. n # 0 \/ queue # << >> => queue' # << >>
    <2>1. queue # << >> => Len(queue) > 0
      BY <1>1
    <2>2. n # 0 \/ queue # << >> => Len(queue') # 0
      BY <1>2, <2>1
    <2>. QED BY <2>2
  <1>5. ASSUME \A i \in 1..Len(queue) : queue[i] = "node",
               NEW i \in 1..Len(queue')
        PROVE  queue'[i] = "node"
    <2>1. CASE i \in 1..Len(queue)
      BY <1>2, <1>5, <2>1
    <2>2. CASE i \notin 1..Len(queue)
      <3>1. /\ i \in (Len(queue) + 1)..(Len(queue) + n)
            /\ i - Len(queue) \in 1..n
        BY <1>2, <2>2
      <3>. QED BY <1>1, <1>2, <3>1
    <2>. QED BY <2>1, <2>2
  <1>. QED BY <1>3, <1>4, <1>5

LEMMA ChangeKeepsCurrent ==
    ASSUME Typed, CurrentInv, NEW p \in Proxies,
           Register(p) \/ Deregister(p) \/ SetState(p)
    PROVE  CurrentInv'
  <1>. USE DEF listVars
  <1>1. PICK d \in {"absent", "online", "other"}, n \in 0..2 :
           ChangeNode(p, d, n)
    <2>1. /\ One(childWatch) \in 0..2 /\ One(p \in dataWatch) \in 0..2
          /\ One(p \in dataWatch) + One(childWatch) \in 0..2
      BY DEF One
    <2>2. CASE Register(p)
      BY <2>1, <2>2 DEF Register
    <2>3. CASE Deregister(p)
      BY <2>1, <2>3 DEF Deregister
    <2>4. CASE SetState(p)
      BY <2>1, <2>4 DEF SetState
    <2>. QED BY <2>2, <2>3, <2>4
  <1>2. /\ zk' = [zk EXCEPT ![p] = d]
        /\ queue' = queue \o [i \in 1..n |-> "node"]
        /\ UNCHANGED <<listVars, disrupted>>
    BY <1>1 DEF ChangeNode
  <1>3. FilledInv'
    BY <1>2 DEF CurrentInv, FilledInv, Closing, InInit
  <1>4. QueueInv'
    BY <1>2, QueueGrows DEF CurrentInv, QueueInv
  <1>5. FreshInv'
    <2>. SUFFICES ASSUME ~disrupted, ~Closing, ~Pending' PROVE FreshInv'
      BY <1>2 DEF FreshInv, Closing
    <2>1. n = 0 /\ queue' = queue /\ ~Pending
      BY <1>2, QueueGrows DEF Pending
    <2>2. childWatch
      BY <2>1 DEF CurrentInv, FreshInv
    <2>3. ~Register(p) /\ ~Deregister(p)
      <3>1. queue' = queue \o [i \in 1..1 |-> "node"] => queue' # << >>
        BY QueueGrows
      <3>2. queue' = queue \o [i \in 1..2 |-> "node"] => queue' # << >>
        BY QueueGrows
      <3>. QED BY <2>1, <2>2, <3>1, <3>2
               DEF Register, Deregister, ChangeNode, One, Pending
    <2>4. SetState(p)
      BY <2>3
    <2>5. p \notin dataWatch
      <3>1. queue' = queue \o [i \in 1..1 |-> "node"] => queue' # << >>
        BY QueueGrows
      <3>. QED BY <2>1, <2>4, <3>1 DEF SetState, ChangeNode, One, Pending
    <2>6. /\ childWatch' = childWatch /\ dataWatch' = dataWatch
          /\ zk[p] # "absent" /\ zk'[p] # "absent"
          /\ \A q \in Proxies \ {p} : zk'[q] = zk[q]
      BY <2>4, <2>5 DEF SetState, ChangeNode, Typed
    <2>7. Present' = Present /\ p \in Present
      BY <2>6 DEF Present
    <2>8. \A w \in Workers : phase[w] = "read" => p \in todo[w]
      BY <2>1, <2>5, <2>7 DEF CurrentInv, FreshInv
    <2>9. ~\A w \in Workers : phase[w] # "read"
      BY <2>1, <2>5, <2>7 DEF CurrentInv, FreshInv
    <2>10. ASSUME NEW w \in Workers, phase[w] = "read"
           PROVE  Online' \ todo[w] = Online \ todo[w]
      BY <2>6, <2>8, <2>10 DEF Online
    <2>. QED BY <1>2, <2>1, <2>2, <2>6, <2>7, <2>9, <2>10
             DEF CurrentInv, FreshInv
  <1>. QED BY <1>3, <1>4, <1>5 DEF CurrentInv

LEMMA ZookeeperKeepsCurrent ==
    ASSUME Typed, CurrentInv, Zookeeper
    PROVE  CurrentInv'
  <1>1. CASE LoseConnection
    BY <1>1 DEF LoseConnection, listVars, CurrentInv, FilledInv, QueueInv,
                FreshInv, Closing, InInit
  <1>2. CASE Reconnect
    BY <1>2, SameCurrent DEF Reconnect
  <1>. QED BY <1>1, <1>2, ChangeKeepsCurrent DEF Zookeeper

LEMMA WatcherKeepsCurrent ==
    ASSUME Typed, CurrentInv, OnNodeEvent \/ OnExpired
    PROVE  CurrentInv'
  <1>. USE DEF listVars, GoTo
  <1>0. queue \in Seq({"node", "expired"}) /\ DOMAIN phase = Workers
    BY DEF Typed
  <1>1. CASE OnNodeEvent
    <2>1. /\ queue # << >> /\ queue' = Tail(queue)
          /\ phase["callback"] = "idle"
          /\ phase' = [phase EXCEPT !["callback"] = "wait"]
          /\ UNCHANGED <<disrupted, proxylist, connPool, pos>>
      BY <1>1 DEF OnNodeEvent
    <2>2. FilledInv'
      BY <1>0, <2>1 DEF CurrentInv, FilledInv, Closing, InInit, Workers
    <2>3. QueueInv'
      <3>1. /\ Len(queue') = Len(queue) - 1 /\ Len(queue) \in Nat
            /\ \A i \in 1..Len(queue') : queue'[i] = queue[i + 1]
        BY <1>0, <2>1
      <3>. QED BY <2>1, <3>1 DEF CurrentInv, QueueInv
    <2>4. Pending'
      BY <1>0, <2>1 DEF Pending, Workers
    <2>. QED BY <2>2, <2>3, <2>4 DEF CurrentInv, FreshInv
  <1>2. CASE OnExpired
    <2>1. /\ queue # << >> /\ Head(queue) = "expired" /\ queue' = << >>
          /\ UNCHANGED <<listVars, disrupted>>
      BY <1>2 DEF OnExpired
    <2>2. disrupted
      <3>1. 1 \in 1..Len(queue) /\ queue[1] = "expired"
        BY <1>0, <2>1
      <3>. QED BY <3>1 DEF CurrentInv, QueueInv
    <2>. QED BY <2>1, <2>2 DEF CurrentInv, FilledInv, QueueInv, FreshInv,
                               Closing, InInit
  <1>. QED BY <1>1, <1>2

LEMMA BeginKeepsCurrent ==
    ASSUME RetryInv, CurrentInv, NEW w \in Workers, Begin(w)
    PROVE  CurrentInv'
  <1>1. /\ lock = Null /\ connPool' = << >>
        /\ phase' = [phase EXCEPT ![w] = "start"]
        /\ UNCHANGED <<pos, queue, disrupted>>
    BY DEF Begin, GoTo, zkVars
  <1>2. \A v \in Workers : ~InInit(v) /\ pos[v] = 0
    BY <1>1, LockFree DEF RetryInv, ListsInv
  <1>3. DOMAIN phase = Workers
    BY DEF RetryInv, PyInv, Typed
  <1>4. FilledInv'
    <2>1. Range(connPool') = {} /\ \A v \in Workers : 1..pos'[v] = {}
      BY <1>1, <1>2 DEF Range
    <2>. QED BY <2>1 DEF FilledInv
  <1>5. Pending'
    BY <1>1, <1>3 DEF Pending
  <1>. QED BY <1>1, <1>4, <1>5 DEF CurrentInv, QueueInv, FreshInv

LEMMA ReadKeepsCurrent ==
    ASSUME RetryInv, CurrentInv, NEW w \in Workers, GetChildren(w) \/ GetNode(w)
    PROVE  CurrentInv'
  <1>. USE DEF GoTo
  <1>1. InInit(w)
    BY DEF GetChildren, GetNode, InInit
  <1>2. /\ Builds(w) /\ \A v \in Workers \ {w} : ~InInit(v)
    BY <1>1, OnlyBuilder
  <1>3. /\ DOMAIN phase = Workers /\ todo \in [Workers -> SUBSET Proxies]
        /\ proxylist \in Seq(Proxies)
    BY DEF RetryInv, PyInv, Typed
  <1>4. CASE GetChildren(w)
    <2>1. /\ phase[w] = "start" /\ phase' = [phase EXCEPT ![w] = "read"]
          /\ todo' = [todo EXCEPT ![w] = Present] /\ childWatch'
          /\ UNCHANGED <<zk, queue, dataWatch, disrupted, proxylist, connPool,
                         pos>>
      BY <1>4 DEF GetChildren, Present
    <2>2. \A v \in Workers : InInit(v)' <=> InInit(v)
      BY <1>3, <2>1 DEF InInit
    <2>3. Closing' <=> Closing
      BY <1>3, <2>1 DEF Closing
    <2>4. FilledInv' /\ QueueInv'
      BY <2>1, <2>2, <2>3 DEF CurrentInv, FilledInv, QueueInv
    <2>5. Range(proxylist) = {}
      BY <1>2, <2>1 DEF Builds, Range
    <2>6. \A v \in Workers : phase'[v] = "read" <=> v = w
      BY <1>2, <1>3, <2>1 DEF InInit
    <2>7. todo'[w] = Present /\ Present' = Present /\ Online' \subseteq Present
      BY <1>3, <2>1 DEF Present, Online
    <2>. QED BY <2>1, <2>4, <2>5, <2>6, <2>7 DEF CurrentInv, FreshInv
  <1>5. CASE GetNode(w)
    <2>1. /\ phase[w] = "read"
          /\ UNCHANGED <<zk, queue, childWatch, disrupted, phase, connPool, pos>>
      BY <1>5 DEF GetNode
    <2>2. PICK p \in todo[w] :
             /\ zk[p] # "absent"
             /\ todo' = [todo EXCEPT ![w] = @ \ {p}]
             /\ dataWatch' = dataWatch \cup {p}
             /\ proxylist' = IF zk[p] = "online" THEN Append(proxylist, p)
                                                 ELSE proxylist
      BY <1>5 DEF GetNode
    <2>3. \A v \in Workers : phase[v] = "read" <=> v = w
      BY <1>2, <2>1 DEF InInit
    <2>4. FilledInv'
      <3>1. pos[w] = 0
        BY <1>2, <2>2 DEF Builds
      <3>2. \A v \in Workers : InInit(v) => 1..pos[v] = {}
        BY <1>2, <3>1
      <3>3. \A v \in Workers : InInit(v) =>
               {proxylist[j] : j \in 1..pos[v]} = {}
               /\ {proxylist'[j] : j \in 1..pos[v]} = {}
        BY <3>2
      <3>. QED BY <2>1, <3>3 DEF CurrentInv, FilledInv, Closing, InInit
    <2>5. QueueInv'
      BY <2>1 DEF CurrentInv, QueueInv
    <2>6. FreshInv'
      <3>. SUFFICES ASSUME ~disrupted, ~Closing, ~Pending PROVE FreshInv'
        BY <2>1 DEF FreshInv, Closing, Pending
      <3>1. /\ childWatch /\ todo[w] \subseteq Present
            /\ Present \ todo[w] \subseteq dataWatch
            /\ Range(proxylist) = Online \ todo[w]
        BY <2>1 DEF CurrentInv, FreshInv
      <3>2. p \in Proxies /\ todo'[w] = todo[w] \ {p}
        BY <1>3, <2>2
      <3>3. Present' = Present /\ Online' = Online
        BY <2>1 DEF Present, Online
      <3>4. Range(proxylist') = Online \ todo'[w]
        <4>1. CASE zk[p] = "online"
          <5>1. proxylist' = Append(proxylist, p) /\ p \in Online
            BY <2>2, <3>2, <4>1 DEF Online
          <5>2. Range(proxylist') = Range(proxylist) \cup {p}
            <6>1. /\ Len(proxylist') = Len(proxylist) + 1
                  /\ Len(proxylist) \in Nat
                  /\ \A i \in 1..Len(proxylist) : proxylist'[i] = proxylist[i]
                  /\ proxylist'[Len(proxylist) + 1] = p
                  /\ DOMAIN proxylist' = 1..Len(proxylist')
                  /\ DOMAIN proxylist = 1..Len(proxylist)
              BY <1>3, <3>2, <5>1, AppendProperties
            <6>2. \A i \in DOMAIN proxylist' :
                     i \in DOMAIN proxylist \/ i = Len(proxylist) + 1
              BY <6>1
            <6>3. DOMAIN proxylist \subseteq DOMAIN proxylist'
                  /\ Len(proxylist) + 1 \in DOMAIN proxylist'
              BY <6>1
            <6>. QED BY <6>1, <6>2, <6>3 DEF Range
          <5>. QED BY <3>1, <3>2, <5>1, <5>2
        <4>2. CASE zk[p] # "online"
          BY <2>2, <3>1, <3>2, <4>2 DEF Online
        <4>. QED BY <4>1, <4>2
      <3>5. Present \ todo'[w] \subseteq dataWatch'
        BY <2>2, <3>1, <3>2
      <3>. QED BY <2>1, <2>3, <3>1, <3>2, <3>3, <3>4, <3>5 DEF FreshInv
    <2>. QED BY <2>4, <2>5, <2>6 DEF CurrentInv
  <1>. QED BY <1>4, <1>5

LEMMA FillKeepsCurrent ==
    ASSUME RetryInv, CurrentInv, NEW w \in Workers, Fill(w)
    PROVE  CurrentInv'
  <1>1. /\ InInit(w) /\ phase[w] = "read"
        /\ connPool' = Append(connPool, proxylist[pos[w] + 1])
        /\ pos' = [pos EXCEPT ![w] = @ + 1]
        /\ pos[w] < Len(proxylist)
        /\ UNCHANGED <<zk, queue, childWatch, dataWatch, disrupted, proxylist,
                       phase, todo>>
    BY DEF Fill, Filling, InInit, zkVars
  <1>2. \A v \in Workers \ {w} : ~InInit(v)
    BY <1>1, OnlyBuilder
  <1>3. /\ proxylist \in Seq(Proxies) /\ connPool \in Seq(Proxies)
        /\ pos \in [Workers -> Nat] /\ Len(proxylist) \in Nat
    BY DEF RetryInv, PyInv, Typed
  <1>4. FilledInv'
    <2>. SUFFICES ASSUME ~Closing
                  PROVE  Range(connPool') = {proxylist[j] : j \in 1..pos'[w]}
      BY <1>1, <1>2 DEF FilledInv, Closing, InInit
    <2>. DEFINE e == proxylist[pos[w] + 1]
    <2>1. Range(connPool) = {proxylist[j] : j \in 1..pos[w]}
      BY <1>1 DEF CurrentInv, FilledInv
    <2>2. e \in Proxies
      BY <1>1, <1>3, ElementOfSeq
    <2>3. /\ Len(connPool') = Len(connPool) + 1 /\ Len(connPool) \in Nat
          /\ \A i \in 1..Len(connPool) : connPool'[i] = connPool[i]
          /\ connPool'[Len(connPool) + 1] = e
          /\ DOMAIN connPool' = 1..Len(connPool')
          /\ DOMAIN connPool = 1..Len(connPool)
      BY <1>1, <1>3, <2>2, AppendProperties
    <2>. HIDE DEF e
    <2>4. Range(connPool') = Range(connPool) \cup {e}
      <3>1. \A i \in DOMAIN connPool' :
               i \in DOMAIN connPool \/ i = Len(connPool) + 1
        BY <2>3
      <3>2. DOMAIN connPool \subseteq DOMAIN connPool'
            /\ Len(connPool) + 1 \in DOMAIN connPool'
        BY <2>3
      <3>. QED BY <2>3, <3>1, <3>2 DEF Range
    <2>5. 1..pos'[w] = 1..pos[w] \cup {pos[w] + 1}
      BY <1>1, <1>3
    <2>6. {proxylist[j] : j \in 1..pos'[w]}
            = {proxylist[j] : j \in 1..pos[w]} \cup {e}
      BY <2>5 DEF e
    <2>. QED BY <2>1, <2>4, <2>6
  <1>5. QueueInv'
    BY <1>1 DEF CurrentInv, QueueInv
  <1>6. FreshInv'
    BY <1>1 DEF CurrentInv, FreshInv, Closing, Pending, Present, Online
  <1>. QED BY <1>4, <1>5, <1>6 DEF CurrentInv

LEMMA ReleaseKeepsCurrent ==
    ASSUME RetryInv, CurrentInv, NEW w \in Workers,
           InitDone(w) \/ NodeGone(w) \/ ZkFails(w)
    PROVE  CurrentInv'
  <1>1. /\ InInit(w)
        /\ phase' = [phase EXCEPT ![w] = IF w = "main" THEN "up" ELSE "idle"]
        /\ UNCHANGED <<zk, queue, proxylist, connPool>>
    BY DEF InitDone, NodeGone, ZkFails, Filling, UsesZk, Release, InInit, GoTo,
           zkVars
  <1>2. Builds(w) /\ \A v \in Workers \ {w} : ~InInit(v)
    BY <1>1, OnlyBuilder
  <1>3. DOMAIN phase = Workers /\ proxylist \in Seq(Proxies)
    BY DEF RetryInv, PyInv, Typed
  <1>4. \A v \in Workers : ~InInit(v)'
    BY <1>1, <1>2, <1>3 DEF InInit
  <1>5. FilledInv'
    BY <1>4 DEF FilledInv
  <1>6. CASE ZkFails(w)
    BY <1>5, <1>6 DEF ZkFails, CurrentInv, QueueInv, FreshInv
  <1>7. CASE InitDone(w) \/ NodeGone(w)
    <2>1. phase[w] = "read" /\ UNCHANGED <<disrupted, childWatch, dataWatch>>
      BY <1>7 DEF InitDone, NodeGone, Filling, zkVars
    <2>2. QueueInv'
      BY <1>1, <2>1 DEF CurrentInv, QueueInv
    <2>3. /\ Closing' <=> Closing
          /\ Pending => Pending'
      BY <1>1, <1>3, <2>1 DEF Closing, Pending
    <2>4. FreshInv'
      <3>. SUFFICES ASSUME ~disrupted, ~Closing, ~Pending PROVE FreshInv'
        BY <2>1, <2>3 DEF FreshInv
      <3>1. /\ childWatch /\ todo[w] \subseteq Present
            /\ Present \ todo[w] \subseteq dataWatch
            /\ Range(proxylist) = Online \ todo[w]
        BY <2>1 DEF CurrentInv, FreshInv
      <3>2. ~NodeGone(w)
        BY <3>1 DEF NodeGone, Present
      <3>3. todo[w] = {} /\ pos[w] = Len(proxylist)
        BY <1>7, <3>2 DEF InitDone, Filling
      <3>4. Range(connPool) = Range(proxylist)
        <4>1. Range(connPool) = {proxylist[j] : j \in 1..Len(proxylist)}
          BY <1>1, <3>3 DEF CurrentInv, FilledInv
        <4>2. DOMAIN proxylist = 1..Len(proxylist)
          BY <1>3
        <4>. QED BY <4>1, <4>2 DEF Range
      <3>5. Present' = Present /\ Online' = Online
        BY <1>1 DEF Present, Online
      <3>6. \A v \in Workers : phase'[v] # "read"
        BY <1>4 DEF InInit
      <3>. QED BY <1>1, <2>1, <3>1, <3>3, <3>4, <3>5, <3>6 DEF FreshInv
    <2>. QED BY <1>5, <2>2, <2>4 DEF CurrentInv
  <1>. QED BY <1>6, <1>7

LEMMA CurrentStep == RetryInv /\ CurrentInv /\ [Next]_vars => CurrentInv'
  <1>. SUFFICES ASSUME RetryInv, CurrentInv, [Next]_vars PROVE CurrentInv'
    OBVIOUS
  <1>. USE DEF zkVars
  <1>1. Typed
    BY DEF RetryInv, PyInv
  <1>2. CASE UNCHANGED vars
    BY <1>2, SameCurrent DEF vars
  <1>3. CASE Close
    <2>1. Closing' /\ (queue' = << >> \/ queue' = queue) /\ disrupted' = disrupted
      BY <1>1, <1>3 DEF Close, StopZk, EmptyPool, GoTo, Closing, Typed, Workers
    <2>. QED BY <2>1 DEF CurrentInv, FilledInv, QueueInv, FreshInv
  <1>4. ASSUME NEW w \in Workers, Begin(w) \/ InitFromZK(w) PROVE CurrentInv'
    <2>1. CASE StartZk(w)
      BY <2>1, SameCurrent DEF StartZk
    <2>. QED BY <1>4, <2>1, BeginKeepsCurrent, ReadKeepsCurrent,
                FillKeepsCurrent, ReleaseKeepsCurrent DEF InitFromZK
  <1>5. ASSUME NEW t \in Threads, StartCall(t) \/ Call(t) PROVE CurrentInv'
    BY <1>5, SameCurrent
       DEF StartCall, Call, GetProxy, AdvanceIndex, NoProxy, TakeConn,
           TakeFails, Command, ConnectionError
  <1>. QED BY <1>1, <1>2, <1>3, <1>4, <1>5, ZookeeperKeepsCurrent,
              WatcherKeepsCurrent DEF Next, Stuck

\* The safety half of Convergence: when no event waits and no list is being
\* built, the list is the proxies that are online.
ListIsCurrent ==
    /\ ~disrupted /\ ~Closing
    /\ queue = << >> /\ \A w \in Workers : phase[w] \in {"idle", "up"}
    => Range(connPool) = Online

\* The one-shot watches miss no change, not even one that comes between
\* get_children and the last get, or between an event and its callback: only
\* a lost connection to ZooKeeper or a failed request can do that.
THEOREM ListIsCurrentHolds == Spec => []ListIsCurrent
  <1>1. Init => CurrentInv
    <2>. SUFFICES ASSUME Init PROVE CurrentInv
      OBVIOUS
    <2>1. Pending
      BY DEF Init, Pending, Workers
    <2>2. FilledInv /\ QueueInv
      BY DEF Init, FilledInv, QueueInv, InInit
    <2>. QED BY <2>1, <2>2 DEF CurrentInv, FreshInv
  <1>2. CurrentInv => ListIsCurrent
    BY DEF CurrentInv, FreshInv, ListIsCurrent, Pending
  <1>. QED BY <1>1, <1>2, InitRetryInv, RetryStep, CurrentStep, PTL DEF Spec
=============================================================================
