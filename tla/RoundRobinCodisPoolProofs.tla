--------------------- MODULE RoundRobinCodisPoolProofs ---------------------
(***************************************************************************)
(* For any number of proxies, clients, threads, sessions and changes, and  *)
(* however the Inits of several sessions overlap: every client has one     *)
(* owner, GetProxy finds one, a call keeps it until the list is replaced   *)
(* or, with its lock, until it lets go of it, and as long as Inits do not  *)
(* overlap no thread uses a closed handle and, once all is quiet, the list *)
(* is the proxies that are online, those aside whose change of state is    *)
(* not noticed.  And the clients of a list are served in turn, but where   *)
(* the counter overflows.                                                  *)
(***************************************************************************)
EXTENDS RoundRobinCodisPool, SequenceTheorems, TLAPS

----------------------------------------------------------------------------
(* The sessions: those before m_Zh are closed, those after it not open.    *)

SessionInv ==
    /\ \A s \in Sessions :
          /\ s < zh => conn[s] = "closed"
          /\ s > zh => conn[s] = "none"
          /\ conn[s] \in {"none", "closed"} => queue[s] = << >> /\ ~watch[s]
          /\ "session" \in Range(queue[s]) => s < MaxSessions
    /\ conn[zh] # "none"

\* Whoever closes m_Zh opens the next one before he does anything else.
OpenInv ==
    /\ \A w \in Workers : phase[w] = "open" =>
                            w = zh /\ w < MaxSessions /\ conn[w] = "closed"
    /\ conn[zh] = "closed" => phase[zh] = "open"

OverlapInv ==
    ~overlapped => \A v, w \in Workers : InInit(v) /\ InInit(w) => v = w

HandleInv == SessionInv /\ OpenInv /\ OverlapInv

\* The clients: only a thread that deletes has clients to delete.
DeleteInv ==
    /\ \A w \in Workers : phase[w] # "delete" => old[w] = << >>
    /\ phase[0] \in {"delete", "done"} => proxys # << >>

\* A thread that calls has a client.
UserInv == \A u \in Users : call[u] # "out" => user[u] \in Clients

\* Until the list is replaced, the client of a call is one of the list's; and
\* a command's client waits for it.
CallInv ==
    \A u \in Users :
        /\ call[u] # "out" /\ ~outdated[u] => user[u] \in Range(proxys)
        /\ call[u] = "in" => user[u] \in Allocated

\* OwnedOnce, without the list of lists.
OwnInv ==
    /\ IsInjective(proxys)
    /\ \A w \in Workers : /\ IsInjective(old[w])
                          /\ Range(proxys) \cap Range(old[w]) = {}
    /\ \A v, w \in Workers : v # w => Range(old[v]) \cap Range(old[w]) = {}
    /\ \A c \in Clients :
          addr[c] # Null <=> \/ c \in Range(proxys)
                             \/ \E w \in Workers : c \in Range(old[w])

\* Something is still to come that reads all proxies again.
Pending ==
    \/ \E s \in Sessions : queue[s] # << >>
    \/ \E w \in Workers : phase[w] \in {"sleep", "open", "connect", "list"}

\* The session is connected, or an event or a thread will see to it.
ConnInv ==
    /\ conn[zh] = "lost" => "session" \in Range(queue[zh])
    /\ conn[zh] = "connecting" => \E w \in Workers : phase[w] = "connect"

\* As long as nothing is pending, the list is right, and so is the part that
\* a thread has read already, but for the proxies that have changed their
\* state since; and the next child that comes or goes will be noticed.
FreshInv ==
    ~overlapped /\ ~Pending =>
        /\ watch[zh]
        /\ (\A w \in Workers : phase[w] # "read") =>
              Listed \ ignored = Online \ ignored
        /\ \A w \in Workers : phase[w] = "read" =>
              /\ Range(found[w]) \cap todo[w] = {}
              /\ Range(found[w]) \ ignored = (Online \ todo[w]) \ ignored

PoolInv ==
    TypeOK /\ HandleInv /\ DeleteInv /\ UserInv /\ OwnInv /\ CallInv

USE PoolAssumption

LEMMA SessionsAreWorkers ==
    /\ Sessions \subseteq Workers /\ 0 \in Workers /\ 0 \notin Sessions
    /\ 1 \in Sessions /\ Workers = Sessions \cup {0}
  BY DEF Sessions, Workers

\* The indices that an int can have, and the one that is computed from it.
LEMMA MaxIntIsNat == MaxInt \in Nat
  <1>1. IntRange >= 2
    OBVIOUS
  <1>2. IntRange \div 2 >= 1 /\ IntRange \div 2 \in Int
    BY <1>1
  <1>. QED BY <1>2 DEF MaxInt

LEMMA IncrementedIsInt ==
    ASSUME proxyIndex \in -(MaxInt + 1)..MaxInt
    PROVE  Incremented \in -(MaxInt + 1)..MaxInt
  BY MaxIntIsNat DEF Incremented

LEMMA IndexInRange ==
    ASSUME proxys \in Seq(Clients), proxys # << >>, NEW i \in Int
    PROVE  Index(i) + 1 \in DOMAIN proxys
  <1>1. Len(proxys) \in Nat \ {0} /\ DOMAIN proxys = 1..Len(proxys)
    OBVIOUS
  <1>2. i % SizeRange \in Int
    OBVIOUS
  <1>3. \A n \in Int, m \in Nat \ {0} : n % m \in 0..(m - 1)
    OBVIOUS
  <1>4. Index(i) \in 0..(Len(proxys) - 1)
    BY <1>1, <1>2, <1>3 DEF Index
  <1>. QED BY <1>1, <1>4

\* A choice of fresh clients is a list of different free ones.
LEMMA FreshClientsAreFree ==
    ASSUME NEW n \in Nat, NEW fresh \in FreshClients(n)
    PROVE  /\ fresh \in Seq(Clients) /\ Len(fresh) = n
           /\ IsInjective(fresh)
           /\ \A c \in Range(fresh) : c \in Clients /\ addr[c] = Null
  <1>1. fresh \in [1..n -> {c \in Clients : addr[c] = Null}]
    BY DEF FreshClients, Injection
  <1>2. IsInjective(fresh)
    BY DEF FreshClients, Injection
  <1>3. fresh \in Seq(Clients) /\ Len(fresh) = n
    BY <1>1
  <1>4. \A c \in Range(fresh) : c \in Clients /\ addr[c] = Null
    BY <1>1 DEF Range
  <1>. QED BY <1>2, <1>3, <1>4

\* What InitProxyConns does to the clients, without the choice.
LEMMA InitProxyConnsChooses ==
    ASSUME TypeOK, NEW w \in Workers, InitProxyConns(w)
    PROVE  /\ proxys' \in Seq(Clients) /\ proxys' # << >>
           /\ IsInjective(proxys')
           /\ \A c \in Range(proxys') : c \in Clients /\ addr[c] = Null
           /\ addr' \in [Clients -> Proxies \cup {Null}]
           /\ \A c \in Range(proxys') : addr'[c] \in Proxies
           /\ \A c \in Clients \ Range(proxys') : addr'[c] = addr[c]
  <1>1. found[w] \in Seq(Proxies) /\ found[w] # << >>
    BY DEF InitProxyConns, Publish, TypeOK
  <1>2. Len(found[w]) \in Nat /\ Len(found[w]) > 0
    BY <1>1
  <1>3. proxys' \in FreshClients(Len(found[w]))
    BY DEF InitProxyConns, Publish
  <1>4. /\ proxys' \in Seq(Clients) /\ Len(proxys') = Len(found[w])
        /\ IsInjective(proxys')
        /\ \A c \in Range(proxys') : c \in Clients /\ addr[c] = Null
    BY <1>2, <1>3, FreshClientsAreFree
  <1>5. DOMAIN proxys' = 1..Len(found[w])
    BY <1>4
  <1>6. \A i \in DOMAIN proxys' : found[w][i] \in Proxies
    BY <1>1, <1>5, ElementOfSeq
  <1>7. ASSUME NEW c \in Range(proxys')
        PROVE  found[w][CHOOSE i \in DOMAIN proxys' : proxys'[i] = c] \in Proxies
    <2>1. \E i \in DOMAIN proxys' : proxys'[i] = c
      BY <1>7 DEF Range
    <2>. QED BY <2>1, <1>6
  <1>8. addr' = [c \in Clients |->
                  IF c \in Range(proxys')
                    THEN found[w][CHOOSE i \in DOMAIN proxys' : proxys'[i] = c]
                    ELSE addr[c]]
    BY DEF InitProxyConns, Publish
  <1>9. \A c \in Range(proxys') : addr'[c] \in Proxies
    BY <1>4, <1>7, <1>8
  <1>10. \A c \in Clients \ Range(proxys') : addr'[c] = addr[c]
    BY <1>8
  <1>11. addr' \in [Clients -> Proxies \cup {Null}]
    <2>1. addr \in [Clients -> Proxies \cup {Null}]
      BY DEF TypeOK
    <2>. QED BY <1>8, <1>9, <1>10, <2>1
  <1>12. proxys' # << >>
    BY <1>2, <1>4
  <1>. QED BY <1>4, <1>9, <1>10, <1>11, <1>12

----------------------------------------------------------------------------
(* The types.                                                              *)

LEMMA InitTyped == Init => TypeOK
  <1>. SUFFICES ASSUME Init PROVE TypeOK
    OBVIOUS
  <1>1. /\ zk \in [Proxies -> {"absent", "online", "other"}]
        /\ changes \in 0..MaxChanges
        /\ conn \in [Sessions -> {"none", "connecting", "connected", "lost",
                                  "closed"}]
        /\ watch \in [Sessions -> BOOLEAN]
        /\ zh \in Sessions
    BY DEF Init, Sessions
  <1>2. /\ queue \in [Sessions -> Seq({"child", "session"})]
        /\ found \in [Workers -> Seq(Proxies)]
        /\ old \in [Workers -> Seq(Clients)]
        /\ proxys \in Seq(Clients)
    BY EmptySeq DEF Init
  <1>3. phase \in [Workers -> Phases] /\ todo \in [Workers -> SUBSET Proxies]
    BY DEF Init, Phases
  <1>4. proxyIndex \in -(MaxInt + 1)..MaxInt
    BY MaxIntIsNat DEF Init
  <1>5. /\ addr \in [Clients -> Proxies \cup {Null}]
        /\ user \in [Users -> Clients \cup {Null}]
        /\ call \in [Users -> {"out", "got", "in", "next", "async"}]
        /\ outdated \in [Users -> BOOLEAN]
        /\ overlapped \in BOOLEAN /\ ignored \subseteq Proxies
        /\ seen \subseteq Clients
        /\ status \in {"running", "exited", "crashed"}
    BY DEF Init
  <1>. QED BY <1>1, <1>2, <1>3, <1>4, <1>5 DEF TypeOK

LEMMA ZookeeperTyped ==
    ASSUME TypeOK, Zookeeper
    PROVE  TypeOK'
  <1>. USE DEF initVars, userVars, excuses
  <1>1. ASSUME FireChildWatches
        PROVE  /\ queue' \in [Sessions -> Seq({"child", "session"})]
               /\ watch' \in [Sessions -> BOOLEAN]
    <2>1. \A s \in Sessions :
            /\ queue[s] \in Seq({"child", "session"})
            /\ Append(queue[s], "child") \in Seq({"child", "session"})
      BY AppendProperties DEF TypeOK
    <2>. QED BY <1>1, <2>1 DEF FireChildWatches
  <1>2. ASSUME NEW p \in Proxies, NEW d \in {"absent", "online", "other"},
               ChangeNode(p, d), ignored' \subseteq Proxies,
               \/ FireChildWatches
               \/ UNCHANGED <<watch, queue>>
        PROVE  TypeOK'
    <2>1. changes' \in 0..MaxChanges
      BY <1>2 DEF ChangeNode, TypeOK
    <2>2. /\ queue' \in [Sessions -> Seq({"child", "session"})]
          /\ watch' \in [Sessions -> BOOLEAN]
      BY <1>1, <1>2 DEF TypeOK
    <2>. QED BY <1>2, <2>1, <2>2 DEF ChangeNode, TypeOK
  <1>3. ASSUME NEW p \in Proxies, Register(p) \/ Deregister(p) \/ SetState(p)
        PROVE  TypeOK'
    <2>1. CASE Register(p)
      BY <2>1, <1>2 DEF Register, TypeOK
    <2>2. CASE Deregister(p)
      BY <2>2, <1>2 DEF Deregister, TypeOK
    <2>3. CASE SetState(p)
      BY <2>3, <1>2 DEF SetState, TypeOK
    <2>. QED BY <1>3, <2>1, <2>2, <2>3
  <1>4. ASSUME NEW s \in Sessions, Connected(s) PROVE TypeOK'
    BY <1>4 DEF Connected, TypeOK
  <1>5. ASSUME NEW s \in Sessions, Lose(s) PROVE TypeOK'
    <2>1. Append(queue[s], "session") \in Seq({"child", "session"})
      BY AppendProperties DEF TypeOK
    <2>2. queue' \in [Sessions -> Seq({"child", "session"})]
      BY <1>5, <2>1 DEF Lose, TypeOK
    <2>. QED BY <1>5, <2>2 DEF Lose, TypeOK
  <1>. QED BY <1>3, <1>4, <1>5 DEF Zookeeper

LEMMA WatcherTyped ==
    ASSUME TypeOK, HandleInv, NEW s \in Sessions, Watcher(s)
    PROVE  TypeOK'
  <1>. USE SessionsAreWorkers DEF zkVars, initVars, userVars, excuses, GoTo,
            Phases
  <1>1. CASE OnChildEvent(s)
    <2>1. queue[s] \in Seq({"child", "session"}) /\ queue[s] # << >>
      BY <1>1 DEF OnChildEvent, TypeOK
    <2>2. Tail(queue[s]) \in Seq({"child", "session"})
      BY <2>1
    <2>3. queue' \in [Sessions -> Seq({"child", "session"})]
      BY <1>1, <2>2 DEF OnChildEvent, TypeOK
    <2>. QED BY <1>1, <2>3 DEF OnChildEvent, TypeOK
  <1>2. CASE Wake(s)
    <2>1. overlapped' \in BOOLEAN
      BY <1>2 DEF Wake, TypeOK, Overlaps
    <2>. QED BY <1>2, <2>1 DEF Wake, TypeOK
  <1>3. CASE OnSessionEvent(s)
    <2>1. overlapped' \in BOOLEAN
      BY <1>3 DEF OnSessionEvent, TypeOK, Overlaps
    <2>2. queue' \in [Sessions -> Seq({"child", "session"})]
      BY <1>3, EmptySeq DEF OnSessionEvent, TypeOK
    <2>. QED BY <1>3, <2>1, <2>2 DEF OnSessionEvent, TypeOK
  <1>4. CASE OpenSession(s)
    <2>1. zh = s /\ s < MaxSessions
      BY <1>4 DEF OpenSession, HandleInv, OpenInv
    <2>2. zh' \in Sessions
      BY <1>4, <2>1 DEF OpenSession, Sessions
    <2>. QED BY <1>4, <2>2 DEF OpenSession, TypeOK
  <1>. QED BY <1>1, <1>2, <1>3, <1>4 DEF Watcher

LEMMA InitStepTyped ==
    ASSUME TypeOK, NEW w \in Workers, InitStep(w)
    PROVE  TypeOK'
  <1>. USE DEF zkVars, initVars, userVars, excuses, GoTo, Phases, Stop
  <1>1. CASE ConnectDone(w)
    BY <1>1 DEF ConnectDone, TypeOK
  <1>2. CASE ConnectTimeout(w)
    BY <1>2 DEF ConnectTimeout, TypeOK
  <1>3. CASE GetChildren(w)
    <2>1. todo' \in [Workers -> SUBSET Proxies]
      BY <1>3 DEF GetChildren, TypeOK
    <2>2. found' \in [Workers -> Seq(Proxies)]
      BY <1>3, EmptySeq DEF GetChildren, TypeOK
    <2>3. phase' \in [Workers -> Phases] /\ watch' \in [Sessions -> BOOLEAN]
      BY <1>3 DEF GetChildren, TypeOK
    <2>4. UNCHANGED <<zk, changes, conn, queue, zh, old, proxys, proxyIndex,
                      addr, userVars, seen, excuses, status>>
      BY <1>3 DEF GetChildren
    <2>. QED BY <2>1, <2>2, <2>3, <2>4 DEF TypeOK
  <1>4. CASE GetChildrenFails(w)
    BY <1>4 DEF GetChildrenFails, TypeOK
  <1>5. CASE ReadNode(w)
    <2>1. PICK p \in todo[w] :
            /\ todo' = [todo EXCEPT ![w] = @ \ {p}]
            /\ found' = [found EXCEPT ![w] =
                           IF conn[zh] = "connected" /\ zk[p] = "online"
                             THEN Append(@, p) ELSE @]
            /\ ignored' = ignored \ {p}
      BY <1>5 DEF ReadNode
    <2>2. p \in Proxies /\ found[w] \in Seq(Proxies)
      BY DEF TypeOK
    <2>3. Append(found[w], p) \in Seq(Proxies)
      BY <2>2, AppendProperties
    <2>4. found' \in [Workers -> Seq(Proxies)]
      BY <2>1, <2>2, <2>3 DEF TypeOK
    <2>5. todo' \in [Workers -> SUBSET Proxies] /\ ignored' \subseteq Proxies
      BY <2>1 DEF TypeOK
    <2>6. UNCHANGED <<zk, changes, conn, watch, queue, zh, phase, old, proxys,
                      proxyIndex, addr, userVars, seen, overlapped, status>>
      BY <1>5 DEF ReadNode
    <2>. QED BY <2>4, <2>5, <2>6 DEF TypeOK
  <1>6. CASE UseClosedHandle(w)
    BY <1>6 DEF UseClosedHandle, TypeOK
  <1>7. CASE NoProxy(w)
    BY <1>7 DEF NoProxy, TypeOK
  <1>8. CASE InitProxyConns(w)
    <2>1. proxys' \in Seq(Clients) /\ addr' \in [Clients -> Proxies \cup {Null}]
      BY <1>8, InitProxyConnsChooses
    <2>2. /\ old' \in [Workers -> Seq(Clients)] /\ seen' \subseteq Clients
          /\ phase' \in [Workers -> Phases] /\ outdated' \in [Users -> BOOLEAN]
      BY <1>8 DEF InitProxyConns, Publish, TypeOK
    <2>3. UNCHANGED <<zk, changes, conn, watch, queue, zh, todo, found,
                      proxyIndex, user, call, excuses, status>>
      BY <1>8 DEF InitProxyConns, Publish
    <2>. QED BY <2>1, <2>2, <2>3 DEF TypeOK
  <1>9. CASE DeleteClient(w)
    <2>1. old[w] \in Seq(Clients) /\ old[w] # << >>
      BY <1>9 DEF DeleteClient, TypeOK
    <2>2. Tail(old[w]) \in Seq(Clients)
      BY <2>1
    <2>3. old' \in [Workers -> Seq(Clients)]
      BY <1>9, <2>2 DEF DeleteClient, TypeOK
    <2>4. addr' \in [Clients -> Proxies \cup {Null}]
      BY <1>9 DEF DeleteClient, TypeOK
    <2>5. UNCHANGED <<zk, changes, conn, watch, queue, zh, phase, todo, found,
                      proxys, proxyIndex, userVars, seen, excuses, status>>
      BY <1>9 DEF DeleteClient
    <2>. QED BY <2>3, <2>4, <2>5 DEF TypeOK
  <1>10. CASE InitDone(w)
    BY <1>10 DEF InitDone, TypeOK
  <1>. QED BY <1>1, <1>2, <1>3, <1>4, <1>5, <1>6, <1>7, <1>8, <1>9, <1>10
           DEF InitStep

\* GetProxy chooses a client of the list.
LEMMA GetProxyChooses ==
    ASSUME TypeOK, DeleteInv, NEW u \in Users, GetProxy(u)
    PROVE  /\ user'[u] \in Clients /\ user' = [user EXCEPT ![u] = user'[u]]
           /\ user'[u] \in Range(proxys)
  <1>1. proxys \in Seq(Clients) /\ proxys # << >>
    BY DEF GetProxy, DeleteInv, TypeOK
  <1>2. Incremented \in Int
    BY IncrementedIsInt, MaxIntIsNat DEF TypeOK
  <1>3. Index(Incremented) + 1 \in DOMAIN proxys
    BY <1>1, <1>2, IndexInRange
  <1>4. /\ proxys[Index(Incremented) + 1] \in Clients
        /\ proxys[Index(Incremented) + 1] \in Range(proxys)
    BY <1>1, <1>3, ElementOfSeq DEF Range
  <1>. QED BY <1>4 DEF GetProxy, TypeOK

LEMMA UserTyped ==
    ASSUME TypeOK, DeleteInv, NEW u \in Users, Call(u)
    PROVE  TypeOK'
  <1>. USE DEF zkVars, initVars, userVars, excuses, Stop
  <1>1. CASE GetProxy(u)
    <2>1. user'[u] \in Clients /\ user' = [user EXCEPT ![u] = user'[u]]
      BY <1>1, GetProxyChooses
    <2>2. user' \in [Users -> Clients \cup {Null}]
      BY <2>1 DEF TypeOK
    <2>3. proxyIndex' \in -(MaxInt + 1)..MaxInt
      BY <1>1, IncrementedIsInt DEF GetProxy, TypeOK
    <2>4. seen' \subseteq Clients
      BY <1>1, <2>1 DEF GetProxy, TypeOK
    <2>5. /\ call' \in [Users -> {"out", "got", "in", "next", "async"}]
          /\ UNCHANGED <<zk, changes, conn, watch, queue, zh, phase, todo,
                         found, old, proxys, addr, outdated, excuses, status>>
      BY <1>1 DEF GetProxy, TypeOK
    <2>6. MaxInt' = MaxInt
      OBVIOUS
    <2>. QED BY <2>2, <2>3, <2>4, <2>5, <2>6 DEF TypeOK
  <1>2. CASE Enter(u)
    BY <1>2 DEF Enter, TypeOK
  <1>3. CASE NextCommand(u)
    BY <1>3 DEF NextCommand, TypeOK
  <1>4. CASE Mget2(u)
    BY <1>4 DEF Mget2, TypeOK
  <1>5. CASE Leave(u)
    BY <1>5 DEF Leave, TypeOK
  <1>6. CASE UseDeleted(u)
    BY <1>6 DEF UseDeleted, TypeOK
  <1>. QED BY <1>1, <1>2, <1>3, <1>4, <1>5, <1>6 DEF Call

----------------------------------------------------------------------------
(* The handle.                                                             *)

LEMMA InitHandle == Init => HandleInv
  <1>. SUFFICES ASSUME Init PROVE HandleInv
    OBVIOUS
  <1>1. SessionInv
    BY DEF Init, SessionInv, Sessions, Range
  <1>2. OpenInv
    BY DEF Init, OpenInv, Sessions, Workers
  <1>3. OverlapInv
    BY DEF Init, OverlapInv, InInit, Workers
  <1>. QED BY <1>1, <1>2, <1>3 DEF HandleInv

\* What the invariant is about, but the threads' phases.
handleVars == <<conn, watch, queue, zh, overlapped>>

\* A thread goes on that neither begins to use the handle nor stops to open
\* the next one.
LEMMA SameHandle ==
    ASSUME TypeOK, HandleInv, UNCHANGED handleVars, NEW w \in Workers,
           NEW p \in Phases, phase' = [phase EXCEPT ![w] = p],
           p # "open", phase[w] # "open",
           p \in {"connect", "list", "read"} => InInit(w)
    PROVE  HandleInv'
  <1>1. SessionInv'
    BY DEF handleVars, HandleInv, SessionInv
  <1>2. OpenInv'
    <2>1. conn[zh] = "closed" => phase'[zh] = "open"
      BY DEF HandleInv, OpenInv, TypeOK
    <2>2. \A v \in Workers : phase'[v] = "open" => phase[v] = "open"
      BY DEF TypeOK
    <2>. QED BY <2>1, <2>2 DEF handleVars, HandleInv, OpenInv
  <1>3. OverlapInv'
    <2>1. \A v \in Workers : phase'[v] \in {"open", "connect", "list", "read"}
                               => InInit(v)
      BY DEF TypeOK, InInit
    <2>. QED BY <2>1 DEF handleVars, HandleInv, OverlapInv, InInit
  <1>. QED BY <1>1, <1>2, <1>3 DEF HandleInv

LEMMA SameHandleAndPhase ==
    ASSUME HandleInv, UNCHANGED <<conn, watch, queue, zh, phase, overlapped>>
    PROVE  HandleInv'
  BY DEF HandleInv, SessionInv, OpenInv, OverlapInv, InInit

\* "session" is in a queue that has got one more event only if it was there.
LEMMA RangeOfAppend ==
    ASSUME NEW S, NEW q \in Seq(S), NEW e \in S
    PROVE  Range(Append(q, e)) = Range(q) \cup {e}
  BY DEF Range

LEMMA RangeOfTail ==
    ASSUME NEW S, NEW q \in Seq(S), q # << >>
    PROVE  Range(q) = Range(Tail(q)) \cup {Head(q)}
  <1>1. Range(Tail(q)) \subseteq Range(q) /\ Head(q) \in Range(q)
    BY DEF Range
  <1>2. ASSUME NEW i \in DOMAIN q, q[i] # Head(q)
        PROVE  q[i] \in Range(Tail(q))
    <2>1. i \in 2..Len(q)
      BY <1>2
    <2>2. i - 1 \in DOMAIN Tail(q) /\ Tail(q)[i - 1] = q[i]
      BY <2>1
    <2>. QED BY <2>2 DEF Range
  <1>. QED BY <1>1, <1>2 DEF Range

\* A session that is neither closed nor to come is m_Zh.
LEMMA OnlyHandleIsOpen ==
    ASSUME TypeOK, HandleInv, NEW s \in Sessions, conn[s] \notin {"none", "closed"}
    PROVE  s = zh
  <1>1. s \in Int /\ zh \in Int
    BY DEF TypeOK, Sessions
  <1>2. ~(s < zh) /\ ~(s > zh)
    BY DEF HandleInv, SessionInv
  <1>. QED BY <1>1, <1>2

LEMMA ZookeeperHandle ==
    ASSUME TypeOK, HandleInv, Zookeeper
    PROVE  HandleInv'
  <1>. USE DEF initVars, userVars, excuses
  <1>1. ASSUME FireChildWatches, UNCHANGED <<conn, zh, phase>>,
               overlapped' = overlapped
        PROVE  HandleInv'
    <2>1. ASSUME NEW s \in Sessions
          PROVE  /\ queue'[s] = IF watch[s] THEN Append(queue[s], "child")
                                            ELSE queue[s]
                 /\ watch'[s] = FALSE
      BY <1>1 DEF FireChildWatches
    <2>2. ASSUME NEW s \in Sessions
          PROVE  "session" \in Range(queue'[s]) => "session" \in Range(queue[s])
      <3>1. queue[s] \in Seq({"child", "session"})
        BY DEF TypeOK
      <3>2. Range(Append(queue[s], "child")) = Range(queue[s]) \cup {"child"}
        BY <3>1, RangeOfAppend
      <3>3. CASE watch[s]
        <4>1. queue'[s] = Append(queue[s], "child")
          BY <2>1, <3>3
        <4>2. Range(queue'[s]) = Range(queue[s]) \cup {"child"}
          BY <4>1, <3>2
        <4>. QED BY <4>2
      <3>4. CASE ~watch[s]
        BY <2>1, <3>4
      <3>. QED BY <3>3, <3>4
    <2>3. SessionInv'
      BY <1>1, <2>1, <2>2 DEF HandleInv, SessionInv
    <2>. QED BY <1>1, <2>3 DEF HandleInv, OpenInv, OverlapInv, InInit
  <1>2. ASSUME NEW p \in Proxies, Register(p) \/ Deregister(p)
        PROVE  HandleInv'
    BY <1>1, <1>2 DEF Register, Deregister, ChangeNode
  <1>3. ASSUME NEW p \in Proxies, SetState(p)
        PROVE  HandleInv'
    BY <1>3 DEF SetState, ChangeNode, HandleInv, SessionInv, OpenInv,
                OverlapInv, InInit
  <1>4. ASSUME NEW s \in Sessions, Connected(s)
        PROVE  HandleInv'
    <2>1. /\ conn' = [conn EXCEPT ![s] = "connected"]
          /\ conn[s] \in {"connecting", "lost"}
          /\ UNCHANGED <<watch, queue, zh, phase, overlapped>>
      BY <1>4 DEF Connected
    <2>2. s = zh
      BY <2>1, OnlyHandleIsOpen
    <2>3. SessionInv'
      BY <2>1, <2>2 DEF HandleInv, SessionInv, TypeOK
    <2>4. OpenInv'
      BY <2>1, <2>2, SessionsAreWorkers DEF HandleInv, OpenInv, TypeOK
    <2>. QED BY <2>1, <2>3, <2>4 DEF HandleInv, OverlapInv, InInit
  <1>5. ASSUME NEW s \in Sessions, Lose(s)
        PROVE  HandleInv'
    <2>1. /\ conn' = [conn EXCEPT ![s] = "lost"]
          /\ conn[s] = "connected" /\ s < MaxSessions
          /\ queue' = [queue EXCEPT ![s] = Append(@, "session")]
          /\ UNCHANGED <<watch, zh, phase, overlapped>>
      BY <1>5 DEF Lose
    <2>2. s = zh
      BY <2>1, OnlyHandleIsOpen
    <2>3. SessionInv'
      BY <2>1, <2>2 DEF HandleInv, SessionInv, TypeOK
    <2>4. OpenInv'
      BY <2>1, <2>2, SessionsAreWorkers DEF HandleInv, OpenInv, TypeOK
    <2>. QED BY <2>1, <2>3, <2>4 DEF HandleInv, OverlapInv, InInit
  <1>. QED BY <1>2, <1>3, <1>4, <1>5 DEF Zookeeper

LEMMA WatcherHandle ==
    ASSUME TypeOK, HandleInv, NEW s \in Sessions, Watcher(s)
    PROVE  HandleInv'
  <1>. USE SessionsAreWorkers DEF GoTo, Phases, excuses
  <1>1. CASE OnChildEvent(s)
    <2>1. /\ phase[s] = "idle" /\ queue[s] # << >>
          /\ phase' = [phase EXCEPT ![s] = "sleep"]
          /\ queue' = [queue EXCEPT ![s] = Tail(@)]
          /\ UNCHANGED <<conn, watch, zh, overlapped>>
      BY <1>1 DEF OnChildEvent
    <2>2. Range(Tail(queue[s])) \subseteq Range(queue[s])
      <3>1. queue[s] \in Seq({"child", "session"})
        BY DEF TypeOK
      <3>. QED BY <2>1, <3>1, RangeOfTail
    <2>3. SessionInv'
      BY <2>1, <2>2 DEF HandleInv, SessionInv, TypeOK
    <2>4. OpenInv'
      BY <2>1 DEF HandleInv, OpenInv, TypeOK
    <2>5. OverlapInv'
      BY <2>1 DEF HandleInv, OverlapInv, InInit, TypeOK
    <2>. QED BY <2>3, <2>4, <2>5 DEF HandleInv
  <1>2. CASE Wake(s)
    <2>1. /\ phase[s] = "sleep" /\ phase' = [phase EXCEPT ![s] = "list"]
          /\ overlapped' = (overlapped \/ Overlaps(s))
          /\ UNCHANGED <<conn, watch, queue, zh>>
      BY <1>2 DEF Wake, zkVars
    <2>2. SessionInv'
      BY <2>1 DEF HandleInv, SessionInv
    <2>3. OpenInv'
      BY <2>1 DEF HandleInv, OpenInv, TypeOK
    <2>4. OverlapInv'
      <3>1. ASSUME ~overlapped', NEW v \in Workers, v # s
            PROVE  phase'[v] \notin {"open", "connect", "list", "read"}
        BY <2>1, <3>1 DEF Overlaps, InInit, TypeOK
      <3>. QED BY <3>1 DEF OverlapInv, InInit
    <2>. QED BY <2>2, <2>3, <2>4 DEF HandleInv
  <1>3. CASE OnSessionEvent(s)
    <2>1. /\ phase[s] = "idle" /\ phase' = [phase EXCEPT ![s] = "open"]
          /\ overlapped' = (overlapped \/ Overlaps(s))
          /\ conn' = [conn EXCEPT ![zh] = "closed"]
          /\ watch' = [watch EXCEPT ![zh] = FALSE]
          /\ queue' = [queue EXCEPT ![zh] = << >>]
          /\ UNCHANGED zh
      BY <1>3 DEF OnSessionEvent
    <2>2. queue[s] # << >> /\ "session" \in Range(queue[s])
      <3>1. queue[s] \in Seq({"child", "session"}) /\ queue[s] # << >>
        BY <1>3 DEF OnSessionEvent, TypeOK
      <3>2. Head(queue[s]) = "session"
        BY <1>3 DEF OnSessionEvent
      <3>. QED BY <3>1, <3>2, RangeOfTail
    <2>3. s = zh /\ s < MaxSessions
      BY <2>2 DEF HandleInv, SessionInv, Sessions, TypeOK
    <2>4. SessionInv'
      BY <2>1, <2>3 DEF HandleInv, SessionInv, TypeOK, Range
    <2>5. OpenInv'
      BY <2>1, <2>3 DEF HandleInv, OpenInv, TypeOK
    <2>6. OverlapInv'
      <3>1. ASSUME ~overlapped', NEW v \in Workers, v # s
            PROVE  phase'[v] \notin {"open", "connect", "list", "read"}
        BY <2>1, <3>1 DEF Overlaps, InInit, TypeOK
      <3>. QED BY <3>1 DEF OverlapInv, InInit
    <2>. QED BY <2>4, <2>5, <2>6 DEF HandleInv
  <1>4. CASE OpenSession(s)
    <2>1. /\ phase[s] = "open" /\ phase' = [phase EXCEPT ![s] = "connect"]
          /\ zh' = zh + 1
          /\ conn' = [conn EXCEPT ![zh + 1] = "connecting"]
          /\ UNCHANGED <<watch, queue, overlapped>>
      BY <1>4 DEF OpenSession
    <2>2. zh = s /\ s < MaxSessions /\ conn[s] = "closed"
      BY <2>1 DEF HandleInv, OpenInv
    <2>3. zh + 1 \in Sessions /\ zh \in Nat
      BY <2>2 DEF Sessions
    <2>4. SessionInv'
      <3>1. \A r \in Sessions : /\ r < zh + 1 => r < zh \/ r = zh
                                /\ r > zh + 1 => r > zh
        BY <2>3 DEF Sessions
      <3>2. \A r \in Sessions : r # zh + 1 => conn'[r] = conn[r]
        BY <2>1 DEF TypeOK
      <3>3. conn'[zh + 1] = "connecting"
        BY <2>1, <2>3 DEF TypeOK
      <3>4. \A r \in Sessions : r < zh + 1 \/ r > zh + 1 => r # zh + 1
        BY <2>3 DEF Sessions
      <3>. QED BY <2>1, <2>2, <3>1, <3>2, <3>3, <3>4 DEF HandleInv, SessionInv
    <2>5. OpenInv'
      <3>1. conn'[zh + 1] = "connecting"
        BY <2>1, <2>3 DEF TypeOK
      <3>2. \A w \in Workers : phase'[w] # "open"
        BY <2>1, <2>2 DEF HandleInv, OpenInv, TypeOK
      <3>. QED BY <2>1, <3>1, <3>2 DEF OpenInv
    <2>6. OverlapInv'
      BY <2>1 DEF HandleInv, OverlapInv, InInit, TypeOK
    <2>. QED BY <2>4, <2>5, <2>6 DEF HandleInv
  <1>. QED BY <1>1, <1>2, <1>3, <1>4 DEF Watcher

LEMMA InitStepHandle ==
    ASSUME TypeOK, HandleInv, NEW w \in Workers, InitStep(w)
    PROVE  HandleInv'
  <1>. USE DEF zkVars, initVars, excuses, handleVars, GoTo, Phases, InInit
  <1>1. CASE ConnectDone(w)
    BY <1>1, SameHandle DEF ConnectDone
  <1>2. CASE ConnectTimeout(w) \/ GetChildrenFails(w) \/ ReadNode(w)
             \/ UseClosedHandle(w) \/ NoProxy(w) \/ DeleteClient(w)
    BY <1>2, SameHandleAndPhase
       DEF ConnectTimeout, GetChildrenFails, ReadNode, UseClosedHandle,
           NoProxy, DeleteClient
  <1>3. CASE GetChildren(w)
    <2>1. /\ phase[w] = "list" /\ phase' = [phase EXCEPT ![w] = "read"]
          /\ conn[zh] = "connected"
          /\ watch' = [watch EXCEPT ![zh] = TRUE]
          /\ UNCHANGED <<conn, queue, zh, overlapped>>
      BY <1>3 DEF GetChildren
    <2>2. SessionInv'
      BY <2>1 DEF HandleInv, SessionInv, TypeOK
    <2>3. OpenInv'
      BY <2>1 DEF HandleInv, OpenInv, TypeOK
    <2>4. OverlapInv'
      BY <2>1 DEF HandleInv, OverlapInv, TypeOK
    <2>. QED BY <2>2, <2>3, <2>4 DEF HandleInv
  <1>4. CASE InitProxyConns(w)
    BY <1>4, SameHandle DEF InitProxyConns, Publish
  <1>5. CASE InitDone(w)
    BY <1>5, SameHandle DEF InitDone
  <1>. QED BY <1>1, <1>2, <1>3, <1>4, <1>5 DEF InitStep

LEMMA UserHandle ==
    ASSUME HandleInv, NEW u \in Users, Call(u)
    PROVE  HandleInv'
  BY SameHandleAndPhase
     DEF Call, GetProxy, Enter, NextCommand, Mget2, Leave, UseDeleted,
         zkVars, initVars, excuses

----------------------------------------------------------------------------
(* The clients.                                                            *)

\* The lists hold clients.
LEMMA ListsHoldClients ==
    ASSUME TypeOK
    PROVE  /\ Range(proxys) \subseteq Clients
           /\ \A w \in Workers : Range(old[w]) \subseteq Clients
  <1>1. ASSUME NEW q \in Seq(Clients) PROVE Range(q) \subseteq Clients
    BY <1>1, ElementOfSeq DEF Range
  <1>. QED BY <1>1 DEF TypeOK

LEMMA OwnInvIsOwnedOnce ==
    ASSUME TypeOK, OwnInv
    PROVE  OwnedOnce
  <1>1. DOMAIN OwnerLists = Workers \cup {-1} /\ -1 \notin Workers
    BY DEF OwnerLists, Workers
  <1>2. OwnerLists[-1] = proxys /\ \A w \in Workers : OwnerLists[w] = old[w]
    BY DEF OwnerLists, Workers
  <1>3. ASSUME NEW v \in DOMAIN OwnerLists
        PROVE  IsInjective(OwnerLists[v])
    <2>1. CASE v = -1
      BY <1>2, <2>1 DEF OwnInv
    <2>2. CASE v \in Workers
      <3>1. OwnerLists[v] = old[v] /\ IsInjective(old[v])
        BY <1>2, <2>2 DEF OwnInv
      <3>. QED BY <3>1
    <2>. QED BY <1>1, <1>3, <2>1, <2>2
  <1>4. ASSUME NEW v \in DOMAIN OwnerLists, NEW w \in DOMAIN OwnerLists, v # w
        PROVE  Range(OwnerLists[v]) \cap Range(OwnerLists[w]) = {}
    <2>1. CASE v = -1 /\ w \in Workers
      <3>1. OwnerLists[v] = proxys /\ OwnerLists[w] = old[w]
        BY <1>2, <2>1
      <3>. QED BY <2>1, <3>1 DEF OwnInv
    <2>2. CASE v \in Workers /\ w = -1
      <3>1. OwnerLists[v] = old[v] /\ OwnerLists[w] = proxys
        BY <1>2, <2>2
      <3>. QED BY <2>2, <3>1 DEF OwnInv
    <2>3. CASE v \in Workers /\ w \in Workers
      <3>1. OwnerLists[v] = old[v] /\ OwnerLists[w] = old[w]
        BY <1>2, <2>3
      <3>. QED BY <1>4, <2>3, <3>1 DEF OwnInv
    <2>. QED BY <1>1, <1>4, <2>1, <2>2, <2>3
  <1>5. Allocated = UNION {Range(OwnerLists[w]) : w \in DOMAIN OwnerLists}
    <2>1. ASSUME NEW c \in Allocated
          PROVE  \E w \in DOMAIN OwnerLists : c \in Range(OwnerLists[w])
      <3>1. \/ c \in Range(proxys)
            \/ \E w \in Workers : c \in Range(old[w])
        BY <2>1 DEF Allocated, OwnInv
      <3>2. CASE c \in Range(proxys)
        BY <1>1, <1>2, <3>2
      <3>3. ASSUME NEW w \in Workers, c \in Range(old[w])
            PROVE  \E v \in DOMAIN OwnerLists : c \in Range(OwnerLists[v])
        <4>1. OwnerLists[w] = old[w] /\ w \in DOMAIN OwnerLists
          BY <1>1, <1>2
        <4>. QED BY <3>3, <4>1
      <3>. QED BY <3>1, <3>2, <3>3
    <2>2. ASSUME NEW w \in DOMAIN OwnerLists, NEW c \in Range(OwnerLists[w])
          PROVE  c \in Allocated
      <3>1. CASE w = -1
        <4>1. c \in Range(proxys)
          BY <1>2, <2>2, <3>1
        <4>. QED BY <4>1, ListsHoldClients DEF Allocated, OwnInv
      <3>2. CASE w \in Workers
        <4>1. OwnerLists[w] = old[w]
          BY <1>2, <3>2
        <4>2. c \in Range(old[w])
          BY <2>2, <4>1
        <4>. QED BY <3>2, <4>2, ListsHoldClients DEF Allocated, OwnInv
      <3>. QED BY <1>1, <2>2, <3>1, <3>2
    <2>. QED BY <2>1, <2>2
  <1>. QED BY <1>3, <1>4, <1>5 DEF OwnedOnce

LEMMA InitClients == Init => DeleteInv /\ UserInv /\ OwnInv /\ CallInv
  <1>. SUFFICES ASSUME Init PROVE DeleteInv /\ UserInv /\ OwnInv /\ CallInv
    OBVIOUS
  <1>1. DeleteInv
    BY SessionsAreWorkers DEF Init, DeleteInv
  <1>2. UserInv /\ CallInv
    BY DEF Init, UserInv, CallInv
  <1>3. OwnInv
    <2>1. Range(<< >>) = {} /\ IsInjective(<< >>)
      BY DEF Range, IsInjective
    <2>2. /\ proxys = << >> /\ \A w \in Workers : old[w] = << >>
          /\ \A c \in Clients : addr[c] = Null
      BY DEF Init
    <2>. QED BY <2>1, <2>2 DEF OwnInv
  <1>. QED BY <1>1, <1>2, <1>3

\* Steps of others: no list changes, no thread turns to deleting.
LEMMA SameClients ==
    ASSUME DeleteInv, UserInv, OwnInv, CallInv,
           UNCHANGED <<proxys, old, addr, userVars>>,
           \A w \in Workers : phase'[w] # phase[w] =>
              phase[w] # "delete" /\ phase'[w] \notin {"delete", "done"}
    PROVE  DeleteInv' /\ UserInv' /\ OwnInv' /\ CallInv'
  <1>1. DeleteInv'
    BY SessionsAreWorkers DEF DeleteInv
  <1>2. UserInv'
    BY DEF UserInv, userVars
  <1>3. OwnInv'
    BY DEF OwnInv
  <1>4. CallInv'
    BY DEF CallInv, Allocated, userVars
  <1>. QED BY <1>1, <1>2, <1>3, <1>4

LEMMA ZookeeperClients ==
    ASSUME PoolInv, Zookeeper
    PROVE  DeleteInv' /\ UserInv' /\ OwnInv' /\ CallInv'
  <1>1. UNCHANGED <<proxys, old, addr, userVars, phase>>
    BY DEF Zookeeper, Register, Deregister, SetState, ChangeNode, Connected,
           Lose, initVars
  <1>. QED BY <1>1, SameClients DEF PoolInv

LEMMA WatcherClients ==
    ASSUME PoolInv, NEW s \in Sessions, Watcher(s)
    PROVE  DeleteInv' /\ UserInv' /\ OwnInv' /\ CallInv'
  <1>1. UNCHANGED <<proxys, old, addr, userVars>>
    BY DEF Watcher, OnChildEvent, Wake, OnSessionEvent, OpenSession
  <1>2. PICK p \in {"sleep", "list", "open", "connect"} :
          phase[s] # "delete" /\ phase' = [phase EXCEPT ![s] = p]
    BY DEF Watcher, OnChildEvent, Wake, OnSessionEvent, OpenSession, GoTo
  <1>3. \A w \in Workers : phase'[w] # phase[w] =>
           phase[w] # "delete" /\ phase'[w] \notin {"delete", "done"}
    BY <1>2, SessionsAreWorkers DEF PoolInv, TypeOK
  <1>. QED BY <1>1, <1>3, SameClients DEF PoolInv

LEMMA NewClients ==
    ASSUME PoolInv, NEW w \in Workers, InitProxyConns(w)
    PROVE  DeleteInv' /\ UserInv' /\ OwnInv' /\ CallInv'
  <1>. USE DEF PoolInv
  <1>1. /\ proxys' \in Seq(Clients) /\ proxys' # << >>
        /\ IsInjective(proxys')
        /\ \A c \in Range(proxys') : c \in Clients /\ addr[c] = Null
        /\ \A c \in Range(proxys') : addr'[c] \in Proxies
        /\ \A c \in Clients \ Range(proxys') : addr'[c] = addr[c]
    BY InitProxyConnsChooses
  <1>2. /\ phase[w] = "read" /\ phase' = [phase EXCEPT ![w] = "delete"]
        /\ old' = [old EXCEPT ![w] = proxys]
        /\ UNCHANGED <<user, call>>
        /\ outdated' = [u \in Users |-> call[u] # "out"]
    BY DEF InitProxyConns, Publish, GoTo
  <1>3. old[w] = << >>
    BY <1>2 DEF DeleteInv
  <1>4. old'[w] = proxys /\ \A v \in Workers \ {w} : old'[v] = old[v]
    BY <1>2 DEF TypeOK
  <1>5. DeleteInv'
    BY <1>1, <1>2, <1>4, SessionsAreWorkers DEF DeleteInv, TypeOK
  <1>6. UserInv'
    BY <1>2 DEF UserInv
  <1>7. \A c \in Allocated : addr'[c] # Null
    BY <1>1 DEF Allocated, TypeOK
  <1>8. CallInv'
    BY <1>2, <1>7 DEF CallInv, Allocated
  <1>9. OwnInv'
    <2>1. Range(old[w]) = {}
      BY <1>3 DEF Range
    <2>2. ASSUME NEW c \in Range(proxys')
          PROVE  c \notin Range(proxys) /\ \A v \in Workers : c \notin Range(old[v])
      BY <1>1 DEF OwnInv
    <2>3. ASSUME NEW v \in Workers
          PROVE  /\ IsInjective(old'[v])
                 /\ Range(proxys') \cap Range(old'[v]) = {}
      <3>1. CASE v = w
        <4>1. old'[v] = proxys
          BY <1>4, <3>1
        <4>. QED BY <2>2, <4>1 DEF OwnInv
      <3>2. CASE v # w
        <4>1. old'[v] = old[v]
          BY <1>4, <3>2
        <4>. QED BY <2>2, <4>1 DEF OwnInv
      <3>. QED BY <3>1, <3>2
    <2>4. ASSUME NEW v \in Workers, NEW x \in Workers, v # x
          PROVE  Range(old'[v]) \cap Range(old'[x]) = {}
      <3>1. CASE v = w
        <4>1. old'[v] = proxys /\ old'[x] = old[x]
          BY <1>4, <2>4, <3>1
        <4>. QED BY <4>1 DEF OwnInv
      <3>2. CASE x = w
        <4>1. old'[v] = old[v] /\ old'[x] = proxys
          BY <1>4, <2>4, <3>2
        <4>. QED BY <4>1 DEF OwnInv
      <3>3. CASE v # w /\ x # w
        <4>1. old'[v] = old[v] /\ old'[x] = old[x]
          BY <1>4, <3>3
        <4>. QED BY <2>4, <4>1 DEF OwnInv
      <3>. QED BY <3>1, <3>2, <3>3
    <2>5. ASSUME NEW c \in Clients
          PROVE  addr'[c] # Null <=> \/ c \in Range(proxys')
                                     \/ \E v \in Workers : c \in Range(old'[v])
      <3>1. CASE c \in Range(proxys')
        BY <1>1, <3>1
      <3>2. CASE c \notin Range(proxys')
        <4>1. addr'[c] = addr[c]
          BY <1>1, <3>2
        <4>2. (\E v \in Workers : c \in Range(old'[v])) <=>
                 \/ c \in Range(proxys)
                 \/ \E v \in Workers : c \in Range(old[v])
          <5>1. ASSUME NEW v \in Workers, c \in Range(old'[v])
                PROVE  c \in Range(proxys) \/ c \in Range(old[v])
            BY <1>4, <5>1
          <5>2. c \in Range(proxys) => c \in Range(old'[w])
            BY <1>4
          <5>3. ASSUME NEW v \in Workers, c \in Range(old[v])
                PROVE  c \in Range(old'[v])
            <6>1. v # w
              BY <2>1, <5>3
            <6>. QED BY <1>4, <5>3, <6>1
          <5>. QED BY <5>1, <5>2, <5>3
        <4>. QED BY <3>2, <4>1, <4>2 DEF OwnInv
      <3>. QED BY <3>1, <3>2
    <2>. QED BY <1>1, <2>3, <2>4, <2>5 DEF OwnInv
  <1>. QED BY <1>5, <1>6, <1>8, <1>9

\* No element comes twice, so the first one is not among the others.
LEMMA TailOfInjective ==
    ASSUME NEW S, NEW q \in Seq(S), q # << >>, IsInjective(q)
    PROVE  IsInjective(Tail(q)) /\ Head(q) \notin Range(Tail(q))
  <1>1. /\ DOMAIN q = 1..Len(q) /\ Len(q) \in Nat \ {0}
        /\ DOMAIN Tail(q) = 1..(Len(q) - 1) /\ Head(q) = q[1]
    OBVIOUS
  <1>2. ASSUME NEW i \in DOMAIN Tail(q)
        PROVE  Tail(q)[i] = q[i + 1] /\ i + 1 \in DOMAIN q /\ i + 1 # 1
    BY <1>1
  <1>3. \A i, j \in DOMAIN q : q[i] = q[j] => i = j
    BY DEF IsInjective
  <1>4. ASSUME NEW i \in DOMAIN Tail(q), NEW j \in DOMAIN Tail(q),
               Tail(q)[i] = Tail(q)[j]
        PROVE  i = j
    <2>1. q[i + 1] = q[j + 1] /\ i + 1 \in DOMAIN q /\ j + 1 \in DOMAIN q
      BY <1>2, <1>4
    <2>2. i + 1 = j + 1
      BY <1>3, <2>1
    <2>. QED BY <1>1, <2>2
  <1>5. ASSUME NEW i \in DOMAIN Tail(q), Tail(q)[i] = Head(q)
        PROVE  FALSE
    <2>1. q[i + 1] = q[1] /\ i + 1 \in DOMAIN q /\ 1 \in DOMAIN q /\ i + 1 # 1
      BY <1>1, <1>2, <1>5
    <2>. QED BY <1>3, <2>1
  <1>. QED BY <1>4, <1>5 DEF IsInjective, Range

LEMMA DeletedClient ==
    ASSUME PoolInv, NEW w \in Workers, DeleteClient(w)
    PROVE  DeleteInv' /\ UserInv' /\ OwnInv' /\ CallInv'
  <1>. USE DEF PoolInv
  <1> DEFINE c == Doomed(w)
  <1>1. /\ phase[w] = "delete" /\ old[w] # << >>
        /\ \A u \in Users : ~(call[u] = "in" /\ user[u] = c)
        /\ addr' = [addr EXCEPT ![c] = Null]
        /\ old' = [old EXCEPT ![w] = Tail(@)]
        /\ UNCHANGED <<phase, proxys, user, call, outdated>>
    BY DEF DeleteClient, userVars
  <1>2. old[w] \in Seq(Clients)
    BY DEF TypeOK
  <1>3. /\ Range(old[w]) = Range(Tail(old[w])) \cup {c}
        /\ c \in Clients
    BY <1>1, <1>2, RangeOfTail DEF Doomed
  <1>4. IsInjective(Tail(old[w])) /\ c \notin Range(Tail(old[w]))
    <2>1. IsInjective(old[w])
      BY DEF OwnInv
    <2>. QED BY <1>1, <1>2, <2>1, TailOfInjective DEF Doomed
  <1>5. old'[w] = Tail(old[w]) /\ \A v \in Workers \ {w} : old'[v] = old[v]
    BY <1>1 DEF TypeOK
  <1>6. addr'[c] = Null /\ \A d \in Clients \ {c} : addr'[d] = addr[d]
    BY <1>1, <1>3 DEF TypeOK
  <1> HIDE DEF c
  <1>7. DeleteInv'
    BY <1>1, <1>5, SessionsAreWorkers DEF DeleteInv
  <1>8. UserInv'
    BY <1>1 DEF UserInv
  <1>9. CallInv'
    <2>1. ASSUME NEW u \in Users, call[u] = "in"
          PROVE  user[u] \in Clients /\ addr'[user[u]] # Null
      <3>1. user[u] # c /\ user[u] \in Clients /\ addr[user[u]] # Null
        BY <1>1, <2>1 DEF CallInv, Allocated
      <3>. QED BY <1>6, <3>1
    <2>. QED BY <1>1, <2>1 DEF CallInv, Allocated
  <1>10. OwnInv'
    <2>1. c \notin Range(proxys) /\ \A v \in Workers \ {w} : c \notin Range(old[v])
      BY <1>3 DEF OwnInv
    <2>2. \A v \in Workers : Range(old'[v]) = Range(old[v]) \ {c}
      <3>1. ASSUME NEW v \in Workers, v = w
            PROVE  Range(old'[v]) = Range(old[v]) \ {c}
        BY <1>3, <1>4, <1>5, <3>1
      <3>2. ASSUME NEW v \in Workers, v # w
            PROVE  Range(old'[v]) = Range(old[v]) \ {c}
        BY <1>5, <2>1, <3>2
      <3>. QED BY <3>1, <3>2
    <2>3. \A v \in Workers : IsInjective(old'[v])
      BY <1>4, <1>5 DEF OwnInv
    <2>4. \A v \in Workers : Range(proxys) \cap Range(old'[v]) = {}
      BY <2>2 DEF OwnInv
    <2>5. \A v, x \in Workers : v # x => Range(old'[v]) \cap Range(old'[x]) = {}
      BY <2>2 DEF OwnInv
    <2>6. ASSUME NEW d \in Clients
          PROVE  addr'[d] # Null <=> \/ d \in Range(proxys)
                                     \/ \E v \in Workers : d \in Range(old'[v])
      <3>1. CASE d = c
        BY <1>6, <2>1, <2>2, <3>1
      <3>2. CASE d # c
        BY <1>6, <2>2, <3>2 DEF OwnInv
      <3>. QED BY <3>1, <3>2
    <2>. QED BY <1>1, <2>3, <2>4, <2>5, <2>6 DEF OwnInv
  <1>. QED BY <1>7, <1>8, <1>9, <1>10

LEMMA InitStepClients ==
    ASSUME PoolInv, NEW w \in Workers, InitStep(w)
    PROVE  DeleteInv' /\ UserInv' /\ OwnInv' /\ CallInv'
  <1>. USE DEF zkVars, initVars, userVars, excuses, GoTo
  <1>1. CASE \/ ConnectTimeout(w) \/ GetChildrenFails(w) \/ ReadNode(w)
             \/ UseClosedHandle(w) \/ NoProxy(w)
    <2>1. UNCHANGED <<proxys, old, addr, userVars, phase>>
      BY <1>1 DEF ConnectTimeout, GetChildrenFails, ReadNode, UseClosedHandle,
                  NoProxy
    <2>. QED BY <2>1, SameClients DEF PoolInv
  <1>2. CASE ConnectDone(w) \/ GetChildren(w)
    <2>1. UNCHANGED <<proxys, old, addr, userVars>>
      BY <1>2 DEF ConnectDone, GetChildren
    <2>2. PICK p \in {"list", "read"} :
            phase[w] # "delete" /\ phase' = [phase EXCEPT ![w] = p]
      BY <1>2 DEF ConnectDone, GetChildren
    <2>3. \A v \in Workers : phase'[v] # phase[v] =>
             phase[v] # "delete" /\ phase'[v] \notin {"delete", "done"}
      BY <2>2 DEF PoolInv, TypeOK
    <2>. QED BY <2>1, <2>3, SameClients DEF PoolInv
  <1>3. CASE InitProxyConns(w)
    BY <1>3, NewClients
  <1>4. CASE DeleteClient(w)
    BY <1>4, DeletedClient
  <1>5. CASE InitDone(w)
    <2>1. /\ UNCHANGED <<proxys, old, addr, user, call, outdated>>
          /\ phase[w] = "delete" /\ old[w] = << >>
      BY <1>5 DEF InitDone
    <2>2. PICK p \in {"idle", "done"} : phase' = [phase EXCEPT ![w] = p]
      BY <1>5 DEF InitDone
    <2>3. DeleteInv'
      BY <2>1, <2>2, SessionsAreWorkers DEF PoolInv, DeleteInv, TypeOK
    <2>4. UserInv' /\ OwnInv'
      BY <2>1 DEF PoolInv, UserInv, OwnInv
    <2>5. CallInv'
      BY <2>1 DEF PoolInv, CallInv, Allocated
    <2>. QED BY <2>3, <2>4, <2>5
  <1>. QED BY <1>1, <1>2, <1>3, <1>4, <1>5 DEF InitStep

LEMMA UserClients ==
    ASSUME PoolInv, NEW u \in Users, Call(u)
    PROVE  DeleteInv' /\ UserInv' /\ OwnInv' /\ CallInv'
  <1>. USE DEF zkVars, initVars, userVars, PoolInv
  <1>1. UNCHANGED <<proxys, old, addr, phase>>
    BY DEF Call, GetProxy, Enter, NextCommand, Mget2, Leave, UseDeleted
  <1>2. DeleteInv' /\ OwnInv'
    BY <1>1 DEF DeleteInv, OwnInv
  <1>3. CASE GetProxy(u)
    <2>1. /\ user'[u] \in Clients /\ user' = [user EXCEPT ![u] = user'[u]]
          /\ user'[u] \in Range(proxys)
      BY <1>3, GetProxyChooses
    <2>2. call' = [call EXCEPT ![u] = "got"] /\ UNCHANGED outdated
      BY <1>3 DEF GetProxy
    <2>3. UserInv'
      BY <2>1, <2>2 DEF UserInv, TypeOK
    <2>4. CallInv'
      BY <1>1, <2>1, <2>2 DEF CallInv, Allocated, TypeOK
    <2>. QED BY <1>2, <2>3, <2>4
  <1>4. CASE Enter(u)
    <2>1. /\ call[u] \in {"got", "next"} /\ addr[user[u]] # Null
          /\ call' = [call EXCEPT ![u] = "in"] /\ UNCHANGED <<user, outdated>>
      BY <1>4 DEF Enter
    <2>2. UserInv'
      BY <2>1 DEF UserInv, TypeOK
    <2>3. user[u] \in Allocated
      BY <2>1 DEF UserInv, Allocated
    <2>4. CallInv'
      BY <1>1, <2>1, <2>3 DEF CallInv, Allocated, TypeOK
    <2>. QED BY <1>2, <2>2, <2>4
  <1>5. CASE NextCommand(u) \/ Mget2(u)
    <2>1. PICK c \in {"next", "async"} : call' = [call EXCEPT ![u] = c]
      BY <1>5 DEF NextCommand, Mget2
    <2>2. call[u] # "out" /\ UNCHANGED <<user, outdated>>
      BY <1>5 DEF NextCommand, Mget2
    <2>3. UserInv'
      BY <2>1, <2>2 DEF UserInv, TypeOK
    <2>4. CallInv'
      BY <1>1, <2>1, <2>2 DEF CallInv, Allocated, TypeOK
    <2>. QED BY <1>2, <2>3, <2>4
  <1>6. CASE Leave(u)
    <2>1. /\ call' = [call EXCEPT ![u] = "out"]
          /\ user' = [user EXCEPT ![u] = Null]
          /\ outdated' = [outdated EXCEPT ![u] = FALSE]
      BY <1>6 DEF Leave
    <2>. QED BY <1>1, <1>2, <2>1 DEF UserInv, CallInv, Allocated, TypeOK
  <1>7. CASE UseDeleted(u)
    BY <1>1, <1>2, <1>7 DEF UseDeleted, UserInv, CallInv, Allocated
  <1>. QED BY <1>3, <1>4, <1>5, <1>6, <1>7 DEF Call

----------------------------------------------------------------------------
LEMMA PoolInvInit == Init => PoolInv
  BY InitTyped, InitHandle, InitClients DEF PoolInv

LEMMA PoolInvStep == PoolInv /\ [Next]_vars => PoolInv'
  <1>. SUFFICES ASSUME PoolInv, [Next]_vars PROVE PoolInv'
    OBVIOUS
  <1>1. CASE Zookeeper
    BY <1>1, ZookeeperTyped, ZookeeperHandle, ZookeeperClients DEF PoolInv
  <1>2. ASSUME NEW s \in Sessions, Watcher(s) PROVE PoolInv'
    BY <1>2, WatcherTyped, WatcherHandle, WatcherClients DEF PoolInv
  <1>3. ASSUME NEW w \in Workers, InitStep(w) PROVE PoolInv'
    BY <1>3, InitStepTyped, InitStepHandle, InitStepClients DEF PoolInv
  <1>4. ASSUME NEW u \in Users, Call(u) PROVE PoolInv'
    BY <1>4, UserTyped, UserHandle, UserClients DEF PoolInv
  <1>5. CASE UNCHANGED vars
    <2>1. UNCHANGED <<zk, changes, conn, watch, queue, zh, proxys, proxyIndex,
                      phase, todo, found, old, addr, user, call, outdated,
                      seen, overlapped, ignored, status>>
      BY <1>5 DEF vars, zkVars, initVars, userVars, excuses
    <2>2. TypeOK'
      BY <2>1 DEF PoolInv, TypeOK
    <2>3. HandleInv'
      BY <2>1, SameHandleAndPhase DEF PoolInv
    <2>4. DeleteInv' /\ UserInv' /\ OwnInv' /\ CallInv'
      BY <2>1, SameClients DEF PoolInv, userVars
    <2>. QED BY <2>2, <2>3, <2>4 DEF PoolInv
  <1>. QED BY <1>1, <1>2, <1>3, <1>4, <1>5 DEF Next, Running, Stopped

----------------------------------------------------------------------------
(* The list is that of the proxies that are online.                        *)

ListInv == PoolInv /\ ConnInv /\ FreshInv

LEMMA InitList == Init => ConnInv /\ FreshInv
  <1>. SUFFICES ASSUME Init PROVE ConnInv /\ FreshInv
    OBVIOUS
  <1>1. phase[0] = "connect" /\ 0 \in Workers
    BY SessionsAreWorkers DEF Init
  <1>2. zh = 1 /\ conn[1] = "connecting"
    BY SessionsAreWorkers DEF Init
  <1>. QED BY <1>1, <1>2 DEF ConnInv, FreshInv, Pending

\* Steps that read no proxy and change neither the list nor the proxies.
LEMMA SameList ==
    ASSUME ConnInv, FreshInv,
           UNCHANGED <<conn, watch, queue, zh, zk, todo, found, phase>>,
           UNCHANGED <<overlapped, ignored>>,
           Listed' = Listed
    PROVE  ConnInv' /\ FreshInv'
  <1>1. ConnInv'
    BY DEF ConnInv
  <1>2. Pending' <=> Pending
    BY DEF Pending
  <1>3. Online' = Online
    BY DEF Online
  <1>. QED BY <1>1, <1>2, <1>3 DEF FreshInv

LEMMA ZookeeperList ==
    ASSUME ListInv, Zookeeper
    PROVE  ConnInv' /\ FreshInv'
  <1>. USE DEF ListInv, PoolInv, initVars, userVars, excuses
  <1>1. UNCHANGED <<zh, phase, todo, found, proxys, addr>>
    BY DEF Zookeeper, Register, Deregister, SetState, ChangeNode, Connected, Lose
  <1>2. Listed' = Listed
    BY <1>1 DEF Listed
  <1>3. ASSUME FireChildWatches, UNCHANGED <<conn, overlapped>>
        PROVE  ConnInv' /\ FreshInv'
    <2>1. \A s \in Sessions : queue[s] \in Seq({"child", "session"})
      BY DEF TypeOK
    <2>2. \A s \in Sessions :
             queue'[s] = IF watch[s] THEN Append(queue[s], "child") ELSE queue[s]
      BY <1>3 DEF FireChildWatches
    <2>3. ASSUME NEW s \in Sessions, NEW e \in Range(queue[s])
          PROVE  e \in Range(queue'[s])
      <3>1. CASE watch[s]
        <4>1. queue'[s] = Append(queue[s], "child")
          BY <2>2, <3>1
        <4>2. Range(Append(queue[s], "child")) = Range(queue[s]) \cup {"child"}
          BY <2>1, RangeOfAppend
        <4>. QED BY <2>3, <4>1, <4>2
      <3>2. CASE ~watch[s]
        <4>1. queue'[s] = queue[s]
          BY <2>2, <3>2
        <4>. QED BY <2>3, <4>1
      <3>. QED BY <3>1, <3>2
    <2>4. ConnInv'
      <3>1. zh \in Sessions
        BY DEF TypeOK
      <3>. QED BY <1>1, <1>3, <2>3, <3>1 DEF ConnInv
    <2>5. ASSUME NEW s \in Sessions, queue[s] # << >> \/ watch[s]
          PROVE  queue'[s] # << >>
      <3>1. CASE watch[s]
        <4>1. queue'[s] = Append(queue[s], "child")
          BY <2>2, <3>1
        <4>. QED BY <2>1, <4>1
      <3>2. CASE ~watch[s]
        BY <2>2, <2>5, <3>2
      <3>. QED BY <3>1, <3>2
    <2>6. Pending => Pending'
      BY <1>1, <2>5 DEF Pending
    <2>7. watch[zh] => Pending'
      BY <2>5 DEF Pending, TypeOK
    <2>. QED BY <1>3, <2>4, <2>6, <2>7 DEF FreshInv
  <1>4. ASSUME NEW p \in Proxies, Register(p) \/ Deregister(p)
        PROVE  ConnInv' /\ FreshInv'
    BY <1>3, <1>4 DEF Register, Deregister, ChangeNode
  <1>5. ASSUME NEW p \in Proxies, SetState(p)
        PROVE  ConnInv' /\ FreshInv'
    <2>1. /\ UNCHANGED <<conn, watch, queue, overlapped>>
          /\ ignored' = ignored \cup {p}
          /\ \A q \in Proxies \ {p} : zk'[q] = zk[q]
      BY <1>5 DEF SetState, ChangeNode, TypeOK
    <2>2. ConnInv' /\ (Pending' <=> Pending)
      BY <1>1, <2>1 DEF ConnInv, Pending
    <2>3. Online' \ ignored' = (Online \ ignored) \ {p}
      BY <2>1 DEF Online
    <2>4. \A w \in Workers :
             (Online' \ todo'[w]) \ ignored' = ((Online \ todo[w]) \ ignored) \ {p}
      BY <1>1, <2>1, <2>3
    <2>5. \A S : S \ ignored' = (S \ ignored) \ {p}
      BY <2>1
    <2>. QED BY <1>1, <1>2, <2>1, <2>2, <2>3, <2>4, <2>5 DEF FreshInv
  <1>6. ASSUME NEW s \in Sessions, Connected(s)
        PROVE  ConnInv' /\ FreshInv'
    <2>1. /\ conn' = [conn EXCEPT ![s] = "connected"]
          /\ conn[s] \in {"connecting", "lost"}
          /\ UNCHANGED <<zk, watch, queue, excuses>>
      BY <1>6 DEF Connected
    <2>2. s = zh
      BY <2>1, OnlyHandleIsOpen
    <2>3. ConnInv'
      BY <1>1, <2>1, <2>2 DEF ConnInv, TypeOK
    <2>4. (Pending' <=> Pending) /\ Online' = Online
      BY <1>1, <2>1 DEF Pending, Online
    <2>. QED BY <1>1, <1>2, <2>1, <2>3, <2>4 DEF FreshInv
  <1>7. ASSUME NEW s \in Sessions, Lose(s)
        PROVE  ConnInv' /\ FreshInv'
    <2>1. /\ conn' = [conn EXCEPT ![s] = "lost"]
          /\ conn[s] = "connected"
          /\ queue' = [queue EXCEPT ![s] = Append(@, "session")]
      BY <1>7 DEF Lose
    <2>2. s = zh
      BY <2>1, OnlyHandleIsOpen
    <2>3. queue[s] \in Seq({"child", "session"})
      BY DEF TypeOK
    <2>4. queue'[s] = Append(queue[s], "session")
      BY <2>1 DEF TypeOK
    <2>5. "session" \in Range(queue'[s]) /\ queue'[s] # << >>
      BY <2>3, <2>4, RangeOfAppend
    <2>6. conn'[s] = "lost"
      BY <2>1 DEF TypeOK
    <2>7. ConnInv'
      BY <1>1, <2>2, <2>5, <2>6 DEF ConnInv
    <2>8. Pending'
      BY <2>5 DEF Pending
    <2>. QED BY <2>7, <2>8 DEF FreshInv
  <1>. QED BY <1>4, <1>5, <1>6, <1>7 DEF Zookeeper

LEMMA WatcherList ==
    ASSUME ListInv, NEW s \in Sessions, Watcher(s)
    PROVE  ConnInv' /\ FreshInv'
  <1>. USE SessionsAreWorkers DEF ListInv, PoolInv, GoTo
  <1>1. Pending'
    <2>1. phase'[s] \in {"sleep", "list", "open", "connect"}
      BY DEF Watcher, OnChildEvent, Wake, OnSessionEvent, OpenSession, TypeOK
    <2>. QED BY <2>1 DEF Pending
  <1>2. ConnInv'
    <2>1. CASE OnChildEvent(s)
      <3>1. /\ phase[s] = "idle" /\ queue[s] # << >> /\ Head(queue[s]) = "child"
            /\ phase' = [phase EXCEPT ![s] = "sleep"]
            /\ queue' = [queue EXCEPT ![s] = Tail(@)]
            /\ UNCHANGED <<conn, zh>>
        BY <2>1 DEF OnChildEvent
      <3>2. Range(queue[s]) = Range(Tail(queue[s])) \cup {"child"}
        <4>1. queue[s] \in Seq({"child", "session"})
          BY DEF TypeOK
        <4>. QED BY <3>1, <4>1, RangeOfTail
      <3>3. "session" \in Range(queue[zh]) => "session" \in Range(queue'[zh])
        <4>1. zh = s => queue'[zh] = Tail(queue[s])
          BY <3>1 DEF TypeOK
        <4>2. zh # s => queue'[zh] = queue[zh]
          BY <3>1 DEF TypeOK
        <4>. QED BY <3>2, <4>1, <4>2
      <3>4. \A w \in Workers : phase[w] = "connect" => phase'[w] = "connect"
        BY <3>1 DEF TypeOK
      <3>. QED BY <3>1, <3>3, <3>4 DEF ConnInv
    <2>2. CASE Wake(s)
      <3>1. /\ phase[s] = "sleep" /\ phase' = [phase EXCEPT ![s] = "list"]
            /\ UNCHANGED <<conn, queue, zh>>
        BY <2>2 DEF Wake, zkVars
      <3>2. \A w \in Workers : phase[w] = "connect" => phase'[w] = "connect"
        BY <3>1 DEF TypeOK
      <3>. QED BY <3>1, <3>2 DEF ConnInv
    <2>3. CASE OnSessionEvent(s)
      BY <2>3 DEF OnSessionEvent, ConnInv, TypeOK
    <2>4. CASE OpenSession(s)
      <3>1. phase'[s] = "connect"
        BY <2>4 DEF OpenSession, TypeOK
      <3>2. zh' \in Sessions
        BY WatcherTyped DEF TypeOK
      <3>3. conn'[zh'] = "connecting"
        BY <2>4, <3>2 DEF OpenSession, TypeOK
      <3>. QED BY <3>1, <3>3 DEF ConnInv
    <2>. QED BY <2>1, <2>2, <2>3, <2>4 DEF Watcher
  <1>. QED BY <1>1, <1>2 DEF FreshInv

\* The new list has the proxies that Init has found.
LEMMA ListedIsFound ==
    ASSUME TypeOK, NEW w \in Workers, InitProxyConns(w)
    PROVE  Listed' = Range(found[w])
  <1>1. found[w] \in Seq(Proxies) /\ Len(found[w]) \in Nat
    BY DEF TypeOK
  <1>2. proxys' \in FreshClients(Len(found[w]))
    BY DEF InitProxyConns, Publish
  <1>3. /\ proxys' \in Seq(Clients) /\ Len(proxys') = Len(found[w])
        /\ IsInjective(proxys')
    BY <1>1, <1>2, FreshClientsAreFree
  <1>4. DOMAIN proxys' = DOMAIN found[w]
    BY <1>1, <1>3
  <1>5. ASSUME NEW i \in DOMAIN proxys'
        PROVE  addr'[proxys'[i]] = found[w][i]
    <2>1. proxys'[i] \in Clients /\ proxys'[i] \in Range(proxys')
      BY <1>3, <1>5, ElementOfSeq DEF Range
    <2>2. (CHOOSE j \in DOMAIN proxys' : proxys'[j] = proxys'[i]) = i
      BY <1>3, <1>5 DEF IsInjective
    <2>3. addr' = [c \in Clients |->
                    IF c \in Range(proxys')
                      THEN found[w][CHOOSE j \in DOMAIN proxys' : proxys'[j] = c]
                      ELSE addr[c]]
      BY DEF InitProxyConns, Publish
    <2>4. addr'[proxys'[i]] =
             found[w][CHOOSE j \in DOMAIN proxys' : proxys'[j] = proxys'[i]]
      BY <2>1, <2>3
    <2>. QED BY <2>2, <2>4
  <1>. QED BY <1>4, <1>5 DEF Listed, Range

LEMMA InitStepList ==
    ASSUME ListInv, NEW w \in Workers, InitStep(w)
    PROVE  ConnInv' /\ FreshInv'
  <1>. USE DEF ListInv, PoolInv, zkVars, initVars, excuses, GoTo
  <1>1. CASE \/ ConnectTimeout(w) \/ GetChildrenFails(w)
             \/ UseClosedHandle(w) \/ NoProxy(w)
    <2>1. UNCHANGED <<zkVars, initVars, proxys, addr, excuses>>
      BY <1>1 DEF ConnectTimeout, GetChildrenFails, UseClosedHandle, NoProxy
    <2>2. Listed' = Listed
      BY <2>1 DEF Listed
    <2>. QED BY <2>1, <2>2, SameList
  <1>2. CASE ConnectDone(w)
    <2>1. /\ phase' = [phase EXCEPT ![w] = "list"] /\ conn[zh] = "connected"
          /\ UNCHANGED <<conn, zh>>
      BY <1>2 DEF ConnectDone
    <2>2. Pending'
      BY <2>1 DEF Pending, TypeOK
    <2>. QED BY <2>1, <2>2 DEF ConnInv, FreshInv
  <1>3. CASE GetChildren(w)
    <2>1. /\ phase[w] = "list" /\ conn[zh] = "connected"
          /\ todo' = [todo EXCEPT ![w] = {p \in Proxies : zk[p] # "absent"}]
          /\ found' = [found EXCEPT ![w] = << >>]
          /\ watch' = [watch EXCEPT ![zh] = TRUE]
          /\ phase' = [phase EXCEPT ![w] = "read"]
          /\ UNCHANGED <<zk, conn, queue, zh, excuses>>
      BY <1>3 DEF GetChildren
    <2>2. ConnInv'
      BY <2>1 DEF ConnInv
    <2>3. watch'[zh] /\ phase'[w] = "read"
      BY <2>1 DEF TypeOK
    <2>4. ASSUME ~overlapped, NEW v \in Workers, phase'[v] = "read"
          PROVE  /\ Range(found'[v]) = {}
                 /\ (Online \ todo'[v]) \ ignored = {}
      <3>1. v = w
        BY <2>1, <2>4 DEF HandleInv, OverlapInv, InInit, TypeOK
      <3>2. found'[w] = << >> /\ todo'[w] = {p \in Proxies : zk[p] # "absent"}
        BY <2>1 DEF TypeOK
      <3>3. Range(found'[v]) = {} /\ Online \subseteq todo'[v]
        BY <3>1, <3>2 DEF Range, Online
      <3>. QED BY <3>3
    <2>5. Online' = Online
      BY <2>1 DEF Online
    <2>. QED BY <2>1, <2>2, <2>3, <2>4, <2>5 DEF FreshInv
  <1>4. CASE ReadNode(w)
    <2>1. PICK p \in todo[w] :
            /\ todo' = [todo EXCEPT ![w] = @ \ {p}]
            /\ found' = [found EXCEPT ![w] =
                           IF conn[zh] = "connected" /\ zk[p] = "online"
                             THEN Append(@, p) ELSE @]
            /\ ignored' = ignored \ {p}
      BY <1>4 DEF ReadNode
    <2>2. /\ UNCHANGED <<zk, conn, watch, queue, zh, phase, proxys, addr>>
          /\ UNCHANGED overlapped
          /\ phase[w] = "read" /\ conn[zh] # "closed"
      BY <1>4 DEF ReadNode
    <2>3. ConnInv'
      BY <2>2 DEF ConnInv
    <2>4. (Pending' <=> Pending) /\ Online' = Online /\ Listed' = Listed
      BY <2>2 DEF Pending, Online, Listed
    <2>5. ~Pending => conn[zh] = "connected"
      <3>1. conn[zh] \in {"connecting", "connected", "lost"}
        BY <2>2 DEF HandleInv, SessionInv, TypeOK
      <3>2. conn[zh] = "lost" => queue[zh] # << >>
        BY DEF ConnInv, Range
      <3>. QED BY <3>1, <3>2 DEF ConnInv, Pending, TypeOK
    <2>6. ASSUME ~Pending, Range(found[w]) \cap todo[w] = {},
                 Range(found[w]) \ ignored = (Online \ todo[w]) \ ignored
          PROVE  /\ Range(found'[w]) \cap todo'[w] = {}
                 /\ Range(found'[w]) \ ignored' = (Online \ todo'[w]) \ ignored'
      <3>1. found'[w] = IF zk[p] = "online" THEN Append(found[w], p)
                                            ELSE found[w]
        BY <2>1, <2>5, <2>6 DEF TypeOK
      <3>2. todo'[w] = todo[w] \ {p} /\ p \in todo[w] /\ p \in Proxies
        BY <2>1 DEF TypeOK
      <3>3. Range(found'[w]) = Range(found[w]) \cup ({p} \cap Online)
        <4>1. CASE zk[p] = "online"
          <5>1. found[w] \in Seq(Proxies) /\ found'[w] = Append(found[w], p)
            BY <3>1, <4>1 DEF TypeOK
          <5>2. Range(Append(found[w], p)) = Range(found[w]) \cup {p}
            BY <3>2, <5>1, RangeOfAppend
          <5>. QED BY <3>2, <4>1, <5>1, <5>2 DEF Online
        <4>2. CASE zk[p] # "online"
          BY <3>1, <4>2 DEF Online
        <4>. QED BY <4>1, <4>2
      <3>4. Range(found'[w]) \cap todo'[w] = {}
        BY <2>6, <3>2, <3>3
      <3>5. ASSUME NEW q, q \notin ignored'
            PROVE  q \in Range(found'[w]) <=> q \in Online \ todo'[w]
        <4>1. CASE q = p
          BY <2>6, <3>2, <3>3, <4>1
        <4>2. CASE q # p
          BY <2>1, <2>6, <3>2, <3>3, <3>5, <4>2
        <4>. QED BY <4>1, <4>2
      <3>. QED BY <3>4, <3>5
    <2>7. ASSUME ~overlapped, NEW v \in Workers, phase[v] = "read"
          PROVE  v = w
      BY <2>2, <2>7 DEF HandleInv, OverlapInv, InInit
    <2>. QED BY <2>2, <2>3, <2>4, <2>6, <2>7 DEF FreshInv
  <1>5. CASE InitProxyConns(w)
    <2>1. /\ phase[w] = "read" /\ todo[w] = {}
          /\ phase' = [phase EXCEPT ![w] = "delete"]
          /\ UNCHANGED <<zk, conn, watch, queue, zh, todo, found, excuses>>
      BY <1>5 DEF InitProxyConns, Publish
    <2>2. Pending' <=> Pending
      BY <2>1 DEF Pending, TypeOK
    <2>3. ConnInv'
      BY <2>1 DEF ConnInv, TypeOK
    <2>4. Listed' = Range(found[w]) /\ Online' = Online
      BY <1>5, <2>1, ListedIsFound DEF Online
    <2>5. \A v \in Workers : phase'[v] = "read" => phase[v] = "read"
      BY <2>1 DEF TypeOK
    <2>6. ~overlapped /\ ~Pending => Listed' \ ignored = Online \ ignored
      BY <2>1, <2>4 DEF FreshInv
    <2>. QED BY <2>1, <2>2, <2>3, <2>4, <2>5, <2>6 DEF FreshInv
  <1>6. CASE DeleteClient(w)
    <2>1. /\ UNCHANGED <<zkVars, zh, phase, todo, found, proxys, excuses>>
          /\ old[w] # << >>
          /\ addr' = [addr EXCEPT ![Doomed(w)] = Null]
      BY <1>6 DEF DeleteClient
    <2>2. \A i \in DOMAIN proxys : addr'[proxys[i]] = addr[proxys[i]]
      <3>1. old[w] \in Seq(Clients)
        BY DEF TypeOK
      <3>2. Doomed(w) \in Range(old[w])
        BY <2>1, <3>1 DEF Doomed, Range
      <3>3. \A i \in DOMAIN proxys : proxys[i] # Doomed(w)
        BY <3>2 DEF OwnInv, Range
      <3>4. \A i \in DOMAIN proxys : proxys[i] \in Clients
        BY ElementOfSeq DEF TypeOK
      <3>. QED BY <2>1, <3>3, <3>4 DEF TypeOK
    <2>3. Listed' = Listed
      BY <2>1, <2>2 DEF Listed
    <2>. QED BY <2>1, <2>3, SameList
  <1>7. CASE InitDone(w)
    <2>1. PICK p \in {"idle", "done"} : phase' = [phase EXCEPT ![w] = p]
      BY <1>7 DEF InitDone
    <2>2. /\ phase[w] = "delete"
          /\ UNCHANGED <<zk, conn, watch, queue, zh, todo, found, proxys, addr,
                         excuses>>
      BY <1>7 DEF InitDone
    <2>3. \A v \in Workers : \A q \in {"sleep", "open", "connect", "list", "read"} :
             phase'[v] = q <=> phase[v] = q
      BY <2>1, <2>2 DEF TypeOK
    <2>4. (Pending' <=> Pending) /\ Online' = Online /\ Listed' = Listed
      BY <2>2, <2>3 DEF Pending, Online, Listed
    <2>5. ConnInv'
      BY <2>2, <2>3 DEF ConnInv
    <2>. QED BY <2>2, <2>3, <2>4, <2>5 DEF FreshInv
  <1>. QED BY <1>1, <1>2, <1>3, <1>4, <1>5, <1>6, <1>7 DEF InitStep

LEMMA UserList ==
    ASSUME ListInv, NEW u \in Users, Call(u)
    PROVE  ConnInv' /\ FreshInv'
  <1>1. UNCHANGED <<conn, watch, queue, zh, zk, todo, found, phase, proxys,
                    addr, overlapped, ignored>>
    BY DEF Call, GetProxy, Enter, NextCommand, Mget2, Leave, UseDeleted,
           zkVars, initVars, excuses
  <1>2. Listed' = Listed
    BY <1>1 DEF Listed
  <1>. QED BY <1>1, <1>2, SameList DEF ListInv

LEMMA ListInvHolds == Spec => []ListInv
  <1>1. Init => ListInv
    BY PoolInvInit, InitList DEF ListInv
  <1>2. ListInv /\ [Next]_vars => ListInv'
    <2>. SUFFICES ASSUME ListInv, [Next]_vars PROVE ConnInv' /\ FreshInv'
      BY PoolInvStep DEF ListInv
    <2>1. CASE Zookeeper
      BY <2>1, ZookeeperList
    <2>2. ASSUME NEW s \in Sessions, Watcher(s) PROVE ConnInv' /\ FreshInv'
      BY <2>2, WatcherList
    <2>3. ASSUME NEW w \in Workers, InitStep(w) PROVE ConnInv' /\ FreshInv'
      BY <2>3, InitStepList
    <2>4. ASSUME NEW u \in Users, Call(u) PROVE ConnInv' /\ FreshInv'
      BY <2>4, UserList
    <2>5. CASE UNCHANGED vars
      <3>1. UNCHANGED <<conn, watch, queue, zh, zk, todo, found, phase, proxys,
                        addr, overlapped, ignored>>
        BY <2>5 DEF vars, zkVars, initVars, excuses
      <3>2. Listed' = Listed
        BY <3>1 DEF Listed
      <3>. QED BY <3>1, <3>2, SameList DEF ListInv
    <2>. QED BY <2>1, <2>2, <2>3, <2>4, <2>5 DEF Next, Running, Stopped
  <1>. QED BY <1>1, <1>2, PTL DEF Spec

----------------------------------------------------------------------------
(* Round robin.  The places of m_Proxys that had a turn in a round are an  *)
(* arc of the list, which ends at the place proxyIndex stands for and may  *)
(* go over the end of the list.                                            *)

Arc(s, e, n) ==
    {i \in 1..n : IF s <= e THEN s <= i /\ i <= e ELSE s <= i \/ i <= e}

RoundInv ==
    seen # {} =>
        /\ proxys # << >>
        /\ \E s \in DOMAIN proxys :
              seen = {proxys[i] : i \in Arc(s, Index(proxyIndex) + 1, Len(proxys))}

\* The place after the end of an arc is not in it, unless the arc is full.
LEMMA ArcGrows ==
    ASSUME NEW n \in Nat \ {0}, NEW s \in 1..n, NEW e \in 1..n,
           Arc(s, e, n) # 1..n,
           NEW f, f = IF e = n THEN 1 ELSE e + 1
    PROVE  /\ f \in 1..n
           /\ f \notin Arc(s, e, n)
           /\ Arc(s, e, n) \cup {f} = Arc(s, f, n)
  <1>1. f \in 1..n
    OBVIOUS
  <1>2. ~(s = 1 /\ e = n) /\ s # e + 1
    BY DEF Arc
  <1>3. \A i \in 1..n : i \in Arc(s, e, n) \/ i = f <=> i \in Arc(s, f, n)
    BY <1>1, <1>2 DEF Arc
  <1>4. f \notin Arc(s, e, n)
    BY <1>1, <1>2 DEF Arc
  <1>. QED BY <1>1, <1>3, <1>4 DEF Arc

\* One place is an arc.
LEMMA ArcStarts ==
    ASSUME NEW n \in Nat \ {0}, NEW f \in 1..n
    PROVE  Arc(f, f, n) = {f}
  BY DEF Arc

\* Quotient and remainder, and that they are the only ones.
LEMMA DivMod ==
    ASSUME NEW i \in Int, NEW m \in Nat \ {0}
    PROVE  /\ i = m * (i \div m) + (i % m)
           /\ i % m \in 0..(m - 1) /\ i \div m \in Int
  OBVIOUS

LEMMA SmallMultiple ==
    ASSUME NEW m \in Nat \ {0}, NEW d \in Int, -m < m * d, m * d < m
    PROVE  d = 0
  <1>1. CASE d >= 1
    <2>1. m * d >= m
      BY <1>1
    <2>. QED BY <2>1
  <1>2. CASE d <= -1
    <2>1. m * d <= -m
      BY <1>2
    <2>. QED BY <2>1
  <1>. QED BY <1>1, <1>2

LEMMA ModUnique ==
    ASSUME NEW m \in Nat \ {0}, NEW q \in Int, NEW r \in 0..(m - 1),
           NEW i \in Int, i = m * q + r
    PROVE  i % m = r
  <1>. DEFINE p == i \div m  t == i % m
  <1>1. i = m * p + t /\ t \in 0..(m - 1) /\ p \in Int
    BY DivMod
  <1>. HIDE DEF p, t
  <1>2. m * (p - q) = r - t
    BY <1>1
  <1>3. p - q = 0
    BY <1>1, <1>2, SmallMultiple
  <1>4. t = r
    BY <1>1, <1>2, <1>3
  <1>. QED BY <1>4 DEF t

\* The remainder of the successor.
LEMMA ModStep ==
    ASSUME NEW m \in Nat \ {0}, NEW i \in Int
    PROVE  (i + 1) % m = IF i % m = m - 1 THEN 0 ELSE (i % m) + 1
  <1>. DEFINE q == i \div m  r == i % m
  <1>1. i = m * q + r /\ q \in Int /\ r \in 0..(m - 1)
    BY DivMod
  <1>. HIDE DEF q, r
  <1>2. CASE r = m - 1
    <2>1. i + 1 = m * (q + 1) + 0 /\ q + 1 \in Int /\ 0 \in 0..(m - 1)
      BY <1>1, <1>2
    <2>2. (i + 1) % m = 0
      BY <2>1, ModUnique
    <2>. QED BY <1>2, <2>2 DEF r
  <1>3. CASE r # m - 1
    <2>1. i + 1 = m * q + (r + 1) /\ r + 1 \in 0..(m - 1)
      BY <1>1, <1>3
    <2>2. (i + 1) % m = r + 1
      BY <1>1, <2>1, ModUnique
    <2>. QED BY <1>3, <2>2 DEF r
  <1>. QED BY <1>2, <1>3

\* A size_t holds every value of an int.
LEMMA SizeHoldsInt == MaxInt + 1 < SizeRange /\ SizeRange \in Nat \ {0}
  <1>. DEFINE q == SizeRange \div IntRange  h == IntRange \div 2
  <1>1. SizeRange = IntRange * q /\ q \in Int
    BY DivMod
  <1>2. IntRange = 2 * h /\ h \in Int
    OBVIOUS
  <1>. HIDE DEF q, h
  <1>3. h >= 1
    BY <1>2
  <1>4. q >= 1
    <2>1. CASE q <= 0
      <3>1. IntRange * q <= 0
        BY <2>1, <1>1
      <3>. QED BY <1>1, <3>1
    <2>. QED BY <1>1, <2>1
  <1>5. IntRange * q >= IntRange
    BY <1>1, <1>4
  <1>. QED BY <1>1, <1>2, <1>3, <1>5 DEF MaxInt, h

\* Unless the int wraps, or leaves the negative numbers, the next turn is the
\* next place's, also when it is the size_t that is divided.
LEMMA IndexGoesOn ==
    ASSUME proxyIndex \in -(MaxInt + 1)..MaxInt, ~Wraps,
           proxys \in Seq(Clients), proxys # << >>
    PROVE  Index(Incremented) = IF Index(proxyIndex) = Len(proxys) - 1
                                  THEN 0 ELSE Index(proxyIndex) + 1
  <1>. DEFINE i == proxyIndex  m == SizeRange
  <1>1. MaxInt \in Nat /\ m \in Nat \ {0} /\ MaxInt + 1 < m
    BY MaxIntIsNat, SizeHoldsInt
  <1>2. i \in Int /\ Incremented = i + 1 /\ i + 1 # 0
        /\ i + 1 \in -MaxInt..MaxInt
    BY <1>1 DEF Incremented, Wraps
  <1>. HIDE DEF i, m
  <1>3. i % m # m - 1
    <2>. SUFFICES ASSUME i % m = m - 1 PROVE FALSE
      OBVIOUS
    <2>. DEFINE q == i \div m
    <2>1. i = m * q + (m - 1) /\ q \in Int
      BY <1>1, <1>2, DivMod
    <2>. HIDE DEF q
    <2>2. m * (q + 1) = i + 1
      BY <1>1, <1>2, <2>1
    <2>3. q + 1 = 0
      BY <1>1, <1>2, <2>1, <2>2, SmallMultiple
    <2>. QED BY <1>1, <1>2, <2>1, <2>2, <2>3
  <1>4. (i + 1) % m = (i % m) + 1
    BY <1>1, <1>2, <1>3, ModStep
  <1>5. i % m \in Int
    BY <1>1, <1>2, DivMod
  <1>6. Len(proxys) \in Nat \ {0}
    OBVIOUS
  <1>7. ((i % m) + 1) % Len(proxys)
          = IF (i % m) % Len(proxys) = Len(proxys) - 1
              THEN 0 ELSE ((i % m) % Len(proxys)) + 1
    BY <1>5, <1>6, ModStep
  <1>. QED BY <1>2, <1>4, <1>7 DEF Index, i, m

\* A turn that goes on with a round is a new client's.
LEMMA TurnIsNew ==
    ASSUME PoolInv, RoundInv, NEW u \in Users, GetProxy(u),
           seen # Range(proxys), ~Wraps, seen # {}
    PROVE  /\ user'[u] \notin seen
           /\ \E s \in DOMAIN proxys :
                seen \cup {user'[u]}
                  = {proxys[i] : i \in Arc(s, Index(Incremented) + 1, Len(proxys))}
  <1>. DEFINE n == Len(proxys)
              e == Index(proxyIndex) + 1
              f == Index(Incremented) + 1
  <1>1. /\ proxys \in Seq(Clients) /\ proxys # << >> /\ IsInjective(proxys)
        /\ proxyIndex \in -(MaxInt + 1)..MaxInt
    BY DEF PoolInv, TypeOK, OwnInv, RoundInv
  <1>2. n \in Nat \ {0} /\ DOMAIN proxys = 1..n
    BY <1>1
  <1>3. proxyIndex \in Int
    BY <1>1, MaxIntIsNat
  <1>4. e \in 1..n
    BY <1>1, <1>2, <1>3, IndexInRange
  <1>5. f = IF e = n THEN 1 ELSE e + 1
    <2>1. Index(proxyIndex) \in Int
      BY <1>2, <1>3, DivMod, SizeHoldsInt DEF Index
    <2>. QED BY <1>1, <1>2, <2>1, IndexGoesOn
  <1>6. PICK s \in 1..n : seen = {proxys[i] : i \in Arc(s, e, n)}
    BY <1>2 DEF RoundInv
  <1>7. user'[u] = proxys[f]
    BY DEF GetProxy, PoolInv, TypeOK
  <1>8. Arc(s, e, n) # 1..n
    BY <1>2, <1>6 DEF Range
  <1>. HIDE DEF n, e, f
  <1>9. f \in 1..n /\ f \notin Arc(s, e, n) /\ Arc(s, e, n) \cup {f} = Arc(s, f, n)
    BY <1>2, <1>4, <1>5, <1>8, ArcGrows
  <1>10. proxys[f] \notin seen
    <2>1. Arc(s, e, n) \subseteq 1..n
      BY DEF Arc
    <2>. QED BY <1>1, <1>2, <1>6, <1>9, <2>1 DEF IsInjective
  <1>11. seen \cup {proxys[f]} = {proxys[i] : i \in Arc(s, f, n)}
    BY <1>6, <1>9
  <1>. QED BY <1>2, <1>7, <1>10, <1>11 DEF n, f

LEMMA RoundTurn ==
    ASSUME PoolInv, RoundInv, NEW u \in Users, GetProxy(u)
    PROVE  RoundInv'
  <1>. DEFINE n == Len(proxys)
              f == Index(Incremented) + 1
  <1>1. /\ phase[0] = "done" /\ proxys' = proxys /\ proxyIndex' = Incremented
        /\ user'[u] = proxys[f]
    BY DEF GetProxy, PoolInv, TypeOK
  <1>2. proxys \in Seq(Clients) /\ proxys # << >>
    BY <1>1 DEF PoolInv, TypeOK, DeleteInv
  <1>3. n \in Nat \ {0} /\ DOMAIN proxys = 1..n
    BY <1>2
  <1>4. Incremented \in Int
    BY IncrementedIsInt, MaxIntIsNat DEF PoolInv, TypeOK
  <1>5. f \in 1..n
    BY <1>2, <1>3, <1>4, IndexInRange
  <1>6. \E s \in 1..n : seen' = {proxys[i] : i \in Arc(s, f, n)}
    <2>1. CASE seen # Range(proxys) /\ ~Wraps /\ seen # {}
      <3>1. seen' = seen \cup {user'[u]}
        BY <2>1 DEF GetProxy
      <3>. QED BY <1>3, <2>1, <3>1, TurnIsNew
    <2>2. CASE seen = Range(proxys) \/ Wraps \/ seen = {}
      <3>1. seen' = {proxys[f]}
        BY <1>1, <2>2 DEF GetProxy
      <3>. HIDE DEF n, f
      <3>2. Arc(f, f, n) = {f}
        BY <1>3, <1>5, ArcStarts
      <3>. QED BY <1>5, <3>1, <3>2
    <2>. QED BY <2>1, <2>2
  <1>7. (Index(proxyIndex) + 1)' = f
    BY <1>1 DEF Index
  <1>. QED BY <1>1, <1>2, <1>3, <1>6, <1>7 DEF RoundInv

\* Only GetProxy moves the index and lets a call begin, and only Init changes
\* the list, which starts a new round.
LEMMA OnlyGetProxyPicks ==
    ASSUME PoolInv, [Next]_vars
    PROVE  \/ \E u \in Users : GetProxy(u)
           \/ /\ UNCHANGED <<proxyIndex, seen, proxys>> \/ seen' = {}
              /\ \A u \in Users : ~(call[u] = "out" /\ call'[u] = "got")
  <1>. DEFINE Quiet ==
         /\ UNCHANGED <<proxyIndex, seen, proxys>> \/ seen' = {}
         /\ \A u \in Users : ~(call[u] = "out" /\ call'[u] = "got")
  <1>. USE DEF zkVars, initVars, userVars, excuses
  <1>1. CASE Zookeeper
    BY <1>1 DEF Zookeeper, Register, Deregister, SetState, ChangeNode,
                Connected, Lose
  <1>2. ASSUME NEW s \in Sessions, Watcher(s) PROVE Quiet
    BY <1>2 DEF Watcher, OnChildEvent, Wake, OnSessionEvent, OpenSession
  <1>3. ASSUME NEW w \in Workers, InitStep(w) PROVE Quiet
    BY <1>3 DEF InitStep, ConnectDone, ConnectTimeout, GetChildren,
                GetChildrenFails, ReadNode, UseClosedHandle, NoProxy,
                InitProxyConns, Publish, DeleteClient, InitDone
  <1>4. ASSUME NEW u \in Users, Call(u), ~GetProxy(u) PROVE Quiet
    BY <1>4 DEF Call, Enter, NextCommand, Mget2, Leave, UseDeleted, PoolInv,
                TypeOK
  <1>5. CASE UNCHANGED vars
    BY <1>5 DEF vars
  <1>. QED BY <1>1, <1>2, <1>3, <1>4, <1>5 DEF Next, Running, Stopped

LEMMA RoundStep == PoolInv /\ RoundInv /\ [Next]_vars => RoundInv'
  <1>. SUFFICES ASSUME PoolInv, RoundInv, [Next]_vars PROVE RoundInv'
    OBVIOUS
  <1>1. CASE UNCHANGED <<proxyIndex, seen, proxys>>
    <2>1. Index(proxyIndex)' = Index(proxyIndex)
      BY <1>1 DEF Index
    <2>. QED BY <1>1, <2>1 DEF RoundInv
  <1>2. CASE seen' = {}
    BY <1>2 DEF RoundInv
  <1>. QED BY <1>1, <1>2, RoundTurn, OnlyGetProxyPicks

----------------------------------------------------------------------------
LEMMA PoolInvHolds == Spec => []PoolInv
  <1>1. ListInv => PoolInv
    BY DEF ListInv
  <1>. QED BY <1>1, ListInvHolds, PTL

\* Every variable keeps its type: in particular m_Zh is never a session that
\* was not opened, and proxyIndex is an int.
THEOREM TypeOKHolds == Spec => []TypeOK
  <1>1. PoolInv => TypeOK
    BY DEF PoolInv
  <1>. QED BY <1>1, PoolInvHolds, PTL

\* However the Inits of the sessions' threads interleave, InitProxyConns and
\* the loop that deletes the clients it has replaced neither leak a client nor
\* delete one twice, and m_Proxys never holds a deleted one.
THEOREM OwnedOnceHolds == Spec => []OwnedOnce
  <1>1. PoolInv => OwnedOnce
    BY OwnInvIsOwnedOnce DEF PoolInv
  <1>. QED BY <1>1, PoolInvHolds, PTL

\* For any number of callers, and of threads that delete clients: a call finds
\* its client until an Init replaces the list, because a former list's loop of
\* deletions never reaches into the new one; and a command that has taken the
\* client's lock keeps the client, however many lists it outlives.
THEOREM CallFindsClientHolds == Spec => []CallFindsClient
  <1>1. PoolInv => CallFindsClient
    <2>. SUFFICES ASSUME PoolInv, NEW u \in Users, call[u] # "out",
                         outdated[u] => call[u] = "in"
                  PROVE  user[u] \in Allocated
      BY DEF CallFindsClient
    <2>1. CASE call[u] = "in"
      BY <2>1 DEF PoolInv, CallInv
    <2>2. CASE call[u] # "in"
      <3>1. user[u] \in Range(proxys)
        BY <2>2 DEF PoolInv, CallInv
      <3>. QED BY <3>1, ListsHoldClients DEF PoolInv, OwnInv, Allocated
    <2>. QED BY <2>1, <2>2
  <1>. QED BY <1>1, PoolInvHolds, PTL

\* Once the constructor has returned, GetProxy finds a proxy, for every length
\* of the list, before and after proxyIndex overflows.
THEOREM GetProxyInRangeHolds == Spec => []GetProxyInRange
  <1>1. PoolInv => GetProxyInRange
    <2>. SUFFICES ASSUME PoolInv, phase[0] = "done"
                  PROVE  /\ proxys # << >>
                         /\ Index(Incremented) + 1 \in DOMAIN proxys
      BY DEF GetProxyInRange
    <2>1. proxys \in Seq(Clients) /\ proxys # << >>
      BY DEF PoolInv, DeleteInv, TypeOK
    <2>2. Incremented \in Int
      BY IncrementedIsInt, MaxIntIsNat DEF PoolInv, TypeOK
    <2>. QED BY <2>1, <2>2, IndexInRange
  <1>. QED BY <1>1, PoolInvHolds, PTL

\* No thread finds m_Zh closed by another one unless two Inits have
\* overlapped: nothing else does that, whatever the proxies do and however many
\* sessions come and go.
THEOREM HandleIsOpenHolds == Spec => []HandleIsOpen
  <1>1. PoolInv => HandleIsOpen
    <2>. SUFFICES ASSUME PoolInv, NEW w \in Workers, UsesHandle(w), ~overlapped,
                         conn[zh] = "closed"
                  PROVE  FALSE
      BY DEF HandleIsOpen
    <2>1. phase[zh] = "open" /\ zh \in Workers
      BY SessionsAreWorkers DEF PoolInv, HandleInv, OpenInv, TypeOK
    <2>2. phase[w] \in {"connect", "list", "read"}
      BY DEF UsesHandle
    <2>. QED BY <2>1, <2>2 DEF PoolInv, HandleInv, OverlapInv, InInit
  <1>. QED BY <1>1, PoolInvHolds, PTL

\* Whatever joins, leaves and changes, and however often the session is lost:
\* when no event waits and every Init has ended, m_Proxys has every proxy that
\* is online and no other, but for those that have changed their state in place
\* since they were read last, unless Inits have overlapped.
THEOREM ListIsCurrentHolds == Spec => []ListIsCurrent
  <1>1. ListInv => ListIsCurrent
    <2>. SUFFICES ASSUME ListInv, Settled, ~overlapped
                  PROVE  Listed \ ignored = Online \ ignored
      BY DEF ListIsCurrent
    <2>1. ~Pending /\ \A w \in Workers : phase[w] # "read"
      BY DEF Settled, Pending
    <2>. QED BY <2>1 DEF ListInv, FreshInv
  <1>. QED BY <1>1, ListInvHolds, PTL

\* GetProxy gives every proxy of a list its turn before any has a second one,
\* however many threads call it, for every length of the list, except where
\* proxyIndex overflows and where it leaves the negative numbers.
THEOREM RoundRobinHolds == Spec => RoundRobin
  <1>. DEFINE Turn ==
         \A u \in Users :
            call[u] = "out" /\ call'[u] = "got" =>
               user'[u] \notin seen \/ seen = Range(proxys) \/ Wraps
  <1>1. Init => RoundInv
    BY DEF Init, RoundInv
  <1>2. PoolInv /\ RoundInv /\ [Next]_vars => [Turn]_vars
    <2>. SUFFICES ASSUME PoolInv, RoundInv, [Next]_vars, NEW u \in Users,
                         call[u] = "out", call'[u] = "got",
                         seen # Range(proxys), ~Wraps, seen # {}
                  PROVE  user'[u] \notin seen
      OBVIOUS
    <2>1. PICK v \in Users : GetProxy(v)
      BY OnlyGetProxyPicks
    <2>2. v = u
      BY <2>1 DEF GetProxy, PoolInv, TypeOK
    <2>. QED BY <2>1, <2>2, TurnIsNew
  <1>. QED BY <1>1, <1>2, RoundStep, PoolInvHolds, PTL DEF Spec, RoundRobin
=============================================================================
