------------------------ MODULE RoundRobinCodisPool ------------------------
(***************************************************************************)
(* Proxy discovery and balancing of the C++ client:                        *)
(* cpp/src/RoundRobinCodisPool.cpp, with the threads that call through     *)
(* BfdCodis.cpp and the part of CodisClient they touch: its lock p_rwlock, *)
(* which a single command holds (see CodisClient.tla), and the destructor, *)
(* which waits for it.  Nothing else keeps a client from being deleted:    *)
(* not the pointer GetProxy has returned, not RedisCommands between two of *)
(* its commands, and not mget2 and its callback.                           *)
(*                                                                         *)
(* Init runs in the constructor's thread and, for the events of a          *)
(* ZooKeeper session, in that session's completion thread.  A session      *)
(* event closes the handle and opens the next one, whose own completion    *)
(* thread then works next to the old one: several Inits can overlap.       *)
(*                                                                         *)
(* ZooKeeper itself is external: children of the proxy path with their     *)
(* data, one-shot child watches, events queued per session.  Events whose  *)
(* branch of proxy_watcher is empty (data changed, node deleted, node      *)
(* created, connected) are not queued.                                     *)
(***************************************************************************)
EXTENDS Integers, Sequences, FiniteSets, Functions

CONSTANTS
    Proxies,      \* the proxies that may register below m_ProxyPath
    Clients,      \* addresses of CodisClient objects
    Users,        \* application threads that call through BfdCodis
    Null,         \* no client, no proxy
    MaxSessions,  \* bound on the ZooKeeper sessions opened
    MaxChanges,   \* bound on the changes below m_ProxyPath
    IntRange,     \* number of values of an int
    SizeRange     \* number of values of a size_t

ASSUME PoolAssumption ==
    /\ Null \notin Proxies \cup Clients
    /\ IsFiniteSet(Proxies) /\ IsFiniteSet(Clients)
    /\ MaxSessions \in Nat \ {0} /\ MaxChanges \in Nat
    /\ IntRange \in Nat \ {0} /\ IntRange % 2 = 0
    /\ SizeRange \in Nat \ {0} /\ SizeRange % IntRange = 0

VARIABLES
    \* ZooKeeper
    zk,          \* data of each proxy's node: "absent", "online" or "other"
    changes,     \* number of changes so far
    conn,        \* state of each session
    watch,       \* does the session have a child watch?
    queue,       \* events waiting for the session's completion thread
    \* RoundRobinCodisPool
    zh,          \* m_Zh
    proxys,      \* m_Proxys
    proxyIndex,  \* proxyIndex
    \* the threads that run Init: 0 the constructor, s session s's thread
    phase, todo, found, old,
    \* CodisClient objects and their users
    addr,        \* the proxy of each allocated client
    user, call,  \* the client each user was given, and how far its call is
    status,      \* "running", "exited" (exit(1)) or "crashed"
    \* history
    seen,        \* the clients given out in this round
    outdated,    \* has the list been replaced since a user's GetProxy?
    overlapped,  \* an Init has begun while another one was running
    ignored      \* proxies that have changed their state since their node was
                 \* read last

zkVars == <<zk, changes, conn, watch, queue>>
initVars == <<zh, phase, todo, found, old>>
userVars == <<user, call, outdated>>
excuses == <<overlapped, ignored>>
vars == <<zkVars, initVars, proxys, proxyIndex, addr, userVars, seen,
          excuses, status>>

Sessions == 1..MaxSessions
Workers == 0..MaxSessions

Phases == {"idle", "open", "connect", "list", "read", "delete", "sleep", "done"}
\* Between the events that make it run Init and its last use of m_Zh.
InInit(w) == phase[w] \in {"open", "connect", "list", "read"}
Overlaps(w) == \E v \in Workers \ {w} : InInit(v)

Init ==
    /\ zk \in [Proxies -> {"absent", "online", "other"}]
    /\ changes = 0
    /\ conn = [s \in Sessions |-> IF s = 1 THEN "connecting" ELSE "none"]
    /\ watch = [s \in Sessions |-> FALSE]
    /\ queue = [s \in Sessions |-> << >>]
    /\ zh = 1
    /\ phase = [w \in Workers |-> IF w = 0 THEN "connect" ELSE "idle"]
    /\ todo = [w \in Workers |-> {}]
    /\ found = [w \in Workers |-> << >>]
    /\ old = [w \in Workers |-> << >>]
    /\ proxys = << >>
    /\ proxyIndex = -1
    /\ addr = [c \in Clients |-> Null]
    /\ user = [u \in Users |-> Null]
    /\ call = [u \in Users |-> "out"]
    /\ seen = {}
    /\ outdated = [u \in Users |-> FALSE]
    /\ overlapped = FALSE
    /\ ignored = {}
    /\ status = "running"

GoTo(w, p) == phase' = [phase EXCEPT ![w] = p]
Stop(how) == status' = how
----------------------------------------------------------------------------
(* ZooKeeper and the proxies (external).                                   *)

\* Every child watch fires once.
FireChildWatches ==
    /\ queue' = [s \in Sessions |->
                   IF watch[s] THEN Append(queue[s], "child") ELSE queue[s]]
    /\ watch' = [s \in Sessions |-> FALSE]

ChangeNode(p, d) ==
    /\ changes < MaxChanges
    /\ changes' = changes + 1
    /\ zk' = [zk EXCEPT ![p] = d]
    /\ UNCHANGED <<conn, initVars, proxys, proxyIndex, addr, userVars, seen,
                   overlapped, status>>

Register(p) ==
    /\ zk[p] = "absent"
    /\ \E d \in {"online", "other"} : ChangeNode(p, d)
    /\ FireChildWatches
    /\ UNCHANGED ignored

Deregister(p) ==
    /\ zk[p] # "absent"
    /\ ChangeNode(p, "absent")
    /\ FireChildWatches
    /\ ignored' = ignored \ {p}

SetState(p) ==
    /\ zk[p] # "absent"
    /\ ChangeNode(p, IF zk[p] = "online" THEN "other" ELSE "online")
    /\ ignored' = ignored \cup {p}
    /\ UNCHANGED <<watch, queue>>

Connected(s) ==
    /\ conn[s] \in {"connecting", "lost"}
    /\ conn' = [conn EXCEPT ![s] = "connected"]
    /\ UNCHANGED <<zk, changes, watch, queue, initVars, proxys, proxyIndex,
                   addr, userVars, seen, excuses, status>>

\* The connection is lost (or the session expires).  Bounds: a session is
\* left to open afterwards, and one such event waits at a time.
Lose(s) ==
    /\ conn[s] = "connected"
    /\ s < MaxSessions
    /\ "session" \notin Range(queue[s])
    /\ conn' = [conn EXCEPT ![s] = "lost"]
    /\ queue' = [queue EXCEPT ![s] = Append(@, "session")]
    /\ UNCHANGED <<zk, changes, watch, initVars, proxys, proxyIndex, addr,
                   userVars, seen, excuses, status>>
----------------------------------------------------------------------------
(* proxy_watcher, in the completion thread of session s.                   *)

OnChildEvent(s) ==
    /\ phase[s] = "idle"
    /\ queue[s] # << >> /\ Head(queue[s]) = "child"
    /\ queue' = [queue EXCEPT ![s] = Tail(@)]
    /\ GoTo(s, "sleep")
    /\ UNCHANGED <<zk, changes, conn, watch, zh, todo, found, old, proxys,
                   proxyIndex, addr, userVars, seen, excuses, status>>

\* sleep(5) is over.
Wake(s) ==
    /\ phase[s] = "sleep"
    /\ overlapped' = (overlapped \/ Overlaps(s))
    /\ GoTo(s, "list")
    /\ UNCHANGED <<zkVars, zh, todo, found, old, proxys, proxyIndex, addr,
                   userVars, seen, ignored, status>>

\* CONNECTING or EXPIRED: zookeeper_close(m_Zh); what was queued for that
\* session is dropped, and its thread ends when this handler does.
OnSessionEvent(s) ==
    /\ phase[s] = "idle"
    /\ queue[s] # << >> /\ Head(queue[s]) = "session"
    /\ overlapped' = (overlapped \/ Overlaps(s))
    /\ conn' = [conn EXCEPT ![zh] = "closed"]
    /\ watch' = [watch EXCEPT ![zh] = FALSE]
    /\ queue' = [queue EXCEPT ![zh] = << >>]
    /\ GoTo(s, "open")
    /\ UNCHANGED <<zk, changes, zh, todo, found, old, proxys, proxyIndex,
                   addr, userVars, seen, ignored, status>>

\* Mutant: the new handle does not become m_Zh.
OpenSessionLocal(s) ==
    /\ phase[s] = "open"
    /\ conn' = [conn EXCEPT ![zh + 1] = "connecting"]
    /\ GoTo(s, "connect")
    /\ UNCHANGED <<zk, changes, watch, queue, zh, todo, found, old, proxys,
                   proxyIndex, addr, userVars, seen, excuses, status>>

\* m_Zh = zookeeper_init(...)
OpenSession(s) ==
    /\ phase[s] = "open"
    /\ zh' = zh + 1
    /\ conn' = [conn EXCEPT ![zh + 1] = "connecting"]
    /\ GoTo(s, "connect")
    /\ UNCHANGED <<zk, changes, watch, queue, todo, found, old, proxys,
                   proxyIndex, addr, userVars, seen, excuses, status>>

\* The loop that waits for ZOO_CONNECTED_STATE, here and in the constructor.
ConnectDone(w) ==
    /\ phase[w] = "connect"
    /\ conn[zh] = "connected"
    /\ GoTo(w, "list")
    /\ UNCHANGED <<zkVars, zh, todo, found, old, proxys, proxyIndex, addr,
                   userVars, seen, excuses, status>>

\* "connect zookeeper error!"
ConnectTimeout(w) ==
    /\ phase[w] = "connect"
    /\ conn[zh] \notin {"connected", "closed"}
    /\ Stop("exited")
    /\ UNCHANGED <<zkVars, initVars, proxys, proxyIndex, addr, userVars, seen,
                   excuses>>
----------------------------------------------------------------------------
(* Init: GetProxyInfos, then InitProxyConns.                               *)

\* Mutant: zoo_get_children without a watch.
GetChildrenUnwatched(w) ==
    /\ phase[w] = "list"
    /\ conn[zh] = "connected"
    /\ todo' = [todo EXCEPT ![w] = {p \in Proxies : zk[p] # "absent"}]
    /\ found' = [found EXCEPT ![w] = << >>]
    /\ GoTo(w, "read")
    /\ UNCHANGED <<zkVars, zh, old, proxys, proxyIndex, addr, userVars, seen,
                   excuses, status>>

\* zoo_get_children, which sets the child watch.
GetChildren(w) ==
    /\ phase[w] = "list"
    /\ conn[zh] = "connected"
    /\ todo' = [todo EXCEPT ![w] = {p \in Proxies : zk[p] # "absent"}]
    /\ found' = [found EXCEPT ![w] = << >>]
    /\ watch' = [watch EXCEPT ![zh] = TRUE]
    /\ GoTo(w, "read")
    /\ UNCHANGED <<zk, changes, conn, queue, zh, old, proxys, proxyIndex,
                   addr, userVars, seen, excuses, status>>

\* "get children from ... faild!!!"
GetChildrenFails(w) ==
    /\ phase[w] = "list"
    /\ conn[zh] \notin {"connected", "closed"}
    /\ Stop("exited")
    /\ UNCHANGED <<zkVars, initVars, proxys, proxyIndex, addr, userVars, seen,
                   excuses>>

\* ZkGet and the test of its JSON: a node that is gone, or cannot be read,
\* or is not online, is left out.  zoo_get uses the session m_Zh has now.
ReadNode(w) ==
    /\ phase[w] = "read"
    /\ conn[zh] # "closed"
    /\ \E p \in todo[w] :
          /\ todo' = [todo EXCEPT ![w] = @ \ {p}]
          /\ found' = [found EXCEPT ![w] =
                         IF conn[zh] = "connected" /\ zk[p] = "online"
                           THEN Append(@, p) ELSE @]
          /\ ignored' = ignored \ {p}
    /\ UNCHANGED <<zkVars, zh, phase, old, proxys, proxyIndex, addr, userVars,
                   seen, overlapped, status>>

\* Another thread has closed m_Zh and not yet opened the next session.
UsesHandle(w) == \/ phase[w] \in {"connect", "list"}
                 \/ phase[w] = "read" /\ todo[w] # {}
UseClosedHandle(w) ==
    /\ UsesHandle(w)
    /\ conn[zh] = "closed"
    /\ Stop("crashed")
    /\ UNCHANGED <<zkVars, initVars, proxys, proxyIndex, addr, userVars, seen,
                   excuses>>

\* "no proxy can be used!"
NoProxy(w) ==
    /\ phase[w] = "read" /\ todo[w] = {}
    /\ found[w] = << >>
    /\ Stop("exited")
    /\ UNCHANGED <<zkVars, initVars, proxys, proxyIndex, addr, userVars, seen,
                   excuses>>

\* Addresses for n new clients: any free ones, also those of clients that a
\* call still points to.  Bound: with too few of them, Init waits.
FreshClients(n) == Injection(1..n, {c \in Clients : addr[c] = Null})

\* The list of fresh clients, one for each online proxy, and what then is at
\* each address.
Publish(w) ==
    /\ phase[w] = "read" /\ todo[w] = {}
    /\ found[w] # << >>
    /\ proxys' \in FreshClients(Len(found[w]))
    /\ addr' = [c \in Clients |->
                  IF c \in Range(proxys')
                    THEN found[w][CHOOSE i \in DOMAIN proxys' : proxys'[i] = c]
                    ELSE addr[c]]
    /\ seen' = {}
    /\ outdated' = [u \in Users |-> call[u] # "out"]
    /\ GoTo(w, "delete")
    /\ UNCHANGED <<zkVars, zh, todo, found, proxyIndex, user, call, excuses,
                   status>>

\* Mutant: the clients that are replaced are never deleted.
InitForgetsOld(w) == Publish(w) /\ UNCHANGED old

\* Mutant: m_Proxys = proxys, and the loop that deletes `proxys` deletes the
\* clients that are in use.
InitCopiesList(w) == Publish(w) /\ old' = [old EXCEPT ![w] = proxys']

\* m_Proxys.swap(proxys): the old clients are to be deleted.
InitProxyConns(w) == Publish(w) /\ old' = [old EXCEPT ![w] = proxys]

Doomed(w) == Head(old[w])

\* delete proxys[i]: ~CodisClient waits for the commands that hold its lock,
\* and for nothing else.
DeleteClient(w) ==
    /\ phase[w] = "delete" /\ old[w] # << >>
    /\ \A u \in Users : ~(call[u] = "in" /\ user[u] = Doomed(w))
    /\ addr' = [addr EXCEPT ![Doomed(w)] = Null]
    /\ old' = [old EXCEPT ![w] = Tail(@)]
    /\ UNCHANGED <<zkVars, zh, phase, todo, found, proxys, proxyIndex,
                   userVars, seen, excuses, status>>

\* The thread of a closed session ends, as the constructor does.
InitDone(w) ==
    /\ phase[w] = "delete" /\ old[w] = << >>
    /\ GoTo(w, IF w \in Sessions /\ conn[w] # "closed" THEN "idle" ELSE "done")
    /\ UNCHANGED <<zkVars, zh, todo, found, old, proxys, proxyIndex, addr,
                   userVars, seen, excuses, status>>
----------------------------------------------------------------------------
(* The application's threads.                                              *)

MaxInt == IntRange \div 2 - 1

\* Mutant: an index that is wider than an int.
IncrementedWide == proxyIndex + 1

\* ++proxyIndex: a signed overflow wraps in the builds there are.
Incremented == IF proxyIndex = MaxInt THEN -(MaxInt + 1) ELSE proxyIndex + 1

\* Mutants: both operands of % are signed, as in proxyIndex % (int)size; the
\* last proxy never has a turn.
IndexSigned(i) == IF i < 0 THEN -((-i) % Len(proxys)) ELSE i % Len(proxys)
IndexSkipsLast(i) ==
    IF Len(proxys) = 1 THEN 0 ELSE (i % SizeRange) % (Len(proxys) - 1)

\* `int % size_t` converts the int to size_t first.
Index(i) == (i % SizeRange) % Len(proxys)

\* The index goes on from its predecessor's except where the int overflows
\* and where it leaves the negative numbers.
Wraps == Incremented < proxyIndex \/ Incremented = 0

GetProxy(u) ==
    /\ call[u] = "out"
    /\ phase[0] = "done"
    /\ proxyIndex' = Incremented
    /\ user' = [user EXCEPT ![u] = proxys[Index(Incremented) + 1]]
    /\ call' = [call EXCEPT ![u] = "got"]
    /\ LET round == IF seen = Range(proxys) \/ Wraps THEN {} ELSE seen
       IN  seen' = round \cup {user'[u]}
    /\ UNCHANGED <<zkVars, initVars, proxys, addr, outdated, excuses, status>>

\* RedisCommand, up to pthread_rwlock_rdlock: for the call's one command, or
\* the next one of RedisCommands.
Enter(u) ==
    /\ call[u] \in {"got", "next"}
    /\ addr[user[u]] # Null
    /\ call' = [call EXCEPT ![u] = "in"]
    /\ UNCHANGED <<zkVars, initVars, proxys, proxyIndex, addr, user, outdated,
                   seen, excuses, status>>

\* RedisCommands has not done yet when a command has released the lock.
NextCommand(u) ==
    /\ call[u] = "in"
    /\ call' = [call EXCEPT ![u] = "next"]
    /\ UNCHANGED <<zkVars, initVars, proxys, proxyIndex, addr, user, outdated,
                   seen, excuses, status>>

\* mget2 borrows a context of the client's pool, and takes no lock.  The call
\* lasts until its callback; its caller, meanwhile, is like another user.
Mget2(u) ==
    /\ call[u] = "got"
    /\ addr[user[u]] # Null
    /\ call' = [call EXCEPT ![u] = "async"]
    /\ UNCHANGED <<zkVars, initVars, proxys, proxyIndex, addr, user, outdated,
                   seen, excuses, status>>

\* The call is over: a command has released the lock, there was none to send
\* (an empty list of commands, a value that is too long), or mget2's callback
\* or its error path has returned the context to the client's pool.
Leave(u) ==
    /\ \/ call[u] \in {"got", "in"}
       \/ call[u] = "async" /\ addr[user[u]] # Null
    /\ call' = [call EXCEPT ![u] = "out"]
    /\ user' = [user EXCEPT ![u] = Null]
    /\ outdated' = [outdated EXCEPT ![u] = FALSE]
    /\ UNCHANGED <<zkVars, initVars, proxys, proxyIndex, addr, seen, excuses,
                   status>>

\* Without the lock, the call goes on in a client that has been deleted.
UseDeleted(u) ==
    /\ call[u] \in {"got", "next", "async"}
    /\ addr[user[u]] = Null
    /\ Stop("crashed")
    /\ UNCHANGED <<zkVars, initVars, proxys, proxyIndex, addr, userVars, seen,
                   excuses>>

\* BfdCodis: every call is one of m_Pool->GetProxy().
Call(u) ==
    \/ GetProxy(u) \/ Enter(u) \/ NextCommand(u) \/ Mget2(u) \/ Leave(u)
    \/ UseDeleted(u)
----------------------------------------------------------------------------
Watcher(s) ==
    OnChildEvent(s) \/ Wake(s) \/ OnSessionEvent(s) \/ OpenSession(s)

InitStep(w) ==
    \/ ConnectDone(w) \/ ConnectTimeout(w)
    \/ GetChildren(w) \/ GetChildrenFails(w)
    \/ ReadNode(w) \/ UseClosedHandle(w) \/ NoProxy(w) \/ InitProxyConns(w)
    \/ DeleteClient(w) \/ InitDone(w)

Zookeeper ==
    \/ \E p \in Proxies : Register(p) \/ Deregister(p) \/ SetState(p)
    \/ \E s \in Sessions : Connected(s) \/ Lose(s)

Running(A) == status = "running" /\ A

Stopped == status # "running" /\ UNCHANGED vars

Next ==
    \/ Running(Zookeeper)
    \/ \E s \in Sessions : Running(Watcher(s))
    \/ \E w \in Workers : Running(InitStep(w))
    \/ \E u \in Users : Running(Call(u))
    \/ Stopped

Spec == Init /\ [][Next]_vars
----------------------------------------------------------------------------
(* What the pool promises.                                                 *)

Allocated == {c \in Clients : addr[c] # Null}
Online == {p \in Proxies : zk[p] = "online"}
Listed == {addr[proxys[i]] : i \in DOMAIN proxys}

\* Every variable has a value the program can give it.
TypeOK ==
    /\ zk \in [Proxies -> {"absent", "online", "other"}]
    /\ changes \in 0..MaxChanges
    /\ conn \in [Sessions -> {"none", "connecting", "connected", "lost",
                              "closed"}]
    /\ watch \in [Sessions -> BOOLEAN]
    /\ queue \in [Sessions -> Seq({"child", "session"})]
    /\ zh \in Sessions
    /\ phase \in [Workers -> Phases]
    /\ todo \in [Workers -> SUBSET Proxies]
    /\ found \in [Workers -> Seq(Proxies)]
    /\ old \in [Workers -> Seq(Clients)]
    /\ proxys \in Seq(Clients)
    /\ proxyIndex \in -(MaxInt + 1)..MaxInt
    /\ addr \in [Clients -> Proxies \cup {Null}]
    /\ user \in [Users -> Clients \cup {Null}]
    /\ call \in [Users -> {"out", "got", "in", "next", "async"}]
    /\ outdated \in [Users -> BOOLEAN]
    /\ overlapped \in BOOLEAN /\ ignored \subseteq Proxies
    /\ seen \subseteq Clients
    /\ status \in {"running", "exited", "crashed"}

\* Every CodisClient object is owned exactly once: it is in m_Proxys or in
\* the list of clients that one thread is about to delete.  So no client is
\* deleted twice or leaked, however the Inits interleave, and m_Proxys
\* holds no deleted client.
OwnerLists == [w \in Workers \cup {-1} |-> IF w = -1 THEN proxys ELSE old[w]]
OwnedOnce ==
    /\ \A v, w \in DOMAIN OwnerLists :
          /\ v # w => Range(OwnerLists[v]) \cap Range(OwnerLists[w]) = {}
          /\ IsInjective(OwnerLists[v])
    /\ Allocated = UNION {Range(OwnerLists[w]) : w \in DOMAIN OwnerLists}

\* When the constructor returns there is a proxy to choose, and there is one
\* ever after: GetProxy never divides by zero, and the index it computes is
\* one of the list, before and after proxyIndex overflows.
GetProxyInRange ==
    phase[0] = "done" => /\ proxys # << >>
                         /\ Index(Incremented) + 1 \in DOMAIN proxys

\* Until an Init replaces the list a call finds its client, whatever it does
\* and with whatever lock, also while threads still delete the clients of
\* former lists.  Afterwards only a command that has taken the client's lock
\* keeps it: neither the pointer, nor RedisCommands, nor mget2 does.
CallFindsClient ==
    \A u \in Users :
        call[u] # "out" /\ (outdated[u] => call[u] = "in")
            => user[u] \in Allocated

\* Round robin: as long as the list and the sign of proxyIndex stay, no proxy
\* is given out twice before every other one has had its turn.
RoundRobin ==
    [][\A u \in Users :
         call[u] = "out" /\ call'[u] = "got" =>
            user'[u] \notin seen \/ seen = Range(proxys) \/ Wraps]_vars

\* When every thread that runs Init is at rest and no event waits, the list is
\* the online proxies: no child event and no lost session is missed, whatever
\* changes between two reads of an Init.  Excused are Inits that overlap (the
\* older list may win), and of the proxies those that have changed their state
\* since they were read last (that event is ignored).
Settled == /\ \A s \in Sessions : queue[s] = << >>
           /\ \A w \in Workers : phase[w] \in {"idle", "done"}
ListIsCurrent ==
    Settled /\ ~overlapped => Listed \ ignored = Online \ ignored

\* A thread that is about to use m_Zh finds a handle that no other thread has
\* closed, as long as Inits do not overlap.
HandleIsOpen ==
    \A w \in Workers : UsesHandle(w) /\ ~overlapped => conn[zh] # "closed"
=============================================================================
