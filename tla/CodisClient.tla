---------------------------- MODULE CodisClient ----------------------------
(***************************************************************************)
(* The synchronous half of the C++ client: CodisClient::RedisCommand       *)
(* (cpp/src/CodisClient.cpp) over the connection pool RedisClientPool      *)
(* (cpp/src/RedisClientPool.cpp), called by several threads that share one *)
(* client, next to the client's destructor.                                *)
(*                                                                         *)
(* A redisContext is known by its ADDRESS, because that is how the code    *)
(* passes it around and because RedisClientPool::Reconnect receives the    *)
(* pointer by value: it frees the caller's context and stores the new      *)
(* connection in its own parameter, so the caller goes on with the old     *)
(* address.  Whether that address is the new context or freed memory is    *)
(* the allocator's choice, a \E here.                                      *)
(*                                                                         *)
(* The pool's mutex covers borrowItem, returnItem and Reconnect from end   *)
(* to end, so each of them is one step.  The read half of the rwlock is    *)
(* held by a call from RdLock to Unlock.                                   *)
(***************************************************************************)
EXTENDS Naturals, Sequences, FiniteSets, Functions

CONSTANTS
    Threads,  \* the application threads that share the client
    Timed,    \* those whose calls pass tt > 0 (the others wait for ever)
    Addr,     \* addresses the allocator can give to a redisContext
    Null,     \* the NULL pointer, and "no reply"
    Late      \* the owner of an answer whose call is over

ASSUME ClientAssumption ==
    /\ Timed \subseteq Threads
    /\ Null \notin Addr \cup Threads
    /\ Late \notin Threads \cup {Null}
    /\ IsFiniteSet(Threads)
    /\ IsFiniteSet(Addr)

VARIABLES
    pc,        \* where each thread is in RedisCommand
    redis,     \* each thread's local variable `redis`
    connPool,  \* m_ConnPool # NULL
    readers,   \* the threads that hold p_rwlock for reading
    dtor,      \* progress of ~CodisClient
    unUsed,    \* RedisClientPool::unUsed_
    ctx,       \* the redisContext at each address
    pipe,      \* per context, whose answers the proxy still owes, in order
    got,       \* the reply of each thread's last call: whose it is
    delivered, \* how often the proxy accepted the current call's command
    moved,     \* history: some Reconnect landed at another address
    lost,      \* contexts that are open and that no variable refers to
    crash      \* the first undefined access, if any

vars == <<pc, redis, connPool, readers, dtor, unUsed, ctx, pipe, got,
          delivered, moved, lost, crash>>

PCs == {"idle", "rdlock", "borrow", "send", "wait", "reconnect", "resend",
        "rewait", "return", "unlock"}

\* "closed": the proxy closed the connection but redisContext->err is still
\* REDIS_OK, since hiredis sets err only when it reads or writes.
CtxStates == {"free", "ok", "closed", "err"}

Live == {a \in Addr : ctx[a] # "free"}
Pooled == Range(unUsed)
Held == {redis[t] : t \in Threads} \ {Null}
NoRepeats == \A i, j \in DOMAIN unUsed : unUsed[i] = unUsed[j] => i = j
ErrOk(a) == ctx[a] \in {"ok", "closed"}

----------------------------------------------------------------------------
Init ==
    /\ pc = [t \in Threads |-> "idle"]
    /\ redis = [t \in Threads |-> Null]
    /\ connPool = TRUE
    /\ readers = {}
    /\ dtor = "no"
    /\ unUsed = << >>
    /\ ctx = [a \in Addr |-> "free"]
    /\ pipe = [a \in Addr |-> << >>]
    /\ got = [t \in Threads |-> Null]
    /\ delivered = [t \in Threads |-> 0]
    /\ moved = FALSE
    /\ lost = {}
    /\ crash = "no"

GoTo(t, l) == pc' = [pc EXCEPT ![t] = l]

\* redisFree for every context of S, then redisConnect at the addresses of C.
FreeAndConnect(S, C) ==
    /\ ctx' = [a \in Addr |-> IF a \in C THEN "ok"
                              ELSE IF a \in S THEN "free" ELSE ctx[a]]
    /\ pipe' = [a \in Addr |-> IF a \in S \cup C THEN << >> ELSE pipe[a]]

\* A NULL or freed pointer is dereferenced: nothing the program does from
\* here on is defined.
Crash(how) ==
    /\ crash' = how
    /\ UNCHANGED <<pc, redis, connPool, readers, dtor, unUsed, ctx, pipe, got,
                   delivered, moved, lost>>

----------------------------------------------------------------------------
(* RedisCommand up to the lock: m_ConnPool is tested before p_rwlock is    *)
(* taken.                                                                  *)

Call(t) ==
    /\ pc[t] = "idle" /\ dtor # "done"
    /\ connPool
    /\ GoTo(t, "rdlock")
    /\ got' = [got EXCEPT ![t] = Null]
    /\ delivered' = [delivered EXCEPT ![t] = 0]
    /\ UNCHANGED <<redis, connPool, readers, dtor, unUsed, ctx, pipe, moved,
                   lost, crash>>

\* "Can not fetch client from pool!!!"
CallRefused(t) ==
    /\ pc[t] = "idle" /\ dtor # "done"
    /\ ~connPool
    /\ got' = [got EXCEPT ![t] = Null]
    /\ delivered' = [delivered EXCEPT ![t] = 0]
    /\ UNCHANGED <<pc, redis, connPool, readers, dtor, unUsed, ctx, pipe,
                   moved, lost, crash>>

RdLock(t) ==
    /\ pc[t] = "rdlock"
    /\ dtor \in {"no", "done"}
    /\ readers' = readers \cup {t}
    /\ GoTo(t, "borrow")
    /\ UNCHANGED <<redis, connPool, dtor, unUsed, ctx, pipe, got, delivered,
                   moved, lost, crash>>

----------------------------------------------------------------------------
(* borrowItem: drop contexts that carry an error from the front of         *)
(* unUsed_, take the first one that does not, or connect.                  *)

\* The first n pooled contexts are dropped, each of them freed once.
Dropped(n) == {unUsed[i] : i \in 1..n}

LeadingErr(n) ==
    \A i \in 1..n : ctx[unUsed[i]] = "err" /\ unUsed[i] \notin Dropped(i - 1)

\* Mutant: front() without pop_front().
BorrowWithoutPop(t) ==
    \E n \in 0..(Len(unUsed) - 1) :
        /\ pc[t] = "borrow" /\ connPool
        /\ LeadingErr(n)
        /\ ErrOk(unUsed[n + 1])
        /\ redis' = [redis EXCEPT ![t] = unUsed[n + 1]]
        /\ GoTo(t, "send")
        /\ UNCHANGED <<connPool, readers, dtor, unUsed, ctx, pipe, got,
                       delivered, moved, lost, crash>>

BorrowPooled(t) ==
    \E n \in 0..(Len(unUsed) - 1) :
        /\ pc[t] = "borrow" /\ connPool
        /\ LeadingErr(n)
        /\ ErrOk(unUsed[n + 1])
        /\ redis' = [redis EXCEPT ![t] = unUsed[n + 1]]
        /\ unUsed' = SubSeq(unUsed, n + 2, Len(unUsed))
        /\ FreeAndConnect(Dropped(n), {})
        /\ lost' = lost \ Dropped(n)
        /\ GoTo(t, "send")
        /\ UNCHANGED <<connPool, readers, dtor, got, delivered, moved, crash>>

\* Mutant: connect although the pool is not empty.
BorrowConnects(t) ==
    /\ pc[t] = "borrow" /\ connPool
    /\ \E a \in Addr \ Live :
          /\ redis' = [redis EXCEPT ![t] = a]
          /\ FreeAndConnect({}, {a})
    /\ GoTo(t, "send")
    /\ UNCHANGED <<connPool, readers, dtor, unUsed, got, delivered, moved,
                   lost, crash>>

\* create() succeeded, at any address that is free by then.
BorrowNew(t) ==
    /\ pc[t] = "borrow" /\ connPool
    /\ LeadingErr(Len(unUsed))
    /\ \E a \in (Addr \ Live) \cup Pooled :
          /\ redis' = [redis EXCEPT ![t] = a]
          /\ FreeAndConnect(Pooled, {a})
    /\ unUsed' = << >>
    /\ lost' = lost \ Pooled
    /\ GoTo(t, "send")
    /\ UNCHANGED <<connPool, readers, dtor, got, delivered, moved, crash>>

\* create() failed: "context is NULL !!"
BorrowFails(t) ==
    /\ pc[t] = "borrow" /\ connPool
    /\ LeadingErr(Len(unUsed))
    /\ FreeAndConnect(Pooled, {})
    /\ unUsed' = << >>
    /\ lost' = lost \ Pooled
    /\ GoTo(t, "unlock")
    /\ UNCHANGED <<redis, connPool, readers, dtor, got, delivered, moved,
                   crash>>

\* rt->err of a context that was freed, before or by this very loop.
BorrowFreed(t) ==
    \E n \in 0..(Len(unUsed) - 1) :
        /\ pc[t] = "borrow" /\ connPool
        /\ LeadingErr(n)
        /\ unUsed[n + 1] \in (Addr \ Live) \cup Dropped(n)
        /\ Crash("freed")

\* m_ConnPool->borrowItem() with m_ConnPool = NULL.
BorrowNull(t) ==
    /\ pc[t] = "borrow" /\ ~connPool
    /\ Crash("nullpool")

Borrow(t) == BorrowPooled(t) \/ BorrowNew(t) \/ BorrowFails(t)

----------------------------------------------------------------------------
(* redisSetTimeout and redisCommandArgv: write the command, then block for *)
(* the first answer on the connection.                                     *)

Send(t) ==
    /\ pc[t] \in {"send", "resend"}
    /\ redis[t] \in Live
    /\ IF ctx[redis[t]] = "ok"
         THEN /\ pipe' = [pipe EXCEPT ![redis[t]] = Append(@, t)]
              /\ delivered' = [delivered EXCEPT ![t] = @ + 1]
         ELSE UNCHANGED <<pipe, delivered>>
    /\ GoTo(t, IF pc[t] = "send" THEN "wait" ELSE "rewait")
    /\ UNCHANGED <<redis, connPool, readers, dtor, unUsed, ctx, got, moved,
                   lost, crash>>

Waiting(t) == pc[t] \in {"wait", "rewait"} /\ redis[t] \in Live

Receive(t) ==
    /\ Waiting(t)
    /\ ErrOk(redis[t])
    /\ pipe[redis[t]] # << >>
    /\ got' = [got EXCEPT ![t] = Head(pipe[redis[t]])]
    /\ pipe' = [pipe EXCEPT ![redis[t]] = Tail(@)]
    /\ GoTo(t, "return")
    /\ UNCHANGED <<redis, connPool, readers, dtor, unUsed, ctx, delivered,
                   moved, lost, crash>>

\* Mutant: every NULL reply leads to another attempt.
NullReplyRetries(t) ==
    /\ ctx' = [ctx EXCEPT ![redis[t]] = "err"]
    /\ GoTo(t, "reconnect")
    /\ UNCHANGED <<redis, connPool, readers, dtor, unUsed, pipe, got,
                   delivered, moved, lost, crash>>

\* Mutant: the second NULL reply falls through to returnItem.
NullReplyReturns(t) ==
    /\ ctx' = [ctx EXCEPT ![redis[t]] = "err"]
    /\ GoTo(t, IF pc[t] = "wait" THEN "reconnect" ELSE "return")
    /\ UNCHANGED <<redis, connPool, readers, dtor, unUsed, pipe, got,
                   delivered, moved, lost, crash>>

\* The first NULL reply leads to Reconnect; the second one to "Do Command
\* faild.", which neither returns nor frees the context.
NullReply(t) ==
    /\ ctx' = [ctx EXCEPT ![redis[t]] = "err"]
    /\ IF pc[t] = "wait"
         THEN /\ GoTo(t, "reconnect")
              /\ UNCHANGED <<redis, lost>>
         ELSE /\ GoTo(t, "unlock")
              /\ redis' = [redis EXCEPT ![t] = Null]
              /\ lost' = lost \cup {redis[t]}
    /\ UNCHANGED <<connPool, readers, dtor, unUsed, pipe, got, delivered,
                   moved, crash>>

ReadFails(t) ==
    /\ Waiting(t)
    /\ ctx[redis[t]] \in {"closed", "err"}
    /\ NullReply(t)

Timeout(t) ==
    /\ Waiting(t)
    /\ t \in Timed
    /\ ErrOk(redis[t])
    /\ NullReply(t)

\* The context the thread is about to use has been freed.
UseFreed(t) ==
    /\ pc[t] \in {"send", "resend", "wait", "rewait", "reconnect"}
    /\ redis[t] \notin Live
    /\ Crash("freed")

----------------------------------------------------------------------------
(* Reconnect(redis): the context is freed and a new one opened, but `redis`*)
(* in the caller keeps its value.                                          *)

\* Mutant: the error is cleared and the old connection goes on.
ReconnectClearsError(t) ==
    /\ pc[t] = "reconnect" /\ redis[t] \in Live
    /\ ctx' = [ctx EXCEPT ![redis[t]] = "ok"]
    /\ GoTo(t, "resend")
    /\ UNCHANGED <<redis, connPool, readers, dtor, unUsed, pipe, got,
                   delivered, moved, lost, crash>>

ReconnectOk(t) ==
    /\ pc[t] = "reconnect" /\ redis[t] \in Live
    /\ \E b \in (Addr \ Live) \cup {redis[t]} :
          /\ FreeAndConnect({redis[t]}, {b})
          /\ moved' = (moved \/ b # redis[t])
          /\ lost' = (lost \ {redis[t]}) \cup ({b} \ {redis[t]})
    /\ GoTo(t, "resend")
    /\ UNCHANGED <<redis, connPool, readers, dtor, unUsed, got, delivered,
                   crash>>

\* Mutant: a failed reconnection does not free the old context.
ReconnectKeepsOld(t) ==
    /\ pc[t] = "reconnect" /\ redis[t] \in Live
    /\ redis' = [redis EXCEPT ![t] = Null]
    /\ GoTo(t, "unlock")
    /\ UNCHANGED <<connPool, readers, dtor, unUsed, ctx, pipe, got, delivered,
                   moved, lost, crash>>

\* Mutant: after a failed reconnection the context goes to the pool.
ReconnectFailsReturns(t) ==
    /\ pc[t] = "reconnect" /\ redis[t] \in Live
    /\ FreeAndConnect({redis[t]}, {})
    /\ lost' = lost \ {redis[t]}
    /\ GoTo(t, "return")
    /\ UNCHANGED <<redis, connPool, readers, dtor, unUsed, got, delivered,
                   moved, crash>>

\* "reconnect faild!"
ReconnectFails(t) ==
    /\ pc[t] = "reconnect" /\ redis[t] \in Live
    /\ FreeAndConnect({redis[t]}, {})
    /\ lost' = lost \ {redis[t]}
    /\ redis' = [redis EXCEPT ![t] = Null]
    /\ GoTo(t, "unlock")
    /\ UNCHANGED <<connPool, readers, dtor, unUsed, got, delivered, moved,
                   crash>>

ReturnItem(t) ==
    /\ pc[t] = "return"
    /\ unUsed' = Append(unUsed, redis[t])
    /\ redis' = [redis EXCEPT ![t] = Null]
    /\ GoTo(t, "unlock")
    /\ UNCHANGED <<connPool, readers, dtor, ctx, pipe, got, delivered, moved,
                   lost, crash>>

\* The call is over: answers still owed to it are nobody's from now on.
Unlock(t) ==
    /\ pc[t] = "unlock"
    /\ readers' = readers \ {t}
    /\ GoTo(t, "idle")
    /\ pipe' = [a \in Addr |-> [i \in DOMAIN pipe[a] |->
                   IF pipe[a][i] = t THEN Late ELSE pipe[a][i]]]
    /\ UNCHANGED <<redis, connPool, dtor, unUsed, ctx, got, delivered, moved,
                   lost, crash>>

----------------------------------------------------------------------------
\* The proxy closes a connection (it does so with idle ones).
ServerClose(a) ==
    /\ ctx[a] = "ok"
    /\ ctx' = [ctx EXCEPT ![a] = "closed"]
    /\ UNCHANGED <<pc, redis, connPool, readers, dtor, unUsed, pipe, got,
                   delivered, moved, lost, crash>>

(* ~CodisClient *)
\* Mutant: the destructor does not wait for the calls in progress.
DtorBargesIn ==
    /\ dtor = "no"
    /\ dtor' = "locked"
    /\ UNCHANGED <<pc, redis, connPool, readers, unUsed, ctx, pipe, got,
                   delivered, moved, lost, crash>>

DtorLock ==
    /\ dtor = "no"
    /\ readers = {}
    /\ dtor' = "locked"
    /\ UNCHANGED <<pc, redis, connPool, readers, unUsed, ctx, pipe, got,
                   delivered, moved, lost, crash>>

\* ~RedisClientPool destroys every pooled context once.
DtorDelete ==
    /\ dtor = "locked"
    /\ Pooled \subseteq Live
    /\ NoRepeats
    /\ FreeAndConnect(Pooled, {})
    /\ unUsed' = << >>
    /\ lost' = lost \ Pooled
    /\ connPool' = FALSE
    /\ dtor' = "deleted"
    /\ UNCHANGED <<pc, redis, readers, got, delivered, moved, crash>>

DtorFreesTwice ==
    /\ dtor = "locked"
    /\ ~(Pooled \subseteq Live /\ NoRepeats)
    /\ Crash("freed")

DtorUnlock ==
    /\ dtor = "deleted"
    /\ dtor' = "done"
    /\ UNCHANGED <<pc, redis, connPool, readers, unUsed, ctx, pipe, got,
                   delivered, moved, lost, crash>>

----------------------------------------------------------------------------
\* What the thread does by itself once its call has started, the answers of
\* the proxy apart.
Proceed(t) ==
    \/ RdLock(t)
    \/ Borrow(t)
    \/ BorrowFreed(t)
    \/ BorrowNull(t)
    \/ Send(t)
    \/ ReadFails(t)
    \/ Timeout(t)
    \/ UseFreed(t)
    \/ ReconnectOk(t)
    \/ ReconnectFails(t)
    \/ ReturnItem(t)
    \/ Unlock(t)

Destructor == DtorLock \/ DtorDelete \/ DtorFreesTwice \/ DtorUnlock

Running(A) == crash = "no" /\ A

\* The process is gone, or the client is and every call has returned.
Terminated ==
    /\ crash # "no" \/ (dtor = "done" /\ \A t \in Threads : pc[t] = "idle")
    /\ UNCHANGED vars

Next ==
    \/ \E t \in Threads : Running(Call(t) \/ CallRefused(t) \/ Receive(t)
                                  \/ Proceed(t))
    \/ \E a \in Addr : Running(ServerClose(a))
    \/ Running(Destructor)
    \/ Terminated

Spec == Init /\ [][Next]_vars

\* A thread that can go on does so, and a destructor that has begun ends.
\* Nothing obliges the proxy to answer or the application to call.
FairSpec ==
    /\ Spec
    /\ \A t \in Threads : WF_vars(Running(Proceed(t)))
    /\ WF_vars(Running(DtorDelete \/ DtorFreesTwice \/ DtorUnlock))

----------------------------------------------------------------------------
(* What the client promises.  A Reconnect that lands at another address    *)
(* breaks every promise about contexts (see ResendIsSafe), so the          *)
(* invariants about contexts speak of the runs in which none has yet.      *)

\* Every variable has a value the program can give it.
TypeOK ==
    /\ pc \in [Threads -> PCs]
    /\ redis \in [Threads -> Addr \cup {Null}]
    /\ connPool \in BOOLEAN
    /\ readers \subseteq Threads
    /\ dtor \in {"no", "locked", "deleted", "done"}
    /\ unUsed \in Seq(Addr)
    /\ ctx \in [Addr -> CtxStates]
    /\ pipe \in [Addr -> Seq(Threads \cup {Late})]
    /\ got \in [Threads -> Threads \cup {Late, Null}]
    /\ delivered \in [Threads -> 0..2]
    /\ moved \in BOOLEAN
    /\ lost \subseteq Addr
    /\ crash \in {"no", "freed", "nullpool"}

\* A connection is never shared: two threads never hold the same context,
\* a pooled context is held by nobody and is in unUsed_ once, and what is
\* held or pooled is not freed.  redisCommandArgv is only correct under this.
Ownership ==
    ~moved =>
        /\ \A t, u \in Threads :
              t # u /\ redis[t] # Null => redis[t] # redis[u]
        /\ NoRepeats
        /\ Pooled \cap Held = {}
        /\ Pooled \cup Held \subseteq Live

\* A context that goes back to the pool carries no error, whatever the
\* proxy did: the loop of borrowItem that frees such contexts has nothing
\* to free.
PooledHaveNoError == ~moved => \A a \in Pooled : ErrOk(a)

\* Apart from the contexts that calls gave up, every open connection is
\* either in the pool or in the hands of one thread.
NoLeak == ~moved => Live \ lost = Pooled \cup Held

\* The pool opens no more connections than there are threads calling.
PoolBound == ~moved => Cardinality(Live \ lost) <= Cardinality(Threads)

\* A caller is given the answer to its own command: not another thread's,
\* and not one that comes late, after the call it belongs to timed out.
ReplyMatches == ~moved => \A t \in Threads : got[t] \in {Null, t}

\* The only way to touch a freed context is a Reconnect that has moved.
NoUseAfterFree == crash = "freed" => moved

\* The destructor deletes the pool under no caller's feet, and leaves no
\* connection open except the given up ones.
PoolOutlivesBorrowers ==
    ~connPool => /\ \A t \in Threads : pc[t] \in {"idle", "rdlock", "borrow",
                                                   "unlock"}
                 /\ ~moved => Live \subseteq lost

\* A call with a timeout returns (unless the process crashes), even if the
\* proxy never answers and every reconnection succeeds.
TimedCallReturns ==
    \A t \in Timed :
        pc[t] # "idle" ~> pc[t] = "idle" \/ crash # "no"

----------------------------------------------------------------------------
(* What a comment of the code says, and the code does not do.              *)

\* CodisClient.cpp:996 "reconnect and send the command again": the resend
\* goes to a context that is open.
ResendIsSafe ==
    \A t \in Threads : pc[t] = "resend" => redis[t] \in Live
=============================================================================
