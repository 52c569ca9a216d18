----------------------------- MODULE MgetAsync -----------------------------
(***************************************************************************)
(* The asynchronous half of the C++ client: CodisClient::mget2 and its     *)
(* callback (cpp/src/CodisClient.cpp), the asynchronous pool of            *)
(* RedisClientPool.cpp, the event loop of ae.c and ae_epoll.c with the     *)
(* adapter hiredis_ae.h.  One thread calls mget2 (CodisClient.h: not for   *)
(* several), AEThread runs the loop, and a third one may delete the client *)
(* (RoundRobinCodisPool does when its list changes).                       *)
(*                                                                         *)
(* mget2 gives its callback the ADDRESS of its local variable              *)
(* async_context.  A frame stands for the place of that variable: a later  *)
(* call may have its own there, or something else (Junk) is.               *)
(*                                                                         *)
(* External: hiredis (a context with a list of callbacks and an output     *)
(* buffer; it frees itself when its connection ends, and then calls every  *)
(* callback that is left with a NULL reply), sockets, and the proxy, which *)
(* answers the commands of a connection in their order.                    *)
(***************************************************************************)
EXTENDS Naturals, Sequences, FiniteSets, Functions

CONSTANTS
    Addr,       \* addresses of redisAsyncContext objects
    Fds,        \* file descriptors they may get
    SetSize,    \* aeCreateEventLoop(64)
    Frames,     \* places of mget2's local variable
    MaxCalls,   \* bound on the calls of mget2
    MaxCloses,  \* bound on the connections that the proxy closes
    Null,       \* NULL
    Junk        \* any other value that is not a context

ASSUME MgetAssumption ==
    /\ Fds \subseteq Nat /\ SetSize \in Nat
    /\ MaxCalls \in Nat /\ MaxCloses \in Nat
    /\ Null \notin Addr /\ Junk \notin Addr /\ Null # Junk

Request == 1..MaxCalls

VARIABLES
    \* the caller's thread
    pc, req,      \* where it is in mget2; the state of each request
    frame,        \* where each request's async_context is, or was
    frames,       \* what is there now
    values,       \* the requests whose values the callbacks of each one got
    \* RedisClientPool
    unUsedAsync,
    \* hiredis and the sockets
    ctx, fd,      \* the context at each address, and its descriptor
    replies,      \* its callbacks
    out, wire, in,\* commands in its buffer and at the proxy; answers to read
    closes,
    \* the event loop
    events, loop,
    client,       \* is the CodisClient there?
    status,       \* "running" or "crashed"
    strayed       \* history: a callback returned another context than its own

callerVars == <<pc, frame>>
netVars == <<wire, in, closes>>
vars == <<callerVars, req, frames, values, unUsedAsync, ctx, fd, replies, out,
          netVars, events, loop, client, status, strayed>>

Init ==
    /\ pc = "idle"
    /\ req = [r \in Request |-> "new"]
    /\ frame = [r \in Request |-> Null]
    /\ frames = [f \in Frames |-> Junk]
    /\ values = [r \in Request |-> << >>]
    /\ unUsedAsync = << >>
    /\ ctx = [a \in Addr |-> "free"]
    /\ fd = [a \in Addr |-> Null]
    /\ replies = [a \in Addr |-> << >>]
    /\ out = [a \in Addr |-> << >>]
    /\ wire = [a \in Addr |-> << >>]
    /\ in = [a \in Addr |-> << >>]
    /\ closes = 0
    /\ events = [f \in Fds |-> [mask |-> {}, context |-> Null]]
    /\ loop = "running"
    /\ client = TRUE
    /\ status = "running"
    /\ strayed = FALSE

\* A NULL, freed or arbitrary pointer is used, or memory two threads change.
Crash ==
    /\ status' = "crashed"
    /\ UNCHANGED <<callerVars, req, frames, values, unUsedAsync, ctx, fd,
                   replies, out, netVars, events, loop, client, strayed>>
----------------------------------------------------------------------------
(* mget2                                                                   *)

\* The contexts with a connection, and those that createAsync gave up: nobody
\* frees them.
Live == {a \in Addr : ctx[a] \in {"open", "eof"}}
Lost == {a \in Addr : ctx[a] = "lost"}

\* The request in hand: the calls are numbered as they come.
Asked == {r \in Request : req[r] = "asked"}
Here(r) == frames[frame[r]]

\* The new frame may be where an earlier call had its own.
StartCall(r) ==
    /\ pc = "idle" /\ client
    /\ req[r] = "new"
    /\ \A q \in Request : q < r => req[q] # "new"
    /\ req' = [req EXCEPT ![r] = "asked"]
    /\ \E f \in Frames : frame' = [frame EXCEPT ![r] = f]
    /\ pc' = "borrow"
    /\ UNCHANGED <<frames, values, unUsedAsync, ctx, fd, replies, out, netVars,
                   events, loop, client, status, strayed>>

\* Other calls of the thread use the stack where mget2 had its frame.
ReuseStack(f) ==
    /\ pc = "idle"
    /\ frames[f] # Junk
    /\ frames' = [frames EXCEPT ![f] = Junk]
    /\ UNCHANGED <<callerVars, req, values, unUsedAsync, ctx, fd, replies, out,
                   netVars, events, loop, client, status, strayed>>

\* borrowItemAsync drops contexts whose err is set.  A pointer to one that has
\* been freed can show it, if its memory is still what it was or has become
\* that of a lost one.
Droppable(n) == \A i \in 1..n : unUsedAsync[i] \in Addr \ Live

Rest(n) == SubSeq(unUsedAsync, n + 1, Len(unUsedAsync))

SetLocal(r, c) == frames' = [frames EXCEPT ![frame[r]] = c]

BorrowPooled(r) ==
    \E n \in 0..(Len(unUsedAsync) - 1) :
        /\ pc = "borrow" /\ req[r] = "asked" /\ client
        /\ Droppable(n)
        /\ unUsedAsync[n + 1] \in Live
        /\ SetLocal(r, unUsedAsync[n + 1])
        /\ unUsedAsync' = Rest(n + 1)
        /\ pc' = "submit"
        /\ UNCHANGED <<frame, req, values, ctx, fd, replies, out, netVars,
                       events, loop, client, status, strayed>>

UsedFds == {fd[a] : a \in Live}

\* createAsync: a socket that connects, at an address the allocator chooses.
BorrowNew(r) ==
    /\ pc = "borrow" /\ req[r] = "asked" /\ client
    /\ Droppable(Len(unUsedAsync))
    /\ unUsedAsync' = << >>
    /\ \E a \in Addr, f \in Fds \ UsedFds :
          /\ ctx[a] = "free"
          /\ ctx' = [ctx EXCEPT ![a] = "open"]
          /\ fd' = [fd EXCEPT ![a] = f]
          /\ SetLocal(r, a)
    /\ pc' = "submit"
    /\ UNCHANGED <<frame, req, values, replies, out, netVars, events, loop,
                   client, status, strayed>>

\* redisAsyncConnect returns a context whose err is set.  createAsync gives it
\* up without freeing it ("no need to free") and returns NULL; mget2 puts the
\* NULL in the pool and returns false.
BorrowFails(r) ==
    /\ pc = "borrow" /\ req[r] = "asked" /\ client
    /\ Droppable(Len(unUsedAsync))
    /\ unUsedAsync' = <<Null>>
    /\ \E a \in Addr : ctx[a] = "free" /\ ctx' = [ctx EXCEPT ![a] = "lost"]
    /\ SetLocal(r, Null)
    /\ req' = [req EXCEPT ![r] = "refused"]
    /\ pc' = "idle"
    /\ UNCHANGED <<frame, values, fd, replies, out, netVars, events, loop,
                   client, status, strayed>>

\* The pool is gone; rt->err is read through a pointer to nothing; or
\* redisAsyncConnect has no memory and createAsync uses the NULL it got.
BorrowUndefined(r) ==
    /\ pc = "borrow" /\ req[r] = "asked"
    /\ \/ ~client
       \/ \E n \in 0..(Len(unUsedAsync) - 1) :
             Droppable(n) /\ unUsedAsync[n + 1] \notin Live \cup Lost
       \/ Droppable(Len(unUsedAsync)) /\ Live \cup Lost = Addr
    /\ Crash

\* Mutant: aeCreateFileEvent does not look at setsize.
WatchUnbounded(f, m) ==
    events' = [events EXCEPT ![f].mask = @ \cup m]

\* Mutant: redisAeDelWrite leaves e->writing set.
WatchFirstTimeOnly(f, m) ==
    events' = IF f < SetSize /\ "r" \notin events[f].mask
                THEN [events EXCEPT ![f].mask = @ \cup m] ELSE events

\* aeCreateFileEvent up to the mask.  It fails for a descriptor that is out
\* of the loop's range, and the adapter does not look at its result.
Watch(f, m) ==
    events' = IF f < SetSize THEN [events EXCEPT ![f].mask = @ \cup m]
                             ELSE events

\* Mutant: the command is sent again whatever the first result was.
SubmitTwice(r) ==
    LET a == Here(r)
    IN  /\ pc = "submit" /\ req[r] = "asked"
        /\ a \in Live
        /\ replies' = [replies EXCEPT ![a] = @ \o <<r, r>>]
        /\ out' = [out EXCEPT ![a] = @ \o <<r, r>>]
        /\ Watch(fd[a], {"w"})
        /\ req' = [req EXCEPT ![r] = "sent"]
        /\ pc' = "register"
        /\ UNCHANGED <<frame, frames, values, unUsedAsync, ctx, fd, netVars,
                       loop, client, status, strayed>>

\* redisAsyncCommandArgv: the callback, the output buffer, then addWrite.
Submit(r) ==
    LET a == Here(r)
    IN  /\ pc = "submit" /\ req[r] = "asked"
        /\ a \in Live
        /\ replies' = [replies EXCEPT ![a] = Append(@, r)]
        /\ out' = [out EXCEPT ![a] = Append(@, r)]
        /\ Watch(fd[a], {"w"})
        /\ req' = [req EXCEPT ![r] = "sent"]
        /\ pc' = "register"
        /\ UNCHANGED <<frame, frames, values, unUsedAsync, ctx, fd, netVars,
                       loop, client, status, strayed>>

\* The loop frees the context: redisAsyncCommandArgv returns REDIS_ERR at
\* best, and ReconnectAsync then frees it once more.  Or the loop works on it
\* for an earlier request that has not been answered.
SubmitUndefined(r) ==
    /\ pc = "submit" /\ req[r] = "asked"
    /\ Here(r) \in Live => replies[Here(r)] # << >>
    /\ Crash

\* Mutant: mget2 returns the context itself, next to its callback.
RegisterReturns(r) ==
    /\ pc = "register" /\ req[r] \in {"sent", "done"}
    /\ \A q \in Request : q > r => req[q] = "new"
    /\ unUsedAsync' = Append(unUsedAsync, Here(r))
    /\ pc' = "idle"
    /\ UNCHANGED <<frame, req, frames, values, ctx, fd, replies, out, netVars,
                   events, loop, client, status, strayed>>

\* The rest of aeCreateFileEvent, and mget2 returns true.
Register(r) ==
    /\ pc = "register" /\ req[r] \in {"sent", "done"}
    /\ \A q \in Request : q > r => req[q] = "new"
    /\ events' = [f \in Fds |->
                    IF Here(r) \in Live /\ f = fd[Here(r)] /\ f < SetSize
                      THEN [events[f] EXCEPT !.context = Here(r)]
                      ELSE events[f]]
    /\ pc' = "idle"
    /\ UNCHANGED <<frame, req, frames, values, unUsedAsync, ctx, fd, replies,
                   out, netVars, loop, client, status, strayed>>

Mget2(r) ==
    \/ BorrowPooled(r) \/ BorrowNew(r) \/ BorrowFails(r)
    \/ BorrowUndefined(r) \/ Submit(r) \/ SubmitUndefined(r) \/ Register(r)
----------------------------------------------------------------------------
(* AEThread: aeMain                                                        *)

\* aeApiPoll has reported the descriptor, and the mask still has the event.
Fires(a, e) ==
    /\ loop \in {"running", "stopping"}
    /\ a \in Live
    /\ fd[a] < SetSize /\ e \in events[fd[a]].mask
    /\ e = "r" => in[a] # << >> \/ ctx[a] = "eof"

Known(a) == events[fd[a]].context = a

\* The mask is there, but the handler and clientData are not yet.
FiresWild(a) ==
    /\ \E e \in {"r", "w"} : Fires(a, e)
    /\ ~Known(a)
    /\ Crash

\* redisAsyncHandleWrite: the buffer, or what the socket takes of it.  When
\* it is empty, delWrite; then addRead.
HandleWrite(a) ==
    /\ Fires(a, "w") /\ Known(a)
    /\ ctx[a] = "open"
    /\ out[a] # << >>
    /\ wire' = [wire EXCEPT ![a] = Append(@, Head(out[a]))]
    /\ out' = [out EXCEPT ![a] = Tail(@)]
    /\ events' = [events EXCEPT ![fd[a]].mask =
                    IF Len(out[a]) = 1 THEN {"r"} ELSE {"r", "w"}]
    /\ UNCHANGED <<callerVars, req, frames, values, unUsedAsync, ctx, fd,
                   replies, in, closes, loop, client, status, strayed>>

\* redisAsyncHandleRead and mget2Callback: the values go to the user's
\* callback, and what now is in the frame of its mget2 goes to the pool.
HandleReply(a) ==
    /\ Fires(a, "r") /\ Known(a)
    /\ in[a] # << >>
    /\ client
    /\ LET r == Head(replies[a])
       IN  /\ req' = [req EXCEPT ![r] = "done"]
           /\ values' = [values EXCEPT ![r] = Append(@, Head(in[a]))]
           /\ unUsedAsync' = Append(unUsedAsync, Here(r))
           /\ strayed' = (strayed \/ Here(r) # a)
    /\ replies' = [replies EXCEPT ![a] = Tail(@)]
    /\ in' = [in EXCEPT ![a] = Tail(@)]
    /\ UNCHANGED <<callerVars, frames, ctx, fd, out, wire, closes, events,
                   loop, client, status>>

\* The connection has ended, and no request is waiting: the context is
\* freed.  redisAeCleanup stops the loop ("停止eventloop").
HandleEof(a) ==
    /\ Fires(a, "r") /\ Known(a)
    /\ ctx[a] = "eof" /\ in[a] = << >>
    /\ replies[a] = << >>
    /\ ctx' = [ctx EXCEPT ![a] = "free"]
    /\ fd' = [fd EXCEPT ![a] = Null]
    /\ events' = [events EXCEPT ![fd[a]] = [mask |-> {}, context |-> Null]]
    /\ loop' = "stopping"
    /\ UNCHANGED <<callerVars, req, frames, values, unUsedAsync, replies, out,
                   netVars, client, status, strayed>>

\* mget2Callback with a NULL reply, or after the client was deleted.
CallbackUndefined(a) ==
    /\ \E e \in {"r", "w"} : Fires(a, e)
    /\ Known(a)
    /\ replies[a] # << >>
    /\ \/ ctx[a] = "eof" /\ in[a] = << >>
       \/ ~client /\ in[a] # << >>
    /\ Crash

\* The events that were reported are handled; then aeMain sees eventLoop->stop
\* and AEThread ends.
LoopEnds ==
    /\ loop = "stopping"
    /\ loop' = "ended"
    /\ UNCHANGED <<callerVars, req, frames, values, unUsedAsync, ctx, fd,
                   replies, out, netVars, events, client, status, strayed>>

Handle(a) ==
    \/ FiresWild(a) \/ HandleWrite(a) \/ HandleReply(a) \/ HandleEof(a)
    \/ CallbackUndefined(a)
----------------------------------------------------------------------------
(* The proxy (external) and ~CodisClient.                                  *)

Answer(a) ==
    /\ ctx[a] = "open"
    /\ wire[a] # << >>
    /\ in' = [in EXCEPT ![a] = Append(@, Head(wire[a]))]
    /\ wire' = [wire EXCEPT ![a] = Tail(@)]
    /\ UNCHANGED <<callerVars, req, frames, values, unUsedAsync, ctx, fd,
                   replies, out, closes, events, loop, client, status, strayed>>

ProxyCloses(a) ==
    /\ ctx[a] = "open"
    /\ closes < MaxCloses
    /\ closes' = closes + 1
    /\ ctx' = [ctx EXCEPT ![a] = "eof"]
    /\ UNCHANGED <<callerVars, req, frames, values, unUsedAsync, fd, replies,
                   out, wire, in, events, loop, client, status, strayed>>

\* ~CodisClient waits for synchronous calls only; the loop goes on.
DeleteClient ==
    /\ client
    /\ client' = FALSE
    /\ UNCHANGED <<callerVars, req, frames, values, unUsedAsync, ctx, fd,
                   replies, out, netVars, events, loop, status, strayed>>

Running(A) == status = "running" /\ A

\* Nothing is left to do, or nothing is defined any more.
Rests ==
    /\ \/ status = "crashed"
       \/ pc = "idle" /\ (client => \A r \in Request : req[r] # "new")
    /\ UNCHANGED vars

Next ==
    \/ \E r \in Request : Running(StartCall(r) \/ Mget2(r))
    \/ \E f \in Frames : Running(ReuseStack(f))
    \/ \E a \in Addr : Running(Handle(a) \/ Answer(a) \/ ProxyCloses(a))
    \/ Running(LoopEnds \/ DeleteClient)
    \/ Rests

Spec == Init /\ [][Next]_vars

\* AEThread serves the contexts it is told of, a call of mget2 goes on, and
\* the proxy answers on the connections it keeps.
FairSpec ==
    /\ Spec
    /\ \A a \in Addr : /\ WF_vars(Running(Handle(a)))
                       /\ WF_vars(Running(Answer(a)))
    /\ \A r \in Request : WF_vars(Running(Mget2(r)))
----------------------------------------------------------------------------
(* What mget2 promises.                                                    *)

Pooled == Range(unUsedAsync)

\* Every variable has a value the program can give it; the loop's table has
\* no entry for a descriptor that is out of its range.
TypeOK ==
    /\ pc \in {"idle", "borrow", "submit", "register"}
    /\ req \in [Request -> {"new", "asked", "sent", "refused", "done"}]
    /\ frame \in [Request -> Frames \cup {Null}]
    /\ frames \in [Frames -> Addr \cup {Null, Junk}]
    /\ values \in [Request -> Seq(Request)]
    /\ unUsedAsync \in Seq(Addr \cup {Null, Junk})
    /\ ctx \in [Addr -> {"free", "open", "eof", "lost"}]
    /\ fd \in [Addr -> Fds \cup {Null}]
    /\ \A q \in {replies, out, wire, in} : q \in [Addr -> Seq(Request)]
    /\ closes \in 0..MaxCloses
    /\ events \in [Fds -> [mask : SUBSET {"r", "w"},
                           context : Addr \cup {Null}]]
    /\ \A f \in Fds : f >= SetSize => events[f].mask = {}
    /\ loop \in {"running", "stopping", "ended"}
    /\ client \in BOOLEAN /\ strayed \in BOOLEAN
    /\ status \in {"running", "crashed"}

\* Each request is refused or its callback runs once, with the values of its
\* own keys: also when stray frames make two requests share a connection.
state == [r \in Request |-> IF req[r] = "sent" THEN "asked" ELSE req[r]]
Promise == INSTANCE Requests WITH
    Request <- Request, state <- state, values <- values
OneOwnAnswer == Promise!Spec

\* Each request that was refused, and nothing else, has cost the process one
\* context.  As long as every callback has found its own context in the frame
\* and no connection has ended: no context is twice in the pool, none of the
\* pool is working on a request, and every other context is in the pool, in
\* the hands of mget2 or working.
Held == {Here(r) : r \in Asked \cap {q \in Request : pc = "submit"}}
Working == {a \in Live : replies[a] # << >>}
Refused == {r \in Request : req[r] = "refused"}
PoolSane ==
    /\ Cardinality(Lost) = Cardinality(Refused)
    /\ ~strayed /\ closes = 0 =>
        /\ \A i, j \in DOMAIN unUsedAsync :
              unUsedAsync[i] = unUsedAsync[j] /\ i # j
                => unUsedAsync[i] = Null
        /\ Pooled \cap (Working \cup Held) = {}
        /\ Live = (Pooled \ {Null}) \cup Held \cup Working

\* A request whose mget2 returns true is answered, unless the process has
\* crashed, a connection has ended (which stops the loop for all of them) or
\* the request's descriptor is out of the loop's range.
Unserved(r) == \E a \in Live : r \in Range(replies[a]) /\ fd[a] >= SetSize
SentIsAnswered ==
    \A r \in Request :
        req[r] = "sent" ~> \/ req[r] = "done"
                           \/ status = "crashed" \/ closes > 0
                           \/ Unserved(r)
=============================================================================
