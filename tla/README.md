# A TLA+ development for CodisClient

CodisClient is a set of clients (C++, Java, Python) for Codis, a sharded Redis:
stateless proxies in front of the servers, registered in ZooKeeper. A client
finds the proxies there, spreads its calls over them, keeps connections to
them, sends commands whose keys carry a *business ID*, and retries what fails.
This directory models the parts of the clients in which order, concurrency and
failure matter, model-checks them with TLC and proves some of the results with
TLAPS. Paths below are relative to the repository.

## 1. Inventory

| Component | State | Operations | What makes it correct |
|---|---|---|---|
| `CodisClient` (`cpp/src/CodisClient.cpp`), synchronous | `m_ConnPool`, `p_rwlock` | `RedisCommand` (all commands end there), destructor | a caller gets the reply to its own command; a context belongs to one thread; the destructor waits for the calls; a timed call returns |
| `RedisClientPool` (`cpp/src/RedisClientPool.cpp`) | `unUsed_`, `used_`, `mutex_` | `borrowItem`, `returnItem`, `Reconnect`, `Destroy`, and the same for asynchronous contexts | no context is pooled twice, leaked, or reused after an error |
| `CodisClient::mget2`, `AEThread`, `mget2Callback`, with the file events of `ae.c` and the adapter `hiredis_ae.h` | event loop, asynchronous contexts, `unUsedAsync_` | one request, one callback in another thread | every request is refused or answered once, with its own values; a pooled context is idle |
| `RoundRobinCodisPool` (`cpp/src/RoundRobinCodisPool.cpp`) | `m_Zh`, `m_Proxys`, `proxyIndex` | constructor, `proxy_watcher`, `Init`, `GetProxy` | every client object has one owner; the list converges to the proxies that are online; the index fits the list; turns are fair |
| `BfdCodis` (`cpp/src/BfdCodis.cpp`) | `m_Pool` | each call is `m_Pool->GetProxy()->call()` | a call finds its client (it does until the list is replaced, section 4) |
| `RoundRobinJedisPool` (Java) | `pools` (volatile), `nextIdx`, Curator's cache | constructor, listener, `resetPools`, `getResource`, `close` | the list holds open pools, follows the proxies, keeps the pools that stay; the index fits the list the call has read |
| `BfdJodis` (Java) | the pool | sixty calls of one shape: try, and once more in the handler | a Jedis instance is given back; the second attempt goes elsewhere |
| `BoundedExponentialBackoffRetryUntilElapsed` (Java) | limits | `getSleepTimeMs`, `allowRetry` | sleeps in their bounds, none after the limit, retries end |
| keys (`RedisCommand`, `AddBid*`, `__convertKey`) | none | which arguments get the business ID | businesses do not see each other's keys |
| `BfdCodis.py` (Python) | `__connPool`, its index, the module's lock, the KazooClient | `__init__`, `__InitFromZK`, `__watcher`, `__getProxy`, calls with one retry, `close` | the lock is always given back; the index fits the list; the list follows the proxies; the retry goes elsewhere |
| `Command`, `Reply`, `Utils`, `Log`, `ScopedLock`, `JedisPoolAdaptor` | values | argument lists, conversions | sequential; not modelled |
| `ae_select.c`, timers of `ae.c`, `zmalloc.c`, the rest of `3party` | | | vendored; not used or headers only |

How they interact: an application thread enters `BfdCodis`, which takes a raw
`CodisClient*` from `RoundRobinCodisPool::GetProxy` under `m_Mutex` and calls
it after the mutex has been released. `CodisClient::RedisCommand` holds
`p_rwlock` for reading from the borrow to the return of a context.
ZooKeeper's completion threads run `proxy_watcher`, which rebuilds the list and
deletes the old clients; their destructors take `p_rwlock` for writing. On the
Java side a Curator listener thread runs `resetPools` while application threads
read the volatile list and move `nextIdx` by compare-and-set. `mget2` writes its
request in the caller's thread and gets its answer in `AEThread`, which returns
the context to the asynchronous pool. In Python, Kazoo's callback thread and the
constructor build the list under the module's lock, and calls take a connection
from it under the same lock; `close()` takes no lock.

What is hard: pointers used after the lock that protected them is released;
contexts that are freed and replaced in the middle of a call; answers that come
after a timeout; one-shot watches; two threads that rebuild one list; an `int`
index that overflows; the address of a local variable that outlives its call; a
lock that an exception leaves taken; retries of commands that were executed. `PROJECT.json`
lists these under `hazards`, each at its line.

## 2. Modules

| Module | Models | Built on |
|---|---|---|
| `CodisClient` | synchronous `CodisClient` and `RedisClientPool` | |
| `CodisClientProofs` | theorems | `CodisClient` |
| `Requests` | abstract: a request is refused, or answered once with its own values | |
| `MgetAsync` | `mget2`, its callback, the asynchronous pool and the event loop | refines `Requests` |
| `MgetAsyncProofs` | theorems, the refinement among them | `MgetAsync` |
| `RoundRobinCodisPool` | C++ discovery, with the callers through `BfdCodis` | |
| `RoundRobinCodisPoolProofs` | theorems | `RoundRobinCodisPool` |
| `RoundRobinJedisPool` | the Java pool | |
| `RoundRobinJedisPoolProofs` | theorems | `RoundRobinJedisPool` |
| `BfdJodis` | attempts, retry and instances of the Java calls | `RoundRobinJedisPool` |
| `BfdJodisProofs` | theorems about the composition | `BfdJodis`, `RoundRobinJedisPoolProofs` |
| `BfdCodisPy` | the Python client | |
| `BfdCodisPyProofs` | theorems | `BfdCodisPy` |
| `BackoffRetry` | the retry policy of the Java pool's ZooKeeper client | |
| `BackoffRetryProofs` | theorems | `BackoffRetry` |
| `KeySpace` | abstract: one map for each business | |
| `Commands` | the keys that are sent, over one shared store | refines `KeySpace` |
| `CommandsProofs` | the refinement as a theorem | `Commands` |
| `MC*` | values for TLC | |

### CodisClient

A `redisContext` is its address, since `Reconnect(redisContext* context)`
replaces its own copy of the caller's pointer: it frees the old context,
connects, and stores the new address in its parameter. The allocator's choice
of the new address is an existential; `moved` records that it differed once.
`pc` follows a call: `rdlock` (before line 979), `borrow` (980), `send` (995),
`wait` (inside `redisCommandArgv`), `reconnect` (999), `resend` (1003),
`rewait`, `return` (1025), `unlock` (the guard's destructor). `borrowItem`,
`returnItem` and `Reconnect` hold the pool's mutex from end to end and are one
step each. `pipe[a]` is the queue of answers a proxy owes on a connection, which
is what a late answer is made of. The proxy may close any connection at any
moment (`ServerClose`): hiredis does not see it before it writes or reads
(`"closed"` against `"err"`). `CallRefused` and `BorrowNull` are the two sides of
the test of `m_ConnPool` that is made before the lock is taken.

Two details are abstract: `used_` and `maxSize_` are never read by the code, and
`AUTH` is never sent since no caller passes a password.

### MgetAsync and Requests

A call of `mget2` is four places: `borrow` (`borrowItemAsync`, line 244), `submit`
(writing the request and its callback, 253-261), `register` (the second half of
`aeCreateFileEvent`, which writes the handler after the mask) and the return.
`mget2` hands its callback the address of its local `async_context`; `frames`
holds what is at each such place now, and `ReuseStack` is every other use of the
caller's stack. What the callback finds there it puts into the pool: `strayed`
records that it was not its own context. A context whose connection failed is
`"lost"`: `createAsync` drops the pointer without freeing it (`BorrowFails`), and
`mget2` puts the NULL it got into the pool. A connection is three queues of requests,
`out` (hiredis' buffer), `wire` (at the proxy) and `in` (answers), next to
`replies`, the callbacks that hiredis has for it. `Handle` is what `aeProcessEvents`
does for one ready descriptor: write, read and call back, or see the end of the
connection, upon which hiredis calls what is left with NULL and the adapter stops
the loop. `events` is the loop's table, `SetSize` its 64 entries: `Watch` refuses
a descriptor that does not fit, and nobody looks. Whatever is undefined in C++
(a stray or NULL pointer that is used, a context freed under `mget2`, a handler that is not
there yet, a callback into a deleted client) sets `status` to `"crashed"`.

The refinement maps `"sent"`, which only the caller can tell from `"asked"`, to
`"asked"`; the rest of the state is the list of answers each request got.

### RoundRobinCodisPool

Workers `0` (the constructor) and `s` (the completion thread of session `s`) go
through `GetProxyInfos`, `InitProxyConns` (the swap under `m_Mutex`, then the
deletion of the old clients one by one, `DeleteClient`, which waits for the commands
that hold the client's lock) and return. A call is `got` (it has the pointer), `in` (its
command holds `p_rwlock`), `next` (`RedisCommands` between two commands, without the
lock) or `async` (`mget2` and its callback, which never take it); `outdated` records
that the list has been replaced since the call got its pointer. What goes on in a
deleted client is a crash (`UseDeleted`). ZooKeeper is external: nodes with data, a child watch
that fires once, an event queue per session. An expired or lost session closes
`m_Zh` and opens another. `exit(1)` and a handle that was closed under a request
end the run (`status`). `proxyIndex` is an `int` of `IntRange` values, converted
to a `size_t` of `SizeRange` values before the modulo. Two history
variables are the excuses of properties: `overlapped`, two Inits have run at once, and
`ignored`, the proxies that have changed their state in place (the event of which the
code ignores) since their node was read last.

### RoundRobinJedisPool and BfdJodis

`ReadPools`, `BuildList`, `PublishPools`, `CloseRemoved` and `ResetDone` are the
stretches of `resetPools` between its accesses to shared state, in `main` (the
constructor) and in `listener`. `close()` is three steps, after which the
listener's thread ends with the reset it is in. `getResource` reads
the volatile list (`GetPools`), moves `nextIdx` (`PickPool`: the
compare-and-set loop takes effect at its last, successful, iteration) and borrows.
`BfdJodis` adds the two attempts; all sixty operations have the same shape, and
`map` gives each action a different stretch of them.

### BfdCodisPy

Workers `"main"` (the constructor, and later `close()`) and `"callback"` (Kazoo's
thread, with one queue of events) run `__InitFromZK`: `Begin` takes the lock,
`StartZk`, `GetChildren` and `GetNode` are its calls of Kazoo, each of which sets
a watch, `Fill` opens one connection after the other and `InitDone` releases. An
exception on the way (`NodeGone`, `ZkFails`) is caught by the code and ends in
the same release. `__getProxy` is two steps, since `close()`, which takes no lock,
may empty the list between its test and its use: `TakeFails` is the IndexError that
leaves the lock taken, and `torn` the history variable that records it. After an
expired session the code makes a KazooClient that it never starts. A call makes
one more attempt after a `ConnectionError`.

### BackoffRetry

`getSleepTimeMs` with its widths: the random factor is an `int`, the product a
`long`. `Curator`'s loop, which calls `allowRetry`, is external.

### Commands and KeySpace

`Inner` is the loop of `RedisCommand` that prefixes keys (`IsKey`), the same for
Java's `AddBid`/`AddBids` and Python's `__convertKey`; `AddBidsDiv` is Java's
own helper for `mset`. `Abstract == INSTANCE KeySpace` maps the shared store to a
map per business by `view`. `SET`/`GET` stand for every command whose only key
is its first argument.

## 3. Runs

All runs take between seconds and two minutes.

| Run | Instance | Shows |
|---|---|---|
| `client` | 2 threads, one with a timeout; 3 addresses | ownership, no leak but the contexts a call gives up after its second NULL reply, bound of connections, replies match, no use after free until a `Reconnect` moves, destructor; a timed call returns |
| `client_resend` | 2 threads, 2 addresses | **violation** |
| `discovery` | 2 proxies, 4 clients, 1 user, 2 sessions, 2 changes, overlapping Inits, `int` of 4 values | one owner per client object, a call finds its client until the list is replaced (and with the lock also afterwards), index in range, fair turns; the list at rest is what is online; the handle in use is open |
| `jedis_detects` | 2 nodes, 1 thread, 3 changes, resets in sequence, `close()` | list holds open pools, pools accounted, every change arrives, `close()` closes all in the end, or all but one pool per node if it overlaps a reset |
| `jedis_stale` | the same, 2 changes, overlapping resets | **violation** |
| `jodis` | 2 threads, 2 instances per pool, 1 fault, 1 change, overlapping resets | index, turns, at most two attempts, retry elsewhere, instances; no deadlock |
| `jodis_leak` | 1 thread, 1 fault | **violation** |
| `python` | 2 proxies, 2 threads, 1 change, 1 lost connection to ZooKeeper, 2 failed connections, `close()` | the lock, the index, turns, the retry, the list converges |
| `mget` | 3 calls, 2 contexts, 2 frames, 3 descriptors of which one is out of range, 1 closed connection | refinement of `Requests`; the pool, and the context that each refused request costs; every request that was sent is answered |
| `backoff` | `int` of 5 bits, `long` of 9 | bounds of the sleeps, the limit (exceeded by one attempt at most), termination |
| `keyspace` | 2 businesses, 3 keys, 2 values | refinement of one map per business |
| `keyspace_mset` | a Java business that calls `mset` | **violation** |

Why the bounds are enough: two threads are what any of the races takes; with a
third address the allocator can give a `Reconnect` an address that is neither the
old one nor another thread's; four client objects are two generations of two
proxies, so an old and a new list exist together; two sessions make one overlap
of completion threads; three changes let a proxy come, go and come back; two frames and three calls let a callback find its own context, that of a later
call, or junk, and put it into the pool before another call borrows it; two failed
connections let both attempts of a call fail; an
`int` of four values overflows within the run, and keeps what matters of the real
widths: the number of values of `size_t` is a multiple of that of `int`. For
threads and addresses the theorems below hold without a bound.

Every property has a mutant in `PROJECT.json`: a form of one definition with a
plausible bug, defined next to it, under which TLC refutes the property.

### Fairness

* `CodisClient!FairSpec`: a thread that can go on does so, and a destructor that
  has begun ends. There is no fairness for the proxy (it may never answer) nor for
  new calls. `Timeout` is part of `Proceed`, because `redisSetTimeout` makes the
  kernel end a read; a call without a timeout has no such step and may wait for
  ever, as the repository's README says.
* `MgetAsync!FairSpec`: `AEThread` serves each context it has been told of, a call of
  `mget2` goes on, and the proxy answers on the connections it keeps (without that no
  client could promise an answer). Nothing for `ProxyCloses`, `ReuseStack`,
  new calls or the deletion of the client.
* `BfdCodisPy!FairSpec`: Kazoo's thread takes its events, `__InitFromZK` and a
  `__getProxy` that holds the lock go on; `Begin` is strongly fair, since the lock is
  released again and again and the calls in between spend their time in the network.
  Nothing for ZooKeeper, new calls or `close()`.
* `RoundRobinCodisPool` needs none: that its list follows the proxies is stated as the
  invariant `ListIsCurrent`, about every state in which the threads are at rest.
* `RoundRobinJedisPool!FairSpec`: Curator delivers what changed, threads in
  `resetPools` run, and a `close()` that has begun goes on, since each is a thread that
  waits for nobody. Nothing for ZooKeeper, callers, or that `close()` is called.
* `BackoffRetry!FairSpec`: an attempt ends and the policy is asked. `RetriesEnd`
  needs a limit that is not negative: with `-1` (no limit), which
  `RoundRobinJedisPool` passes, the retries rightly never give up.

## 4. Disagreements found

* `client_resend`: `Reconnect` takes its pointer by value, so the command is sent
  again on freed memory unless the allocator returns the same address
  (`cpp/src/CodisClient.cpp:999-1003`). All statements about contexts therefore say
  `~moved =>`: they are what the client guarantees until that happens.
* `jedis_stale`: the constructor's `resetPools` may publish an older list over the
  listener's newer one.
* `jodis_leak`: a command that throws never closes its Jedis.
* `keyspace_mset`: `mset` of `BfdJodis` sends its keys without the business ID.

Two more are in `mget2`. No run of their own reports them; run `mget` has their behaviour:

* The comment at `cpp/src/CodisClient.cpp:287` says that the callback puts
  `async_context` back into the pool. The callback gets the address of the local variable
  of that name (line 256), whose place on the stack is used again by the time it runs, and
  puts back what it finds there: another context, or what is none. `strayed` records it,
  and `PoolSane` promises its second half only until then.
* `createAsync` says "FIXME: no need to free" (`cpp/src/RedisClientPool.cpp:159`) of a
  context whose connection failed. Nobody else has the pointer, so each refused request
  costs one context (`Lost`, counted by `PoolSane`); and `mget2` puts the NULL it got into
  the pool, where the next call reads through it (`BorrowUndefined`).

Further behaviour of the models that no run reports as a disagreement, since no
document says otherwise:

* `proxy_watcher` deletes the clients of the list it replaces, and only a command that
  holds the read lock keeps its client. One that has the pointer and not yet the lock,
  `RedisCommands` between two commands and a pending `mget2` go on in a deleted client
  (`UseDeleted` in `RoundRobinCodisPool`; `CallFindsClient` excuses exactly these, by
  `outdated`). `BfdCodis.h` and `CodisClient.h` say only that `mget2` is not for several
  threads.
* A retry after a timeout or a lost reply executes the command a second time
  (`delivered` in `CodisClient`; the same in `BfdJodis` and in Python).
* `m_ConnPool` is tested before the lock is taken, so a call may dereference NULL next
  to the destructor (`BorrowNull`). `~BfdCodis` assigns (`m_Pool = NULL`) where it means
  to compare, so the pool's destructor never runs and is not modelled.
* With overlapping Inits the one that has read the older children may publish last,
  and one may close `m_Zh` under the other: `ListIsCurrent` and `HandleIsOpen`
  excuse both by `overlapped`, and fail without it. A proxy that changes its state in place
  is not noticed until something else makes the pool read the nodes: `ListIsCurrent`
  compares all proxies but these (`ignored`).
* `mget2` and `AEThread` use one context without a lock, which the model takes for a
  crash where they meet; a connection that ends with no request on it stops the loop for
  good (`SentIsAnswered` and `PoolSane` excuse it by `closes`).
* Python's `close()` next to a call can leave the module's lock taken for ever, for
  every client of the process; a lost connection to ZooKeeper can cost the watches, and
  an expired session is never replaced by one that is started. `LockDiscipline`
  excuses the first (`torn`), `Convergence` the second (`disrupted`).
* Java's `close()` next to a running reset leaves the pools open that the reset
  publishes later: at most one per node, says the second half of `CloseIsComplete`.
* If two nodes advertise one address, `addr2Pool` knows only one of their two pools: the
  next reset drops the other without closing it and opens a new one (`PoolsAccounted`
  is checked and proved for one node for each address).
* Business IDs with `_` in them can make two full keys coincide (`a` + `b_c`,
  `a_b` + `c`), which `CommandsAssumption` excludes.

## 5. Proofs

`CodisClientProofs`: for all finite sets of threads and addresses, `Spec` implies
`TypeOK`, `Ownership`, `PooledHaveNoError`, `NoLeak`, `PoolBound`, `ReplyMatches`,
`NoUseAfterFree` and `PoolOutlivesBorrowers`: all safety invariants of run
`client`. None is inductive alone. `Ownership` is kept by `returnItem` only if a thread
in `return` holds a context, so `PcInv` ties `redis`, `readers` and `delivered` to
`pc`; it is kept by `create` only if contexts that are free are nobody's, which is
the account `Accounted` (open and not lost iff pooled or held, element by element);
`ReplyMatches` needs that a connection is only waited on when it owes no other answer,
and so that a pooled one owes none (`PipeInv`), which in turn needs that every
error path frees or reconnects (`ReturnOk`). The inductive invariant is

    IInv == TypeOK /\ PcInv /\ DtorInv /\ LostInv /\ (~moved => CtxInv /\ PipeInv)

`PoolBound` takes one more lemma (`OnlyCreateGrows`): the number of accounted
contexts grows only in `create`, when the pool is empty and so every one is held by
another thread. Assumption: `ClientAssumption`.

Two more theorems are the safety half of `TimedCallReturns`, in every state, also
after a `Reconnect` has moved. `CallGoesForward`: each step of a call leaves it fewer
steps than it had (`StepsLeft`, nine at first), so that a call sends its command
twice at most. `NeverStuck`: a thread in a call has a step to take, or waits for the
destructor to finish, which by then waits for no call (`readers` is empty), or, without a
timeout, for the proxy while the destructor has to wait for it. That `borrowItem`'s loop
has an outcome for every list (`LoopAlwaysEnds`) takes the smallest place of the list
at which it stops (`Smallest`, from the library's theorem that `<` on the naturals is
well-founded).

`BackoffRetryProofs`: for every base, maximum and limit, every sleep is in
`0..maxSleepTimeMs` (`SleepBounded`) and ends before the limit
(`SleepsBeforeDeadline`), and the time that has passed is over the limit by one attempt
at most (`TypeOK`; `BeginsInTime`: no attempt begins after it). The heart is
`ProductFits`: base times random factor is at most an `int` times the largest power of
two, and so a `long` (`BackoffAssumption`); the same product in an `int` would not fit.
`EverySleepCounts` is the safety half of `RetriesEnd`: the factor is at least 1, so each
retry brings the time forward by the base (or the maximum), or to the limit.

`CommandsProofs`: for all business IDs and keys, if no business calls `mset` of
`BfdJodis`, `Spec` implements `KeySpace` (`SeparateMaps`): initial states map to
initial states and every command to a `Write` or a `Read` of its own business. The
argument is `FullKeysDiffer`: an ID holds no separator, so the first one in a full key
ends the ID, and two equal full keys have the same ID and the same key, whatever the
keys look like. `StoredAt` is about a key that comes twice in one `MSET`. Assumption:
`CommandsAssumption`.

`RoundRobinJedisPoolProofs`: for any threads, nodes and lists, `getResource` never
indexes outside the list it has read (`PickInRange`) and serves the proxies of a list in
turn (`RoundRobin`), in the pool under callers that close what they get (`Spec`; TLC
checks both under `BfdJodis` too). `PickInRange` needs that lists are sequences, that
`nextIdx` is at least -1 and that a thread past the test for an empty list holds a
nonempty one (`PickInv`); it needs no relation between `nextIdx` and the list, which is the
point of the test `>=` in the code. `RoundRobin` adds that the proxies which had a turn
in this round form an arc of the list that ends at `nextIdx` (`RoundInv`, `ArcGrows`).
`PublishedOpen` adds where a running reset is (`ResetInv`): while one resets at
a time and nobody has called `close()`, the list and the list that is being built hold
open pools, none of them among those the reset will close. It rests on the lemmas about
`resetPools`' map from addresses to pools (`RankOnto`, `MapFinds`, `Builds`: what is
reused is the pool the old list had for the address, what is new was not open before).
`PoolsAccounted` and `ClosedIsEmpty` (the safety half of `CloseIsComplete`: when `close()` has
returned and no reset runs, nothing is open and the list is empty) hold while resets do not overlap (`~Overlap`) and
no two nodes give one address (`OneNodeEach`). `AccountInv` is the reason:
open is what is in the list, or in the list about to be published, and what the
reset is still to close; so a reset that has run to its end leaves the list alone.
`ListIsCurrent` is the safety half of `DetectsProxies`, and needs no `OneNodeEach`: with
the cache up to date, no event waiting and no reset running, the list is the proxies that are
online. Its invariant (`CurrentInv`) says of each moment who will still look at the
cache: if no event waits and no reset has yet to read it, then the list that is built, or
published, has the addresses the cache has. Assumption: `JedisPoolAssumption`.

`BfdJodisProofs`: the calls of `BfdJodis` over that pool, with `resetPools` and
`close()` at any moment (`JodisSpec`). `RetryElsewhere`: until the second attempt picks,
`nextIdx` is where the first one left it unless somebody disturbed it (`LeftAlone`), and
the next place of a list of two or more is another one. `HeldIsBorrowed`: the number of
instances that are out of a pool is the number of threads that hold one of it, and at most
one more for each failed command, counted over a finite set of threads. `PickInRange` and `CallsTypeOK` are proved for
this composition too, and so is `RoundRobin`: of all the steps of a call only the picking
touches the round (`OnlyPickTurns`), in the second attempt as in the first.
Assumptions: `JedisPoolAssumption`, `FaultsAssumption`.

`RoundRobinCodisPoolProofs`: all invariants of run `discovery`, for any proxies, users,
clients, sessions and widths of the counter. The inductive invariant is

    PoolInv == TypeOK /\ HandleInv /\ DeleteInv /\ UserInv /\ OwnInv /\ CallInv

`OwnInv` accounts for every client: it exists iff it is in the published list or in
what one thread is about to delete, never twice, also when Inits overlap, since the
swap under `m_Mutex` hands each old list to one thread. `CallInv` says where a call's
client is: in the list until that is replaced, and allocated while the call holds the lock;
with `OwnInv`, what a thread deletes is no longer in the list, and so `CallFindsClient`. `HandleInv` says that sessions
before `m_Zh` are closed and that whoever closes `m_Zh` opens the next one before he
does anything else, so that a closed `m_Zh` in use takes two Inits at a time.
`GetProxyInRange` needs only that the list is not empty. `ListIsCurrent` is the deepest:
`FreshInv` says that unless something is pending that reads everything again, the child
watch is set and the part of the nodes that a thread has read so far is right (a node
that has gone or come since would have fired the watch), and `ConnInv` that
a session which is not connected has an event or a thread to see to it. Assumption:
`PoolAssumption`.

`RoundRobin` of this pool: the clients that had a turn in this round form an arc of the
list that ends where `proxyIndex` points (`RoundInv`). The arc grows by one, because
between two turns `proxyIndex` goes up by one, and so does its remainder as a `size_t`
(`IndexGoesOn`, `ModStep`) unless the `int` overflows or comes back from the negatives
(`Wraps`, the excuse the property names): the width of `size_t` need not be a multiple of
the list's length.

`MgetAsyncProofs`: `Spec` implements `Requests` (`OneOwnAnswer`), for any numbers of
calls, contexts, frames and descriptors, and also after the callbacks have put other contexts
into the pool than their own. The reason is `QueuesMatch`: the callbacks hiredis keeps for
a context are always the answers that have arrived, followed by the commands at the
proxy and those not yet written, so that whoever shares a connection shares its order;
and every request waits once, at one context (`WaitsOnce`). `PoolSane` holds while every
callback has found its own context (`~strayed`) and no connection has ended: a context
then works on one request at a time (`OneAtWork`), and those in the pool, in the
hands of `mget2` and at work make up all that have a connection (`Sane`). Its first half holds
always: only `BorrowFails` makes a context lost and a request refused, one of each
(`LossInv`, with `FailsLoses` for the two cardinalities).
`NeverStranded` is the safety half of `SentIsAnswered`, also after callbacks have
returned other contexts than their own. A request that was sent is in one of the three
queues of a live context, and whoever has to serve the first of them can: `mget2` and
the loop both change the mask of a descriptor, and after each of their steps it has the
event for each queue that is not empty (`Armed`). It rests on `OwnFds` (no two contexts
share a descriptor, and a descriptor nobody uses has no event in the table) and on `Told`:
a context with events is the one the table names, or the last call of `mget2` is about
to name it (`OrderInv` makes "the last" unique). Assumption: `MgetAssumption`.

`BfdCodisPyProofs`: `TypeOK`, `LockDiscipline`, `IndexInRange` and `RetryElsewhere`. The
lock, the list and the index are proved together (`PyInv`): the index is computed under
the lock from the list it is used for, and only `close()` touches the list without it.
`RetryInv` adds that a first attempt nobody disturbed has left its place in the index.
The bound of the index in `TypeOK` holds because no list has a proxy twice, so that none is
longer than there are proxies (`PoolBounded`, `IndexBound`).
`RoundRobin` is the argument of arcs again (`Arc`, `Successor`), with one step for
each kind of change of the list or of the index (`RoundKinds`). `ListIsCurrent`
is the safety half of `Convergence`: as long as nothing was disrupted or closed, and
unless an event waits or an init is about to read everything again (`Pending`), the child
watch is set, what has been read is what ZooKeeper has, and each node that was read
has its data watch (`FreshInv`); a change of the nodes takes a one-shot watch away only by
queueing its event (`ChangeKeepsCurrent`).
Assumption: `PyAssumption`.

The assumptions say no more than the code justifies: the sets the code holds in memory
are finite, the values that stand for `NULL` and "none" are no members of them, bounds
are numbers, and the width of `size_t` is a multiple of that of `int`.

Only model-checked: the liveness properties (`TimedCallReturns`, `SentIsAnswered`,
`Convergence`, `DetectsProxies`, `CloseIsComplete`, `RetriesEnd`), which are out of the prover's reach.
Their safety halves are theorems: `CallGoesForward` with `NeverStuck`, `NeverStranded`,
`ListIsCurrent` of the Python and of the Java pool, `ClosedIsEmpty` for the first half of
`CloseIsComplete`, and `EverySleepCounts`. What these
leave to TLC is the step from "somebody has something to do, and it brings the end nearer"
to "it happens", which takes the fairness of section 3. `PoolsAccounted` and
`CloseIsComplete` are checked, and `PoolsAccounted` and `ClosedIsEmpty` proved, where no two nodes give one address: without
that they do not hold (section 4).

## 6. Not modelled

The arguments and conversions of single commands, the limit of 1M on values; an empty
`m_BID`; out-of-memory in hiredis (but for a context of `mget2`); the timers of `ae.c` (nothing creates one);
`Command`, `Reply`, `Utils`, `Log` and `JedisPoolAdaptor`, which are sequential and
decide nothing; `ae_select.c` and `zmalloc.c`, which the build does not use; the headers
of hiredis (but for `hiredis_ae.h`), jsoncpp, ZooKeeper and gtest. These headers are
most of the repository's lines; what of them the client calls is external in the models
that call it.

## 7. Plan

1. The commands of `CodisClient` that take lists of keys and values in other shapes than
   `MGET`, `MSET` and `DEL`.
