------------------------------ MODULE BfdJodis ------------------------------
(***************************************************************************)
(* The calls of BfdJodis.java over a RoundRobinJedisPool.  All of them are *)
(* written in the same way:                                                *)
(*                                                                         *)
(*     try   { jedis = pool.getResource(); ret = jedis.cmd(..);            *)
(*             jedis.close(); return ret; }                                *)
(*     catch (Exception e) { the same once more, not caught }              *)
(*                                                                         *)
(* Whatever command and arguments: modelled are the attempts, where each   *)
(* of them may throw, and what happens to the Jedis instance.  External:   *)
(* the proxy, which may execute a command whose reply is lost.             *)
(***************************************************************************)
EXTENDS RoundRobinJedisPool

CONSTANT MaxFaults  \* bound on the connections and commands that fail

ASSUME FaultsAssumption == MaxFaults \in Nat /\ IsFiniteSet(Threads)

VARIABLES
    attempt,  \* which of the two attempts a thread's call is in; 0: no call
    faults,   \* how many connections and commands have failed
    \* history: the list and the index of a call's first attempt, and whether
    \* another thread has picked since
    first, disturbed

callVars == <<attempt, faults, first, disturbed>>
allVars == <<vars, callVars>>

NoPick == [list |-> << >>, idx |-> -1]

JodisInit ==
    /\ Init
    /\ attempt = [t \in Threads |-> 0]
    /\ faults = 0
    /\ first = [t \in Threads |-> NoPick]
    /\ disturbed = [t \in Threads |-> FALSE]

\* The variables that a call touches in getResource only.
sharedVars == <<zkVars, pools, nextIdx, resetVars, poolVars, round>>

Fail ==
    /\ faults < MaxFaults
    /\ faults' = faults + 1

\* The call is over, and its history with it.
Finish(t) ==
    /\ pc' = [pc EXCEPT ![t] = "idle"]
    /\ attempt' = [attempt EXCEPT ![t] = 0]
    /\ Leave(t)
    /\ first' = [first EXCEPT ![t] = NoPick]
    /\ disturbed' = [disturbed EXCEPT ![t] = FALSE]
----------------------------------------------------------------------------
StartCall(t) ==
    /\ CallStarts(t)
    /\ attempt' = [attempt EXCEPT ![t] = 1]
    /\ UNCHANGED <<faults, first, disturbed>>

\* jedisPool.getResource(): the pick, and the rest of it.
Pick(t) ==
    /\ PickPool(t)
    /\ first' = IF attempt[t] = 1
                  THEN [first EXCEPT ![t] = [list |-> snap[t],
                                             idx |-> NextIdx(t)]]
                  ELSE first
    /\ disturbed' = [u \in Threads |->
                       disturbed[u] \/ (u # t /\ first[u] # NoPick)]
    /\ UNCHANGED <<attempt, faults>>

Obtain(t) ==
    /\ GetPools(t) \/ BorrowJedis(t) \/ BorrowThrows(t)
    /\ UNCHANGED callVars

\* The pool is open, but no connection to its proxy can be made.
ConnectFails(t) ==
    /\ pc[t] = "borrow"
    /\ Chosen(t) \in open
    /\ borrowed[Chosen(t)] < MaxTotal
    /\ Fail
    /\ pc' = [pc EXCEPT ![t] = "failed"]
    /\ UNCHANGED <<sharedVars, snap, idx, borrowed, attempt, first,
                   disturbed>>

\* Mutant: close() is forgotten.
CommandKeepsJedis(t) ==
    /\ pc[t] = "got"
    /\ Finish(t)
    /\ UNCHANGED <<sharedVars, borrowed, faults>>

\* The command, close() and return.
Command(t) ==
    /\ CloseJedis(t)
    /\ Finish(t)
    /\ UNCHANGED <<sharedVars, faults>>

\* The command throws, whether it was executed or not, and without close().
CommandFails(t) ==
    /\ pc[t] = "got"
    /\ Fail
    /\ pc' = [pc EXCEPT ![t] = "failed"]
    /\ UNCHANGED <<sharedVars, snap, idx, borrowed, attempt, first, disturbed>>

\* Mutant: the handler is entered for every exception, its own included.
CatchForever(t) ==
    /\ pc[t] = "failed"
    /\ pc' = [pc EXCEPT ![t] = "get"]
    /\ attempt' = [attempt EXCEPT ![t] = @ + 1]
    /\ Leave(t)
    /\ UNCHANGED <<sharedVars, borrowed, faults, first, disturbed>>

\* catch (Exception e)
Catch(t) ==
    /\ pc[t] = "failed" /\ attempt[t] = 1
    /\ pc' = [pc EXCEPT ![t] = "get"]
    /\ attempt' = [attempt EXCEPT ![t] = 2]
    /\ Leave(t)
    /\ UNCHANGED <<sharedVars, borrowed, faults, first, disturbed>>

\* An exception in the handler leaves the call.
Throw(t) ==
    /\ pc[t] = "failed" /\ attempt[t] = 2
    /\ Finish(t)
    /\ UNCHANGED <<sharedVars, borrowed, faults>>

Works(t) ==
    \/ Pick(t) \/ Obtain(t) \/ Command(t) \/ Catch(t) \/ Throw(t)

PoolStep ==
    /\ Zookeeper \/ Background \/ Close
    /\ UNCHANGED callVars

JodisNext ==
    \/ PoolStep
    \/ \E t \in Threads : \/ StartCall(t) \/ Works(t)
                          \/ ConnectFails(t) \/ CommandFails(t)

JodisSpec == JodisInit /\ [][JodisNext]_allVars
----------------------------------------------------------------------------
(* What the calls promise.                                                 *)

\* Every variable has a value the program can give it: no call makes a third
\* attempt.
CallsTypeOK ==
    /\ TypeOK
    /\ attempt \in [Threads -> 0..2]
    /\ faults \in 0..MaxFaults
    /\ \A t \in Threads : pc[t] = "idle" <=> attempt[t] = 0

\* The retry goes to another proxy: if the list has more than one, is still
\* the same and no other thread has picked in between, the second attempt
\* never uses the pool whose failure it is there to survive.
RetryElsewhere ==
    \A t \in Threads :
        /\ attempt[t] = 2 /\ pc[t] = "borrow" /\ ~disturbed[t]
        /\ first[t].list = snap[t] /\ Len(snap[t]) > 1
        => idx[t] # first[t].idx

\* An instance that is out is in the hands of a thread, or one of the failed
\* commands has lost it.  So with fewer failures than instances no thread
\* waits in a JedisPool for ever: one that finds all instances out waits for
\* a thread that will close its own.
Holders(p) == {t \in Threads : pc[t] = "got" /\ Chosen(t) = p}
HeldIsBorrowed ==
    \A p \in PoolIds :
        borrowed[p] \in Cardinality(Holders(p))..(Cardinality(Holders(p)) + faults)

\* JedisResourcePool.java:37-38 "We do not have a returnResource method, just
\* close the jedis instance returned directly": when no call is in progress,
\* every instance has been closed.
EveryJedisIsClosed ==
    (\A t \in Threads : pc[t] = "idle") => \A p \in PoolIds : borrowed[p] = 0
=============================================================================
