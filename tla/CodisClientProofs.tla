------------------------- MODULE CodisClientProofs -------------------------
(***************************************************************************)
(* Theorems about CodisClient for any number of threads and addresses:     *)
(* who owns which context, whose reply a call gets, and that a call goes   *)
(* to its end in a bounded number of steps and waits for no other call.    *)
(***************************************************************************)
EXTENDS CodisClient, SequenceTheorems, FiniteSetTheorems,
        WellFoundedInduction, TLAPS

----------------------------------------------------------------------------
(* The inductive invariant.                                                *)

HoldPCs == {"send", "wait", "reconnect", "resend", "rewait", "return"}

\* A thread's local state follows its program counter, and p_rwlock is held
\* exactly from RdLock to Unlock.
PcInv ==
    \A t \in Threads :
        /\ redis[t] # Null <=> pc[t] \in HoldPCs
        /\ t \in readers <=> pc[t] \notin {"idle", "rdlock"}
        /\ pc[t] \in {"rdlock", "borrow", "send"} => delivered[t] = 0
        /\ pc[t] \in {"wait", "reconnect", "resend"} => delivered[t] \in 0..1

\* The write lock excludes the readers, and after it the pool is gone.
DtorInv ==
    /\ dtor \in {"locked", "deleted"} => readers = {}
    /\ connPool <=> dtor \in {"no", "locked"}
    /\ ~connPool => \A t \in Threads : pc[t] \in {"idle", "rdlock", "borrow"}

LostInv == lost \subseteq Live

\* Contexts, as long as no Reconnect has moved: the conjuncts of Ownership,
\* PooledHaveNoError and NoLeak element by element.
Distinct ==
    \A t, u \in Threads : t # u /\ redis[t] # Null => redis[t] # redis[u]
Disjoint == \A t \in Threads, i \in DOMAIN unUsed : redis[t] # unUsed[i]
HeldOpen == \A t \in Threads : redis[t] # Null => ctx[redis[t]] # "free"
PooledOk == \A i \in DOMAIN unUsed : ErrOk(unUsed[i])
ReturnOk == \A t \in Threads : pc[t] = "return" => ErrOk(redis[t])
Owned(a) == (\E i \in DOMAIN unUsed : unUsed[i] = a)
            \/ (\E t \in Threads : redis[t] = a)
Accounted == \A a \in Addr : (ctx[a] # "free" /\ a \notin lost) <=> Owned(a)

CtxInv ==
    /\ Distinct
    /\ NoRepeats
    /\ Disjoint
    /\ HeldOpen
    /\ PooledOk
    /\ ReturnOk
    /\ Accounted
    /\ crash # "freed"

\* An answer is only waited for on a connection that owes no other.
PipeInv ==
    /\ \A i \in DOMAIN unUsed : pipe[unUsed[i]] = << >>
    /\ \A t \in Threads :
          /\ pc[t] \in {"send", "resend", "return"} => pipe[redis[t]] = << >>
          /\ pc[t] \in {"wait", "rewait"} => pipe[redis[t]] \in {<< >>, <<t>>}
          /\ got[t] \in {Null, t}
    /\ ~connPool => unUsed = << >>

IInv ==
    /\ TypeOK
    /\ PcInv
    /\ DtorInv
    /\ LostInv
    /\ ~moved => CtxInv /\ PipeInv

----------------------------------------------------------------------------
\* Every step keeps every variable in its type.
LEMMA TypeNext ==
    ASSUME TypeOK, PcInv, [Next]_vars
    PROVE  TypeOK'
<1>1. ASSUME NEW t \in Threads, Call(t)
      PROVE  TypeOK'
  BY <1>1 DEF Call, TypeOK, PcInv, HoldPCs, PCs, CtxStates, GoTo
<1>2. ASSUME NEW t \in Threads, CallRefused(t)
      PROVE  TypeOK'
  BY <1>2 DEF CallRefused, TypeOK, PcInv, HoldPCs, PCs, CtxStates, GoTo
<1>3. ASSUME NEW t \in Threads, Receive(t)
      PROVE  TypeOK'
  BY <1>3 DEF Receive, TypeOK, PcInv, HoldPCs, PCs, CtxStates, GoTo, Waiting, Live
<1>4. ASSUME NEW t \in Threads, RdLock(t)
      PROVE  TypeOK'
  BY <1>4 DEF RdLock, TypeOK, PcInv, HoldPCs, PCs, CtxStates, GoTo
<1>5. ASSUME NEW t \in Threads, BorrowPooled(t)
      PROVE  TypeOK'
  BY <1>5 DEF BorrowPooled, TypeOK, PcInv, HoldPCs, PCs, CtxStates, GoTo, FreeAndConnect, Dropped, Pooled, Range, Live
<1>6. ASSUME NEW t \in Threads, BorrowNew(t)
      PROVE  TypeOK'
  BY <1>6 DEF BorrowNew, TypeOK, PcInv, HoldPCs, PCs, CtxStates, GoTo, FreeAndConnect, Dropped, Pooled, Range, Live
<1>7. ASSUME NEW t \in Threads, BorrowFails(t)
      PROVE  TypeOK'
  BY <1>7 DEF BorrowFails, TypeOK, PcInv, HoldPCs, PCs, CtxStates, GoTo, FreeAndConnect, Dropped, Pooled, Range, Live
<1>8. ASSUME NEW t \in Threads, BorrowFreed(t)
      PROVE  TypeOK'
  BY <1>8 DEF BorrowFreed, TypeOK, PcInv, HoldPCs, PCs, CtxStates, GoTo, Crash
<1>9. ASSUME NEW t \in Threads, BorrowNull(t)
      PROVE  TypeOK'
  BY <1>9 DEF BorrowNull, TypeOK, PcInv, HoldPCs, PCs, CtxStates, GoTo, Crash
<1>10. ASSUME NEW t \in Threads, Send(t)
      PROVE  TypeOK'
  <2>1. redis[t] \in Addr /\ delivered[t] \in 0..1
    BY <1>10 DEF Send, Live, TypeOK, PcInv
  <2>2. Append(pipe[redis[t]], t) \in Seq(Threads \cup {Late})
    BY <2>1 DEF TypeOK
  <2>3. pipe' \in [Addr -> Seq(Threads \cup {Late})]
    BY <1>10, <2>1, <2>2 DEF Send, TypeOK
  <2>4. delivered' \in [Threads -> 0..2]
    <3>1. delivered[t] + 1 \in 0..2
      BY <2>1
    <3>2. delivered' \in {delivered, [delivered EXCEPT ![t] = @ + 1]}
      BY <1>10 DEF Send
    <3> QED
      BY <3>1, <3>2 DEF TypeOK
  <2>5. pc' \in [Threads -> PCs]
    BY <1>10 DEF Send, GoTo, TypeOK, PCs
  <2> QED
    BY <1>10, <2>3, <2>4, <2>5 DEF Send, TypeOK
<1>11. ASSUME NEW t \in Threads, ReadFails(t)
      PROVE  TypeOK'
  BY <1>11, ZenonT(40)
     DEF ReadFails, TypeOK, PcInv, HoldPCs, PCs, CtxStates, GoTo, NullReply, Waiting, Live
<1>12. ASSUME NEW t \in Threads, Timeout(t)
      PROVE  TypeOK'
  BY <1>12 DEF Timeout, TypeOK, PcInv, HoldPCs, PCs, CtxStates, GoTo, NullReply, Waiting, Live
<1>13. ASSUME NEW t \in Threads, UseFreed(t)
      PROVE  TypeOK'
  BY <1>13 DEF UseFreed, TypeOK, PcInv, HoldPCs, PCs, CtxStates, GoTo, Crash
<1>14. ASSUME NEW t \in Threads, ReconnectOk(t)
      PROVE  TypeOK'
  BY <1>14 DEF ReconnectOk, TypeOK, PcInv, HoldPCs, PCs, CtxStates, GoTo, FreeAndConnect, Live
<1>15. ASSUME NEW t \in Threads, ReconnectFails(t)
      PROVE  TypeOK'
  BY <1>15 DEF ReconnectFails, TypeOK, PcInv, HoldPCs, PCs, CtxStates, GoTo, FreeAndConnect, Live
<1>16. ASSUME NEW t \in Threads, ReturnItem(t)
      PROVE  TypeOK'
  BY <1>16 DEF ReturnItem, TypeOK, PcInv, HoldPCs, PCs, CtxStates, GoTo
<1>17. ASSUME NEW t \in Threads, Unlock(t)
      PROVE  TypeOK'
  <2>1. ASSUME NEW a \in Addr
        PROVE  pipe'[a] \in Seq(Threads \cup {Late})
    <3> DEFINE S == Threads \cup {Late}
               own(i) == IF pipe[a][i] = t THEN Late ELSE pipe[a][i]
    <3>1. pipe[a] \in Seq(S) /\ pipe'[a] = [i \in DOMAIN pipe[a] |-> own(i)]
      BY <1>17 DEF Unlock, TypeOK
    <3>2. Len(pipe[a]) \in Nat /\ DOMAIN pipe[a] = 1..Len(pipe[a])
      BY <3>1, LenProperties
    <3>3. \A i \in 1..Len(pipe[a]) : own(i) \in S
      BY <3>1, ElementOfSeq
    <3> HIDE DEF S, own
    <3>4. [i \in 1..Len(pipe[a]) |-> own(i)] \in Seq(S)
      BY <3>2, <3>3, IsASeq
    <3> QED
      BY <3>1, <3>2, <3>4 DEF S
  <2>2. pipe' \in [Addr -> Seq(Threads \cup {Late})]
    BY <1>17, <2>1 DEF Unlock
  <2> QED
    BY <1>17, <2>2 DEF Unlock, GoTo, TypeOK, PCs
<1>18. ASSUME NEW a \in Addr, ServerClose(a)
      PROVE  TypeOK'
  BY <1>18 DEF ServerClose, TypeOK, PcInv, HoldPCs, PCs, CtxStates
<1>19. ASSUME DtorLock
      PROVE  TypeOK'
  BY <1>19 DEF DtorLock, TypeOK, PcInv, HoldPCs, PCs, CtxStates
<1>20. ASSUME DtorDelete
      PROVE  TypeOK'
  <2>1. pipe' \in [Addr -> Seq(Threads \cup {Late})]
    BY <1>20 DEF DtorDelete, FreeAndConnect, TypeOK
  <2>2. ctx' \in [Addr -> CtxStates]
    BY <1>20 DEF DtorDelete, FreeAndConnect, TypeOK, CtxStates
  <2>3. unUsed' \in Seq(Addr) /\ connPool' \in BOOLEAN
    BY <1>20, EmptySeq DEF DtorDelete
  <2>4. lost' \subseteq Addr
    BY <1>20 DEF DtorDelete, TypeOK
  <2> QED
    BY <1>20, <2>1, <2>2, <2>3, <2>4 DEF DtorDelete, TypeOK
<1>21. ASSUME DtorFreesTwice
      PROVE  TypeOK'
  BY <1>21 DEF DtorFreesTwice, TypeOK, PcInv, HoldPCs, PCs, CtxStates, Crash
<1>22. ASSUME DtorUnlock
      PROVE  TypeOK'
  BY <1>22 DEF DtorUnlock, TypeOK, PcInv, HoldPCs, PCs, CtxStates
<1>23. CASE UNCHANGED vars
  BY <1>23 DEF TypeOK, PcInv, HoldPCs, PCs, CtxStates, vars
<1> QED
  BY <1>1, <1>2, <1>3, <1>4, <1>5, <1>6, <1>7, <1>8, <1>9, <1>10, <1>11, <1>12, <1>13, <1>14, <1>15, <1>16, <1>17, <1>18, <1>19, <1>20, <1>21, <1>22, <1>23 DEF Next, Running, Proceed, Borrow, Destructor, Terminated

\* Program counters, locals and the rwlock stay in step.
LEMMA PcNext ==
    ASSUME TypeOK, PcInv, DtorInv, [Next]_vars
    PROVE  PcInv' /\ DtorInv'
<1>1. ASSUME NEW t \in Threads, Call(t)
      PROVE  PcInv' /\ DtorInv'
  BY <1>1, ClientAssumption DEF Call, GoTo, TypeOK, PcInv, DtorInv, HoldPCs,
      PCs
<1>2. ASSUME NEW t \in Threads, CallRefused(t)
      PROVE  PcInv' /\ DtorInv'
  BY <1>2, ClientAssumption DEF CallRefused, TypeOK, PcInv, DtorInv, HoldPCs,
      PCs
<1>3. ASSUME NEW t \in Threads, Receive(t)
      PROVE  PcInv' /\ DtorInv'
  BY <1>3, ClientAssumption DEF Receive, GoTo, Live, Waiting, TypeOK, PcInv,
      DtorInv, HoldPCs, PCs
<1>4. ASSUME NEW t \in Threads, RdLock(t)
      PROVE  PcInv' /\ DtorInv'
  BY <1>4, ClientAssumption DEF RdLock, GoTo, TypeOK, PcInv, DtorInv, HoldPCs,
      PCs
<1>5. ASSUME NEW t \in Threads, BorrowPooled(t)
      PROVE  PcInv' /\ DtorInv'
  BY <1>5, ClientAssumption DEF BorrowPooled, GoTo, Live, Pooled, Range,
      TypeOK, PcInv, DtorInv, HoldPCs, PCs
<1>6. ASSUME NEW t \in Threads, BorrowNew(t)
      PROVE  PcInv' /\ DtorInv'
  BY <1>6, ClientAssumption DEF BorrowNew, GoTo, Live, Pooled, Range, TypeOK,
      PcInv, DtorInv, HoldPCs, PCs
<1>7. ASSUME NEW t \in Threads, BorrowFails(t)
      PROVE  PcInv' /\ DtorInv'
  BY <1>7, ClientAssumption DEF BorrowFails, GoTo, TypeOK, PcInv, DtorInv,
      HoldPCs, PCs
<1>8. ASSUME NEW t \in Threads, BorrowFreed(t)
      PROVE  PcInv' /\ DtorInv'
  BY <1>8, ClientAssumption DEF BorrowFreed, Crash, TypeOK, PcInv, DtorInv,
      HoldPCs, PCs
<1>9. ASSUME NEW t \in Threads, BorrowNull(t)
      PROVE  PcInv' /\ DtorInv'
  BY <1>9, ClientAssumption DEF BorrowNull, Crash, TypeOK, PcInv, DtorInv,
      HoldPCs, PCs
<1>10. ASSUME NEW t \in Threads, Send(t)
      PROVE  PcInv' /\ DtorInv'
  BY <1>10, ClientAssumption DEF Send, GoTo, Live, TypeOK, PcInv, DtorInv,
      HoldPCs, PCs
<1>11. ASSUME NEW t \in Threads, ReadFails(t)
      PROVE  PcInv' /\ DtorInv'
  BY <1>11, ClientAssumption DEF ReadFails, GoTo, NullReply, Waiting, Live,
      TypeOK, PcInv, DtorInv, HoldPCs, PCs
<1>12. ASSUME NEW t \in Threads, Timeout(t)
      PROVE  PcInv' /\ DtorInv'
  BY <1>12, ClientAssumption DEF Timeout, GoTo, NullReply, Waiting, Live,
      TypeOK, PcInv, DtorInv, HoldPCs, PCs
<1>13. ASSUME NEW t \in Threads, UseFreed(t)
      PROVE  PcInv' /\ DtorInv'
  BY <1>13, ClientAssumption DEF UseFreed, Crash, TypeOK, PcInv, DtorInv,
      HoldPCs, PCs
<1>14. ASSUME NEW t \in Threads, ReconnectOk(t)
      PROVE  PcInv' /\ DtorInv'
  BY <1>14, ClientAssumption DEF ReconnectOk, GoTo, TypeOK, PcInv, DtorInv,
      HoldPCs, PCs
<1>15. ASSUME NEW t \in Threads, ReconnectFails(t)
      PROVE  PcInv' /\ DtorInv'
  BY <1>15, ClientAssumption DEF ReconnectFails, GoTo, Live, TypeOK, PcInv,
      DtorInv, HoldPCs, PCs
<1>16. ASSUME NEW t \in Threads, ReturnItem(t)
      PROVE  PcInv' /\ DtorInv'
  BY <1>16, ClientAssumption DEF ReturnItem, GoTo, TypeOK, PcInv, DtorInv,
      HoldPCs, PCs
<1>17. ASSUME NEW t \in Threads, Unlock(t)
      PROVE  PcInv' /\ DtorInv'
  BY <1>17, ClientAssumption DEF Unlock, GoTo, TypeOK, PcInv, DtorInv, HoldPCs,
      PCs
<1>18. ASSUME NEW a \in Addr, ServerClose(a)
      PROVE  PcInv' /\ DtorInv'
  BY <1>18, ClientAssumption DEF ServerClose, TypeOK, PcInv, DtorInv, HoldPCs,
      PCs
<1>19. ASSUME DtorLock
      PROVE  PcInv' /\ DtorInv'
  BY <1>19, ClientAssumption DEF DtorLock, TypeOK, PcInv, DtorInv, HoldPCs, PCs
<1>20. ASSUME DtorDelete
      PROVE  PcInv' /\ DtorInv'
  BY <1>20, ClientAssumption DEF DtorDelete, TypeOK, PcInv, DtorInv, HoldPCs,
      PCs
<1>21. ASSUME DtorFreesTwice
      PROVE  PcInv' /\ DtorInv'
  BY <1>21, ClientAssumption DEF DtorFreesTwice, Crash, TypeOK, PcInv, DtorInv,
      HoldPCs, PCs
<1>22. ASSUME DtorUnlock
      PROVE  PcInv' /\ DtorInv'
  BY <1>22, ClientAssumption DEF DtorUnlock, TypeOK, PcInv, DtorInv, HoldPCs,
      PCs
<1>23. CASE UNCHANGED vars
  BY <1>23 DEF TypeOK, PcInv, DtorInv, HoldPCs, PCs, vars
<1> QED
  BY <1>1, <1>2, <1>3, <1>4, <1>5, <1>6, <1>7, <1>8, <1>9, <1>10, <1>11, <1>12, 
     <1>13, <1>14, <1>15, <1>16, <1>17, <1>18, <1>19, <1>20, <1>21, <1>22, <1>23 DEF Next, Running, Proceed,
     Borrow, Destructor, Terminated

\* Contexts that were given up stay open.
LEMMA LostNext ==
    ASSUME TypeOK, LostInv, [Next]_vars
    PROVE  LostInv'
<1>1. ASSUME NEW t \in Threads, Call(t)
      PROVE  LostInv'
  BY <1>1 DEF Call, LostInv, TypeOK, CtxStates, Live
<1>2. ASSUME NEW t \in Threads, CallRefused(t)
      PROVE  LostInv'
  BY <1>2 DEF CallRefused, LostInv, TypeOK, CtxStates, Live
<1>3. ASSUME NEW t \in Threads, Receive(t)
      PROVE  LostInv'
  BY <1>3 DEF Receive, LostInv, TypeOK, CtxStates, Live
<1>4. ASSUME NEW t \in Threads, RdLock(t)
      PROVE  LostInv'
  BY <1>4 DEF RdLock, LostInv, TypeOK, CtxStates, Live
<1>5. ASSUME NEW t \in Threads, BorrowPooled(t)
      PROVE  LostInv'
  BY <1>5 DEF BorrowPooled, FreeAndConnect, LostInv, TypeOK, CtxStates, Live
<1>6. ASSUME NEW t \in Threads, BorrowNew(t)
      PROVE  LostInv'
  BY <1>6 DEF BorrowNew, FreeAndConnect, LostInv, TypeOK, CtxStates, Live
<1>7. ASSUME NEW t \in Threads, BorrowFails(t)
      PROVE  LostInv'
  BY <1>7 DEF BorrowFails, FreeAndConnect, LostInv, TypeOK, CtxStates, Live
<1>8. ASSUME NEW t \in Threads, BorrowFreed(t)
      PROVE  LostInv'
  BY <1>8 DEF BorrowFreed, Crash, LostInv, TypeOK, CtxStates, Live
<1>9. ASSUME NEW t \in Threads, BorrowNull(t)
      PROVE  LostInv'
  BY <1>9 DEF BorrowNull, Crash, LostInv, TypeOK, CtxStates, Live
<1>10. ASSUME NEW t \in Threads, Send(t)
      PROVE  LostInv'
  BY <1>10 DEF Send, LostInv, TypeOK, CtxStates, Live
<1>11. ASSUME NEW t \in Threads, ReadFails(t)
      PROVE  LostInv'
  BY <1>11 DEF ReadFails, NullReply, Waiting, LostInv, TypeOK, CtxStates, Live
<1>12. ASSUME NEW t \in Threads, Timeout(t)
      PROVE  LostInv'
  BY <1>12 DEF Timeout, NullReply, Waiting, LostInv, TypeOK, CtxStates, Live
<1>13. ASSUME NEW t \in Threads, UseFreed(t)
      PROVE  LostInv'
  BY <1>13 DEF UseFreed, Crash, LostInv, TypeOK, CtxStates, Live
<1>14. ASSUME NEW t \in Threads, ReconnectOk(t)
      PROVE  LostInv'
  BY <1>14 DEF ReconnectOk, FreeAndConnect, LostInv, TypeOK, CtxStates, Live
<1>15. ASSUME NEW t \in Threads, ReconnectFails(t)
      PROVE  LostInv'
  BY <1>15 DEF ReconnectFails, FreeAndConnect, LostInv, TypeOK, CtxStates, Live
<1>16. ASSUME NEW t \in Threads, ReturnItem(t)
      PROVE  LostInv'
  BY <1>16 DEF ReturnItem, LostInv, TypeOK, CtxStates, Live
<1>17. ASSUME NEW t \in Threads, Unlock(t)
      PROVE  LostInv'
  BY <1>17 DEF Unlock, LostInv, TypeOK, CtxStates, Live
<1>18. ASSUME NEW a \in Addr, ServerClose(a)
      PROVE  LostInv'
  BY <1>18 DEF ServerClose, LostInv, TypeOK, CtxStates, Live
<1>19. ASSUME DtorLock
      PROVE  LostInv'
  BY <1>19 DEF DtorLock, LostInv, TypeOK, CtxStates, Live
<1>20. ASSUME DtorDelete
      PROVE  LostInv'
  BY <1>20 DEF DtorDelete, FreeAndConnect, LostInv, TypeOK, CtxStates, Live
<1>21. ASSUME DtorFreesTwice
      PROVE  LostInv'
  BY <1>21 DEF DtorFreesTwice, Crash, LostInv, TypeOK, CtxStates, Live
<1>22. ASSUME DtorUnlock
      PROVE  LostInv'
  BY <1>22 DEF DtorUnlock, LostInv, TypeOK, CtxStates, Live
<1>23. CASE UNCHANGED vars
  BY <1>23 DEF LostInv, TypeOK, CtxStates, Live, vars
<1> QED
  BY <1>1, <1>2, <1>3, <1>4, <1>5, <1>6, <1>7, <1>8, <1>9, <1>10, <1>11, <1>12, 
     <1>13, <1>14, <1>15, <1>16, <1>17, <1>18, <1>19, <1>20, <1>21, <1>22, <1>23 DEF Next, Running, Proceed,
     Borrow, Destructor, Terminated

\* The invariant is initially true.
LEMMA IInvInit == Init => IInv
<1> SUFFICES ASSUME Init
             PROVE  IInv
  OBVIOUS
<1>1. TypeOK
  <2>1. unUsed \in Seq(Addr) /\ pipe \in [Addr -> Seq(Threads \cup {Late})]
    BY EmptySeq DEF Init
  <2>2. /\ pc \in [Threads -> PCs]
        /\ redis \in [Threads -> Addr \cup {Null}]
        /\ got \in [Threads -> Threads \cup {Late, Null}]
        /\ delivered \in [Threads -> 0..2]
        /\ ctx \in [Addr -> CtxStates]
    BY DEF Init, PCs, CtxStates
  <2> QED
    BY <2>1, <2>2 DEF Init, TypeOK
<1>2. PcInv /\ DtorInv
  BY DEF Init, PcInv, DtorInv, HoldPCs
<1>3. LostInv
  BY DEF Init, LostInv
<1>5. CtxInv /\ PipeInv
  <2>1. \A t \in Threads : redis[t] = Null /\ pc[t] = "idle" /\ got[t] = Null
    BY DEF Init
  <2>2. DOMAIN unUsed = {} /\ connPool /\ crash = "no"
    BY DEF Init
  <2>3. \A a \in Addr : ctx[a] = "free"
    BY DEF Init
  <2>4. Accounted
    BY <2>1, <2>2, <2>3, ClientAssumption DEF Accounted, Owned
  <2> QED
    BY <2>1, <2>2, <2>4 DEF CtxInv, PipeInv, NoRepeats, Distinct, Disjoint,
       HeldOpen, PooledOk, ReturnOk
<1> QED
  BY <1>1, <1>2, <1>3, <1>5 DEF IInv

\* Type correctness, RedisCommand's locals and the rwlock included.
THEOREM TypeCorrect == Spec => []TypeOK
<1>1. Init => TypeOK /\ PcInv /\ DtorInv
  BY IInvInit DEF IInv
<1>2. TypeOK /\ PcInv /\ DtorInv /\ [Next]_vars => (TypeOK /\ PcInv /\ DtorInv)'
  BY TypeNext, PcNext
<1> QED
  BY <1>1, <1>2, PTL DEF Spec

\* While every pooled context is free of error, borrowItem drops none.
LEMMA NothingDropped ==
    ASSUME TypeOK, CtxInv, NEW n \in 0..Len(unUsed), LeadingErr(n)
    PROVE  n = 0 /\ Dropped(n) = {}
<1>1. Len(unUsed) \in Nat /\ DOMAIN unUsed = 1..Len(unUsed)
  BY LenProperties DEF TypeOK
<1>2. CASE n # 0
  <2>1. 1 \in 1..n /\ 1 \in DOMAIN unUsed
    BY <1>1, <1>2
  <2>2. ctx[unUsed[1]] = "err"
    BY <2>1 DEF LeadingErr
  <2> QED
    BY <2>1, <2>2 DEF CtxInv, PooledOk, ErrOk
<1> QED
  BY <1>2 DEF Dropped

\* Steps that neither open, free nor hand over a context.
LEMMA CtxFrame ==
    ASSUME TypeOK, CtxInv,
           UNCHANGED <<redis, unUsed, lost>>,
           \A a \in Addr : ctx'[a] = "free" <=> ctx[a] = "free",
           PooledOk', ReturnOk', crash' # "freed"
    PROVE  CtxInv'
<1>1. Distinct' /\ NoRepeats' /\ Disjoint'
  BY DEF CtxInv, Distinct, NoRepeats, Disjoint
<1>2. HeldOpen'
  BY DEF CtxInv, HeldOpen, TypeOK
<1>3. Accounted'
  BY DEF CtxInv, Accounted, Owned
<1> QED
  BY <1>1, <1>2, <1>3 DEF CtxInv

\* A NULL reply: the first one leaves the owners alone, the second one takes
\* the context from its owner and counts it as given up.
LEMMA CtxNullReply ==
    ASSUME TypeOK, PcInv, LostInv, CtxInv,
           NEW t \in Threads, Waiting(t), NullReply(t)
    PROVE  CtxInv'
<1>1. redis[t] \in Addr /\ redis[t] # Null
  BY ClientAssumption DEF Waiting, Live
<1>2. /\ unUsed' = unUsed /\ crash' = crash
      /\ ctx' = [ctx EXCEPT ![redis[t]] = "err"]
  BY DEF NullReply
<1>3. \A a \in Addr : ctx'[a] = "free" <=> ctx[a] = "free"
  BY <1>1, <1>2 DEF Waiting, Live, TypeOK
<1>4. PooledOk'
  <2>1. \A i \in DOMAIN unUsed : unUsed[i] \in Addr
    BY LenProperties, ElementOfSeq DEF TypeOK
  <2> QED
    BY <1>1, <1>2, <2>1 DEF CtxInv, PooledOk, ErrOk, Disjoint, TypeOK
<1>5. \A u \in Threads : pc'[u] = "return" => u # t /\ pc[u] = "return"
  BY DEF NullReply, GoTo, TypeOK
<1>6. \A u \in Threads : pc[u] = "return" => redis[u] \in Addr
  BY DEF PcInv, HoldPCs, TypeOK
<1>7. \A u \in Threads : u # t => redis'[u] = redis[u]
  BY DEF NullReply, TypeOK
<1>8. ReturnOk'
  <2> SUFFICES ASSUME NEW u \in Threads, pc'[u] = "return"
               PROVE  ErrOk(redis[u])'
    BY DEF ReturnOk
  <2>1. u # t /\ pc[u] = "return" /\ redis[u] \in Addr /\ redis'[u] = redis[u]
    BY <1>5, <1>6, <1>7
  <2>2. redis[u] # redis[t] /\ ErrOk(redis[u])
    BY <2>1, <1>1 DEF CtxInv, Distinct, ReturnOk
  <2> QED
    BY <2>1, <2>2, <1>2 DEF ErrOk, TypeOK
<1>9. CASE pc[t] = "wait"
  BY <1>9, <1>2, <1>3, <1>4, <1>8, CtxFrame DEF NullReply, CtxInv
<1>10. CASE pc[t] # "wait"
  <2>1. redis' = [redis EXCEPT ![t] = Null] /\ lost' = lost \cup {redis[t]}
    BY <1>10 DEF NullReply
  <2>2. redis'[t] = Null /\ \A u \in Threads : redis'[u] \in {redis[u], Null}
    BY <2>1 DEF TypeOK
  <2>3. Distinct' /\ NoRepeats'
    BY <1>2, <1>7, <2>2 DEF CtxInv, Distinct, NoRepeats
  <2>4. Disjoint'
    <3>1. \A i \in DOMAIN unUsed : unUsed[i] # Null
      BY LenProperties, ElementOfSeq, ClientAssumption DEF TypeOK
    <3> QED
      BY <3>1, <1>2, <2>2 DEF CtxInv, Disjoint
  <2>5. HeldOpen'
    BY <1>3, <2>2 DEF CtxInv, HeldOpen, TypeOK
  <2>6. Accounted'
    <3> SUFFICES ASSUME NEW a \in Addr
                 PROVE  (ctx'[a] # "free" /\ a \notin lost') <=> Owned(a)'
      BY DEF Accounted
    <3>1. CASE a = redis[t]
      <4>1. \A i \in DOMAIN unUsed : unUsed[i] # a
        BY <3>1 DEF CtxInv, Disjoint
      <4>2. \A u \in Threads : redis'[u] # a
        BY <3>1, <1>1, <1>7, <2>2 DEF CtxInv, Distinct
      <4> QED
        BY <3>1, <4>1, <4>2, <2>1, <1>2 DEF Owned
    <3>2. CASE a # redis[t]
      <4>1. (\E u \in Threads : redis'[u] = a) <=> (\E u \in Threads : redis[u] = a)
        BY <3>2, <1>7, <2>2, ClientAssumption
      <4> QED
        BY <3>2, <4>1, <1>2, <1>3, <2>1 DEF CtxInv, Accounted, Owned
    <3> QED
      BY <3>1, <3>2
  <2> QED
    BY <1>2, <1>4, <1>8, <2>3, <2>4, <2>5, <2>6 DEF CtxInv
<1> QED
  BY <1>9, <1>10

\* borrowItem hands out the head of unUsed_, or a new context.
LEMMA CtxBorrow ==
    ASSUME TypeOK, PcInv, LostInv, CtxInv, NEW t \in Threads, Borrow(t)
    PROVE  CtxInv'
<1>1. /\ Len(unUsed) \in Nat /\ DOMAIN unUsed = 1..Len(unUsed)
      /\ \A i \in DOMAIN unUsed : unUsed[i] \in Addr /\ unUsed[i] # Null
  BY LenProperties, ElementOfSeq, ClientAssumption DEF TypeOK
<1>2. redis[t] = Null
  BY DEF Borrow, BorrowPooled, BorrowNew, BorrowFails, PcInv, HoldPCs
<1>3. CASE BorrowPooled(t)
  <2>1. PICK n \in 0..(Len(unUsed) - 1) :
           /\ LeadingErr(n)
           /\ redis' = [redis EXCEPT ![t] = unUsed[n + 1]]
           /\ unUsed' = SubSeq(unUsed, n + 2, Len(unUsed))
           /\ FreeAndConnect(Dropped(n), {})
           /\ lost' = lost \ Dropped(n)
    BY <1>3 DEF BorrowPooled
  <2>2. n = 0 /\ Dropped(n) = {}
    <3>1. n \in 0..Len(unUsed)
      BY <1>1
    <3> QED
      BY <2>1, <3>1, NothingDropped
  <2> DEFINE h == unUsed[1]
  <2>3. 1 \in DOMAIN unUsed /\ h \in Addr /\ h # Null
    BY <1>1, <2>1, <2>2
  <2>4. /\ ctx' = ctx /\ lost' = lost
        /\ redis' = [redis EXCEPT ![t] = h]
        /\ unUsed' = SubSeq(unUsed, 2, Len(unUsed))
    <3>1. ctx' = [a \in Addr |-> ctx[a]]
      BY <2>1, <2>2 DEF FreeAndConnect
    <3>2. ctx' = ctx
      BY <3>1 DEF TypeOK
    <3> QED
      BY <2>1, <2>2, <3>2
  <2>5. /\ DOMAIN unUsed' = 1..(Len(unUsed) - 1)
        /\ \A i \in DOMAIN unUsed' :
              i \in Nat \ {0} /\ i + 1 \in DOMAIN unUsed /\ unUsed'[i] = unUsed[i + 1]
    <3>1. unUsed' \in Seq(Addr) /\ Len(unUsed') = Len(unUsed) - 1
      <4>1. 2 \in Int /\ Len(unUsed) \in Int /\ \A i \in 2..Len(unUsed) : unUsed[i] \in Addr
        BY <1>1
      <4>2. /\ SubSeq(unUsed, 2, Len(unUsed)) \in Seq(Addr)
            /\ Len(SubSeq(unUsed, 2, Len(unUsed)))
                  = IF 2 <= Len(unUsed) THEN Len(unUsed) - 2 + 1 ELSE 0
        BY <4>1, SubSeqProperties
      <4>3. Len(unUsed) >= 1
        BY <1>1, <2>3
      <4> QED
        BY <1>1, <2>4, <4>2, <4>3
    <3>2. DOMAIN unUsed' = 1..(Len(unUsed) - 1)
      BY <3>1, LenProperties
    <3>3. \A i \in 1..(Len(unUsed) - 1) : unUsed'[i] = unUsed[2 + i - 1]
      <4>1. \A i \in 2..Len(unUsed) : unUsed[i] \in Addr
        BY <1>1
      <4>2. \A i \in 1..(Len(unUsed) - 2 + 1) :
               SubSeq(unUsed, 2, Len(unUsed))[i] = unUsed[2 + i - 1]
        BY <1>1, <4>1, SubSeqProperties
      <4>3. Len(unUsed) - 2 + 1 = Len(unUsed) - 1
        BY <1>1
      <4> QED
        BY <2>4, <4>2, <4>3
    <3> QED
      BY <1>1, <3>2, <3>3
  <2>6. redis'[t] = h /\ \A u \in Threads : u # t => redis'[u] = redis[u]
    BY <2>4 DEF TypeOK
  <2> HIDE DEF h
  <2>7. \A i \in DOMAIN unUsed' : unUsed'[i] # h
    <3>1. \A i \in DOMAIN unUsed : unUsed[i] = h => i = 1
      BY <2>3 DEF h, CtxInv, NoRepeats
    <3>2. \A i \in DOMAIN unUsed' : i + 1 # 1
      BY <2>5
    <3> QED
      BY <2>5, <3>1, <3>2
  <2>8. \A u \in Threads : redis[u] # h
    BY <2>3 DEF h, CtxInv, Disjoint
  <2>9. Distinct'
    BY <2>6, <2>8 DEF CtxInv, Distinct
  <2>10. NoRepeats'
    <3> SUFFICES ASSUME NEW i \in DOMAIN unUsed', NEW j \in DOMAIN unUsed',
                        unUsed'[i] = unUsed'[j]
                 PROVE  i = j
      BY DEF NoRepeats
    <3>1. i + 1 = j + 1
      BY <2>5 DEF CtxInv, NoRepeats
    <3> QED
      BY <3>1, <2>5
  <2>11. Disjoint'
    BY <2>5, <2>6, <2>7 DEF CtxInv, Disjoint
  <2>12. HeldOpen' /\ PooledOk' /\ ReturnOk'
    <3>1. ctx[h] # "free"
      BY <2>3 DEF h, CtxInv, PooledOk, ErrOk
    <3>2. \A u \in Threads : pc'[u] = "return" => u # t /\ pc[u] = "return"
      BY <1>3 DEF BorrowPooled, GoTo, TypeOK
    <3>3. HeldOpen'
      BY <2>4, <2>6, <3>1 DEF CtxInv, HeldOpen
    <3>4. PooledOk'
      BY <2>4, <2>5 DEF CtxInv, PooledOk, ErrOk
    <3>5. ReturnOk'
      BY <2>4, <2>6, <3>2 DEF CtxInv, ReturnOk, ErrOk
    <3> QED
      BY <3>3, <3>4, <3>5
  <2>13. Accounted'
    <3> SUFFICES ASSUME NEW a \in Addr
                 PROVE  Owned(a)' <=> Owned(a)
      BY <2>4 DEF CtxInv, Accounted
    <3>1. CASE a = h
      BY <3>1, <2>3, <2>6 DEF Owned, h
    <3>2. CASE a # h
      <4>1. (\E u \in Threads : redis'[u] = a) <=> (\E u \in Threads : redis[u] = a)
        BY <3>2, <2>6, <1>2, ClientAssumption
      <4>2. (\E i \in DOMAIN unUsed' : unUsed'[i] = a)
               => (\E i \in DOMAIN unUsed : unUsed[i] = a)
        BY <2>5
      <4>3. ASSUME NEW i \in DOMAIN unUsed, unUsed[i] = a
            PROVE  \E k \in DOMAIN unUsed' : unUsed'[k] = a
        <5>1. i # 1 /\ i - 1 \in DOMAIN unUsed' /\ (i - 1) + 1 = i
          BY <4>3, <3>2, <1>1, <2>5 DEF h
        <5> QED
          BY <5>1, <4>3, <2>5
      <4> QED
        BY <4>1, <4>2, <4>3 DEF Owned
    <3> QED
      BY <3>1, <3>2
  <2> QED
    BY <1>3, <2>9, <2>10, <2>11, <2>12, <2>13 DEF CtxInv, BorrowPooled
<1>4. ASSUME LeadingErr(Len(unUsed))
      PROVE  unUsed = << >> /\ Pooled = {}
  <2>1. Len(unUsed) \in 0..Len(unUsed)
    BY <1>1
  <2>2. Len(unUsed) = 0
    BY <1>4, <2>1, NothingDropped
  <2> QED
    BY <1>1, <2>2, EmptySeq DEF Pooled, Range, TypeOK
<1>5. CASE BorrowNew(t)
  <2>1. unUsed = << >> /\ Pooled = {}
    BY <1>4, <1>5 DEF BorrowNew
  <2>2. PICK a \in Addr \ Live : /\ redis' = [redis EXCEPT ![t] = a]
                                 /\ FreeAndConnect({}, {a})
    BY <1>5, <2>1 DEF BorrowNew
  <2>3. /\ unUsed' = unUsed /\ lost' = lost /\ DOMAIN unUsed = {}
        /\ crash' = crash
    BY <1>5, <2>1 DEF BorrowNew
  <2>4. /\ redis'[t] = a
        /\ \A u \in Threads : u # t => redis'[u] = redis[u]
    BY <2>2 DEF TypeOK
  <2>5. /\ ctx'[a] = "ok" /\ ctx[a] = "free"
        /\ \A b \in Addr : b # a => ctx'[b] = ctx[b]
    BY <2>2 DEF FreeAndConnect, Live
  <2>6. a # Null /\ \A u \in Threads : redis[u] # a
    BY <2>5, ClientAssumption DEF CtxInv, HeldOpen
  <2>7. Distinct'
    BY <2>4, <2>6 DEF CtxInv, Distinct
  <2>8. NoRepeats' /\ PooledOk' /\ Disjoint'
    BY <2>3 DEF NoRepeats, PooledOk, Disjoint
  <2>9. HeldOpen'
    BY <2>4, <2>5 DEF CtxInv, HeldOpen, TypeOK
  <2>10. ReturnOk'
    <3>1. \A u \in Threads : pc'[u] = "return" => u # t /\ pc[u] = "return"
      BY <1>5 DEF BorrowNew, GoTo, TypeOK
    <3>2. \A u \in Threads : pc[u] = "return" => redis[u] \in Addr
      BY DEF PcInv, HoldPCs, TypeOK
    <3> QED
      BY <3>1, <3>2, <2>4, <2>5, <2>6 DEF CtxInv, ReturnOk, ErrOk
  <2>11. Accounted'
    <3> SUFFICES ASSUME NEW b \in Addr
                 PROVE  (ctx'[b] # "free" /\ b \notin lost') <=> Owned(b)'
      BY DEF Accounted
    <3>1. CASE b = a
      BY <3>1, <2>3, <2>4, <2>5 DEF Owned, LostInv, Live
    <3>2. CASE b # a
      <4>1. (\E u \in Threads : redis'[u] = b) <=> (\E u \in Threads : redis[u] = b)
        BY <3>2, <2>4, <1>2, ClientAssumption
      <4> QED
        BY <3>2, <4>1, <2>3, <2>5 DEF CtxInv, Accounted, Owned
    <3> QED
      BY <3>1, <3>2
  <2> QED
    BY <2>3, <2>7, <2>8, <2>9, <2>10, <2>11 DEF CtxInv
<1>6. CASE BorrowFails(t)
  <2>1. unUsed = << >> /\ Pooled = {}
    BY <1>4, <1>6 DEF BorrowFails
  <2>2. ctx' = [a \in Addr |-> ctx[a]]
    BY <1>6, <2>1 DEF BorrowFails, FreeAndConnect
  <2>3. ctx' = ctx /\ UNCHANGED <<redis, unUsed, lost, crash>>
    BY <1>6, <2>1, <2>2 DEF BorrowFails, TypeOK
  <2>4. \A u \in Threads : pc'[u] = "return" => pc[u] = "return"
    BY <1>6 DEF BorrowFails, GoTo, TypeOK
  <2>5. PooledOk' /\ ReturnOk'
    BY <2>3, <2>4 DEF CtxInv, PooledOk, ReturnOk, ErrOk
  <2> QED
    BY <2>3, <2>5, CtxFrame DEF CtxInv
<1> QED
  BY <1>3, <1>5, <1>6 DEF Borrow

\* A reconnection that succeeds in place, or fails and lets go.
LEMMA CtxReconnect ==
    ASSUME TypeOK, PcInv, LostInv, CtxInv, NEW t \in Threads,
           ReconnectOk(t) \/ ReconnectFails(t), ~moved'
    PROVE  CtxInv'
<1>1. /\ redis[t] \in Addr /\ redis[t] # Null
      /\ ctx[redis[t]] # "free" /\ redis[t] \notin lost
  BY ClientAssumption DEF ReconnectOk, ReconnectFails, Live, CtxInv, Accounted, Owned
<1>2. /\ unUsed' = unUsed /\ crash' = crash /\ lost' = lost
      /\ \A a \in Addr : a # redis[t] => ctx'[a] = ctx[a]
  BY <1>1, ZenonT(40) DEF ReconnectOk, ReconnectFails, FreeAndConnect
<1>3. \A i \in DOMAIN unUsed : unUsed[i] \in Addr /\ unUsed[i] # Null
  BY LenProperties, ElementOfSeq, ClientAssumption DEF TypeOK
<1>4. PooledOk'
  BY <1>2, <1>3 DEF CtxInv, PooledOk, Disjoint, ErrOk
<1>5. \A u \in Threads : u # t => redis'[u] = redis[u] /\ pc'[u] = pc[u]
  BY DEF ReconnectOk, ReconnectFails, GoTo, TypeOK
<1>6. ReturnOk'
  <2> SUFFICES ASSUME NEW u \in Threads, pc'[u] = "return"
               PROVE  ErrOk(redis[u])'
    BY DEF ReturnOk
  <2>1. pc'[t] # "return"
    BY DEF ReconnectOk, ReconnectFails, GoTo, TypeOK
  <2>2. u # t /\ pc[u] = "return" /\ redis'[u] = redis[u]
    BY <2>1, <1>5
  <2>3. redis[u] \in Addr /\ redis[u] # redis[t]
    BY <2>2, <1>1 DEF PcInv, HoldPCs, TypeOK, CtxInv, Distinct
  <2> QED
    BY <2>2, <2>3, <1>2 DEF CtxInv, ReturnOk, ErrOk
<1>7. CASE ReconnectOk(t)
  <2>1. ctx'[redis[t]] = "ok"
    BY <1>1, <1>7 DEF ReconnectOk, FreeAndConnect
  <2>2. \A a \in Addr : ctx'[a] = "free" <=> ctx[a] = "free"
    BY <2>1, <1>1, <1>2
  <2> QED
    BY <1>2, <1>4, <1>6, <1>7, <2>2, CtxFrame DEF ReconnectOk, CtxInv
<1>8. CASE ReconnectFails(t)
  <2>1. redis'[t] = Null /\ ctx'[redis[t]] = "free"
    BY <1>1, <1>8 DEF ReconnectFails, FreeAndConnect, TypeOK
  <2>2. Distinct' /\ NoRepeats' /\ Disjoint'
    BY <1>2, <1>3, <1>5, <2>1 DEF CtxInv, Distinct, NoRepeats, Disjoint
  <2>3. HeldOpen'
    <3> SUFFICES ASSUME NEW u \in Threads, redis'[u] # Null
                 PROVE  ctx'[redis'[u]] # "free"
      BY DEF HeldOpen
    <3>1. u # t /\ redis'[u] = redis[u] /\ redis[u] \in Addr
      BY <1>5, <2>1 DEF TypeOK
    <3>2. redis[u] # redis[t]
      BY <3>1, <1>1 DEF CtxInv, Distinct
    <3> QED
      BY <3>1, <3>2, <1>2 DEF CtxInv, HeldOpen
  <2>4. Accounted'
    <3> SUFFICES ASSUME NEW a \in Addr
                 PROVE  (ctx'[a] # "free" /\ a \notin lost') <=> Owned(a)'
      BY DEF Accounted
    <3>1. CASE a = redis[t]
      BY <3>1, <1>1, <1>2, <1>5, <2>1 DEF Owned, CtxInv, Distinct, Disjoint
    <3>2. CASE a # redis[t]
      <4>1. (\E u \in Threads : redis'[u] = a) <=> (\E u \in Threads : redis[u] = a)
        BY <3>2, <1>5, <2>1, ClientAssumption
      <4> QED
        BY <3>2, <4>1, <1>2 DEF CtxInv, Accounted, Owned
    <3> QED
      BY <3>1, <3>2
  <2> QED
    BY <1>2, <1>4, <1>6, <2>2, <2>3, <2>4 DEF CtxInv
<1> QED
  BY <1>7, <1>8

\* returnItem appends the context its caller held.
LEMMA CtxReturn ==
    ASSUME TypeOK, PcInv, LostInv, CtxInv, NEW t \in Threads, ReturnItem(t)
    PROVE  CtxInv'
<1> DEFINE h == redis[t]
<1>1. h \in Addr /\ h # Null /\ ErrOk(h)
  BY ClientAssumption DEF ReturnItem, PcInv, HoldPCs, TypeOK, CtxInv, ReturnOk
<1>2. /\ unUsed' = Append(unUsed, h) /\ redis' = [redis EXCEPT ![t] = Null]
      /\ UNCHANGED <<ctx, lost, crash>>
  BY DEF ReturnItem
<1>3. /\ redis'[t] = Null
      /\ \A u \in Threads : u # t => redis'[u] = redis[u]
  BY <1>2 DEF TypeOK
<1>4. \A u \in Threads : u # t => redis[u] # h
  BY <1>1 DEF CtxInv, Distinct
<1>5. \A i \in DOMAIN unUsed : unUsed[i] # h /\ unUsed[i] # Null
  BY LenProperties, ElementOfSeq, ClientAssumption DEF TypeOK, CtxInv, Disjoint
<1> HIDE DEF h
<1>6. /\ Len(unUsed) \in Nat /\ DOMAIN unUsed = 1..Len(unUsed)
      /\ DOMAIN unUsed' = 1..(Len(unUsed) + 1)
      /\ unUsed'[Len(unUsed) + 1] = h
      /\ \A i \in DOMAIN unUsed : unUsed'[i] = unUsed[i]
  BY <1>1, <1>2, LenProperties, AppendProperties DEF TypeOK
<1>7. \A i \in DOMAIN unUsed' :
        \/ i \in DOMAIN unUsed /\ unUsed'[i] = unUsed[i]
        \/ i = Len(unUsed) + 1 /\ unUsed'[i] = h
  BY <1>6
<1>8. Distinct'
  BY <1>3 DEF CtxInv, Distinct
<1>9. NoRepeats'
  BY <1>5, <1>7 DEF CtxInv, NoRepeats
<1>10. Disjoint'
  BY <1>1, <1>3, <1>4, <1>5, <1>7 DEF CtxInv, Disjoint
<1>11. HeldOpen'
  BY <1>2, <1>3 DEF CtxInv, HeldOpen
<1>12. PooledOk'
  BY <1>1, <1>2, <1>7 DEF CtxInv, PooledOk, ErrOk
<1>13. ReturnOk'
  <2>1. \A u \in Threads : pc'[u] = "return" => u # t /\ pc[u] = "return"
    BY DEF ReturnItem, GoTo, TypeOK
  <2> QED
    BY <2>1, <1>2, <1>3 DEF CtxInv, ReturnOk, ErrOk
<1>14. Accounted'
  <2> SUFFICES ASSUME NEW a \in Addr
               PROVE  Owned(a)' <=> Owned(a)
    BY <1>2 DEF CtxInv, Accounted
  <2>1. CASE a = h
    <3>1. Len(unUsed) + 1 \in DOMAIN unUsed'
      BY <1>6
    <3> QED
      BY <2>1, <3>1, <1>6 DEF Owned, h
  <2>2. CASE a # h
    <3>1. (\E u \in Threads : redis'[u] = a) <=> (\E u \in Threads : redis[u] = a)
      BY <2>2, <1>3, ClientAssumption DEF h
    <3>2. (\E i \in DOMAIN unUsed' : unUsed'[i] = a)
             => (\E i \in DOMAIN unUsed : unUsed[i] = a)
      BY <1>7, <2>2
    <3>3. (\E i \in DOMAIN unUsed : unUsed[i] = a)
             => (\E i \in DOMAIN unUsed' : unUsed'[i] = a)
      <4>1. \A i \in DOMAIN unUsed : i \in DOMAIN unUsed'
        BY <1>6
      <4> QED
        BY <4>1, <1>6
    <3> QED
      BY <3>1, <3>2, <3>3 DEF Owned
  <2> QED
    BY <2>1, <2>2
<1> QED
  BY <1>2, <1>8, <1>9, <1>10, <1>11, <1>12, <1>13, <1>14 DEF CtxInv

\* ~RedisClientPool frees exactly the pooled contexts.
LEMMA CtxDelete ==
    ASSUME TypeOK, PcInv, DtorInv, LostInv, CtxInv, DtorDelete
    PROVE  CtxInv'
<1>1. \A t \in Threads : redis[t] = Null /\ redis'[t] = Null
  <2>1. \A t \in Threads : pc[t] \in {"idle", "rdlock"}
    BY DEF DtorDelete, DtorInv, PcInv
  <2> QED
    BY <2>1 DEF DtorDelete, PcInv, HoldPCs
<1>2. unUsed' = << >> /\ DOMAIN unUsed' = {} /\ crash' = crash
  BY DEF DtorDelete
<1>3. \A t \in Threads : pc'[t] # "return"
  BY <1>1 DEF DtorDelete, PcInv, HoldPCs
<1>4. Distinct' /\ NoRepeats' /\ Disjoint' /\ HeldOpen' /\ PooledOk' /\ ReturnOk'
  BY <1>1, <1>2, <1>3 DEF Distinct, NoRepeats, Disjoint, HeldOpen, PooledOk, ReturnOk
<1>5. Accounted'
  <2> SUFFICES ASSUME NEW a \in Addr
               PROVE  (ctx'[a] # "free" /\ a \notin lost') <=> Owned(a)'
    BY DEF Accounted
  <2>1. ~Owned(a)'
    BY <1>1, <1>2, ClientAssumption DEF Owned
  <2>2. a \in Pooled <=> \E i \in DOMAIN unUsed : unUsed[i] = a
    BY DEF Pooled, Range
  <2>3. ctx'[a] = IF a \in Pooled THEN "free" ELSE ctx[a]
    BY DEF DtorDelete, FreeAndConnect
  <2>4. lost' = lost \ Pooled
    BY DEF DtorDelete
  <2>5. Owned(a) <=> a \in Pooled
    BY <1>1, <2>2, ClientAssumption DEF Owned
  <2> QED
    BY <2>1, <2>3, <2>4, <2>5 DEF CtxInv, Accounted
<1> QED
  BY <1>2, <1>4, <1>5 DEF CtxInv

\* Every step that leaves `moved` false keeps every context's owner.
LEMMA CtxNext ==
    ASSUME TypeOK, PcInv, DtorInv, LostInv, CtxInv, [Next]_vars, ~moved'
    PROVE  CtxInv'
<1> USE ClientAssumption DEF PooledOk, ReturnOk, ErrOk
<1>1. ASSUME NEW t \in Threads, Call(t)
      PROVE  CtxInv'
  BY <1>1, CtxFrame DEF Call, GoTo, TypeOK, CtxInv
<1>2. ASSUME NEW t \in Threads, CallRefused(t)
      PROVE  CtxInv'
  BY <1>2, CtxFrame DEF CallRefused, TypeOK, CtxInv
<1>3. ASSUME NEW t \in Threads, Receive(t)
      PROVE  CtxInv'
  BY <1>3, CtxFrame DEF Receive, GoTo, Waiting, TypeOK, CtxInv
<1>4. ASSUME NEW t \in Threads, RdLock(t)
      PROVE  CtxInv'
  BY <1>4, CtxFrame DEF RdLock, GoTo, TypeOK, CtxInv
<1>5. ASSUME NEW t \in Threads, BorrowNull(t)
      PROVE  CtxInv'
  BY <1>5, CtxFrame DEF BorrowNull, Crash, TypeOK, CtxInv
<1>6. ASSUME NEW t \in Threads, Send(t)
      PROVE  CtxInv'
  BY <1>6, CtxFrame DEF Send, GoTo, TypeOK, CtxInv
<1>7. ASSUME NEW t \in Threads, Unlock(t)
      PROVE  CtxInv'
  BY <1>7, CtxFrame DEF Unlock, GoTo, TypeOK, CtxInv
<1>8. ASSUME NEW t \in Threads, Borrow(t)
      PROVE  CtxInv'
  BY <1>8, CtxBorrow
<1>9. ASSUME NEW t \in Threads, BorrowFreed(t)
      PROVE  CtxInv'
  <2>1. PICK n \in 0..(Len(unUsed) - 1) :
           LeadingErr(n) /\ unUsed[n + 1] \in (Addr \ Live) \cup Dropped(n)
    BY <1>9 DEF BorrowFreed
  <2>2. /\ Len(unUsed) \in Nat /\ DOMAIN unUsed = 1..Len(unUsed)
        /\ n \in 0..Len(unUsed) /\ n + 1 \in DOMAIN unUsed
    BY <2>1, LenProperties DEF TypeOK
  <2>3. unUsed[n + 1] \notin Live
    BY <2>1, <2>2, NothingDropped
  <2> QED
    BY <2>2, <2>3, LenProperties, ElementOfSeq DEF CtxInv, Live, TypeOK
<1>10. ASSUME NEW t \in Threads, ReadFails(t) \/ Timeout(t)
      PROVE  CtxInv'
  BY <1>10, CtxNullReply DEF ReadFails, Timeout
<1>11. ASSUME NEW t \in Threads, UseFreed(t)
      PROVE  CtxInv'
  BY <1>11 DEF UseFreed, PcInv, HoldPCs, CtxInv, HeldOpen, Live, TypeOK
<1>12. ASSUME NEW t \in Threads, ReconnectOk(t) \/ ReconnectFails(t)
      PROVE  CtxInv'
  BY <1>12, CtxReconnect
<1>13. ASSUME NEW t \in Threads, ReturnItem(t)
      PROVE  CtxInv'
  BY <1>13, CtxReturn
<1>14. ASSUME NEW a \in Addr, ServerClose(a)
      PROVE  CtxInv'
  BY <1>14, CtxFrame DEF ServerClose, TypeOK, CtxInv
<1>15. ASSUME DtorLock \/ DtorUnlock
      PROVE  CtxInv'
  BY <1>15, CtxFrame DEF DtorLock, DtorUnlock, TypeOK, CtxInv
<1>16. ASSUME DtorDelete
      PROVE  CtxInv'
  BY <1>16, CtxDelete
<1>17. ASSUME DtorFreesTwice
      PROVE  CtxInv'
  <2>1. Pooled \subseteq Live
    <3>1. \A i \in DOMAIN unUsed : unUsed[i] \in Addr
      BY LenProperties, ElementOfSeq DEF TypeOK
    <3>2. \A i \in DOMAIN unUsed : unUsed[i] \in Live
      BY <3>1 DEF Live, CtxInv
    <3> QED
      BY <3>2 DEF Pooled, Range
  <2> QED
    BY <1>17, <2>1 DEF DtorFreesTwice, CtxInv
<1>18. CASE UNCHANGED vars
  BY <1>18, CtxFrame DEF vars, TypeOK, CtxInv
<1> QED
  BY <1>1, <1>2, <1>3, <1>4, <1>5, <1>6, <1>7, <1>8, <1>9, <1>10, 
     <1>11, <1>12, <1>13, <1>14, <1>15, <1>16, <1>17, <1>18
     DEF Next, Running, Proceed, Destructor, Terminated

\* A connection that is not waited on owes no answer.
LEMMA PipeNext ==
    ASSUME TypeOK, PcInv, DtorInv, LostInv, CtxInv, PipeInv,
           [Next]_vars, ~moved'
    PROVE  PipeInv'
<1>1. ASSUME NEW t \in Threads, Call(t)
      PROVE  PipeInv'
  BY <1>1, ClientAssumption, LenProperties, ElementOfSeq DEF Call, GoTo,
      TypeOK, PcInv, DtorInv, HoldPCs, CtxInv, Distinct, Disjoint, PipeInv
<1>2. ASSUME NEW t \in Threads, CallRefused(t)
      PROVE  PipeInv'
  BY <1>2, ClientAssumption, LenProperties, ElementOfSeq DEF CallRefused,
      TypeOK, PcInv, DtorInv, HoldPCs, CtxInv, Distinct, Disjoint, PipeInv
<1>3. ASSUME NEW t \in Threads, Receive(t)
      PROVE  PipeInv'
  BY <1>3, ClientAssumption, LenProperties, ElementOfSeq DEF Receive, GoTo,
      Waiting, Live, TypeOK, PcInv, DtorInv, HoldPCs, CtxInv, Distinct, Disjoint, PipeInv
<1>4. ASSUME NEW t \in Threads, RdLock(t)
      PROVE  PipeInv'
  BY <1>4, ClientAssumption, LenProperties, ElementOfSeq DEF RdLock, GoTo,
      TypeOK, PcInv, DtorInv, HoldPCs, CtxInv, Distinct, Disjoint, PipeInv
<1>5. ASSUME NEW t \in Threads, BorrowPooled(t)
      PROVE  PipeInv'
  BY <1>5, ClientAssumption, LenProperties, ElementOfSeq,
      NothingDropped DEF BorrowPooled, GoTo, FreeAndConnect, Live, TypeOK, PcInv, DtorInv, HoldPCs, CtxInv, Distinct, Disjoint, PipeInv
<1>6. ASSUME NEW t \in Threads, BorrowNew(t)
      PROVE  PipeInv'
  <2>1. Len(unUsed) \in 0..Len(unUsed)
    BY LenProperties DEF TypeOK
  <2>2. Len(unUsed) = 0
    BY <1>6, <2>1, NothingDropped DEF BorrowNew
  <2>3. Pooled = {} /\ unUsed' = << >> /\ DOMAIN unUsed' = {}
    BY <1>6, <2>2, LenProperties DEF BorrowNew, Pooled, Range, TypeOK
  <2>4. PICK a \in Addr \ Live : /\ redis' = [redis EXCEPT ![t] = a]
                                 /\ FreeAndConnect({}, {a})
    BY <1>6, <2>3 DEF BorrowNew
  <2>5. pipe'[a] = << >> /\ \A b \in Addr : b # a => pipe'[b] = pipe[b]
    BY <2>4 DEF FreeAndConnect
  <2>6. /\ pc'[t] = "send" /\ redis'[t] = a
        /\ \A u \in Threads : u # t => pc'[u] = pc[u] /\ redis'[u] = redis[u]
        /\ got' = got
    BY <1>6, <2>4 DEF BorrowNew, GoTo, TypeOK
  <2>7. \A u \in Threads : pc[u] \in HoldPCs => redis[u] \in Addr /\ redis[u] # a
    BY <2>4, ClientAssumption DEF PcInv, TypeOK, CtxInv, HeldOpen, Live
  <2> QED
    BY <2>3, <2>5, <2>6, <2>7 DEF PipeInv, HoldPCs
<1>7. ASSUME NEW t \in Threads, BorrowFails(t)
      PROVE  PipeInv'
  BY <1>7, ClientAssumption, LenProperties, ElementOfSeq,
      NothingDropped DEF BorrowFails, GoTo, FreeAndConnect, Live, TypeOK, PcInv, DtorInv, HoldPCs, CtxInv, Distinct, Disjoint, PipeInv
<1>8. ASSUME NEW t \in Threads, BorrowFreed(t)
      PROVE  PipeInv'
  BY <1>8, ClientAssumption, LenProperties, ElementOfSeq DEF BorrowFreed,
      Crash, TypeOK, PcInv, DtorInv, HoldPCs, CtxInv, Distinct, Disjoint, PipeInv
<1>9. ASSUME NEW t \in Threads, BorrowNull(t)
      PROVE  PipeInv'
  BY <1>9, ClientAssumption, LenProperties, ElementOfSeq DEF BorrowNull, Crash,
      TypeOK, PcInv, DtorInv, HoldPCs, CtxInv, Distinct, Disjoint, PipeInv
<1>10. ASSUME NEW t \in Threads, Send(t)
      PROVE  PipeInv'
  <2> DEFINE h == redis[t]
  <2>1. h \in Addr /\ pipe[h] = << >> /\ h # Null
    BY <1>10, ClientAssumption DEF Send, Live, PipeInv
  <2>2. \/ pipe' = pipe
        \/ pipe' = [pipe EXCEPT ![h] = <<t>>]
    <3>1. Append(<< >>, t) = <<t>>
      OBVIOUS
    <3> QED
      BY <1>10, <2>1, <3>1 DEF Send, TypeOK
  <2>3. /\ pc'[t] \in {"wait", "rewait"}
        /\ \A u \in Threads : u # t => pc'[u] = pc[u]
        /\ UNCHANGED <<redis, unUsed, connPool, got>>
    BY <1>10 DEF Send, GoTo, TypeOK
  <2>4. pipe'[h] \in {<< >>, <<t>>} /\ \A a \in Addr : a # h => pipe'[a] = pipe[a]
    BY <2>1, <2>2 DEF TypeOK
  <2>5. \A i \in DOMAIN unUsed : unUsed[i] \in Addr /\ unUsed[i] # h
    BY LenProperties, ElementOfSeq DEF TypeOK, CtxInv, Disjoint
  <2>6. \A u \in Threads : u # t /\ pc[u] \in HoldPCs => redis[u] \in Addr /\ redis[u] # h
    BY <2>1 DEF PcInv, TypeOK, CtxInv, Distinct
  <2> QED
    BY <2>3, <2>4, <2>5, <2>6 DEF PipeInv, HoldPCs
<1>11. ASSUME NEW t \in Threads, ReadFails(t)
      PROVE  PipeInv'
  BY <1>11, ClientAssumption, LenProperties, ElementOfSeq DEF ReadFails, GoTo,
      NullReply, Waiting, Live, TypeOK, PcInv, DtorInv, HoldPCs, CtxInv, Distinct, Disjoint, PipeInv
<1>12. ASSUME NEW t \in Threads, Timeout(t)
      PROVE  PipeInv'
  BY <1>12, ClientAssumption, LenProperties, ElementOfSeq DEF Timeout, GoTo,
      NullReply, Waiting, Live, TypeOK, PcInv, DtorInv, HoldPCs, CtxInv, Distinct, Disjoint, PipeInv
<1>13. ASSUME NEW t \in Threads, UseFreed(t)
      PROVE  PipeInv'
  BY <1>13, ClientAssumption, LenProperties, ElementOfSeq DEF UseFreed, Crash,
      TypeOK, PcInv, DtorInv, HoldPCs, CtxInv, Distinct, Disjoint, PipeInv
<1>14. ASSUME NEW t \in Threads, ReconnectOk(t)
      PROVE  PipeInv'
  BY <1>14, ClientAssumption, LenProperties, ElementOfSeq DEF ReconnectOk,
      GoTo, FreeAndConnect, Live, TypeOK, PcInv, DtorInv, HoldPCs, CtxInv, Distinct, Disjoint, PipeInv
<1>15. ASSUME NEW t \in Threads, ReconnectFails(t)
      PROVE  PipeInv'
  BY <1>15, ClientAssumption, LenProperties, ElementOfSeq DEF ReconnectFails,
      GoTo, FreeAndConnect, Live, TypeOK, PcInv, DtorInv, HoldPCs, CtxInv, Distinct, Disjoint, PipeInv
<1>16. ASSUME NEW t \in Threads, ReturnItem(t)
      PROVE  PipeInv'
  BY <1>16, ClientAssumption, LenProperties, ElementOfSeq DEF ReturnItem, GoTo,
      TypeOK, PcInv, DtorInv, HoldPCs, CtxInv, Distinct, Disjoint, PipeInv
<1>17. ASSUME NEW t \in Threads, Unlock(t)
      PROVE  PipeInv'
  BY <1>17, ClientAssumption, LenProperties, ElementOfSeq DEF Unlock, GoTo,
      TypeOK, PcInv, DtorInv, HoldPCs, CtxInv, Distinct, Disjoint, PipeInv
<1>18. ASSUME NEW a \in Addr, ServerClose(a)
      PROVE  PipeInv'
  BY <1>18, ClientAssumption, LenProperties, ElementOfSeq DEF ServerClose,
      TypeOK, PcInv, DtorInv, HoldPCs, CtxInv, Distinct, Disjoint, PipeInv
<1>19. ASSUME DtorLock
      PROVE  PipeInv'
  BY <1>19, ClientAssumption, LenProperties, ElementOfSeq DEF DtorLock, TypeOK,
      PcInv, DtorInv, HoldPCs, CtxInv, Distinct, Disjoint, PipeInv
<1>20. ASSUME DtorDelete
      PROVE  PipeInv'
  BY <1>20, ClientAssumption, LenProperties, ElementOfSeq DEF DtorDelete,
      FreeAndConnect, TypeOK, PcInv, DtorInv, HoldPCs, CtxInv, Distinct, Disjoint, PipeInv
<1>21. ASSUME DtorFreesTwice
      PROVE  PipeInv'
  BY <1>21, ClientAssumption, LenProperties, ElementOfSeq DEF DtorFreesTwice,
      Crash, TypeOK, PcInv, DtorInv, HoldPCs, CtxInv, Distinct, Disjoint, PipeInv
<1>22. ASSUME DtorUnlock
      PROVE  PipeInv'
  BY <1>22, ClientAssumption, LenProperties, ElementOfSeq DEF DtorUnlock,
      TypeOK, PcInv, DtorInv, HoldPCs, CtxInv, Distinct, Disjoint, PipeInv
<1>23. CASE UNCHANGED vars
  BY <1>23 DEF TypeOK, PcInv, DtorInv, HoldPCs, CtxInv, Distinct, Disjoint, PipeInv, vars
<1> QED
  BY <1>1, <1>2, <1>3, <1>4, <1>5, <1>6, <1>7, <1>8, <1>9, <1>10, <1>11, <1>12, 
     <1>13, <1>14, <1>15, <1>16, <1>17, <1>18, <1>19, <1>20, <1>21, <1>22, <1>23 DEF Next, Running, Proceed,
     Borrow, Destructor, Terminated

\* `moved` is never reset.
LEMMA MovedStays == [Next]_vars /\ ~moved' => ~moved
  BY DEF Next, Running, Call, CallRefused, Receive, Proceed, RdLock, Borrow,
     BorrowPooled, BorrowNew, BorrowFails, BorrowFreed, BorrowNull, Crash, Send,
     ReadFails, Timeout, NullReply, UseFreed, ReconnectOk, ReconnectFails,
     ReturnItem, Unlock, ServerClose, Destructor, DtorLock, DtorDelete,
     DtorFreesTwice, DtorUnlock, Terminated, vars

\* The invariant is inductive.
LEMMA IInvNext == IInv /\ [Next]_vars => IInv'
<1> SUFFICES ASSUME IInv, [Next]_vars
             PROVE  IInv'
  OBVIOUS
<1>1. TypeOK' /\ PcInv' /\ DtorInv' /\ LostInv'
  BY TypeNext, PcNext, LostNext DEF IInv
<1>2. ~moved' => ~moved
  BY MovedStays
<1>3. ~moved' => CtxInv' /\ PipeInv'
  BY <1>2, CtxNext, PipeNext DEF IInv
<1> QED
  BY <1>1, <1>3 DEF IInv

LEMMA Invariance == Spec => []IInv
  BY IInvInit, IInvNext, PTL DEF Spec

\* The pointwise invariant says where every open context is.
LEMMA Accounting ==
    ASSUME IInv, ~moved
    PROVE  /\ Live \ lost = Pooled \cup Held
           /\ Pooled \cup Held \subseteq Live
           /\ Pooled \cap Held = {}
<1>1. TypeOK /\ CtxInv
  BY DEF IInv
<1>2. Pooled \subseteq Addr /\ Held \subseteq Addr /\ Null \notin Addr
  <2>1. \A i \in DOMAIN unUsed : unUsed[i] \in Addr
    BY <1>1, LenProperties, ElementOfSeq DEF TypeOK
  <2> QED
    BY <1>1, <2>1, ClientAssumption DEF Pooled, Range, Held, TypeOK
<1>3. \A a \in Addr : Owned(a) <=> a \in Pooled \cup Held
  BY <1>2 DEF Owned, Pooled, Range, Held
<1>4. \A a \in Addr : a \in Live \ lost <=> a \in Pooled \cup Held
  BY <1>1, <1>3 DEF CtxInv, Accounted, Live
<1>5. Live \subseteq Addr
  BY DEF Live
<1>6. Live \ lost = Pooled \cup Held
  BY <1>2, <1>4, <1>5
<1>7. Pooled \cap Held = {}
  BY <1>1 DEF CtxInv, Disjoint, Pooled, Range, Held
<1> QED
  BY <1>6, <1>7

----------------------------------------------------------------------------
(* The theorems.                                                           *)

\* Until a Reconnect moves, threads never share a connection, neither among
\* themselves nor with the pool, however borrowItem, Reconnect, returnItem
\* and the destructor interleave.
THEOREM OwnershipHolds == Spec => []Ownership
<1>1. IInv => Ownership
  <2> SUFFICES ASSUME IInv, ~moved
               PROVE  Ownership
    BY DEF Ownership
  <2>1. Distinct /\ NoRepeats
    BY DEF IInv, CtxInv
  <2> QED
    BY <2>1, Accounting DEF Ownership, Distinct
<1> QED
  BY <1>1, Invariance, PTL

\* borrowItem's loop over unUsed_ never meets an error.
THEOREM PooledHaveNoErrorHolds == Spec => []PooledHaveNoError
<1>1. IInv => PooledHaveNoError
  BY DEF IInv, CtxInv, PooledOk, PooledHaveNoError, Pooled, Range
<1> QED
  BY <1>1, Invariance, PTL

\* Open connections are pooled, held by one call, or given up by one.
THEOREM NoLeakHolds == Spec => []NoLeak
<1>1. IInv => NoLeak
  BY Accounting DEF NoLeak
<1> QED
  BY <1>1, Invariance, PTL

\* A caller receives the answer to its own command or an error.
THEOREM ReplyMatchesHolds == Spec => []ReplyMatches
<1>1. IInv => ReplyMatches
  BY DEF IInv, PipeInv, ReplyMatches
<1> QED
  BY <1>1, Invariance, PTL

\* The by-value pointer of Reconnect is the only source of freed accesses.
THEOREM NoUseAfterFreeHolds == Spec => []NoUseAfterFree
<1>1. IInv => NoUseAfterFree
  BY DEF IInv, CtxInv, NoUseAfterFree
<1> QED
  BY <1>1, Invariance, PTL

\* The rwlock keeps the destructor out while a call uses the pool, and the
\* destructor closes everything the calls did not give up.
THEOREM PoolOutlivesBorrowersHolds == Spec => []PoolOutlivesBorrowers
<1>1. IInv => PoolOutlivesBorrowers
  <2> SUFFICES ASSUME IInv, ~connPool
               PROVE  PoolOutlivesBorrowers
    BY DEF PoolOutlivesBorrowers
  <2>1. \A t \in Threads : pc[t] \in {"idle", "rdlock", "borrow"}
    BY DEF IInv, DtorInv
  <2>2. Held = {}
    BY <2>1 DEF IInv, PcInv, HoldPCs, Held
  <2>3. ~moved => Pooled = {}
    BY DEF IInv, PipeInv, Pooled, Range
  <2>4. ~moved => Live \subseteq lost
    BY <2>2, <2>3, Accounting
  <2> QED
    BY <2>1, <2>4 DEF PoolOutlivesBorrowers
<1> QED
  BY <1>1, Invariance, PTL

\* Only create() adds to the connections in use, and only when none is
\* pooled.
LEMMA OnlyCreateGrows ==
    ASSUME TypeOK, PcInv, LostInv, CtxInv, [Next]_vars, ~moved'
    PROVE  (Live \ lost)' \subseteq Live \ lost \/ Pooled' = {}
<1>1. ASSUME NEW t \in Threads, Call(t)
      PROVE  (Live \ lost)' \subseteq Live \ lost \/ Pooled' = {}
  BY <1>1 DEF Call, TypeOK, LostInv, Live, CtxStates
<1>2. ASSUME NEW t \in Threads, CallRefused(t)
      PROVE  (Live \ lost)' \subseteq Live \ lost \/ Pooled' = {}
  BY <1>2 DEF CallRefused, TypeOK, LostInv, Live, CtxStates
<1>3. ASSUME NEW t \in Threads, Receive(t)
      PROVE  (Live \ lost)' \subseteq Live \ lost \/ Pooled' = {}
  BY <1>3 DEF Receive, TypeOK, LostInv, Live, CtxStates
<1>4. ASSUME NEW t \in Threads, RdLock(t)
      PROVE  (Live \ lost)' \subseteq Live \ lost \/ Pooled' = {}
  BY <1>4 DEF RdLock, TypeOK, LostInv, Live, CtxStates
<1>5. ASSUME NEW t \in Threads, BorrowPooled(t)
      PROVE  (Live \ lost)' \subseteq Live \ lost \/ Pooled' = {}
  BY <1>5 DEF BorrowPooled, FreeAndConnect, TypeOK, LostInv, Live, CtxStates
<1>6. ASSUME NEW t \in Threads, BorrowNew(t)
      PROVE  (Live \ lost)' \subseteq Live \ lost \/ Pooled' = {}
  BY <1>6 DEF BorrowNew, Pooled, Range, TypeOK, LostInv, Live, CtxStates
<1>7. ASSUME NEW t \in Threads, BorrowFails(t)
      PROVE  (Live \ lost)' \subseteq Live \ lost \/ Pooled' = {}
  BY <1>7 DEF BorrowFails, FreeAndConnect, TypeOK, LostInv, Live, CtxStates
<1>8. ASSUME NEW t \in Threads, BorrowFreed(t)
      PROVE  (Live \ lost)' \subseteq Live \ lost \/ Pooled' = {}
  BY <1>8 DEF BorrowFreed, Crash, TypeOK, LostInv, Live, CtxStates
<1>9. ASSUME NEW t \in Threads, BorrowNull(t)
      PROVE  (Live \ lost)' \subseteq Live \ lost \/ Pooled' = {}
  BY <1>9 DEF BorrowNull, Crash, TypeOK, LostInv, Live, CtxStates
<1>10. ASSUME NEW t \in Threads, Send(t)
      PROVE  (Live \ lost)' \subseteq Live \ lost \/ Pooled' = {}
  BY <1>10 DEF Send, TypeOK, LostInv, Live, CtxStates
<1>11. ASSUME NEW t \in Threads, ReadFails(t)
      PROVE  (Live \ lost)' \subseteq Live \ lost \/ Pooled' = {}
  BY <1>11 DEF ReadFails, NullReply, Waiting, TypeOK, LostInv, Live, CtxStates
<1>12. ASSUME NEW t \in Threads, Timeout(t)
      PROVE  (Live \ lost)' \subseteq Live \ lost \/ Pooled' = {}
  BY <1>12 DEF Timeout, NullReply, Waiting, TypeOK, LostInv, Live, CtxStates
<1>13. ASSUME NEW t \in Threads, UseFreed(t)
      PROVE  (Live \ lost)' \subseteq Live \ lost \/ Pooled' = {}
  BY <1>13 DEF UseFreed, Crash, TypeOK, LostInv, Live, CtxStates
<1>14. ASSUME NEW t \in Threads, ReconnectOk(t)
      PROVE  (Live \ lost)' \subseteq Live \ lost \/ Pooled' = {}
  <2>1. redis[t] \in Addr /\ redis[t] \notin lost /\ redis[t] \in Live
    BY <1>14 DEF ReconnectOk, Live, CtxInv, Accounted, Owned
  <2>2. FreeAndConnect({redis[t]}, {redis[t]}) /\ lost' = lost
    BY <1>14, <2>1 DEF ReconnectOk
  <2> QED
    BY <2>1, <2>2 DEF FreeAndConnect, Live
<1>15. ASSUME NEW t \in Threads, ReconnectFails(t)
      PROVE  (Live \ lost)' \subseteq Live \ lost \/ Pooled' = {}
  BY <1>15 DEF ReconnectFails, FreeAndConnect, TypeOK, LostInv, Live, CtxStates
<1>16. ASSUME NEW t \in Threads, ReturnItem(t)
      PROVE  (Live \ lost)' \subseteq Live \ lost \/ Pooled' = {}
  BY <1>16 DEF ReturnItem, TypeOK, LostInv, Live, CtxStates
<1>17. ASSUME NEW t \in Threads, Unlock(t)
      PROVE  (Live \ lost)' \subseteq Live \ lost \/ Pooled' = {}
  BY <1>17 DEF Unlock, TypeOK, LostInv, Live, CtxStates
<1>18. ASSUME NEW a \in Addr, ServerClose(a)
      PROVE  (Live \ lost)' \subseteq Live \ lost \/ Pooled' = {}
  BY <1>18 DEF ServerClose, TypeOK, LostInv, Live, CtxStates
<1>19. ASSUME DtorLock
      PROVE  (Live \ lost)' \subseteq Live \ lost \/ Pooled' = {}
  BY <1>19 DEF DtorLock, TypeOK, LostInv, Live, CtxStates
<1>20. ASSUME DtorDelete
      PROVE  (Live \ lost)' \subseteq Live \ lost \/ Pooled' = {}
  BY <1>20 DEF DtorDelete, FreeAndConnect, TypeOK, LostInv, Live, CtxStates
<1>21. ASSUME DtorFreesTwice
      PROVE  (Live \ lost)' \subseteq Live \ lost \/ Pooled' = {}
  BY <1>21 DEF DtorFreesTwice, Crash, TypeOK, LostInv, Live, CtxStates
<1>22. ASSUME DtorUnlock
      PROVE  (Live \ lost)' \subseteq Live \ lost \/ Pooled' = {}
  BY <1>22 DEF DtorUnlock, TypeOK, LostInv, Live, CtxStates
<1>23. CASE UNCHANGED vars
  BY <1>23 DEF TypeOK, LostInv, Live, CtxStates, vars
<1> QED
  BY <1>1, <1>2, <1>3, <1>4, <1>5, <1>6, <1>7, <1>8, <1>9, <1>10, <1>11, <1>12, 
     <1>13, <1>14, <1>15, <1>16, <1>17, <1>18, <1>19, <1>20, <1>21, <1>22, <1>23 DEF Next, Running, Proceed,
     Borrow, Destructor, Terminated

\* The pool is bounded by the number of calling threads, the only bound
\* there is: coreSize and maxSize are never read.
THEOREM PoolBoundHolds == Spec => []PoolBound
<1>1. IInv => IsFiniteSet(Live) /\ IsFiniteSet(Held)
  <2>1. IsFiniteSet(Addr) /\ Live \subseteq Addr
    BY ClientAssumption DEF Live
  <2>2. TypeOK => Held \subseteq Addr
    BY DEF TypeOK, Held
  <2> QED
    BY <2>1, <2>2, FS_Subset DEF IInv
<1>2. IInv => Cardinality(Held) <= Cardinality(Threads)
  <2> SUFFICES ASSUME IInv
               PROVE  Cardinality(Held) <= Cardinality(Threads)
    OBVIOUS
  <2> DEFINE H == {t \in Threads : redis[t] # Null}
             f == [t \in H |-> redis[t]]
  <2>1. f \in Surjection(H, Held)
    BY DEF Surjection, Held
  <2>2. IsFiniteSet(H) /\ Cardinality(H) <= Cardinality(Threads)
    BY ClientAssumption, FS_Subset
  <2> HIDE DEF H, f
  <2>3. Cardinality(Held) <= Cardinality(H)
    BY <2>1, <2>2, FS_Surjection
  <2>4. Cardinality(H) \in Nat /\ Cardinality(Held) \in Nat /\ Cardinality(Threads) \in Nat
    BY <1>1, <2>2, ClientAssumption, FS_CardinalityType
  <2> QED
    BY <2>2, <2>3, <2>4
<1>3. Init => PoolBound
  <2>1. Init => Live \ lost = {}
    BY DEF Init, Live
  <2> QED
    BY <2>1, FS_EmptySet, FS_CardinalityType, ClientAssumption DEF PoolBound
<1>4. IInv /\ IInv' /\ PoolBound /\ [Next]_vars => PoolBound'
  <2> SUFFICES ASSUME IInv, IInv', PoolBound, [Next]_vars, ~moved'
               PROVE  Cardinality((Live \ lost)') <= Cardinality(Threads)
    BY DEF PoolBound
  <2>1. Cardinality(Threads) \in Nat
    BY ClientAssumption, FS_CardinalityType
  <2>2. CASE (Live \ lost)' \subseteq Live \ lost
    <3>1. IsFiniteSet(Live \ lost)
      BY <1>1, FS_Subset
    <3>2. /\ Cardinality((Live \ lost)') <= Cardinality(Live \ lost)
          /\ IsFiniteSet((Live \ lost)')
      BY <2>2, <3>1, FS_Subset
    <3>3. Cardinality((Live \ lost)') \in Nat /\ Cardinality(Live \ lost) \in Nat
      BY <3>1, <3>2, FS_CardinalityType
    <3>4. ~moved
      BY MovedStays
    <3>5. Cardinality(Live \ lost) <= Cardinality(Threads)
      BY <3>4 DEF PoolBound
    <3> QED
      BY <2>1, <3>2, <3>3, <3>5
  <2>3. CASE Pooled' = {}
    <3>1. (IInv /\ ~moved => Live \ lost = Pooled \cup Held)'
      BY Accounting, PTL
    <3>2. (Live \ lost)' = Held'
      BY <2>3, <3>1
    <3>3. (IInv => Cardinality(Held) <= Cardinality(Threads))'
      BY <1>2, PTL
    <3> QED
      BY <3>2, <3>3
  <2> QED
    BY <2>2, <2>3, OnlyCreateGrows, MovedStays DEF IInv
<1> QED
  BY <1>3, <1>4, Invariance, PTL DEF Spec

----------------------------------------------------------------------------
(* Why a call with a timeout returns: it only goes forward, at most nine   *)
(* steps, and nobody else keeps it from going on.                          *)

\* The steps that a call at l has left at most.
StepsLeft(l) ==
    CASE l = "idle" -> 0     [] l = "unlock" -> 1 [] l = "return" -> 2
      [] l = "rewait" -> 3   [] l = "resend" -> 4 [] l = "reconnect" -> 5
      [] l = "wait" -> 6     [] l = "send" -> 7   [] l = "borrow" -> 8
      [] l = "rdlock" -> 9

\* A step moves one thread at most, and that one starts a call or has fewer
\* steps left: RedisCommand reconnects and sends again once, not in a loop.
CallGoesForward ==
    [][\A t \in Threads :
          \/ pc'[t] = pc[t]
          \/ pc[t] = "idle" /\ pc'[t] = "rdlock"
          \/ StepsLeft(pc'[t]) < StepsLeft(pc[t])]_vars

LEMMA PcForward ==
    ASSUME TypeOK, [Next]_vars
    PROVE  \/ pc' = pc
           \/ \E t \in Threads, l \in PCs :
                 /\ GoTo(t, l)
                 /\ \/ pc[t] = "idle" /\ l = "rdlock"
                    \/ StepsLeft(l) < StepsLeft(pc[t])
<1> USE DEF PCs, StepsLeft
<1> DEFINE Goal == \/ pc' = pc
                   \/ \E t \in Threads, l \in PCs :
                         /\ GoTo(t, l)
                         /\ \/ pc[t] = "idle" /\ l = "rdlock"
                            \/ StepsLeft(l) < StepsLeft(pc[t])
<1>1. ASSUME NEW t \in Threads, Call(t) \/ CallRefused(t) \/ RdLock(t)
      PROVE  Goal
  BY <1>1 DEF Call, CallRefused, RdLock
<1>2. ASSUME NEW t \in Threads, Borrow(t) \/ Receive(t)
      PROVE  Goal
  BY <1>2 DEF Borrow, BorrowPooled, BorrowNew, BorrowFails, Receive, Waiting
<1>3. ASSUME NEW t \in Threads, Send(t)
      PROVE  Goal
  BY <1>3 DEF Send
<1>4. ASSUME NEW t \in Threads, ReadFails(t) \/ Timeout(t)
      PROVE  Goal
  BY <1>4 DEF ReadFails, Timeout, NullReply, Waiting
<1>5. ASSUME NEW t \in Threads,
             ReconnectOk(t) \/ ReconnectFails(t) \/ ReturnItem(t) \/ Unlock(t)
      PROVE  Goal
  BY <1>5 DEF ReconnectOk, ReconnectFails, ReturnItem, Unlock
<1>6. ASSUME NEW t \in Threads, BorrowFreed(t) \/ BorrowNull(t) \/ UseFreed(t)
      PROVE  Goal
  BY <1>6 DEF BorrowFreed, BorrowNull, UseFreed, Crash
<1>7. ASSUME NEW a \in Addr, ServerClose(a)
      PROVE  Goal
  BY <1>7 DEF ServerClose
<1>8. CASE Destructor \/ Terminated \/ UNCHANGED vars
  BY <1>8 DEF Destructor, DtorLock, DtorDelete, DtorFreesTwice, DtorUnlock,
              Crash, Terminated, vars
<1> QED
  BY <1>1, <1>2, <1>3, <1>4, <1>5, <1>6, <1>7, <1>8 DEF Next, Running, Proceed

\* A call of RedisCommand ends after nine steps of its thread at most, and
\* sends its command twice at most, whatever the other threads, the proxy and
\* the destructor do.
THEOREM CallGoesForwardHolds == Spec => CallGoesForward
<1> DEFINE A == \A t \in Threads :
                   \/ pc'[t] = pc[t]
                   \/ pc[t] = "idle" /\ pc'[t] = "rdlock"
                   \/ StepsLeft(pc'[t]) < StepsLeft(pc[t])
<1>1. IInv /\ [Next]_vars => [A]_vars
  <2> SUFFICES ASSUME IInv, [Next]_vars, NEW t \in Threads, pc'[t] # pc[t]
               PROVE  \/ pc[t] = "idle" /\ pc'[t] = "rdlock"
                      \/ StepsLeft(pc'[t]) < StepsLeft(pc[t])
    OBVIOUS
  <2>1. TypeOK
    BY DEF IInv
  <2>2. PICK u \in Threads, l \in PCs :
          /\ GoTo(u, l)
          /\ \/ pc[u] = "idle" /\ l = "rdlock"
             \/ StepsLeft(l) < StepsLeft(pc[u])
    BY <2>1, PcForward
  <2>3. u = t /\ pc'[t] = l
    BY <2>1, <2>2 DEF GoTo, TypeOK
  <2> QED
    BY <2>2, <2>3
<1> QED
  BY <1>1, Invariance, PTL DEF Spec, CallGoesForward

\* A set of numbers that is not empty has a smallest one.
LEMMA Smallest ==
    ASSUME NEW T, T \subseteq Nat, T # {}
    PROVE  \E x \in T : \A y \in T : x <= y
<1> DEFINE R == OpToRel(<, Nat)
<1>1. IsWellFoundedOn(R, Nat)
  BY NatLessThanWellFounded
<1>2. \A y, x \in Nat : y < x => <<y, x>> \in R
  BY DEF OpToRel
<1> HIDE DEF R
<1>3. PICK x \in T : \A y \in T : ~(<<y, x>> \in R)
  BY <1>1, WFMin
<1>4. ASSUME NEW y \in T PROVE x <= y
  <2>1. y \in Nat /\ x \in Nat
    OBVIOUS
  <2>2. ~(y < x)
    BY <2>1, <1>2, <1>3, Zenon
  <2> QED
    BY <2>1, <2>2
<1> QED
  BY <1>4

\* borrowItem's loop over unUsed_ comes to an end: at the first context that
\* has no error, at one that is freed, or behind the last one.
LoopEnds ==
    \/ LeadingErr(Len(unUsed))
    \/ \E n \in 0..(Len(unUsed) - 1) :
          /\ LeadingErr(n)
          /\ \/ ErrOk(unUsed[n + 1])
             \/ unUsed[n + 1] \in (Addr \ Live) \cup Dropped(n)

LEMMA LoopAlwaysEnds == TypeOK => LoopEnds
<1> SUFFICES ASSUME TypeOK, ~LeadingErr(Len(unUsed))
             PROVE  \E n \in 0..(Len(unUsed) - 1) :
                       /\ LeadingErr(n)
                       /\ \/ ErrOk(unUsed[n + 1])
                          \/ unUsed[n + 1] \in (Addr \ Live) \cup Dropped(n)
  BY DEF LoopEnds
<1>1. Len(unUsed) \in Nat /\ unUsed \in Seq(Addr)
  BY LenProperties DEF TypeOK
<1> DEFINE Stops(i) == ~(ctx[unUsed[i]] = "err" /\ unUsed[i] \notin Dropped(i - 1))
           T == {i \in 1..Len(unUsed) : Stops(i)}
<1>2. T \subseteq Nat /\ T # {}
  BY <1>1 DEF LeadingErr
<1> HIDE DEF Stops
<1>3. PICK k \in T : \A i \in T : k <= i
  BY <1>2, Smallest
<1> DEFINE n == k - 1
<1>4. n \in 0..(Len(unUsed) - 1) /\ n + 1 = k /\ k \in 1..Len(unUsed)
  BY <1>1, <1>3
<1>5. LeadingErr(n)
  <2>1. \A i \in 1..n : ~Stops(i)
    BY <1>1, <1>3, <1>4
  <2> QED
    BY <2>1 DEF LeadingErr, Stops
<1>6. unUsed[k] \in Addr
  BY <1>1, <1>4, ElementOfSeq
<1>7. \/ ErrOk(unUsed[k])
      \/ unUsed[k] \in (Addr \ Live) \cup Dropped(n)
  BY <1>3, <1>6 DEF Stops, ErrOk, Live, TypeOK, CtxStates
<1> QED
  BY <1>4, <1>5, <1>7

\* What a thread in a call may have to wait for: the destructor, which then
\* waits for no call any more, and, when it has no timeout, the proxy.
NeverStuck ==
    \A t \in Threads : pc[t] # "idle" =>
        \/ pc[t] = "rdlock" /\ dtor \in {"no", "done"}
        \/ pc[t] = "rdlock" /\ dtor \in {"locked", "deleted"} /\ readers = {}
        \/ pc[t] = "borrow" /\ (~connPool \/ LoopEnds)
        \/ pc[t] \in {"send", "resend", "reconnect", "return", "unlock"}
        \/ /\ pc[t] \in {"wait", "rewait"}
           /\ \/ t \in Timed
              \/ redis[t] \notin Live \/ ctx[redis[t]] \in {"closed", "err"}
              \/ ErrOk(redis[t]) /\ dtor = "no"

\* No call waits for another call: the rwlock, the pool's mutex and the
\* destructor cannot wait in a circle, and a call with a timeout always has a
\* step to take. With CallGoesForward it is the safety half of TimedCallReturns.
THEOREM NeverStuckHolds == Spec => []NeverStuck
<1>1. IInv => NeverStuck
  <2> SUFFICES ASSUME IInv, NEW t \in Threads, pc[t] # "idle"
               PROVE  \/ pc[t] = "rdlock" /\ dtor \in {"no", "done"}
                      \/ /\ pc[t] = "rdlock" /\ dtor \in {"locked", "deleted"}
                         /\ readers = {}
                      \/ pc[t] = "borrow" /\ (~connPool \/ LoopEnds)
                      \/ pc[t] \in {"send", "resend", "reconnect", "return",
                                    "unlock"}
                      \/ /\ pc[t] \in {"wait", "rewait"}
                         /\ \/ t \in Timed
                            \/ redis[t] \notin Live
                            \/ ctx[redis[t]] \in {"closed", "err"}
                            \/ ErrOk(redis[t]) /\ dtor = "no"
    BY DEF NeverStuck
  <2>1. TypeOK /\ PcInv /\ DtorInv
    BY DEF IInv
  <2>2. pc[t] \in PCs /\ dtor \in {"no", "locked", "deleted", "done"}
    BY <2>1 DEF TypeOK
  <2>3. CASE pc[t] = "rdlock"
    BY <2>1, <2>2, <2>3 DEF DtorInv
  <2>4. CASE pc[t] = "borrow"
    BY <2>1, <2>4, LoopAlwaysEnds
  <2>5. CASE pc[t] \in {"wait", "rewait"}
    <3>1. t \in readers
      BY <2>1, <2>5 DEF PcInv
    <3>2. dtor = "no"
      BY <2>1, <2>2, <2>5, <3>1 DEF DtorInv
    <3>3. redis[t] \in Addr
      BY <2>1, <2>5 DEF PcInv, HoldPCs, TypeOK
    <3>4. redis[t] \notin Live \/ ctx[redis[t]] \in {"ok", "closed", "err"}
      BY <2>1, <3>3 DEF TypeOK, Live, CtxStates
    <3> QED
      BY <2>5, <3>2, <3>4 DEF ErrOk
  <2> QED
    BY <2>2, <2>3, <2>4, <2>5 DEF PCs
<1> QED
  BY <1>1, Invariance, PTL
=============================================================================
