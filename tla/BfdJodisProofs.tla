--------------------------- MODULE BfdJodisProofs ---------------------------
(***************************************************************************)
(* Theorems about the calls of BfdJodis, for any number of threads,        *)
(* proxies, instances and failures, while resetPools and close() go on:    *)
(* the retry of a call goes to another proxy, the proxies of a list are    *)
(* served in turn, and an instance is lost only to a command that failed.  *)
(***************************************************************************)
EXTENDS BfdJodis, RoundRobinJedisPoolProofs

USE JedisPoolAssumption, FaultsAssumption

----------------------------------------------------------------------------
(* The attempts.                                                           *)

CallInv ==
    /\ attempt \in [Threads -> 0..2]
    /\ faults \in 0..MaxFaults
    /\ \A t \in Threads : pc[t] = "idle" <=> attempt[t] = 0
    /\ DOMAIN first = Threads /\ DOMAIN disturbed = Threads

\* As long as no other thread has picked, nextIdx is where the first attempt
\* of a thread has left it, until its second attempt picks.
LeftAlone ==
    \A t \in Threads :
        first[t] # NoPick /\ ~disturbed[t] =>
            \/ nextIdx = first[t].idx
            \/ attempt[t] = 2 /\ pc[t] \in {"borrow", "got", "failed"}

RetryInv == PickInv /\ CallInv /\ LeftAlone /\ RetryElsewhere

\* A thread goes on in its call, and does not pick.
LEMMA GoesOn ==
    ASSUME RetryInv, NEW t \in Threads,
           UNCHANGED <<nextIdx, first, disturbed>>, faults' \in 0..MaxFaults,
           \A u \in Threads \ {t} : /\ snap'[u] = snap[u] /\ idx'[u] = idx[u]
                                    /\ pc'[u] = pc[u] /\ attempt'[u] = attempt[u],
           attempt' \in [Threads -> 0..2],
           pc'[t] \notin {"idle", "borrow"}, attempt'[t] # 0,
           attempt[t] = 2 /\ pc[t] \in {"borrow", "got", "failed"} =>
              attempt'[t] = 2 /\ pc'[t] \in {"got", "failed"}
    PROVE  CallInv' /\ LeftAlone' /\ RetryElsewhere'
  <1>. USE DEF RetryInv
  <1>1. CallInv'
    BY DEF CallInv
  <1>2. LeftAlone'
    BY DEF LeftAlone
  <1>3. RetryElsewhere'
    BY DEF RetryElsewhere
  <1>. QED BY <1>1, <1>2, <1>3

\* A call is over.
LEMMA Finishes ==
    ASSUME RetryInv, NEW t \in Threads, Finish(t), UNCHANGED <<nextIdx, faults>>
    PROVE  CallInv' /\ LeftAlone' /\ RetryElsewhere'
  <1>. USE DEF RetryInv
  <1>1. ASSUME NEW u \in Threads \ {t}
        PROVE  /\ pc'[u] = pc[u] /\ attempt'[u] = attempt[u]
               /\ snap'[u] = snap[u] /\ idx'[u] = idx[u]
               /\ first'[u] = first[u] /\ disturbed'[u] = disturbed[u]
    BY DEF Finish, Leave, CallInv, PickInv, ListInv
  <1>2. pc'[t] = "idle" /\ attempt'[t] = 0 /\ first'[t] = NoPick
    BY DEF Finish, CallInv, PickInv, ListInv
  <1>3. CallInv'
    <2>1. attempt' \in [Threads -> 0..2] /\ DOMAIN first' = Threads
          /\ DOMAIN disturbed' = Threads
      BY DEF Finish, CallInv
    <2>. QED BY <1>1, <1>2, <2>1 DEF CallInv
  <1>4. LeftAlone'
    BY <1>1, <1>2 DEF LeftAlone
  <1>5. RetryElsewhere'
    BY <1>1, <1>2 DEF RetryElsewhere
  <1>. QED BY <1>3, <1>4, <1>5

\* A second attempt picks a place that the first has not.
LEMMA Picks ==
    ASSUME RetryInv, NEW t \in Threads, Pick(t)
    PROVE  CallInv' /\ LeftAlone' /\ RetryElsewhere'
  <1>. USE DEF RetryInv
  <1>1. /\ pc[t] = "pick" /\ pc' = [pc EXCEPT ![t] = "borrow"]
        /\ nextIdx' = NextIdx(t) /\ idx' = [idx EXCEPT ![t] = NextIdx(t)]
        /\ UNCHANGED <<snap, attempt, faults>>
    BY DEF Pick, PickPool
  <1>2. \A u \in Threads :
          disturbed'[u] = (disturbed[u] \/ (u # t /\ first[u] # NoPick))
    BY DEF Pick
  <1>3. \A u \in Threads \ {t} : /\ first'[u] = first[u] /\ pc'[u] = pc[u]
                                 /\ idx'[u] = idx[u]
    BY <1>1 DEF Pick, CallInv, PickInv, ListInv
  <1>4. pc'[t] = "borrow" /\ idx'[t] = NextIdx(t)
    BY <1>1 DEF PickInv, ListInv
  <1>5. attempt[t] \in {1, 2}
    BY <1>1 DEF CallInv
  <1>6. CASE attempt[t] = 1
    <2>1. first'[t].idx = NextIdx(t)
      BY <1>6 DEF Pick, CallInv
    <2>2. CallInv'
      <3>1. DOMAIN first' = Threads /\ DOMAIN disturbed' = Threads
        BY DEF Pick, CallInv
      <3>. QED BY <1>1, <1>3, <1>4, <1>6, <3>1 DEF CallInv
    <2>3. LeftAlone'
      BY <1>1, <1>2, <1>3, <2>1 DEF LeftAlone
    <2>4. RetryElsewhere'
      <3>1. ASSUME NEW u \in Threads \ {t}, ~disturbed'[u]
            PROVE  ~disturbed[u]
        BY <1>2, <3>1
      <3>. QED BY <1>1, <1>3, <1>6, <3>1 DEF RetryElsewhere
    <2>. QED BY <2>2, <2>3, <2>4
  <1>7. CASE attempt[t] = 2
    <2>1. first' = first
      BY <1>7 DEF Pick
    <2>2. CallInv'
      <3>1. DOMAIN disturbed' = Threads
        BY DEF Pick
      <3>. QED BY <1>1, <1>3, <1>4, <1>7, <2>1, <3>1 DEF CallInv
    <2>3. LeftAlone'
      BY <1>1, <1>2, <1>3, <1>4, <1>7, <2>1 DEF LeftAlone
    <2>4. ASSUME ~disturbed'[t], first[t].list = snap[t], Len(snap[t]) > 1
          PROVE  NextIdx(t) # first[t].idx
      <3>1. first[t] # NoPick
        BY <2>4 DEF NoPick
      <3>2. nextIdx = first[t].idx
        BY <1>1, <1>2, <2>4, <3>1 DEF LeftAlone
      <3>3. nextIdx \in Int /\ Len(snap[t]) \in Nat
        BY <1>1, NextIdxInRange DEF PickInv, IndexInv
      <3>. QED BY <2>4, <3>2, <3>3 DEF NextIdx
    <2>5. RetryElsewhere'
      <3>1. ASSUME NEW u \in Threads \ {t}, ~disturbed'[u]
            PROVE  ~disturbed[u]
        BY <1>2, <3>1
      <3>. QED BY <1>1, <1>3, <1>4, <2>1, <2>4, <3>1 DEF RetryElsewhere
    <2>. QED BY <2>2, <2>3, <2>5
  <1>. QED BY <1>5, <1>6, <1>7

\* The pool's own steps.
LEMMA PoolGoesOn ==
    ASSUME RetryInv, UNCHANGED <<nextIdx, userVars, callVars>>
    PROVE  CallInv' /\ LeftAlone' /\ RetryElsewhere'
  BY DEF RetryInv, CallInv, LeftAlone, RetryElsewhere, userVars, callVars

LEMMA PoolStepFrame ==
    ASSUME PoolStep
    PROVE  UNCHANGED <<nextIdx, userVars, callVars, borrowed>>
  BY DEF PoolStep, Zookeeper, Background, Close, Change, Refresh, ChildEvent,
         ResetPools, ReadPools, BuildList, PublishPools, CloseRemoved,
         ResetDone, CloseWatcher, ClearPools, CloseAll

\* The steps of a call that are getResource's, and those that are not.
LEMMA PickInvStep ==
    ASSUME PickInv, [JodisNext]_allVars
    PROVE  PickInv'
  <1>1. CASE UNCHANGED allVars
    BY <1>1, PickFrame DEF allVars, vars, resetVars, userVars, PickInv, ListInv
  <1>2. CASE PoolStep
    <2>1. [Next]_vars
      BY <1>2 DEF PoolStep, Next
    <2>. QED BY <2>1, PickNext
  <1>3. ASSUME NEW t \in Threads,
               StartCall(t) \/ Pick(t) \/ Obtain(t) \/ Command(t) \/ Throw(t)
        PROVE  PickInv'
    <2>1. CallStarts(t) \/ GetResource(t) \/ CallEnds(t)
      BY <1>3 DEF StartCall, Pick, Obtain, Command, Throw, GetResource,
                  CallEnds, Finish, sharedVars, CloseJedis
    <2>. QED BY <2>1, PickThread
  <1>4. ASSUME NEW t \in Threads,
               ConnectFails(t) \/ CommandFails(t) \/ Catch(t)
        PROVE  PickInv'
    <2>. USE DEF sharedVars, resetVars, PickInv, ListInv, IndexInv,
                 PickInRange, IsList
    <2>1. CASE ConnectFails(t)
      BY <2>1 DEF ConnectFails
    <2>2. CASE CommandFails(t)
      BY <2>2 DEF CommandFails
    <2>3. CASE Catch(t)
      BY <2>3, EmptyIsList DEF Catch, Leave
    <2>. QED BY <1>4, <2>1, <2>2, <2>3
  <1>. QED BY <1>1, <1>2, <1>3, <1>4 DEF JodisNext, Works

LEMMA RetryInvStep == RetryInv /\ [JodisNext]_allVars => RetryInv'
  <1>. SUFFICES ASSUME RetryInv, [JodisNext]_allVars
                PROVE  CallInv' /\ LeftAlone' /\ RetryElsewhere'
    BY PickInvStep DEF RetryInv
  <1>. USE DEF sharedVars
  <1>0. /\ attempt \in [Threads -> 0..2] /\ faults \in 0..MaxFaults
        /\ \A t \in Threads : pc[t] = "idle" <=> attempt[t] = 0
        /\ DOMAIN pc = Threads /\ DOMAIN snap = Threads /\ DOMAIN idx = Threads
    BY DEF RetryInv, CallInv, PickInv, ListInv
  <1>1. CASE UNCHANGED allVars
    BY <1>1, PoolGoesOn DEF allVars, vars
  <1>2. CASE PoolStep
    BY <1>2, PoolGoesOn, PoolStepFrame
  <1>3. ASSUME NEW t \in Threads, StartCall(t)
        PROVE  CallInv' /\ LeftAlone' /\ RetryElsewhere'
    <2>1. /\ pc[t] = "idle" /\ pc' = [pc EXCEPT ![t] = "get"]
          /\ attempt' = [attempt EXCEPT ![t] = 1]
          /\ UNCHANGED <<nextIdx, first, disturbed, snap, idx, faults>>
      BY <1>3 DEF StartCall, CallStarts
    <2>2. /\ attempt' \in [Threads -> 0..2] /\ attempt'[t] = 1 /\ pc'[t] = "get"
          /\ \A u \in Threads \ {t} : pc'[u] = pc[u] /\ attempt'[u] = attempt[u]
      BY <1>0, <2>1
    <2>. QED BY <1>0, <2>1, <2>2, GoesOn
  <1>4. ASSUME NEW t \in Threads, Obtain(t)
        PROVE  CallInv' /\ LeftAlone' /\ RetryElsewhere'
    <2>1. /\ UNCHANGED <<nextIdx, first, disturbed, attempt, faults>>
          /\ \A u \in Threads \ {t} : snap'[u] = snap[u] /\ idx'[u] = idx[u]
      BY <1>0, <1>4 DEF Obtain, GetPools, BorrowJedis, BorrowThrows, callVars
    <2>2. /\ \A u \in Threads \ {t} : pc'[u] = pc[u]
          /\ pc[t] \in {"get", "borrow"} /\ pc'[t] \in {"pick", "got", "failed"}
          /\ pc[t] = "borrow" => pc'[t] \in {"got", "failed"}
      BY <1>0, <1>4 DEF Obtain, GetPools, BorrowJedis, BorrowThrows
    <2>3. attempt'[t] # 0
      BY <1>0, <2>1, <2>2
    <2>. QED BY <1>0, <2>1, <2>2, <2>3, GoesOn
  <1>5. ASSUME NEW t \in Threads, ConnectFails(t) \/ CommandFails(t)
        PROVE  CallInv' /\ LeftAlone' /\ RetryElsewhere'
    <2>1. /\ UNCHANGED <<nextIdx, first, disturbed, attempt, snap, idx>>
          /\ pc[t] \in {"borrow", "got"} /\ pc' = [pc EXCEPT ![t] = "failed"]
          /\ faults < MaxFaults /\ faults' = faults + 1
      BY <1>5 DEF ConnectFails, CommandFails, Fail
    <2>2. faults' \in 0..MaxFaults
      BY <1>0, <2>1
    <2>3. /\ \A u \in Threads \ {t} : pc'[u] = pc[u]
          /\ pc'[t] = "failed" /\ attempt'[t] # 0
      BY <1>0, <2>1
    <2>. QED BY <1>0, <2>1, <2>2, <2>3, GoesOn
  <1>6. ASSUME NEW t \in Threads, Catch(t)
        PROVE  CallInv' /\ LeftAlone' /\ RetryElsewhere'
    <2>1. /\ UNCHANGED <<nextIdx, first, disturbed, faults>>
          /\ \A u \in Threads \ {t} : snap'[u] = snap[u] /\ idx'[u] = idx[u]
          /\ pc[t] = "failed" /\ attempt[t] = 1
          /\ pc' = [pc EXCEPT ![t] = "get"]
          /\ attempt' = [attempt EXCEPT ![t] = 2]
      BY <1>0, <1>6 DEF Catch, Leave
    <2>2. /\ attempt' \in [Threads -> 0..2] /\ attempt'[t] = 2 /\ pc'[t] = "get"
          /\ \A u \in Threads \ {t} : pc'[u] = pc[u] /\ attempt'[u] = attempt[u]
      BY <1>0, <2>1
    <2>. QED BY <1>0, <2>1, <2>2, GoesOn
  <1>7. ASSUME NEW t \in Threads, Command(t) \/ Throw(t)
        PROVE  CallInv' /\ LeftAlone' /\ RetryElsewhere'
    BY <1>7, Finishes DEF Command, Throw
  <1>. QED BY <1>1, <1>2, <1>3, <1>4, <1>5, <1>6, <1>7, Picks
           DEF JodisNext, Works

LEMMA RetryInvInit == JodisInit => RetryInv
  <1>. SUFFICES ASSUME JodisInit PROVE RetryInv
    OBVIOUS
  <1>1. PickInv
    BY PickInit DEF JodisInit
  <1>2. CallInv
    BY DEF JodisInit, Init, CallInv
  <1>3. LeftAlone /\ RetryElsewhere
    BY DEF JodisInit, LeftAlone, RetryElsewhere
  <1>. QED BY <1>1, <1>2, <1>3 DEF RetryInv

LEMMA RetryInvHolds == JodisSpec => []RetryInv
  BY RetryInvInit, RetryInvStep, PTL DEF JodisSpec

\* The catch block's getResource never returns the pool of the proxy whose
\* failure it is there to survive, if the list has another one, is still the
\* same and no other thread has moved nextIdx meanwhile.
THEOREM RetryElsewhereHolds == JodisSpec => []RetryElsewhere
  <1>1. RetryInv => RetryElsewhere
    BY DEF RetryInv
  <1>. QED BY <1>1, RetryInvHolds, PTL

----------------------------------------------------------------------------
(* The instances.                                                          *)

HeldInv ==
    /\ RetryInv /\ PoolTypes
    /\ borrowed \in [PoolIds -> Int]
    /\ \A p \in PoolIds : borrowed[p] <= MaxTotal
    /\ \A t \in Threads : pc[t] = "got" => Chosen(t) \in PoolIds
    /\ HeldIsBorrowed

LEMMA HoldersCount ==
    ASSUME NEW p
    PROVE  IsFiniteSet(Holders(p)) /\ Cardinality(Holders(p)) \in Nat
  <1>1. Holders(p) \in SUBSET Threads
    BY DEF Holders
  <1>. QED BY <1>1, FS_Subset, FS_CardinalityType

\* How many hold an instance of p before and after a thread goes on.
LEMMA OneTakes ==
    ASSUME NEW t \in Threads, pc[t] # "got", pc'[t] = "got",
           \A u \in Threads \ {t} : pc'[u] = pc[u] /\ Chosen(u)' = Chosen(u),
           NEW p \in PoolIds
    PROVE  Cardinality(Holders(p)') =
             Cardinality(Holders(p)) + (IF Chosen(t)' = p THEN 1 ELSE 0)
  <1>1. t \notin Holders(p)
    BY DEF Holders
  <1>2. CASE Chosen(t)' = p
    <2>1. Holders(p)' = Holders(p) \cup {t}
      BY <1>2 DEF Holders
    <2>2. Cardinality(Holders(p) \cup {t}) = Cardinality(Holders(p)) + 1
      BY <1>1, HoldersCount, FS_AddElement
    <2>. QED BY <1>2, <2>1, <2>2
  <1>3. CASE Chosen(t)' # p
    <2>1. Holders(p)' = Holders(p)
      BY <1>3 DEF Holders
    <2>2. Cardinality(Holders(p)') = Cardinality(Holders(p))
      BY <2>1
    <2>. QED BY <1>3, <2>2, HoldersCount
  <1>. QED BY <1>2, <1>3

LEMMA OneLeaves ==
    ASSUME NEW t \in Threads, pc[t] = "got", pc'[t] # "got",
           \A u \in Threads \ {t} : pc'[u] = pc[u] /\ Chosen(u)' = Chosen(u),
           NEW p \in PoolIds
    PROVE  Cardinality(Holders(p)') =
             Cardinality(Holders(p)) - (IF Chosen(t) = p THEN 1 ELSE 0)
  <1>1. CASE Chosen(t) = p
    <2>1. Holders(p)' = Holders(p) \ {t} /\ t \in Holders(p)
      BY <1>1 DEF Holders
    <2>2. Cardinality(Holders(p) \ {t}) = Cardinality(Holders(p)) - 1
      BY <2>1, HoldersCount, FS_RemoveElement
    <2>. QED BY <1>1, <2>1, <2>2
  <1>2. CASE Chosen(t) # p
    <2>1. Holders(p)' = Holders(p)
      BY <1>2 DEF Holders
    <2>2. Cardinality(Holders(p)') = Cardinality(Holders(p))
      BY <2>1
    <2>. QED BY <1>2, <2>2, HoldersCount
  <1>. QED BY <1>1, <1>2

LEMMA NoneMoves ==
    ASSUME \A u \in Threads :
             (pc'[u] = "got" <=> pc[u] = "got")
             /\ (pc[u] = "got" => Chosen(u)' = Chosen(u)),
           NEW p
    PROVE  Cardinality(Holders(p)') = Cardinality(Holders(p))
  <1>1. Holders(p)' = Holders(p)
    BY DEF Holders
  <1>. QED BY <1>1

\* What the invariant says of the instances, for one kind of step after the
\* other.
HeldPart ==
    /\ borrowed \in [PoolIds -> Int]
    /\ \A p \in PoolIds : borrowed[p] <= MaxTotal
    /\ \A t \in Threads : pc[t] = "got" => Chosen(t) \in PoolIds
    /\ HeldIsBorrowed

\* No instance changes hands.
LEMMA HeldSame ==
    ASSUME HeldInv, UNCHANGED borrowed, faults' \in Nat, faults <= faults',
           \A u \in Threads :
             (pc'[u] = "got" <=> pc[u] = "got")
             /\ (pc[u] = "got" => Chosen(u)' = Chosen(u))
    PROVE  HeldPart'
  <1>1. \A p \in PoolIds : Cardinality(Holders(p)') = Cardinality(Holders(p))
    BY NoneMoves
  <1>2. /\ faults \in Nat
        /\ \A p \in PoolIds : Cardinality(Holders(p)) \in Nat
    BY HoldersCount DEF HeldInv, RetryInv, CallInv
  <1>3. HeldIsBorrowed'
    <2>1. ASSUME NEW p \in PoolIds
          PROVE  borrowed'[p] \in Cardinality(Holders(p)')
                                  ..(Cardinality(Holders(p)') + faults')
      <3>1. borrowed[p] \in Cardinality(Holders(p))
                            ..(Cardinality(Holders(p)) + faults)
        BY DEF HeldInv, HeldIsBorrowed
      <3>. QED BY <1>1, <1>2, <3>1
    <2>. QED BY <2>1 DEF HeldIsBorrowed
  <1>. QED BY <1>3 DEF HeldInv, HeldPart

LEMMA HeldTakes ==
    ASSUME HeldInv, NEW t \in Threads, BorrowJedis(t), UNCHANGED faults
    PROVE  HeldPart'
  <1>1. /\ pc[t] = "borrow" /\ pc' = [pc EXCEPT ![t] = "got"]
        /\ Chosen(t) \in open /\ borrowed[Chosen(t)] < MaxTotal
        /\ borrowed' = [borrowed EXCEPT ![Chosen(t)] = @ + 1]
        /\ UNCHANGED <<snap, idx>>
    BY DEF BorrowJedis
  <1>2. Chosen(t) \in PoolIds
    <2>1. Chosen(t) \in 1..created /\ created \in 0..MaxPools
      BY <1>1 DEF HeldInv, PoolTypes
    <2>. QED BY <2>1 DEF PoolIds
  <1>3. \A u \in Threads : Chosen(u)' = Chosen(u)
    BY <1>1 DEF Chosen
  <1>4. pc'[t] = "got" /\ \A u \in Threads \ {t} : pc'[u] = pc[u]
    BY <1>1 DEF HeldInv, PoolTypes
  <1>5. ASSUME NEW p \in PoolIds
        PROVE  /\ borrowed'[p] = borrowed[p] + (IF Chosen(t) = p THEN 1 ELSE 0)
               /\ borrowed'[p] <= MaxTotal
    BY <1>1, <1>2 DEF HeldInv
  <1>6. ASSUME NEW p \in PoolIds
        PROVE  Cardinality(Holders(p)') =
                 Cardinality(Holders(p)) + (IF Chosen(t) = p THEN 1 ELSE 0)
    BY <1>1, <1>3, <1>4, OneTakes
  <1>7. HeldIsBorrowed'
    <2>1. ASSUME NEW p \in PoolIds
          PROVE  borrowed'[p] \in Cardinality(Holders(p)')
                                  ..(Cardinality(Holders(p)') + faults')
      <3>1. borrowed[p] \in Cardinality(Holders(p))
                            ..(Cardinality(Holders(p)) + faults)
        BY DEF HeldInv, HeldIsBorrowed
      <3>2. Cardinality(Holders(p)) \in Nat /\ faults \in Nat
        BY HoldersCount DEF HeldInv, RetryInv, CallInv
      <3>. QED BY <1>5, <1>6, <3>1, <3>2
    <2>. QED BY <2>1 DEF HeldIsBorrowed
  <1>8. borrowed' \in [PoolIds -> Int]
    BY <1>1, <1>2 DEF HeldInv
  <1>. QED BY <1>2, <1>3, <1>4, <1>5, <1>7, <1>8 DEF HeldInv, HeldPart

\* A thread gives its instance back, or loses it to a failure.
LEMMA HeldLeaves ==
    ASSUME HeldInv, NEW t \in Threads, pc[t] = "got",
           NEW q, pc' = [pc EXCEPT ![t] = q], q # "got",
           \A u \in Threads \ {t} : snap'[u] = snap[u] /\ idx'[u] = idx[u],
           \/ CloseJedis(t) /\ faults' = faults
           \/ UNCHANGED borrowed /\ faults' = faults + 1
    PROVE  HeldPart'
  <1>1. \A u \in Threads \ {t} : pc'[u] = pc[u] /\ Chosen(u)' = Chosen(u)
    BY DEF HeldInv, PoolTypes, Chosen
  <1>2. pc'[t] = q
    BY DEF HeldInv, PoolTypes
  <1>3. ASSUME NEW p \in PoolIds
        PROVE  Cardinality(Holders(p)') =
                 Cardinality(Holders(p)) - (IF Chosen(t) = p THEN 1 ELSE 0)
    BY <1>1, <1>2, OneLeaves
  <1>4. Chosen(t) \in PoolIds /\ borrowed \in [PoolIds -> Int] /\ faults \in Nat
    BY DEF HeldInv, RetryInv, CallInv
  <1>5. ASSUME NEW p \in PoolIds
        PROVE  /\ borrowed[p] \in Cardinality(Holders(p))
                                  ..(Cardinality(Holders(p)) + faults)
               /\ Cardinality(Holders(p)) \in Nat
               /\ borrowed[p] <= MaxTotal
    BY HoldersCount DEF HeldInv, HeldIsBorrowed
  <1>6. CASE CloseJedis(t) /\ faults' = faults
    <2>1. borrowed' \in [PoolIds -> Int]
      BY <1>4, <1>6 DEF CloseJedis
    <2>2. ASSUME NEW p \in PoolIds
          PROVE  borrowed'[p] = borrowed[p] - (IF Chosen(t) = p THEN 1 ELSE 0)
      BY <1>4, <1>6 DEF CloseJedis
    <2>3. ASSUME NEW p \in PoolIds
          PROVE  /\ borrowed'[p] \in Cardinality(Holders(p)')
                                     ..(Cardinality(Holders(p)') + faults')
                 /\ borrowed'[p] <= MaxTotal
      BY <1>3, <1>4, <1>5, <1>6, <2>2
    <2>. QED BY <1>1, <1>2, <2>1, <2>3 DEF HeldInv, HeldPart, HeldIsBorrowed
  <1>7. CASE UNCHANGED borrowed /\ faults' = faults + 1
    <2>1. ASSUME NEW p \in PoolIds
          PROVE  borrowed'[p] \in Cardinality(Holders(p)')
                                  ..(Cardinality(Holders(p)') + faults')
      BY <1>3, <1>4, <1>5, <1>7
    <2>. QED BY <1>1, <1>2, <1>7, <2>1 DEF HeldInv, HeldPart, HeldIsBorrowed
  <1>. QED BY <1>6, <1>7

LEMMA HeldInvStep == HeldInv /\ [JodisNext]_allVars => HeldInv'
  <1>. SUFFICES ASSUME HeldInv, [JodisNext]_allVars PROVE HeldInv'
    OBVIOUS
  <1>. USE DEF sharedVars
  <1>1. RetryInv'
    BY RetryInvStep DEF HeldInv
  <1>2. /\ DOMAIN pc = Threads /\ DOMAIN snap = Threads /\ DOMAIN idx = Threads
        /\ faults \in Nat
        /\ \A t \in Threads : pc[t] = "idle" <=> attempt[t] = 0
    BY DEF HeldInv, RetryInv, CallInv, PickInv, ListInv
  <1>3. PoolTypes'
    <2>1. CASE UNCHANGED allVars
      BY <2>1 DEF HeldInv, PoolTypes, allVars, vars, zkVars, resetVars,
                  poolVars, userVars
    <2>2. CASE PoolStep
      BY <2>2, PoolStepTypes DEF PoolStep, HeldInv
    <2>3. ASSUME NEW t \in Threads,
                 StartCall(t) \/ Pick(t) \/ Obtain(t) \/ Command(t) \/ Throw(t)
          PROVE  PoolTypes'
      <3>1. CallStarts(t) \/ GetResource(t) \/ CallEnds(t)
        BY <2>3 DEF StartCall, Pick, Obtain, Command, Throw, GetResource,
                    CallEnds, Finish, CloseJedis
      <3>. QED BY <3>1, ThreadTypes DEF HeldInv, RetryInv
    <2>4. ASSUME NEW t \in Threads,
                 ConnectFails(t) \/ CommandFails(t) \/ Catch(t)
          PROVE  PoolTypes'
      <3>1. UNCHANGED <<zkVars, pools, nextIdx, resetVars, poolVars>>
        BY <2>4 DEF ConnectFails, CommandFails, Catch
      <3>2. pc' \in [Threads -> {"idle", "get", "pick", "borrow", "got",
                                 "failed"}]
        BY <2>4 DEF ConnectFails, CommandFails, Catch, Leave, HeldInv, PoolTypes
      <3>3. snap' \in [Threads -> ShortLists]
        BY <2>4, EmptyIsShort
           DEF ConnectFails, CommandFails, Catch, Leave, HeldInv, PoolTypes
      <3>. QED BY <3>1, <3>2, <3>3 DEF HeldInv, PoolTypes, zkVars, resetVars, poolVars
    <2>. QED BY <2>1, <2>2, <2>3, <2>4 DEF JodisNext, Works
  <1>4. ASSUME UNCHANGED <<userVars, borrowed, faults>> PROVE HeldPart'
    BY <1>2, <1>4, HeldSame DEF userVars, Chosen
  <1>5. ASSUME NEW t \in Threads, StartCall(t) \/ Pick(t) \/ Catch(t)
        PROVE  HeldPart'
    <2>1. /\ UNCHANGED <<borrowed, faults>>
          /\ \A u \in Threads \ {t} : /\ pc'[u] = pc[u] /\ snap'[u] = snap[u]
                                      /\ idx'[u] = idx[u]
          /\ pc[t] # "got" /\ pc'[t] # "got"
      BY <1>2, <1>5 DEF StartCall, CallStarts, Pick, PickPool, Catch, Leave
    <2>2. \A u \in Threads : /\ pc'[u] = "got" <=> pc[u] = "got"
                             /\ pc[u] = "got" => Chosen(u)' = Chosen(u)
      BY <2>1 DEF Chosen
    <2>. QED BY <1>2, <2>1, <2>2, HeldSame
  <1>6. ASSUME NEW t \in Threads, GetPools(t) \/ BorrowThrows(t), UNCHANGED callVars
        PROVE  HeldPart'
    <2>1. /\ UNCHANGED <<borrowed, faults>>
          /\ \A u \in Threads \ {t} : /\ pc'[u] = pc[u] /\ snap'[u] = snap[u]
                                      /\ idx'[u] = idx[u]
          /\ pc[t] # "got" /\ pc'[t] # "got"
      BY <1>2, <1>6 DEF GetPools, BorrowThrows, callVars
    <2>2. \A u \in Threads : /\ pc'[u] = "got" <=> pc[u] = "got"
                             /\ pc[u] = "got" => Chosen(u)' = Chosen(u)
      BY <2>1 DEF Chosen
    <2>. QED BY <1>2, <2>1, <2>2, HeldSame
  <1>7. ASSUME NEW t \in Threads, ConnectFails(t)
        PROVE  HeldPart'
    <2>1. /\ UNCHANGED <<borrowed, snap, idx>> /\ faults' = faults + 1
          /\ pc[t] = "borrow" /\ pc' = [pc EXCEPT ![t] = "failed"]
      BY <1>7 DEF ConnectFails, Fail
    <2>2. \A u \in Threads : /\ pc'[u] = "got" <=> pc[u] = "got"
                             /\ Chosen(u)' = Chosen(u)
      BY <1>2, <2>1 DEF Chosen
    <2>3. faults' \in Nat /\ faults <= faults'
      BY <1>2, <2>1
    <2>. QED BY <2>1, <2>2, <2>3, HeldSame
  <1>8. ASSUME NEW t \in Threads, CommandFails(t)
        PROVE  HeldPart'
    <2>1. /\ UNCHANGED <<borrowed, snap, idx>> /\ faults' = faults + 1
          /\ pc[t] = "got" /\ pc' = [pc EXCEPT ![t] = "failed"]
      BY <1>8 DEF CommandFails, Fail
    <2>. QED BY <2>1, HeldLeaves
  <1>9. ASSUME NEW t \in Threads, Command(t)
        PROVE  HeldPart'
    <2>1. /\ CloseJedis(t) /\ faults' = faults
          /\ pc[t] = "got" /\ pc' = [pc EXCEPT ![t] = "idle"]
          /\ \A u \in Threads \ {t} : snap'[u] = snap[u] /\ idx'[u] = idx[u]
      BY <1>2, <1>9 DEF Command, CloseJedis, Finish, Leave
    <2>. QED BY <2>1, HeldLeaves
  <1>10. ASSUME NEW t \in Threads, Throw(t)
         PROVE  HeldPart'
    <2>1. /\ UNCHANGED <<borrowed, faults>>
          /\ \A u \in Threads \ {t} : /\ pc'[u] = pc[u] /\ snap'[u] = snap[u]
                                      /\ idx'[u] = idx[u]
          /\ pc[t] # "got" /\ pc'[t] # "got"
      BY <1>2, <1>10 DEF Throw, Finish, Leave
    <2>2. \A u \in Threads : /\ pc'[u] = "got" <=> pc[u] = "got"
                             /\ pc[u] = "got" => Chosen(u)' = Chosen(u)
      BY <2>1 DEF Chosen
    <2>. QED BY <1>2, <2>1, <2>2, HeldSame
  <1>11. HeldPart'
    <2>1. CASE UNCHANGED allVars
      BY <1>4, <2>1 DEF allVars, vars, callVars
    <2>2. CASE PoolStep
      BY <1>4, <2>2, PoolStepFrame DEF callVars
    <2>3. ASSUME NEW t \in Threads, Obtain(t) PROVE HeldPart'
      BY <1>6, <2>3, HeldTakes DEF Obtain, callVars
    <2>. QED BY <1>5, <1>7, <1>8, <1>9, <1>10, <2>1, <2>2, <2>3
             DEF JodisNext, Works
  <1>. QED BY <1>1, <1>3, <1>11 DEF HeldInv, HeldPart

LEMMA HeldInvHolds == JodisSpec => []HeldInv
  <1>1. JodisInit => RetryInv /\ PoolTypes
    BY RetryInvInit, InitTypes DEF JodisInit
  <1>2. JodisInit => HeldPart
    <2>. SUFFICES ASSUME JodisInit PROVE HeldPart
      OBVIOUS
    <2>1. /\ borrowed = [p \in PoolIds |-> 0] /\ faults = 0
          /\ \A t \in Threads : pc[t] = "idle"
      BY DEF JodisInit, Init
    <2>2. \A p \in PoolIds : Holders(p) = {}
      BY <2>1 DEF Holders
    <2>3. \A p \in PoolIds : Cardinality(Holders(p)) = 0
      BY <2>2, FS_EmptySet
    <2>4. HeldIsBorrowed
      BY <2>1, <2>3 DEF HeldIsBorrowed
    <2>. QED BY <2>1, <2>4 DEF HeldPart
  <1>3. JodisInit => HeldInv
    BY <1>1, <1>2 DEF HeldInv, HeldPart
  <1>. QED BY <1>3, HeldInvStep, PTL DEF JodisSpec

\* Every variable keeps its type, with any number of threads: no call makes a
\* third attempt, and no JedisPool ever has more instances out than MaxTotal
\* or fewer than none.
THEOREM CallsTypeOKHolds == JodisSpec => []CallsTypeOK
  <1>1. HeldInv => CallsTypeOK
    <2>. SUFFICES ASSUME HeldInv PROVE CallsTypeOK
      OBVIOUS
    <2>1. ASSUME NEW p \in PoolIds PROVE borrowed[p] \in 0..MaxTotal
      <3>1. /\ borrowed[p] \in Int /\ borrowed[p] <= MaxTotal
            /\ borrowed[p] \in Cardinality(Holders(p))
                               ..(Cardinality(Holders(p)) + faults)
            /\ Cardinality(Holders(p)) \in Nat
        BY HoldersCount DEF HeldInv, HeldIsBorrowed
      <3>. QED BY <3>1
    <2>2. borrowed \in [PoolIds -> 0..MaxTotal]
      BY <2>1 DEF HeldInv
    <2>3. \A s \in ShortLists : s \in Seq(PoolIds)
      BY ShortListRange
    <2>4. /\ pools \in Seq(PoolIds)
          /\ \A r \in Resetters : /\ was[r] \in Seq(PoolIds)
                                  /\ built[r] \in Seq(PoolIds)
                                  /\ doomed[r] \subseteq PoolIds
          /\ \A t \in Threads : snap[t] \in Seq(PoolIds)
      BY <2>3 DEF HeldInv, PoolTypes
    <2>5. TypeOK
      BY <2>2, <2>4 DEF HeldInv, PoolTypes, TypeOK
    <2>. QED BY <2>5 DEF HeldInv, RetryInv, CallInv, CallsTypeOK
  <1>. QED BY <1>1, HeldInvHolds, PTL

\* An instance that is out is in the hands of a thread or lost to one of the
\* commands that have failed: a call that succeeds gives back what it took,
\* whatever resetPools and close() do to the pool meanwhile.
THEOREM HeldIsBorrowedHolds == JodisSpec => []HeldIsBorrowed
  <1>1. HeldInv => HeldIsBorrowed
    BY DEF HeldInv
  <1>. QED BY <1>1, HeldInvHolds, PTL

\* The index that getResource computes is one of the list it has read, also
\* with calls that fail and try again.
THEOREM CallsPickInRange == JodisSpec => []PickInRange
  <1>1. HeldInv => PickInRange
    BY DEF HeldInv, RetryInv, PickInv
  <1>. QED BY <1>1, HeldInvHolds, PTL

----------------------------------------------------------------------------
(* Round robin, across the attempts of all calls.                          *)

\* Only Pick moves the index, and a thread from "pick" to "borrow".
LEMMA OnlyPickTurns ==
    ASSUME RetryInv, [JodisNext]_allVars
    PROVE  \/ \E t \in Threads : PickPool(t)
           \/ /\ UNCHANGED <<nextIdx, round>>
              /\ \A t \in Threads : ~(pc[t] = "pick" /\ pc'[t] = "borrow")
  <1>. DEFINE Quiet == /\ UNCHANGED <<nextIdx, round>>
                       /\ \A t \in Threads :
                             ~(pc[t] = "pick" /\ pc'[t] = "borrow")
  <1>. USE DEF sharedVars
  <1>0. PickInv /\ DOMAIN pc = Threads
    BY DEF RetryInv, PickInv, ListInv
  <1>1. CASE UNCHANGED allVars
    BY <1>1 DEF allVars, vars, userVars
  <1>2. CASE PoolStep
    <2>1. [Next]_vars
      BY <1>2 DEF PoolStep, Next
    <2>. QED BY <1>0, <2>1, OnlyPickPicks
  <1>3. ASSUME NEW t \in Threads,
               StartCall(t) \/ Obtain(t) \/ Command(t) \/ Throw(t)
        PROVE  Quiet
    <2>1. \/ CallStarts(t) \/ GetPools(t) \/ BorrowJedis(t)
          \/ BorrowThrows(t) \/ CallEnds(t)
      BY <1>3 DEF StartCall, Obtain, Command, Throw, CallEnds, Finish,
                  CloseJedis
    <2>. QED BY <1>0, <2>1 DEF CallStarts, GetPools, BorrowJedis,
                               BorrowThrows, CallEnds
  <1>4. ASSUME NEW t \in Threads,
               ConnectFails(t) \/ CommandFails(t) \/ Catch(t)
        PROVE  Quiet
    BY <1>0, <1>4 DEF ConnectFails, CommandFails, Catch
  <1>5. ASSUME NEW t \in Threads, Pick(t) PROVE PickPool(t)
    BY <1>5 DEF Pick
  <1>. QED BY <1>1, <1>2, <1>3, <1>4, <1>5 DEF JodisNext, Works

LEMMA CallRoundStep ==
    RetryInv /\ RoundInv /\ [JodisNext]_allVars => RoundInv'
  <1>. SUFFICES ASSUME RetryInv, RoundInv, [JodisNext]_allVars
                PROVE  RoundInv'
    OBVIOUS
  <1>1. CASE UNCHANGED <<nextIdx, round>>
    BY <1>1 DEF RoundInv
  <1>. QED BY <1>1, RoundPick, OnlyPickTurns DEF RetryInv

\* Failed attempts and retries take their turns like all others: no proxy of
\* a list has a second turn before every other one has had its first.
THEOREM CallsRoundRobin == JodisSpec => RoundRobin
  <1>. DEFINE Turn ==
         \A t \in Threads :
            pc[t] = "pick" /\ pc'[t] = "borrow" /\ round.list = snap[t] =>
               idx'[t] + 1 \notin round.seen
               \/ round.seen = 1..Len(snap[t])
  <1>1. RetryInv /\ RoundInv /\ [JodisNext]_allVars => [Turn]_vars
    <2>. SUFFICES ASSUME RetryInv, RoundInv, [JodisNext]_allVars,
                         NEW t \in Threads, pc[t] = "pick",
                         pc'[t] = "borrow", round.list = snap[t],
                         round.seen # 1..Len(snap[t])
                  PROVE  idx'[t] + 1 \notin round.seen
      OBVIOUS
    <2>1. PICK u \in Threads : PickPool(u)
      BY OnlyPickTurns
    <2>2. u = t /\ idx'[t] = NextIdx(t)
      BY <2>1 DEF PickPool, RetryInv, PickInv, ListInv
    <2>. QED BY <2>2, TurnIsNew DEF RetryInv
  <1>2. JodisInit => RoundInv
    BY DEF JodisInit, Init, RoundInv
  <1>. QED BY <1>1, <1>2, CallRoundStep, RetryInvHolds, PTL
           DEF JodisSpec, RoundRobin
=============================================================================
