------------------------ MODULE BackoffRetryProofs -------------------------
(***************************************************************************)
(* For every base, maximum and limit: the sleeps that the retry policy     *)
(* asks for are never negative nor above the maximum, because the product  *)
(* in getSleepTimeMs is a long; they end before the limit, and each of     *)
(* them takes the base at least, so that the limit is reached.             *)
(***************************************************************************)
EXTENDS BackoffRetry, TLAPS

\* A long that is not too large is not changed by the width of a long.
LEMMA WrapIdentity ==
    ASSUME NEW max \in Nat, NEW x \in 0..max
    PROVE  Wrap(x, max) = x
<1> DEFINE n == 2 * (max + 1)
           y == x + max + 1
<1>1. n \in Nat \ {0} /\ y \in 0..(n - 1)
  OBVIOUS
<1>2. y % n = y
  <2> HIDE DEF n, y
  <2> QED  BY <1>1, Z3
<1> QED  BY <1>2 DEF Wrap

\* The product in getSleepTimeMs is a long that does not overflow.
LEMMA ProductFits ==
    ASSUME NEW n \in 0..Shift, NEW r \in 0..(2^n - 1)
    PROVE  baseSleepTimeMs * Max2(1, r) \in 0..LongMax
<1> DEFINE p == 2^n
           q == 2^Shift
           m == Max2(1, r)
<1>1. p \in 1..IntMax /\ p <= q /\ q \in 1..IntMax
  BY BackoffAssumption
<1>2. m \in 1..q
  BY <1>1 DEF Max2
<1>3. baseSleepTimeMs \in Nat /\ baseSleepTimeMs * q <= LongMax
  BY BackoffAssumption
<1>4. baseSleepTimeMs * m \in Nat /\ baseSleepTimeMs * m <= baseSleepTimeMs * q
  <2> HIDE DEF m, q
  <2> QED  BY <1>1, <1>2, <1>3, Z3
<1> QED
  <2> HIDE DEF m, q
  <2>1. LongMax \in Nat /\ q \in Nat
    BY <1>1, BackoffAssumption
  <2>2. baseSleepTimeMs * q \in Nat
    BY <2>1, <1>3, Z3
  <2> DEFINE bm == baseSleepTimeMs * m
             bq == baseSleepTimeMs * q
  <2>3. bm \in Nat /\ bm <= bq /\ bq <= LongMax /\ bq \in Nat
    BY <1>3, <1>4, <2>2
  <2>4. bm \in 0..LongMax
    <3> HIDE DEF bm, bq
    <3> QED  BY <2>1, <2>3
  <2> QED  BY <2>4 DEF m

\* Whatever the number of retries, a sleep is between 0 and the maximum.
LEMMA SleepTimesBounded ==
    ASSUME retryCount \in 0..(Shift + 1)
    PROVE  SleepTimes \subseteq 0..maxSleepTimeMs
<1> SUFFICES ASSUME NEW r \in Randoms
             PROVE  Min2(maxSleepTimeMs,
                         Wrap(baseSleepTimeMs * Max2(1, r), LongMax))
                      \in 0..maxSleepTimeMs
  BY DEF SleepTimes
<1> DEFINE b == baseSleepTimeMs * Max2(1, r)
<1>1. PICK n \in 0..Shift : n = Min2(Shift, retryCount + 1)
  BY BackoffAssumption DEF Min2
<1>2. r \in 0..(2^n - 1)
  BY <1>1 DEF Randoms
<1>3. b \in 0..LongMax
  BY <1>2, ProductFits
<1>4. Wrap(b, LongMax) = b
  BY <1>3, WrapIdentity, BackoffAssumption
<1>5. Min2(maxSleepTimeMs, b) \in 0..maxSleepTimeMs
  <2> HIDE DEF b
  <2> QED  BY <1>3, BackoffAssumption DEF Min2
<1> QED  BY <1>4, <1>5

\* Both: the sleep of allowRetry is one of SleepTimes, or the time left.
LEMMA LeftBounded ==
    ASSUME NEW s \in 0..maxSleepTimeMs, elapsed \in Nat, elapsed < MaxElapsed
    PROVE  /\ Min2(MaxElapsed - elapsed, s) \in 0..maxSleepTimeMs
           /\ elapsed + Min2(MaxElapsed - elapsed, s) \in Nat
           /\ elapsed + Min2(MaxElapsed - elapsed, s) <= MaxElapsed
<1>1. MaxElapsed \in Int /\ maxSleepTimeMs \in Nat
  BY BackoffAssumption DEF MaxElapsed
<1> QED  BY <1>1 DEF Min2

LEMMA CountedBounded ==
    ASSUME NEW n \in Nat
    PROVE  Counted(n) \in 0..(Shift + 1)
BY BackoffAssumption DEF Counted, Min2

\* An attempt begins before the limit or at it.
BeginsInTime == status = "attempt" => elapsed <= MaxElapsed

SleepInv == TypeOK /\ SleepBounded /\ BeginsInTime

LEMMA SleepInvStep == SleepInv /\ [Next]_vars => SleepInv'
<1> SUFFICES ASSUME SleepInv, [Next]_vars
             PROVE  SleepInv'
  OBVIOUS
<1> USE DEF SleepInv, TypeOK, SleepBounded, BeginsInTime
<1>0. MaxElapsed' = MaxElapsed /\ MaxElapsed \in Nat /\ Work \in Nat
      /\ elapsed \in Nat
  BY BackoffAssumption DEF MaxElapsed
<1>1. CASE Attempt
  BY <1>0, <1>1, BackoffAssumption DEF Attempt
<1>2. CASE Retry
  <2>1. PICK s \in SleepTimes :
          /\ slept' = Min2(MaxElapsed - elapsed, s)
          /\ elapsed' = elapsed + Min2(MaxElapsed - elapsed, s)
    BY <1>2 DEF Retry
  <2>2. s \in 0..maxSleepTimeMs /\ elapsed < MaxElapsed
    BY <1>2, SleepTimesBounded DEF Retry
  <2>3. /\ slept' \in 0..maxSleepTimeMs /\ elapsed' \in Nat
        /\ elapsed' <= MaxElapsed
    BY <1>0, <2>1, <2>2, LeftBounded
  <2>4. retryCount' \in 0..(Shift + 1)
    BY <1>2, CountedBounded, BackoffAssumption DEF Retry
  <2> QED  BY <1>0, <1>2, <2>3, <2>4, BackoffAssumption DEF Retry
<1>3. CASE Interrupt
  <2>1. PICK s \in SleepTimes : slept' = Min2(MaxElapsed - elapsed, s)
    BY <1>3 DEF Interrupt
  <2>2. s \in 0..maxSleepTimeMs /\ elapsed < MaxElapsed
    BY <1>3, SleepTimesBounded DEF Interrupt
  <2>3. slept' \in 0..maxSleepTimeMs
    BY <1>0, <2>1, <2>2, LeftBounded
  <2> QED  BY <1>3, <2>3, BackoffAssumption DEF Interrupt
<1>4. CASE GiveUp
  BY <1>4 DEF GiveUp
<1>5. CASE UNCHANGED vars
  BY <1>5 DEF vars
<1> QED  BY <1>1, <1>2, <1>3, <1>4, <1>5 DEF Next, Over

LEMMA SleepInvHolds == Spec => []SleepInv
<1>1. Init => SleepInv
  BY BackoffAssumption
     DEF Init, SleepInv, TypeOK, SleepBounded, BeginsInTime, MaxElapsed
<1> QED  BY <1>1, SleepInvStep, PTL DEF Spec

\* allowRetry never asks for a negative sleep nor for one above the maximum,
\* for all limits and any number of retries.
THEOREM SleepBoundedHolds == Spec => []SleepBounded
<1>1. SleepInv => SleepBounded
  BY DEF SleepInv
<1> QED  BY <1>1, SleepInvHolds, PTL

\* No retry begins with a sleep that ends after the limit.
THEOREM SleepsBeforeDeadlineHolds == Spec => SleepsBeforeDeadline
<1> DEFINE A == status = "failed" /\ status' = "attempt" =>
                  elapsed' <= MaxElapsed
<1>1. SleepInv /\ [Next]_vars => [A]_vars
  <2> SUFFICES ASSUME SleepInv, Next, status = "failed", status' = "attempt"
               PROVE  elapsed' <= MaxElapsed
    BY DEF vars
  <2>1. Retry
    BY DEF Next, Attempt, Interrupt, GiveUp, Over, vars
  <2>2. PICK s \in SleepTimes :
          elapsed' = elapsed + Min2(MaxElapsed - elapsed, s)
    BY <2>1 DEF Retry
  <2>3. s \in 0..maxSleepTimeMs /\ elapsed < MaxElapsed /\ elapsed \in Nat
    BY <2>1, SleepTimesBounded DEF Retry, SleepInv, TypeOK
  <2> QED  BY <2>2, <2>3, LeftBounded
<1> QED  BY <1>1, SleepInvHolds, PTL DEF Spec, SleepsBeforeDeadline

\* The retry count, the elapsed time and the sleep keep their types, and the
\* loop is over its limit by one attempt at most: for all limits and any number
\* of retries.
THEOREM TypeOKHolds == Spec => []TypeOK
<1>1. SleepInv => TypeOK
  BY DEF SleepInv
<1> QED  BY <1>1, SleepInvHolds, PTL

----------------------------------------------------------------------------
(* Why the retries end.                                                    *)

\* The factor of getSleepTimeMs is at least 1: no sleep is shorter than the
\* base, but for the maximum.
LEMMA SleepTimesCount ==
    ASSUME retryCount \in 0..(Shift + 1), NEW s \in SleepTimes
    PROVE  s >= Min2(baseSleepTimeMs, maxSleepTimeMs)
<1> PICK r \in Randoms :
      s = Min2(maxSleepTimeMs, Wrap(baseSleepTimeMs * Max2(1, r), LongMax))
  BY DEF SleepTimes
<1> DEFINE m == Max2(1, r)
           b == baseSleepTimeMs * m
<1>1. PICK n \in 0..Shift : n = Min2(Shift, retryCount + 1)
  BY BackoffAssumption DEF Min2
<1>2. r \in 0..(2^n - 1) /\ 2^n \in 1..IntMax
  BY <1>1, BackoffAssumption DEF Randoms
<1>3. b \in 0..LongMax
  BY <1>2, ProductFits
<1>4. Wrap(b, LongMax) = b
  BY <1>3, WrapIdentity, BackoffAssumption
<1>5. m \in Nat /\ m >= 1
  BY <1>2 DEF Max2
<1>6. b >= baseSleepTimeMs
  <2> HIDE DEF m
  <2>1. baseSleepTimeMs \in Nat
    BY BackoffAssumption
  <2>2. baseSleepTimeMs * m >= baseSleepTimeMs * 1
    BY <1>5, <2>1, Z3
  <2> QED  BY <2>1, <2>2
<1>7. s = Min2(maxSleepTimeMs, b)
  BY <1>4
<1>8. baseSleepTimeMs \in Nat /\ maxSleepTimeMs \in Nat
  BY BackoffAssumption
<1> HIDE DEF b
<1> QED  BY <1>3, <1>6, <1>7, <1>8 DEF Min2

\* Every retry brings the time forward by the base or the maximum, or to the
\* limit: so that there are no more of them than the limit has room for.
EverySleepCounts ==
    [][status = "failed" /\ status' = "attempt" =>
         \/ elapsed' = MaxElapsed
         \/ elapsed' >= elapsed + Min2(baseSleepTimeMs, maxSleepTimeMs)]_vars

\* The safety half of RetriesEnd: no random number makes allowRetry sleep for
\* no time at all, for all limits and any number of retries.
THEOREM EverySleepCountsHolds == Spec => EverySleepCounts
<1> DEFINE A == status = "failed" /\ status' = "attempt" =>
                  \/ elapsed' = MaxElapsed
                  \/ elapsed' >= elapsed + Min2(baseSleepTimeMs, maxSleepTimeMs)
<1>1. SleepInv /\ [Next]_vars => [A]_vars
  <2> SUFFICES ASSUME SleepInv, Next, status = "failed", status' = "attempt"
               PROVE  \/ elapsed' = MaxElapsed
                      \/ elapsed' >= elapsed
                                       + Min2(baseSleepTimeMs, maxSleepTimeMs)
    BY DEF vars
  <2> DEFINE c == Min2(baseSleepTimeMs, maxSleepTimeMs)
  <2>1. Retry
    BY DEF Next, Attempt, Interrupt, GiveUp, Over, vars
  <2>2. PICK s \in SleepTimes :
          elapsed' = elapsed + Min2(MaxElapsed - elapsed, s)
    BY <2>1 DEF Retry
  <2>3. s \in 0..maxSleepTimeMs /\ s >= c /\ elapsed \in Nat
    BY SleepTimesBounded, SleepTimesCount DEF SleepInv, TypeOK
  <2>4. MaxElapsed \in Int /\ c \in Int
    BY BackoffAssumption DEF MaxElapsed, Min2
  <2> HIDE DEF c
  <2>5. elapsed' = MaxElapsed \/ elapsed' >= elapsed + c
    BY <2>2, <2>3, <2>4 DEF Min2
  <2> QED  BY <2>5 DEF c
<1> QED  BY <1>1, SleepInvHolds, PTL DEF Spec, EverySleepCounts
=============================================================================
