---------------------------- MODULE BackoffRetry ----------------------------
(***************************************************************************)
(* The retry policy of the CuratorFramework that RoundRobinJedisPool       *)
(* creates: BoundedExponentialBackoffRetryUntilElapsed.java, driven by     *)
(* Curator's retry loop (external), which calls allowRetry after every     *)
(* attempt that failed, with the number of retries so far and the time     *)
(* since the first attempt.                                                *)
(***************************************************************************)
EXTENDS Integers

CONSTANTS
    baseSleepTimeMs, maxSleepTimeMs, maxElapsedTimeMs,  \* the constructor's
    Shift,    \* 30: 2^Shift is the largest power of two that is an int
    IntMax,   \* Integer.MAX_VALUE
    LongMax,  \* Long.MAX_VALUE
    Work      \* bound on the time an attempt takes

\* The powers of two that are ints are positive and grow, and an int times
\* the largest of them is a long.
ASSUME BackoffAssumption ==
    /\ Shift \in Nat /\ IntMax \in Nat /\ LongMax \in Nat /\ Work \in Nat
    /\ baseSleepTimeMs \in 0..IntMax /\ maxSleepTimeMs \in 0..IntMax
    /\ maxElapsedTimeMs \in Int /\ maxElapsedTimeMs <= LongMax
    /\ \A n \in 0..Shift : 2^n \in 1..IntMax /\ 2^n <= 2^Shift
    /\ \A i \in 0..IntMax : i * (2^Shift) <= LongMax

VARIABLES
    retryCount,  \* allowRetry's arguments ...
    elapsed,
    slept,       \* ... and the sleep it asked for last
    status       \* "attempt", "failed" (allowRetry), "succeeded", "gaveUp",
                 \* "interrupted"

vars == <<retryCount, elapsed, slept, status>>

\* A negative limit stands for none.
MaxElapsed == IF maxElapsedTimeMs < 0 THEN LongMax ELSE maxElapsedTimeMs

Min2(a, b) == IF a <= b THEN a ELSE b
Max2(a, b) == IF a >= b THEN a ELSE b

\* A value of an integer type with the given maximum.
Wrap(x, max) == ((x + max + 1) % (2 * (max + 1))) - (max + 1)

Init ==
    /\ retryCount = 0 /\ elapsed = 0 /\ slept = 0
    /\ status = "attempt"

Attempt ==
    /\ status = "attempt"
    /\ \E t \in 0..Work : elapsed' = elapsed + t
    /\ status' \in {"succeeded", "failed"}
    /\ UNCHANGED <<retryCount, slept>>

\* The results of nextInt(1 << Math.min(30, retryCount + 1)).
Randoms == 0..(2^Min2(Shift, retryCount + 1) - 1)

\* Mutants: the product is an int; the factor may be 0.
SleepTimesInt ==
    {Min2(maxSleepTimeMs, Wrap(baseSleepTimeMs * Max2(1, r), IntMax)) :
       r \in Randoms}
SleepTimesZero ==
    {Min2(maxSleepTimeMs, Wrap(baseSleepTimeMs * r, LongMax)) : r \in Randoms}

\* getSleepTimeMs
SleepTimes ==
    {Min2(maxSleepTimeMs, Wrap(baseSleepTimeMs * Max2(1, r), LongMax)) :
       r \in Randoms}

\* Above Shift the number of retries makes no difference, and is not counted.
Counted(n) == Min2(n, Shift + 1)

\* Mutant: the time that is left does not limit the sleep.
RetryUnlimited ==
    /\ status = "failed"
    /\ elapsed < MaxElapsed
    /\ \E s \in SleepTimes :
          /\ slept' = s
          /\ elapsed' = elapsed + s
    /\ retryCount' = Counted(retryCount + 1)
    /\ status' = "attempt"

\* allowRetry returns true.
Retry ==
    /\ status = "failed"
    /\ elapsed < MaxElapsed
    /\ \E s \in SleepTimes :
          /\ slept' = Min2(MaxElapsed - elapsed, s)
          /\ elapsed' = elapsed + Min2(MaxElapsed - elapsed, s)
    /\ retryCount' = Counted(retryCount + 1)
    /\ status' = "attempt"

\* The sleep is interrupted: allowRetry returns false.
Interrupt ==
    /\ status = "failed"
    /\ elapsed < MaxElapsed
    /\ \E s \in SleepTimes : slept' = Min2(MaxElapsed - elapsed, s)
    /\ status' = "interrupted"
    /\ UNCHANGED <<retryCount, elapsed>>

\* The time is over: allowRetry returns false and does not sleep.
GiveUp ==
    /\ status = "failed"
    /\ elapsed >= MaxElapsed
    /\ status' = "gaveUp"
    /\ UNCHANGED <<retryCount, elapsed, slept>>

Over == status \in {"succeeded", "gaveUp", "interrupted"} /\ UNCHANGED vars

Next == Attempt \/ Retry \/ Interrupt \/ GiveUp \/ Over

Spec == Init /\ [][Next]_vars
FairSpec == Spec /\ WF_vars(Next)
----------------------------------------------------------------------------
(* What the policy promises.                                               *)

\* Every variable has a value the program can give it; the loop is over the
\* limit by no more than the attempt that was running when it passed.
TypeOK ==
    /\ retryCount \in 0..(Shift + 1)
    /\ elapsed \in 0..(MaxElapsed + Work)
    /\ slept \in Int
    /\ status \in {"attempt", "failed", "succeeded", "gaveUp", "interrupted"}

\* The policy's test (TestBoundedExponentialBackoffRetryUntilElapsed.java:
\* sleepTimeMs <= 2000), for every number of retries: it never asks for a
\* negative sleep (as a product of ints would) nor for one above the maximum.
SleepBounded == slept \in 0..maxSleepTimeMs

\* "total time in ms to retry": no retry begins with a sleep that ends after
\* the limit, so only the attempts themselves can go beyond it.
SleepsBeforeDeadline ==
    [][status = "failed" /\ status' = "attempt" => elapsed' <= MaxElapsed]_vars

\* The retries end: the sleeps are never 0 for ever.
RetriesEnd == <>(status \in {"succeeded", "gaveUp", "interrupted"})
=============================================================================
