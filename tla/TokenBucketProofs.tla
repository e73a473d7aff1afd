------------------------- MODULE TokenBucketProofs -------------------------
(***************************************************************************)
(* Proofs about the token bucket, for any number of threads, capacity,     *)
(* rate and clock.                                                         *)
(***************************************************************************)
EXTENDS TokenBucket, TLAPS

(* Whoever is inside consume() holds the lock, and its reading of the      *)
(* clock is not older than the stamp.                                      *)
Inside(t) == callPc[t] # "idle"
LockOK  == \A t \in Thread : Inside(t) => bucketLock = t
FreshOK == \A t \in Thread :
              /\ callPc[t] \in {"refill", "stamp"} => lastRefill <= reading[t]
              /\ callPc[t] = "take" => lastRefill = reading[t]

BucketInv == BucketTypeOK /\ LockOK /\ FreshOK

LEMMA FullNat == Full \in Nat /\ TicksPerMinute \in Nat /\ RefillPerMinute \in Nat
  BY BucketAssumption DEF Full

LEMMA BucketInvInit == BucketInit => BucketInv
  BY FullNat DEF BucketInit, BucketInv, BucketTypeOK, LockOK, FreshOK, Inside

LEMMA RefillTokens ==
    ASSUME BucketInv, NEW t \in Thread, Refill(t)
    PROVE  /\ tokens' \in 0 .. Full
           /\ tokens' = Full \/ tokens' = tokens + (reading[t] - lastRefill) * RefillPerMinute
           /\ tokens' <= tokens + (reading[t] - lastRefill) * RefillPerMinute
<1>1. reading[t] - lastRefill \in Nat
  BY DEF BucketInv, BucketTypeOK, FreshOK, Refill
<1>2. (reading[t] - lastRefill) * RefillPerMinute \in Nat
  BY <1>1, FullNat
<1> QED
  BY <1>2, FullNat DEF BucketInv, BucketTypeOK, Refill, Smaller

LEMMA BucketInvStep == BucketInv /\ [BucketNext]_bucketVars => BucketInv'
<1> SUFFICES ASSUME BucketInv, [BucketNext]_bucketVars PROVE BucketInv'
  OBVIOUS
<1> USE FullNat, BucketAssumption
       DEF BucketInv, BucketTypeOK, LockOK, FreshOK, Inside, bucket, window
<1>1. CASE Tick
  BY <1>1 DEF Tick
<1>2. CASE RestartBucket
  BY <1>2 DEF RestartBucket
<1>3. CASE OpenWindow
  BY <1>3 DEF OpenWindow
<1>4. ASSUME NEW t \in Thread, Enter(t) PROVE BucketInv'
  BY <1>4 DEF Enter
<1>5. ASSUME NEW t \in Thread, Refill(t) PROVE BucketInv'
  <2>1. tokens' \in 0 .. Full
    BY <1>5, RefillTokens
  <2> QED
    BY <1>5, <2>1 DEF Refill
<1>6. ASSUME NEW t \in Thread, Stamp(t) PROVE BucketInv'
  BY <1>6 DEF Stamp
<1>7. ASSUME NEW t \in Thread, Answer(t) PROVE BucketInv'
  BY <1>7 DEF Answer, Grant, Throttle
<1>8. CASE UNCHANGED bucketVars
  BY <1>8 DEF bucketVars
<1> QED
  BY <1>1, <1>2, <1>3, <1>4, <1>5, <1>6, <1>7, <1>8 DEF BucketNext, Consume

(* The bucket never holds a negative number of tokens or more than its     *)
(* capacity, however its callers interleave.                               *)
THEOREM BucketTypeCorrect == BucketSpec => []BucketTypeOK
<1>1. BucketInv => BucketTypeOK
  BY DEF BucketInv
<1> QED
  BY <1>1, BucketInvInit, BucketInvStep, PTL DEF BucketSpec

-----------------------------------------------------------------------------
(* The time the tokens stand for: the stamp, or the reading of a thread    *)
(* that has refilled and not yet stamped.                                  *)
Stamping(t) == callPc[t] = "stamp"
Since(a, b) == IF a < b THEN b - a ELSE 0

(* What was granted in the window and what could still be granted.         *)
Spent(x) == tokens + winGrants * TicksPerMinute
              <= Full * (restarts + 1) + RefillPerMinute * Since(winStart, x)

WindowInv ==
    /\ BucketInv
    /\ winGrants > 0 => lastRefill >= winStart
    /\ (\A t \in Thread : ~Stamping(t)) => Spent(lastRefill)
    /\ \A t \in Thread : Stamping(t) => Spent(reading[t])

(* What has been refilled since the last grant. *)
Refilled(x) == /\ lastGrant = -1 => tokens = Full
               /\ lastGrant >= 0 => /\ lastGrant <= x
                                    /\ tokens = Full \/ tokens >= (x - lastGrant) * RefillPerMinute

ThrottleInv ==
    /\ BucketInv
    /\ ThrottledAfterGrant
    /\ lastGrant <= lastRefill
    /\ (\A t \in Thread : ~Stamping(t)) => Refilled(lastRefill)
    /\ \A t \in Thread : Stamping(t) => Refilled(reading[t])

-----------------------------------------------------------------------------
LEMMA Distribute ==
    ASSUME NEW a \in Int, NEW b \in Int, NEW r \in Int
    PROVE  (a + b) * r = a * r + b * r /\ r * (a + b) = r * a + r * b
  OBVIOUS

LEMMA Transitive ==
    ASSUME NEW a \in Int, NEW b \in Int, NEW c \in Int, a <= b, b <= c
    PROVE  a <= c
  OBVIOUS

LEMMA Monotone ==
    ASSUME NEW a \in Int, NEW b \in Int, NEW r \in Nat, a <= b
    PROVE  r * a <= r * b /\ a * r <= b * r
<1>1. PICK c \in Nat : b = a + c
  <2>1. b - a \in Nat /\ b = a + (b - a)
    OBVIOUS
  <2> QED
    BY <2>1
<1>2. r * c \in Nat /\ c * r \in Nat
  OBVIOUS
<1>3. r * b = r * a + r * c /\ b * r = a * r + c * r
  BY <1>1, Distribute
<1> QED
  BY <1>2, <1>3

LEMMA WindowInit == BucketInit => WindowInv
<1> SUFFICES ASSUME BucketInit PROVE WindowInv
  OBVIOUS
<1>1. BucketInv
  BY BucketInvInit
<1>2. tokens = Full /\ winGrants = 0 /\ restarts = 0 /\ winStart = 0 /\ lastRefill = 0
  BY DEF BucketInit
<1>3. Spent(lastRefill)
  BY <1>2, FullNat DEF Spent, Since
<1> QED
  BY <1>1, <1>2, <1>3 DEF BucketInit, WindowInv, Stamping

LEMMA WindowStep == WindowInv /\ [BucketNext]_bucketVars => WindowInv'
<1> SUFFICES ASSUME WindowInv, [BucketNext]_bucketVars PROVE WindowInv'
  OBVIOUS
<1>a. BucketInv'
  BY BucketInvStep DEF WindowInv
<1>b. /\ ticks \in Nat /\ tokens \in 0 .. Full /\ winStart \in 0 .. ticks
      /\ winGrants \in Nat /\ restarts \in Nat /\ lastRefill \in 0 .. ticks
      /\ winGrants * TicksPerMinute \in Nat
  BY FullNat DEF WindowInv, BucketInv, BucketTypeOK
<1>1. CASE Tick \/ UNCHANGED bucketVars
  BY <1>1, <1>a DEF Tick, bucketVars, bucket, window, WindowInv, Spent, Since, Stamping
<1>2. CASE RestartBucket
  <2>1. /\ tokens' = Full /\ lastRefill' = ticks /\ restarts' = restarts + 1
        /\ UNCHANGED <<winStart, winGrants>>
        /\ \A t \in Thread : ~Stamping(t)'
    BY <1>2 DEF RestartBucket, Stamping
  <2>2. PICK x \in 0 .. ticks : Spent(x)
    BY <1>b DEF WindowInv, BucketInv, BucketTypeOK
  <2>3. RefillPerMinute * Since(winStart, x) <= RefillPerMinute * Since(winStart, ticks)
    BY <1>b, <2>2, Monotone, FullNat DEF Since
  <2>4. Full * (restarts + 2) = Full * (restarts + 1) + Full
    BY <1>b, FullNat
  <2>5. Spent(lastRefill)'
    BY <1>b, <2>1, <2>2, <2>3, <2>4, FullNat DEF Spent, Since
  <2> QED
    BY <1>a, <1>b, <2>1, <2>5 DEF WindowInv
<1>3. CASE OpenWindow
  <2>1. winGrants' = 0 /\ restarts' = 0 /\ winStart' = ticks /\ UNCHANGED <<tokens, callPc, reading, lastRefill>>
    BY <1>3 DEF OpenWindow, bucket
  <2>2. ASSUME NEW x \in 0 .. ticks PROVE Spent(x)'
    BY <1>b, <2>1, <2>2, FullNat DEF Spent, Since
  <2> QED
    BY <1>a, <1>b, <2>1, <2>2 DEF WindowInv, BucketInv, BucketTypeOK, Stamping
<1>4. ASSUME NEW t \in Thread, Enter(t) PROVE WindowInv'
  BY <1>4, <1>a DEF Enter, bucket, window, WindowInv, BucketInv, BucketTypeOK, Spent, Since, Stamping
<1>5. ASSUME NEW t \in Thread, Refill(t) PROVE WindowInv'
  <2>1. /\ \A u \in Thread : Stamping(u)' <=> u = t
        /\ \A u \in Thread : ~Stamping(u)
    BY <1>5 DEF Refill, Stamping, WindowInv, BucketInv, LockOK, Inside, BucketTypeOK
  <2>2. /\ reading[t] \in 0 .. ticks /\ lastRefill <= reading[t]
        /\ UNCHANGED <<reading, window, lastRefill>>
    BY <1>5 DEF Refill, WindowInv, BucketInv, BucketTypeOK, FreshOK
  <2>3. /\ tokens' \in 0 .. Full
        /\ tokens' <= tokens + (reading[t] - lastRefill) * RefillPerMinute
    BY <1>5, RefillTokens DEF WindowInv
  <2>4. Spent(lastRefill)
    BY <2>1 DEF WindowInv
  <2>5. CASE lastRefill >= winStart
    <3>1. RefillPerMinute * (reading[t] - winStart) = RefillPerMinute * (lastRefill - winStart)
             + (reading[t] - lastRefill) * RefillPerMinute
      BY <1>b, <2>2, FullNat
    <3>2. Since(winStart, lastRefill) = lastRefill - winStart
      BY <1>b, <2>5 DEF Since
    <3>3. Since(winStart, reading[t]) = reading[t] - winStart
      BY <1>b, <2>2, <2>5 DEF Since
    <3>4. tokens' + winGrants * TicksPerMinute
             <= Full * (restarts + 1) + RefillPerMinute * (reading[t] - winStart)
      <4>1. PICK g \in Int, f \in Int, p \in Int, q \in Int, r \in Int :
               /\ g = winGrants * TicksPerMinute
               /\ f = Full * (restarts + 1)
               /\ p = RefillPerMinute * (lastRefill - winStart)
               /\ q = (reading[t] - lastRefill) * RefillPerMinute
               /\ r = RefillPerMinute * (reading[t] - winStart)
        BY <1>b, <2>2, FullNat
      <4>2. tokens + g <= f + p
        BY <2>4, <3>2, <4>1 DEF Spent
      <4>3. tokens' + g <= f + r
        BY <1>b, <2>3, <3>1, <4>1, <4>2, FullNat
      <4> QED
        BY <4>1, <4>3
    <3> QED
      BY <1>a, <2>1, <2>2, <2>5, <3>3, <3>4 DEF WindowInv, Spent, window, Since
  <2>6. CASE lastRefill < winStart
    <3>1. winGrants = 0
      BY <1>b, <2>6 DEF WindowInv
    <3>2. Full <= Full * (restarts + 1)
      BY <1>b, FullNat
    <3>3. RefillPerMinute * Since(winStart, reading[t]) \in Nat
      BY <1>b, <2>2, FullNat DEF Since
    <3>4. tokens' + winGrants * TicksPerMinute
             <= Full * (restarts + 1) + RefillPerMinute * Since(winStart, reading[t])
      BY <2>3, <3>1, <3>2, <3>3, FullNat, <1>b
    <3> QED
      BY <1>a, <2>1, <2>2, <3>1, <3>4 DEF WindowInv, Spent, window, Since
  <2> QED
    BY <1>b, <2>5, <2>6
<1>6. ASSUME NEW t \in Thread, Stamp(t) PROVE WindowInv'
  <2>1. Stamping(t) /\ \A u \in Thread : ~Stamping(u)'
    BY <1>6 DEF Stamp, Stamping, WindowInv, BucketInv, LockOK, Inside, BucketTypeOK
  <2>2. Spent(reading[t]) /\ lastRefill <= reading[t]
    BY <2>1 DEF WindowInv, BucketInv, FreshOK, Stamping
  <2>3. lastRefill' = reading[t] /\ UNCHANGED <<tokens, window>>
    BY <1>6 DEF Stamp
  <2>4. reading[t] \in Nat
    BY DEF WindowInv, BucketInv, BucketTypeOK
  <2> QED
    BY <1>a, <1>b, <2>1, <2>2, <2>3, <2>4 DEF WindowInv, Spent, Since, window
<1>7. ASSUME NEW t \in Thread, Answer(t) PROVE WindowInv'
  <2>1. /\ reading[t] = lastRefill
        /\ \A u \in Thread : ~Stamping(u) /\ ~Stamping(u)'
        /\ UNCHANGED <<lastRefill, winStart, restarts>>
    BY <1>7 DEF Answer, Stamping, WindowInv, BucketInv, LockOK, FreshOK, Inside, BucketTypeOK
  <2>2. Spent(lastRefill)
    BY <2>1 DEF WindowInv
  <2>3. CASE Throttle(t)
    BY <1>a, <2>1, <2>2, <2>3 DEF Throttle, WindowInv, Spent, Since
  <2>4. CASE Grant(t)
    <3>1. /\ tokens' = tokens - TicksPerMinute
          /\ winGrants' = IF lastRefill >= winStart THEN winGrants + 1 ELSE winGrants
      BY <2>1, <2>4 DEF Grant
    <3>2. (winGrants + 1) * TicksPerMinute = winGrants * TicksPerMinute + TicksPerMinute
      BY <1>b, FullNat
    <3>3. tokens' + winGrants' * TicksPerMinute <= tokens + winGrants * TicksPerMinute
      BY <1>b, <3>1, <3>2, FullNat
    <3>4. winGrants' \in Nat /\ tokens' \in Int /\ winGrants' * TicksPerMinute \in Nat
      BY <1>b, <3>1, FullNat
    <3>5. Full * (restarts + 1) + RefillPerMinute * Since(winStart, lastRefill) \in Int
      BY <1>b, FullNat DEF Since
    <3>6. Spent(lastRefill)'
      <4>1. PICK b \in Int, g \in Nat :
               /\ b = Full * (restarts + 1) + RefillPerMinute * Since(winStart, lastRefill)
               /\ g = winGrants * TicksPerMinute
        BY <1>b, <3>5
      <4>2. tokens + g <= b
        BY <2>2, <4>1 DEF Spent
      <4>3. tokens' + winGrants' * TicksPerMinute <= b
        <5>1. PICK h \in Nat : h = winGrants' * TicksPerMinute
          BY <3>4
        <5>2. tokens' + h <= tokens + g
          BY <3>3, <4>1, <5>1
        <5>3. tokens \in Int /\ tokens' \in Int
          BY <1>b, <3>4
        <5>4. tokens' + h \in Int /\ tokens + g \in Int
          BY <5>3
        <5>5. tokens' + h <= b
          BY <4>2, <5>2, <5>4, Transitive
        <5> QED
          BY <5>1, <5>5
      <4>4. b = Full * (restarts' + 1) + RefillPerMinute * Since(winStart', lastRefill')
        BY <2>1, <4>1
      <4> QED
        BY <4>3, <4>4 DEF Spent, Since
    <3>7. winGrants' > 0 => lastRefill >= winStart
      BY <1>b, <3>1 DEF WindowInv
    <3> QED
      BY <1>a, <2>1, <3>6, <3>7 DEF WindowInv
  <2> QED
    BY <1>7, <2>3, <2>4 DEF Answer
<1> QED
  BY <1>1, <1>2, <1>3, <1>4, <1>5, <1>6, <1>7 DEF BucketNext, Consume

LEMMA WindowInvBounds == WindowInv => WindowBound
<1> SUFFICES ASSUME WindowInv PROVE WindowBound
  OBVIOUS
<1>1. PICK x \in 0 .. ticks : Spent(x)
  BY DEF WindowInv, BucketInv, BucketTypeOK
<1>2. /\ ticks \in Nat /\ tokens \in Nat /\ winStart \in 0 .. ticks
      /\ winGrants * TicksPerMinute \in Nat /\ Full * (restarts + 1) \in Nat
  BY FullNat DEF WindowInv, BucketInv, BucketTypeOK
<1>3. Since(winStart, x) \in Int /\ Since(winStart, x) <= ticks - winStart
  BY <1>1, <1>2 DEF Since
<1>4. RefillPerMinute * Since(winStart, x) <= RefillPerMinute * (ticks - winStart)
  BY <1>2, <1>3, Monotone, FullNat
<1>5. /\ RefillPerMinute * Since(winStart, x) \in Int
      /\ RefillPerMinute * (ticks - winStart) \in Int
  BY <1>2, <1>3, FullNat
<1> QED
  BY <1>1, <1>2, <1>4, <1>5 DEF Spent, WindowBound

(* In no window of time do the callers get more than the capacity, what    *)
(* the window refills, and one more capacity for each restart.             *)
THEOREM WindowBoundHolds == BucketSpec => []WindowBound
<1> QED
  BY WindowInvBounds, WindowInit, WindowStep, PTL DEF BucketSpec

LEMMA ThrottleInit == BucketInit => ThrottleInv
<1> SUFFICES ASSUME BucketInit PROVE ThrottleInv
  OBVIOUS
<1>1. BucketInv
  BY BucketInvInit
<1> QED
  BY <1>1 DEF BucketInit, ThrottleInv, ThrottledAfterGrant, Refilled, Stamping

LEMMA ThrottleStep == ThrottleInv /\ [BucketNext]_bucketVars => ThrottleInv'
<1> SUFFICES ASSUME ThrottleInv, [BucketNext]_bucketVars PROVE ThrottleInv'
  OBVIOUS
<1>a. BucketInv'
  BY BucketInvStep DEF ThrottleInv
<1>b. /\ ticks \in Nat /\ tokens \in 0 .. Full /\ lastRefill \in 0 .. ticks
      /\ lastGrant \in -1 .. ticks /\ deniedAt \in -1 .. ticks
      /\ \A t \in Thread : reading[t] \in 0 .. ticks
  BY DEF ThrottleInv, BucketInv, BucketTypeOK
<1>1. CASE Tick \/ OpenWindow \/ UNCHANGED bucketVars
  BY <1>1, <1>a DEF Tick, OpenWindow, bucketVars, bucket, ThrottleInv, ThrottledAfterGrant, Refilled,
     Stamping
<1>2. CASE RestartBucket
  BY <1>2, <1>a, <1>b DEF RestartBucket, ThrottleInv, ThrottledAfterGrant, Refilled, Stamping
<1>3. ASSUME NEW t \in Thread, Enter(t) PROVE ThrottleInv'
  BY <1>3, <1>a DEF Enter, bucket, ThrottleInv, BucketInv, BucketTypeOK, ThrottledAfterGrant,
     Refilled, Stamping
<1>4. ASSUME NEW t \in Thread, Refill(t) PROVE ThrottleInv'
  <2>1. /\ \A u \in Thread : Stamping(u)' <=> u = t
        /\ \A u \in Thread : ~Stamping(u)
    BY <1>4 DEF Refill, Stamping, ThrottleInv, BucketInv, LockOK, Inside, BucketTypeOK
  <2>2. /\ lastRefill <= reading[t]
        /\ UNCHANGED <<reading, lastRefill, lastGrant, deniedAt>>
    BY <1>4 DEF Refill, ThrottleInv, BucketInv, FreshOK
  <2>3. /\ tokens' \in 0 .. Full
        /\ tokens' = Full \/ tokens' = tokens + (reading[t] - lastRefill) * RefillPerMinute
    BY <1>4, RefillTokens DEF ThrottleInv
  <2>4. Refilled(lastRefill)
    BY <2>1 DEF ThrottleInv
  <2>5. (reading[t] - lastRefill) * RefillPerMinute \in Nat
    BY <1>b, <2>2, FullNat
  <2>6. lastGrant = -1 => tokens' = Full
    BY <1>b, <2>3, <2>4, <2>5, FullNat DEF Refilled
  <2>7. ASSUME lastGrant >= 0, tokens' # Full
        PROVE  tokens' >= (reading[t] - lastGrant) * RefillPerMinute
    <3>1. tokens # Full
      BY <1>b, <2>3, <2>5, <2>7, FullNat
    <3>2. PICK p \in Int, q \in Int :
             /\ p = (lastRefill - lastGrant) * RefillPerMinute
             /\ q = (reading[t] - lastRefill) * RefillPerMinute
      BY <1>b, <2>5, FullNat
    <3>3. (reading[t] - lastGrant) * RefillPerMinute = p + q
      BY <1>b, <3>2, FullNat
    <3>4. tokens >= p
      BY <2>4, <2>7, <3>1, <3>2 DEF Refilled
    <3>5. tokens + q >= p + q
      BY <1>b, <3>4, FullNat
    <3>6. tokens' = tokens + q
      BY <2>3, <2>7, <3>2
    <3> QED
      BY <3>3, <3>5, <3>6
  <2>8. Refilled(reading[t])'
    BY <1>b, <2>2, <2>4, <2>6, <2>7 DEF Refilled
  <2> QED
    BY <1>a, <2>1, <2>2, <2>8 DEF ThrottleInv, ThrottledAfterGrant
<1>5. ASSUME NEW t \in Thread, Stamp(t) PROVE ThrottleInv'
  <2>1. Stamping(t) /\ \A u \in Thread : ~Stamping(u)'
    BY <1>5 DEF Stamp, Stamping, ThrottleInv, BucketInv, LockOK, Inside, BucketTypeOK
  <2>2. Refilled(reading[t]) /\ lastGrant <= reading[t]
    BY <1>b, <2>1 DEF ThrottleInv, Refilled
  <2>3. lastRefill' = reading[t] /\ UNCHANGED <<tokens, lastGrant, deniedAt>>
    BY <1>5 DEF Stamp
  <2> QED
    BY <1>a, <2>1, <2>2, <2>3 DEF ThrottleInv, Refilled, ThrottledAfterGrant
<1>6. ASSUME NEW t \in Thread, Answer(t) PROVE ThrottleInv'
  <2>1. /\ reading[t] = lastRefill
        /\ \A u \in Thread : ~Stamping(u) /\ ~Stamping(u)'
        /\ UNCHANGED lastRefill
    BY <1>6 DEF Answer, Stamping, ThrottleInv, BucketInv, LockOK, FreshOK, Inside, BucketTypeOK
  <2>2. Refilled(lastRefill)
    BY <2>1 DEF ThrottleInv
  <2>3. CASE Throttle(t)
    <3>1. tokens < TicksPerMinute /\ deniedAt' = lastRefill /\ UNCHANGED <<tokens, lastGrant>>
      BY <2>1, <2>3 DEF Throttle
    <3>2. Capacity > 0 => Full >= TicksPerMinute
      <4>1. ASSUME Capacity > 0 PROVE Full >= TicksPerMinute
        <5>1. 1 * TicksPerMinute <= Capacity * TicksPerMinute
          BY <4>1, BucketAssumption, FullNat, Monotone
        <5> QED
          BY <5>1, FullNat DEF Full
      <4> QED
        BY <4>1
    <3>3. Capacity > 0 => tokens # Full
      BY <1>b, <3>1, <3>2, FullNat
    <3>4. Capacity > 0 => /\ lastGrant >= 0
                          /\ tokens >= (lastRefill - lastGrant) * RefillPerMinute
      BY <1>b, <2>2, <3>3 DEF Refilled
    <3>5. (lastRefill - lastGrant) * RefillPerMinute \in Int
      BY <1>b, FullNat
    <3>6. Capacity > 0 => (lastRefill - lastGrant) * RefillPerMinute < TicksPerMinute
      BY <1>b, <3>1, <3>4, <3>5, FullNat
    <3>7. ThrottledAfterGrant'
      BY <3>1, <3>4, <3>6 DEF ThrottledAfterGrant
    <3> QED
      BY <1>a, <2>1, <2>2, <3>1, <3>7 DEF ThrottleInv, Refilled
  <2>4. CASE Grant(t)
    <3>1. lastGrant' = lastRefill /\ deniedAt' = -1 /\ tokens' = tokens - TicksPerMinute
          /\ tokens >= TicksPerMinute
      BY <2>1, <2>4 DEF Grant
    <3>2. (lastRefill - lastRefill) * RefillPerMinute = 0
      BY <1>b, FullNat
    <3>3. Refilled(lastRefill)'
      BY <1>b, <2>1, <3>1, <3>2, FullNat DEF Refilled
    <3> QED
      BY <1>a, <1>b, <2>1, <3>1, <3>3 DEF ThrottleInv, ThrottledAfterGrant
  <2> QED
    BY <1>6, <2>3, <2>4 DEF Answer
<1> QED
  BY <1>1, <1>2, <1>3, <1>4, <1>5, <1>6 DEF BucketNext, Consume

(* A call is throttled only within one token's time of a granted call, so  *)
(* asking often never keeps a caller from its tokens.                      *)
THEOREM ThrottledAfterGrantHolds == BucketSpec => []ThrottledAfterGrant
<1>1. ThrottleInv => ThrottledAfterGrant
  BY DEF ThrottleInv
<1> QED
  BY <1>1, ThrottleInit, ThrottleStep, PTL DEF BucketSpec
=============================================================================
