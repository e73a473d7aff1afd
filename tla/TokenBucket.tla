---------------------------- MODULE TokenBucket ----------------------------
(***************************************************************************)
(* The token bucket of src/src/core/rate_limiter.py, which throttles the   *)
(* LLM calls, the pull requests and the batches of each event source.      *)
(*                                                                         *)
(* Threads call consume() on one bucket and every statement of it is a     *)
(* step.  The bucket lives in memory: a restart starts with a full one.    *)
(* Time is a tick of the monotonic clock, a TicksPerMinute-th of a minute, *)
(* and tokens are counted in TicksPerMinute-ths of a token, so that one    *)
(* tick refills exactly RefillPerMinute of them.                           *)
(***************************************************************************)
EXTENDS Integers

CONSTANTS Thread,           \* the callers
          Capacity,         \* TokenBucket(capacity)
          RefillPerMinute,  \* TokenBucket(refill_per_minute)
          TicksPerMinute,   \* the resolution of the clock
          MaxTicks,         \* bound on the clock
          MaxRestarts,      \* bound on restarts
          NoThread          \* the holder of a free lock

ASSUME BucketAssumption ==
    /\ Capacity \in Nat
    /\ RefillPerMinute \in Nat
    /\ TicksPerMinute \in Nat \ {0}
    /\ NoThread \notin Thread

Full == Capacity * TicksPerMinute

VARIABLES ticks,       \* time.monotonic()
          tokens,      \* _tokens
          lastRefill,  \* _last_refill
          bucketLock,  \* the thread that holds _lock
          callPc,      \* the next statement of each caller
          reading,     \* its local variable now
          \* observers
          winStart,    \* the time a window of observation was opened
          winGrants,   \* calls granted in it
          restarts,    \* restarts since the window was opened
          lastGrant,   \* the time of the last grant, -1 when there is none
          deniedAt     \* the time of the last call if it was throttled, or -1

bucket     == <<tokens, lastRefill>>
window     == <<winStart, winGrants, restarts>>
bucketVars == <<ticks, bucket, bucketLock, callPc, reading, window, lastGrant, deniedAt>>

BucketInit ==
    /\ ticks = 0
    /\ tokens = Full /\ lastRefill = 0
    /\ bucketLock = NoThread
    /\ callPc = [t \in Thread |-> "idle"]
    /\ reading = [t \in Thread |-> 0]
    /\ winStart = 0 /\ winGrants = 0 /\ restarts = 0
    /\ lastGrant = -1 /\ deniedAt = -1

Smaller(a, b) == IF a <= b THEN a ELSE b

Tick == /\ ticks < MaxTicks
        /\ ticks' = ticks + 1
        /\ UNCHANGED <<bucket, bucketLock, callPc, reading, window, lastGrant, deniedAt>>

(* Mutant of Enter: the bucket without its lock. *)
EnterUnlocked(t) ==
    /\ callPc[t] = "idle"
    /\ bucketLock' = t
    /\ reading' = [reading EXCEPT ![t] = ticks]
    /\ callPc' = [callPc EXCEPT ![t] = "refill"]
    /\ UNCHANGED <<ticks, bucket, window, lastGrant, deniedAt>>

(* with self._lock, now = time.monotonic() *)
Enter(t) ==
    /\ callPc[t] = "idle"
    /\ bucketLock = NoThread
    /\ bucketLock' = t
    /\ reading' = [reading EXCEPT ![t] = ticks]
    /\ callPc' = [callPc EXCEPT ![t] = "refill"]
    /\ UNCHANGED <<ticks, bucket, window, lastGrant, deniedAt>>

(* Mutant of Refill: only whole tokens are added, and the rest of the      *)
(* elapsed time is lost.                                                   *)
RefillWhole(t) ==
    /\ callPc[t] = "refill"
    /\ LET whole == ((reading[t] - lastRefill) * RefillPerMinute) \div TicksPerMinute
       IN  tokens' = Smaller(Full, tokens + whole * TicksPerMinute)
    /\ callPc' = [callPc EXCEPT ![t] = "stamp"]
    /\ UNCHANGED <<ticks, lastRefill, bucketLock, reading, window, lastGrant, deniedAt>>

(* self._tokens = min(self._capacity, self._tokens + elapsed * rate) *)
Refill(t) ==
    /\ callPc[t] = "refill"
    /\ tokens' = Smaller(Full, tokens + (reading[t] - lastRefill) * RefillPerMinute)
    /\ callPc' = [callPc EXCEPT ![t] = "stamp"]
    /\ UNCHANGED <<ticks, lastRefill, bucketLock, reading, window, lastGrant, deniedAt>>

(* self._last_refill = now *)
Stamp(t) ==
    /\ callPc[t] = "stamp"
    /\ lastRefill' = reading[t]
    /\ callPc' = [callPc EXCEPT ![t] = "take"]
    /\ UNCHANGED <<ticks, tokens, bucketLock, reading, window, lastGrant, deniedAt>>

(* A call belongs to the window when it read the clock in it. *)
Grant(t) ==
    /\ tokens >= TicksPerMinute
    /\ tokens' = tokens - TicksPerMinute
    /\ lastGrant' = reading[t]
    /\ winGrants' = IF reading[t] >= winStart THEN winGrants + 1 ELSE winGrants
    /\ deniedAt' = -1

Throttle(t) ==
    /\ tokens < TicksPerMinute
    /\ deniedAt' = reading[t]
    /\ UNCHANGED <<tokens, lastGrant, winGrants>>

(* The answer, and the end of the lock. *)
Answer(t) ==
    /\ callPc[t] = "take"
    /\ Grant(t) \/ Throttle(t)
    /\ bucketLock' = NoThread
    /\ callPc' = [callPc EXCEPT ![t] = "idle"]
    /\ UNCHANGED <<ticks, lastRefill, reading, winStart, restarts>>

(* The process is restarted: the module builds a new, full bucket. *)
RestartBucket ==
    /\ restarts < MaxRestarts
    /\ tokens' = Full /\ lastRefill' = ticks
    /\ bucketLock' = NoThread
    /\ callPc' = [t \in Thread |-> "idle"]
    /\ reading' = [t \in Thread |-> ticks]
    /\ restarts' = restarts + 1
    /\ lastGrant' = -1 /\ deniedAt' = -1
    /\ UNCHANGED <<ticks, winStart, winGrants>>

(* The observer starts to count anew. *)
OpenWindow ==
    /\ winStart < ticks
    /\ winStart' = ticks /\ winGrants' = 0 /\ restarts' = 0
    /\ UNCHANGED <<ticks, bucket, bucketLock, callPc, reading, lastGrant, deniedAt>>

Consume(t) == Enter(t) \/ Refill(t) \/ Stamp(t) \/ Answer(t)

BucketNext == \/ Tick \/ RestartBucket \/ OpenWindow
              \/ \E t \in Thread : Consume(t)

BucketSpec == BucketInit /\ [][BucketNext]_bucketVars
-----------------------------------------------------------------------------
(* The bucket holds between nothing and its capacity, the stamp never runs *)
(* ahead of the clock, and who is inside consume() holds the lock.         *)
BucketTypeOK ==
    /\ ticks \in Nat
    /\ tokens \in 0 .. Full
    /\ lastRefill \in 0 .. ticks
    /\ bucketLock \in Thread \cup {NoThread}
    /\ callPc \in [Thread -> {"idle", "refill", "stamp", "take"}]
    /\ reading \in [Thread -> 0 .. ticks]
    /\ winStart \in 0 .. ticks /\ winGrants \in Nat /\ restarts \in Nat
    /\ lastGrant \in -1 .. ticks
    /\ deniedAt \in -1 .. ticks

(* "Prevents log storms from generating hundreds of LLM calls or PRs": in  *)
(* no window of time, however many threads call, does the bucket grant     *)
(* more than its capacity and what the window refills, except that each    *)
(* restart gives one capacity more.                                        *)
WindowBound ==
    winGrants * TicksPerMinute
        <= Full * (restarts + 1) + RefillPerMinute * (ticks - winStart)

(* A caller that keeps asking is not starved: partial refills add up, and  *)
(* (unless the limit is set to 0) a call is throttled only if less than    *)
(* one token's time has passed since a call was granted.                   *)
ThrottledAfterGrant ==
    Capacity > 0 /\ deniedAt >= 0 =>
        lastGrant >= 0 /\ (deniedAt - lastGrant) * RefillPerMinute < TicksPerMinute
=============================================================================
