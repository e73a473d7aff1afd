--------------------------- MODULE EventProcessor ---------------------------
(***************************************************************************)
(* The event worker (src/src/services/event_processor.py) and the incident *)
(* upsert it runs on (src/src/db/repository.py).                           *)
(*                                                                         *)
(* Several worker processes share one PostgreSQL database.  Each repeats   *)
(* run_once: claim a batch of stored events under a lease, then, event by  *)
(* event, count it on the incident of its fingerprint and mark it          *)
(* processed in one transaction, and analyse the incident if it is new.    *)
(*                                                                         *)
(* Time is abstracted to what the claim query asks of it: a claim is       *)
(* "held" while claimed_at is within the lease and "lapsed" afterwards.    *)
(* A transaction is split where another worker can come between its        *)
(* statements: the look-up, the insert or update that locks the incident   *)
(* row, the commit.  An insert that is not committed is visible to nobody  *)
(* and makes other inserts of the same fingerprint wait (unique            *)
(* constraint); an exception or a crash undoes the transaction.            *)
(***************************************************************************)
EXTENDS Naturals, FiniteSets

CONSTANTS Worker,       \* worker processes: one per running instance
          NumEvents,    \* events received, numbered by (received_at, id) of their rows
          Fingerprint,  \* the incident groups
          Fp,           \* the fingerprint of each event
          BatchSize,    \* EventProcessor.batch_size
          MaxAttempts,  \* EventProcessor.max_attempts
          SlowWorkers,  \* TRUE: a batch may take longer than the lease
          NoWorker,     \* the holder of a row nobody has locked
          NoEvent       \* the job of a worker between two events

Event == 1 .. NumEvents

ASSUME ConstantsAssumption ==
    /\ NumEvents \in Nat
    /\ Fp \in [Event -> Fingerprint]
    /\ BatchSize \in Nat \ {0}
    /\ MaxAttempts \in Nat \ {0}
    /\ SlowWorkers \in BOOLEAN
    /\ NoWorker \notin Worker
    /\ NoEvent \notin Event

VARIABLES
    \* the ingest_events table
    received,   \* the events stored, in any order: received_at is set before the commit
    processed,  \* processed_at is set
    attempts,   \* attempts
    lease,      \* claimed_at: "never" set, "held" or "lapsed"
    lastError,  \* last_error: "none", "failed" or "analysis_failed"
    \* the incidents table
    count,      \* committed occurrence_count, 0 when there is no row
    rowLock,    \* the worker whose open transaction holds the row
    \* the worker processes
    pc,         \* the next statement
    batch,      \* events claimed and not started
    job,        \* the event being handled
    \* history
    analysis    \* what became of the analysis of each incident

table   == <<received, processed, attempts, lease, lastError>>
process == <<pc, batch, job>>
vars    == <<table, count, rowLock, process, analysis>>

InTransaction == {"insert", "count", "inserted", "counted"}

(* Events a worker has claimed and not yet committed or given up on. *)
Holding(w) == batch[w] \cup (IF pc[w] \in InTransaction THEN {job[w]} ELSE {})

Init ==
    /\ received  = {}
    /\ processed = [e \in Event |-> FALSE]
    /\ attempts  = [e \in Event |-> 0]
    /\ lease     = [e \in Event |-> "never"]
    /\ lastError = [e \in Event |-> "none"]
    /\ count     = [f \in Fingerprint |-> 0]
    /\ rowLock   = [f \in Fingerprint |-> NoWorker]
    /\ pc        = [w \in Worker |-> "idle"]
    /\ batch     = [w \in Worker |-> {}]
    /\ job       = [w \in Worker |-> NoEvent]
    /\ analysis  = [f \in Fingerprint |-> "none"]

-----------------------------------------------------------------------------
(* POST /api/v1/events stored the new events of a batch. *)
Receive(S) ==
    /\ S # {}
    /\ received' = received \cup S
    /\ UNCHANGED <<processed, attempts, lease, lastError, count, rowLock, process, analysis>>

(* claimed_at falls behind now - lease.  Unless workers are slow this      *)
(* happens only to events whose worker died or already moved on.           *)
Lapse(e) ==
    /\ lease[e] = "held"
    /\ SlowWorkers \/ \A w \in Worker : e \notin Holding(w)
    /\ lease' = [lease EXCEPT ![e] = "lapsed"]
    /\ UNCHANGED <<received, processed, attempts, lastError, count, rowLock, process, analysis>>

(* Mutants of Claimable: one attempt too many, the lease or the mark        *)
(* forgotten, a lapsed lease never taken over.                             *)
ClaimableOnceMore == {e \in received : /\ ~processed[e]
                                       /\ attempts[e] <= MaxAttempts
                                       /\ lease[e] # "held"}
ClaimableLeased   == {e \in received : ~processed[e] /\ attempts[e] < MaxAttempts}
ClaimableDone     == {e \in received : attempts[e] < MaxAttempts /\ lease[e] # "held"}
ClaimableNew      == {e \in received : ~processed[e] /\ lease[e] = "never"}

(* The where clause of the claim query. *)
Claimable == {e \in received : /\ ~processed[e]
                               /\ attempts[e] < MaxAttempts
                               /\ lease[e] # "held"}

(* Event rows an open transaction of _process may have locked. *)
Marking == {job[w] : w \in {v \in Worker : pc[v] \in {"inserted", "counted"}}}

(* order by received_at, limit batch_size, for update skip locked: rows    *)
(* locked elsewhere are passed over.                                       *)
OldestBatch(S, open) ==
    /\ S \subseteq open
    /\ Cardinality(S) <= BatchSize
    /\ S = open \/ Cardinality(S) = BatchSize
    /\ \A e \in S, x \in open \ S : e < x

TakeLease(S) ==
    /\ lease'    = [e \in Event |-> IF e \in S THEN "held" ELSE lease[e]]
    /\ attempts' = [e \in Event |-> IF e \in S THEN attempts[e] + 1 ELSE attempts[e]]

(* claim() commits.  When the reply to the commit is lost the exception    *)
(* leaves run_once, and the batch is leased to nobody.                     *)
Claim(w) ==
    /\ pc[w] = "idle"
    /\ batch[w] = {}
    /\ \E S \in (SUBSET Claimable) \ {{}} :
          /\ \E skipped \in SUBSET (Claimable \cap Marking) : OldestBatch(S, Claimable \ skipped)
          /\ TakeLease(S)
          /\ \E replied \in BOOLEAN :
                batch' = [batch EXCEPT ![w] = IF replied THEN S ELSE {}]
    /\ UNCHANGED <<received, processed, lastError, count, rowLock, pc, job, analysis>>

(* _find_incident_id: the decision rests on what is committed now. *)
Find(w) ==
    /\ pc[w] = "idle"
    /\ \E e \in batch[w] :
          /\ \A x \in batch[w] : e <= x
          /\ job'   = [job EXCEPT ![w] = e]
          /\ batch' = [batch EXCEPT ![w] = @ \ {e}]
          /\ pc'    = [pc EXCEPT ![w] = IF count[Fp[e]] = 0 THEN "insert" ELSE "count"]
    /\ UNCHANGED <<table, count, rowLock, analysis>>

(* Mutants of Insert: the loser of a race takes the row for its own; there *)
(* is no unique constraint, so nobody waits.                               *)
InsertLoserIsNew(w) ==
    LET f == Fp[job[w]] IN
    /\ pc[w] = "insert"
    /\ rowLock[f] = NoWorker
    /\ rowLock' = [rowLock EXCEPT ![f] = w]
    /\ pc' = [pc EXCEPT ![w] = "inserted"]
    /\ UNCHANGED <<table, count, batch, job, analysis>>
InsertUnguarded(w) ==
    LET f == Fp[job[w]] IN
    /\ pc[w] = "insert"
    /\ rowLock' = [rowLock EXCEPT ![f] = w]
    /\ pc' = [pc EXCEPT ![w] = "inserted"]
    /\ UNCHANGED <<table, count, batch, job, analysis>>

(* The insert under a savepoint.  It waits while another transaction holds *)
(* the same fingerprint; a committed row is an IntegrityError, after which *)
(* the writer looks again and counts a repeat.                             *)
Insert(w) ==
    LET f == Fp[job[w]] IN
    /\ pc[w] = "insert"
    /\ rowLock[f] = NoWorker
    /\ IF count[f] = 0
       THEN /\ rowLock' = [rowLock EXCEPT ![f] = w]
            /\ pc' = [pc EXCEPT ![w] = "inserted"]
       ELSE /\ pc' = [pc EXCEPT ![w] = "count"]
            /\ UNCHANGED rowLock
    /\ UNCHANGED <<table, count, batch, job, analysis>>

(* _count_repeat: the update locks the row until the transaction ends. *)
CountRepeat(w) ==
    LET f == Fp[job[w]] IN
    /\ pc[w] = "count"
    /\ rowLock[f] = NoWorker
    /\ rowLock' = [rowLock EXCEPT ![f] = w]
    /\ pc' = [pc EXCEPT ![w] = "counted"]
    /\ UNCHANGED <<table, count, batch, job, analysis>>

-----------------------------------------------------------------------------
(* Mutant of Save: an upsert that overwrites the row of a known incident. *)
SaveOverwrites(w) ==
    LET e == job[w] IN
    /\ processed' = [processed EXCEPT ![e] = TRUE]
    /\ count'     = [count EXCEPT ![Fp[e]] = 1]
    /\ rowLock'   = [rowLock EXCEPT ![Fp[e]] = NoWorker]

(* What the transaction of _process writes: the incident and the mark on   *)
(* the event, together.                                                    *)
Save(w) ==
    LET e == job[w] IN
    /\ processed' = [processed EXCEPT ![e] = TRUE]
    /\ count'     = [count EXCEPT ![Fp[e]] = @ + 1]
    /\ rowLock'   = [rowLock EXCEPT ![Fp[e]] = NoWorker]

(* The commit of _process; a new incident goes on to be analysed. *)
Commit(w) ==
    LET e == job[w] IN
    /\ pc[w] \in {"inserted", "counted"}
    /\ Save(w)
    /\ lastError' = [lastError EXCEPT ![e] = "none"]
    /\ IF pc[w] = "inserted"
       THEN /\ pc' = [pc EXCEPT ![w] = "analyse"]
            /\ analysis' = [analysis EXCEPT ![Fp[e]] = "running"]
            /\ UNCHANGED job
       ELSE /\ pc' = [pc EXCEPT ![w] = "idle"]
            /\ job' = [job EXCEPT ![w] = NoEvent]
            /\ UNCHANGED analysis
    /\ UNCHANGED <<received, attempts, lease, batch>>

(* The commit reached the database and its reply did not: run_once records *)
(* a failure (or fails to) and moves on without analysing the incident.    *)
CommitUnknown(w) ==
    LET e == job[w] IN
    /\ pc[w] \in {"inserted", "counted"}
    /\ Save(w)
    /\ \E err \in {"none", "failed"} : lastError' = [lastError EXCEPT ![e] = err]
    /\ pc'  = [pc EXCEPT ![w] = "idle"]
    /\ job' = [job EXCEPT ![w] = NoEvent]
    /\ analysis' = IF pc[w] = "inserted"
                   THEN [analysis EXCEPT ![Fp[e]] = "lost"] ELSE analysis
    /\ UNCHANGED <<received, attempts, lease, batch>>

Unlock(w) == rowLock' = [f \in Fingerprint |->
                            IF rowLock[f] = w THEN NoWorker ELSE rowLock[f]]

(* A statement of _process raises: the transaction is undone, and          *)
(* _record_failure writes last_error unless it fails as well.  claimed_at  *)
(* stays, so the event is tried again once its lease lapses.               *)
Fail(w) ==
    /\ pc[w] \in InTransaction
    /\ Unlock(w)
    /\ \E err \in {lastError[job[w]], "failed"} :
          lastError' = [lastError EXCEPT ![job[w]] = err]
    /\ pc'  = [pc EXCEPT ![w] = "idle"]
    /\ job' = [job EXCEPT ![w] = NoEvent]
    /\ UNCHANGED <<received, processed, attempts, lease, count, batch, analysis>>

(* analyse_new_incident returns, or raises: that failure is recorded on    *)
(* the event and not retried.                                              *)
Analyse(w) ==
    LET e == job[w] IN
    /\ pc[w] = "analyse"
    /\ \/ /\ analysis' = [analysis EXCEPT ![Fp[e]] = "done"]
          /\ UNCHANGED lastError
       \/ /\ analysis' = [analysis EXCEPT ![Fp[e]] = "failed"]
          /\ \E err \in {lastError[e], "analysis_failed"} :
                lastError' = [lastError EXCEPT ![e] = err]
    /\ pc'  = [pc EXCEPT ![w] = "idle"]
    /\ job' = [job EXCEPT ![w] = NoEvent]
    /\ UNCHANGED <<received, processed, attempts, lease, count, rowLock, batch>>

-----------------------------------------------------------------------------
(* The process dies at any statement; PostgreSQL undoes its transaction.   *)
Crash(w) ==
    /\ pc[w] # "down"
    /\ Unlock(w)
    /\ analysis' = IF pc[w] = "analyse"
                   THEN [analysis EXCEPT ![Fp[job[w]]] = "lost"] ELSE analysis
    /\ pc'    = [pc EXCEPT ![w] = "down"]
    /\ batch' = [batch EXCEPT ![w] = {}]
    /\ job'   = [job EXCEPT ![w] = NoEvent]
    /\ UNCHANGED <<table, count>>

(* A redeploy starts a new worker with an empty batch. *)
Restart(w) ==
    /\ pc[w] = "down"
    /\ pc' = [pc EXCEPT ![w] = "idle"]
    /\ UNCHANGED <<table, count, rowLock, batch, job, analysis>>

Work(w) == Claim(w) \/ Find(w) \/ Insert(w) \/ CountRepeat(w) \/ Commit(w) \/ Analyse(w)

(* A step of a worker, or of a lease. *)
Process == \/ \E e \in Event : Lapse(e)
           \/ \E w \in Worker : \/ Work(w)
                                \/ CommitUnknown(w) \/ Fail(w)
                                \/ Crash(w) \/ Restart(w)

Next == Process \/ \E S \in SUBSET (Event \ received) : Receive(S)

(* run_forever keeps polling while its process is up, leases run out with  *)
(* the clock, and a dead instance is replaced.  Fairness of the worker is  *)
(* strong because a crash disables its step: a redeployed worker does get  *)
(* to run, if only until the next crash.  No step is owed to faults.       *)
Fairness == /\ \A w \in Worker : SF_vars(Work(w)) /\ WF_vars(Restart(w))
            /\ \A e \in Event : WF_vars(Lapse(e))

Safe == Init /\ [][Next]_vars
Spec == Safe /\ Fairness
=============================================================================
