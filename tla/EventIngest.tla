----------------------------- MODULE EventIngest -----------------------------
(***************************************************************************)
(* Storing event batches (store_events of src/src/db/ingest.py, called by  *)
(* _handle of src/src/api/event_routes.py in a thread of the pool).        *)
(*                                                                         *)
(* Every call is one transaction: a savepoint per event, the time of the   *)
(* last event on the source's row, a commit.  PostgreSQL (external) makes  *)
(* an insert wait while another open transaction holds the same event_id,  *)
(* and breaks a circle of such waits by aborting one of them.  A sender    *)
(* posts until it is acknowledged; when it does not wait for the answer,   *)
(* two requests with the same batch run at once.                           *)
(***************************************************************************)
EXTENDS Naturals, Sequences, FiniteSets

CONSTANTS Sender,    \* clients of one source
          EventId,
          Batch,     \* the batch of each sender, ids may repeat
          Thread,    \* threads that handle requests
          Nobody,    \* the holder of a free row
          MaxFaults  \* bound on failures other than deadlocks

ASSUME IngestAssumption ==
    /\ Sender # {}
    /\ Batch \in [Sender -> Seq(EventId)]
    /\ \A s \in Sender : Batch[s] # << >>   \* EventBatch, min_length=1
    /\ Nobody \notin Thread
    /\ MaxFaults \in Nat

VARIABLES
    table,   \* committed rows of ingest_events
    acked,   \* senders that received a 202
    pc,      \* the next statement of each thread
    sender,  \* whose batch it stores
    pos,     \* the event it is at
    rows,    \* the rows of its open transaction
    stored, duplicates,
    source,  \* the transaction that holds the row of the source
    faults,  \* failures so far
    accepted \* history: rows counted as stored by committed calls

vars == <<table, acked, pc, sender, pos, rows, stored, duplicates, source, faults, accepted>>

Init == /\ table = {} /\ acked = [s \in Sender |-> FALSE]
        /\ pc = [t \in Thread |-> "idle"]
        /\ sender \in [Thread -> {CHOOSE s \in Sender : TRUE}]
        /\ pos = [t \in Thread |-> 1]
        /\ rows = [t \in Thread |-> {}]
        /\ stored = [t \in Thread |-> 0]
        /\ duplicates = [t \in Thread |-> 0]
        /\ source = Nobody /\ faults = 0 /\ accepted = 0

Goto(t, l) == pc' = [pc EXCEPT ![t] = l]
Size(t)    == Len(Batch[sender[t]])
Event(t)   == Batch[sender[t]][pos[t]]

(* The transactions of other threads that have inserted the same event. *)
Holders(t) == {u \in Thread \ {t} : Event(t) \in rows[u]}

-----------------------------------------------------------------------------
(* A request gets past the key, the rate limit and the validation. *)
Post(t, s) ==
    /\ pc[t] = "idle" /\ ~acked[s]
    /\ Goto(t, "insert")
    /\ sender' = [sender EXCEPT ![t] = s]
    /\ pos' = [pos EXCEPT ![t] = 1]
    /\ stored' = [stored EXCEPT ![t] = 0]
    /\ duplicates' = [duplicates EXCEPT ![t] = 0]
    /\ UNCHANGED <<table, acked, rows, source, faults, accepted>>

(* One turn of the loop: the savepoint is kept, or undone as a duplicate.  *)
Count(t, duplicate) ==
    /\ IF duplicate
       THEN duplicates' = [duplicates EXCEPT ![t] = @ + 1] /\ UNCHANGED <<rows, stored>>
       ELSE /\ rows' = [rows EXCEPT ![t] = @ \cup {Event(t)}]
            /\ stored' = [stored EXCEPT ![t] = @ + 1]
            /\ UNCHANGED duplicates
    /\ pos' = [pos EXCEPT ![t] = @ + 1]
    /\ UNCHANGED <<table, acked, pc, sender, source, faults, accepted>>

(* Mutants of Insert: what another transaction has not committed is not    *)
(* looked at, or is taken for a duplicate.                                 *)
InsertUnconstrained(t) ==
    /\ pc[t] = "insert" /\ pos[t] <= Size(t)
    /\ Count(t, Event(t) \in table \cup rows[t])
InsertDirty(t) ==
    /\ pc[t] = "insert" /\ pos[t] <= Size(t)
    /\ Count(t, Event(t) \in table \cup rows[t] \/ Holders(t) # {})

Insert(t) ==
    /\ pc[t] = "insert" /\ pos[t] <= Size(t)
    /\ Holders(t) = {}
    /\ Count(t, Event(t) \in table \cup rows[t])

(* "if stored": the row of the source is updated, and locked. *)
Touch(t) ==
    /\ pc[t] = "insert" /\ pos[t] > Size(t)
    /\ IF stored[t] = 0 THEN UNCHANGED source ELSE source = Nobody /\ source' = t
    /\ Goto(t, "commit")
    /\ UNCHANGED <<table, acked, sender, pos, rows, stored, duplicates, faults, accepted>>

Unlock(t) == source' = IF source = t THEN Nobody ELSE source

(* Failures are counted, and bounded. *)
Fault == faults < MaxFaults /\ faults' = faults + 1

(* The commit succeeds; its result may be lost on the way back. *)
Commit(t) ==
    /\ pc[t] = "commit"
    /\ table' = table \cup rows[t]
    /\ accepted' = accepted + stored[t]
    /\ rows' = [rows EXCEPT ![t] = {}]
    /\ Unlock(t)
    /\ \/ Goto(t, "reply") /\ UNCHANGED faults
       \/ Goto(t, "handler") /\ Fault
    /\ UNCHANGED <<acked, sender, pos, stored, duplicates>>

(* Mutant of Reply: a batch of duplicates only is answered with an error. *)
ReplyOnlyStored(t) ==
    /\ pc[t] = "reply"
    /\ acked' = [acked EXCEPT ![sender[t]] = @ \/ stored[t] > 0]
    /\ Goto(t, "idle")
    /\ UNCHANGED <<table, sender, pos, rows, stored, duplicates, source, faults, accepted>>

(* The 202 arrives. *)
Reply(t) ==
    /\ pc[t] = "reply"
    /\ acked' = [acked EXCEPT ![sender[t]] = TRUE]
    /\ Goto(t, "idle")
    /\ UNCHANGED <<table, sender, pos, rows, stored, duplicates, source, faults, accepted>>

-----------------------------------------------------------------------------
(* The transaction of t is undone. *)
Undo(t) == rows' = [rows EXCEPT ![t] = {}] /\ Unlock(t)

(* The database fails: SQLAlchemyError, db.rollback(). *)
Raise(t) ==
    /\ pc[t] \in {"insert", "commit"}
    /\ Fault
    /\ Undo(t)
    /\ Goto(t, "handler")
    /\ UNCHANGED <<table, acked, sender, pos, stored, duplicates, accepted>>

(* The process dies, or the answer does not arrive. *)
Fail(t) ==
    /\ pc[t] # "idle"
    /\ Fault
    /\ Undo(t)
    /\ Goto(t, "idle")
    /\ UNCHANGED <<table, acked, sender, pos, stored, duplicates, accepted>>

(* The log line reads source.name, which expired with the rollback: 503    *)
(* when the database answers, an unhandled error when it does not.         *)
Handler(t) ==
    /\ pc[t] = "handler"
    /\ \/ Goto(t, "unavailable") /\ UNCHANGED faults
       \/ Goto(t, "error") /\ Fault
    /\ UNCHANGED <<table, acked, sender, pos, rows, stored, duplicates, source, accepted>>

(* The sender sees the 503 or the 500. *)
Answer(t) ==
    /\ pc[t] \in {"unavailable", "error"}
    /\ Goto(t, "idle")
    /\ UNCHANGED <<table, acked, sender, pos, rows, stored, duplicates, source, faults, accepted>>

Waiting(t) == pc[t] = "insert" /\ pos[t] <= Size(t) /\ Holders(t) # {}

(* PostgreSQL aborts a transaction of a circle. *)
DeadlockAbort(t) ==
    /\ Waiting(t)
    /\ \E circle \in SUBSET Thread :
          /\ t \in circle
          /\ \A u \in circle : Waiting(u)
          /\ UNION {Holders(u) : u \in circle} = circle
    /\ Undo(t)
    /\ Goto(t, "handler")
    /\ UNCHANGED <<table, acked, sender, pos, stored, duplicates, faults, accepted>>

-----------------------------------------------------------------------------
Work(t) == Insert(t) \/ Touch(t) \/ Commit(t) \/ Reply(t) \/ Handler(t) \/ Answer(t)

(* Everything is acknowledged and no request runs. *)
Done == /\ \A s \in Sender : acked[s]
        /\ \A t \in Thread : pc[t] = "idle"
        /\ UNCHANGED vars

Next == \/ \E t \in Thread : \/ \E s \in Sender : Post(t, s)
                             \/ Work(t) \/ Raise(t) \/ Fail(t) \/ DeadlockAbort(t)
        \/ Done

Safe == Init /\ [][Next]_vars

(* A sender does not give up; a thread runs on; PostgreSQL looks for       *)
(* circles after deadlock_timeout, and wakes a waiter long before the      *)
(* sender it aborted comes back (Retry-After: 5).                          *)
Spec == /\ Safe
        /\ \A s \in Sender : SF_vars(\E t \in Thread : Post(t, s))
        /\ \A t \in Thread : SF_vars(Work(t)) /\ WF_vars(DeadlockAbort(t))
        /\ \A t \in Thread, s \in Sender : \A i \in 1..Len(Batch[s]) :
              SF_vars(Insert(t) /\ sender[t] = s /\ pos[t] = i)
=============================================================================
