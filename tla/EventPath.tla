------------------------------ MODULE EventPath ------------------------------
(***************************************************************************)
(* The way of an event through the server: the requests that store batches *)
(* (EventIngest) and the workers that process them (EventProcessor) share  *)
(* the table ingest_events and nothing else.  What one commit of           *)
(* store_events adds to the table is what claim() finds from then on; no   *)
(* row is visible to a worker before.                                      *)
(*                                                                         *)
(* The events of one source are numbered by (received_at, id) of the rows  *)
(* that are stored for them.  received_at is set when a row is inserted,   *)
(* by the clock of the process, so that rows may be committed in any order.*)
(***************************************************************************)
EXTENDS EventIngestProps

CONSTANTS Worker, NumEvents, Fingerprint, Fp, BatchSize, MaxAttempts, SlowWorkers,
          NoWorker, NoEvent

VARIABLES processed, attempts, lease, lastError, count, rowLock, workerPc, batch, job, analysis

workerVars == <<processed, attempts, lease, lastError, count, rowLock, workerPc, batch, job,
                analysis>>
pathVars == <<vars, workerVars>>

Queue == INSTANCE EventProcessorProps WITH received <- table, pc <- workerPc

ASSUME PathAssumption ==
    /\ EventId = 1 .. NumEvents
    /\ NumEvents \in Nat
    /\ Fp \in [1 .. NumEvents -> Fingerprint]
    /\ BatchSize \in Nat \ {0}
    /\ MaxAttempts \in Nat \ {0}
    /\ SlowWorkers \in BOOLEAN
    /\ NoWorker \notin Worker
    /\ NoEvent \notin 1 .. NumEvents

PathInit == Init /\ Queue!Init

(* Mutant of Request: a duplicate is written over the row that is there,   *)
(* and its processed_at is empty again.                                    *)
RequestUpserts ==
    /\ Next
    /\ processed' = [e \in EventId |->
          processed[e] /\ \A t \in Thread : pc[t] = "commit" /\ pc'[t] = "reply" =>
                                            \A i \in 1 .. Size(t) : Batch[sender[t]][i] # e]
    /\ UNCHANGED <<attempts, lease, lastError, count, rowLock, workerPc, batch, job, analysis>>

(* A step of a request; the workers see the table change when it commits. *)
Request == Next /\ UNCHANGED workerVars

(* A step of a worker, or of a lease. *)
Processing == Queue!Process /\ UNCHANGED vars

PathNext == Request \/ Processing

PathSpec == PathInit /\ [][PathNext]_pathVars

-----------------------------------------------------------------------------
(* Where the inbox and the queue meet the promise: an event that is not    *)
(* stored is unseen, and the rest of its life is the queue's.              *)
Service == INSTANCE EventService WITH
               Events <- [s \in Sender |-> {Batch[s][i] : i \in DOMAIN Batch[s]}],
               stage  <- [e \in EventId |-> Queue!Stage(e)],
               tally  <- count

(* "an accepted event is not lost", "a retry is never counted twice" and   *)
(* "an event is never counted twice" (event_routes.py, ingest.py,          *)
(* event_processor.py) for the whole way: batches that are sent again or   *)
(* overlap, transactions that abort, lost replies and workers that crash   *)
(* make no acknowledged event vanish and no event count twice.             *)
ImplementsService == Service!Safe
=============================================================================
