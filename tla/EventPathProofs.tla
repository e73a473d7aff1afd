--------------------------- MODULE EventPathProofs ---------------------------
(***************************************************************************)
(* Proofs about the way of an event through the server, for any senders,   *)
(* batches, threads and workers.  The requests take no notice of the       *)
(* workers, and to the workers a commit of a request is the arrival of its *)
(* rows: so each side keeps the invariant it has alone, and what the two   *)
(* tell of the table they share makes every step one of EventService.      *)
(***************************************************************************)
EXTENDS EventPath, EventIngestProofs

Workers == INSTANCE EventProcessorProofs WITH received <- table, pc <- workerPc

LEMMA WorkersAssumption == Workers!ConstantsAssumption
  BY PathAssumption DEF Workers!ConstantsAssumption, Workers!Event

LEMMA SameCardinality == ASSUME NEW S PROVE Queue!Cardinality(S) = Workers!Cardinality(S)
  BY DEF Queue!Cardinality, Workers!Cardinality

LEMMA SameInit == Queue!Init => Workers!Init
  BY DEF Queue!Init, Workers!Init, Queue!Event, Workers!Event

LEMMA SameProcess == Queue!Process => Workers!Process
<1> USE DEF Queue!Event, Workers!Event, Queue!Holding, Workers!Holding,
            Queue!InTransaction, Workers!InTransaction, Queue!table, Workers!table,
            Queue!process, Workers!process, Queue!Save, Workers!Save,
            Queue!Unlock, Workers!Unlock
<1>1. ASSUME NEW e \in Queue!Event, Queue!Lapse(e) PROVE Workers!Lapse(e)
  BY <1>1 DEF Queue!Lapse, Workers!Lapse
<1>2. ASSUME NEW w \in Worker, Queue!Claim(w) PROVE Workers!Claim(w)
  BY <1>2, SameCardinality DEF Queue!Claim, Workers!Claim, Queue!Claimable, Workers!Claimable, Queue!Marking,
     Workers!Marking, Queue!OldestBatch, Workers!OldestBatch, Queue!TakeLease, Workers!TakeLease
<1>3. ASSUME NEW w \in Worker, Queue!Find(w) PROVE Workers!Find(w)
  BY <1>3 DEF Queue!Find, Workers!Find
<1>4. ASSUME NEW w \in Worker, Queue!Insert(w) PROVE Workers!Insert(w)
  BY <1>4 DEF Queue!Insert, Workers!Insert
<1>5. ASSUME NEW w \in Worker, Queue!CountRepeat(w) PROVE Workers!CountRepeat(w)
  BY <1>5 DEF Queue!CountRepeat, Workers!CountRepeat
<1>6. ASSUME NEW w \in Worker, Queue!Commit(w) PROVE Workers!Commit(w)
  BY <1>6 DEF Queue!Commit, Workers!Commit
<1>7. ASSUME NEW w \in Worker, Queue!CommitUnknown(w) PROVE Workers!CommitUnknown(w)
  BY <1>7 DEF Queue!CommitUnknown, Workers!CommitUnknown
<1>8. ASSUME NEW w \in Worker, Queue!Fail(w) PROVE Workers!Fail(w)
  BY <1>8 DEF Queue!Fail, Workers!Fail
<1>9. ASSUME NEW w \in Worker, Queue!Analyse(w) PROVE Workers!Analyse(w)
  BY <1>9 DEF Queue!Analyse, Workers!Analyse
<1>10. ASSUME NEW w \in Worker, Queue!Crash(w) PROVE Workers!Crash(w)
  BY <1>10 DEF Queue!Crash, Workers!Crash
<1>11. ASSUME NEW w \in Worker, Queue!Restart(w) PROVE Workers!Restart(w)
  BY <1>11 DEF Queue!Restart, Workers!Restart
<1> QED
  BY <1>1, <1>2, <1>3, <1>4, <1>5, <1>6, <1>7, <1>8, <1>9, <1>10, <1>11
  DEF Queue!Process, Workers!Process, Queue!Work, Workers!Work

(* Where an event is in its life. *)
At(e) == Queue!Stage(e)

LEMMA SameStage == ASSUME NEW e PROVE At(e) = Workers!Stage(e) /\ At(e)' = Workers!Stage(e)'
  BY DEF At, Queue!Stage, Workers!Stage, Queue!Abandoned, Workers!Abandoned,
     Queue!Holding, Workers!Holding, Queue!InTransaction, Workers!InTransaction

-----------------------------------------------------------------------------
(* What each side sees of a step of the other. *)
LEMMA RequestIsReceive ==
  ASSUME IngestInv, Request
  PROVE  [Workers!Next]_Workers!vars
<1> USE DEF Request, workerVars
<1>1. CASE table' = table
  BY <1>1 DEF Workers!vars, Workers!table, Workers!process
<1>2. CASE table' # table
  <2>1. PICK t \in Thread : table' = table \cup rows[t]
    BY <1>2 DEF Next, Work, Post, Insert, Count, Touch, Commit, Reply, Raise, Fail, Handler,
       Answer, DeadlockAbort, Done, vars
  <2>2. rows[t] \subseteq Workers!Event
    BY PathAssumption DEF IngestInv, TypeOK, Workers!Event
  <2> DEFINE S == rows[t] \ table
  <2>3. S \in SUBSET (Workers!Event \ table) /\ S # {} /\ table' = table \cup S
    BY <1>2, <2>1, <2>2
  <2>4. Workers!Receive(S)
    BY <2>3 DEF Workers!Receive, Workers!process
  <2> QED
    BY <2>3, <2>4 DEF Workers!Next
<1> QED
  BY <1>1, <1>2

LEMMA PathSteps ==
  ASSUME IngestInv, [PathNext]_pathVars
  PROVE  [Next]_vars /\ [Workers!Next]_Workers!vars
<1>1. CASE Request
  BY <1>1, RequestIsReceive DEF Request
<1>2. CASE Processing
  BY <1>2, SameProcess DEF Processing, Workers!Next
<1>3. CASE UNCHANGED pathVars
  BY <1>3 DEF pathVars, workerVars, Workers!vars, Workers!table, Workers!process, vars
<1> QED
  BY <1>1, <1>2, <1>3 DEF PathNext

LEMMA PathIngest == PathSpec => []IngestInv
<1>1. PathInit => IngestInv
  BY IngestInit DEF PathInit
<1>2. IngestInv /\ [PathNext]_pathVars => IngestInv'
  BY PathSteps, IngestStep
<1> QED
  BY <1>1, <1>2, PTL DEF PathSpec

LEMMA PathParts == PathSpec => Safe /\ Workers!Safe
<1>1. PathInit => Init /\ Workers!Init
  BY SameInit DEF PathInit
<1>2. IngestInv /\ [PathNext]_pathVars => [Next]_vars /\ [Workers!Next]_Workers!vars
  BY PathSteps
<1> QED
  BY <1>1, <1>2, PathIngest, PTL DEF PathSpec, Safe, Workers!Safe

(* What the requests and the workers promise alone they keep when they     *)
(* share the table, however slow the workers are: every accepted row is    *)
(* counted once and a batch is stored whole before its 202 (store_events), *)
(* and no processed event misses on its incident and no incident misses    *)
(* its analysis (event_processor.py). *)
THEOREM PathKeepsParts ==
  PathSpec => /\ []CountedOnce /\ ImplementsInbox
              /\ []Queue!NoOccurrenceLost /\ []Queue!AnalysisAccounted
<1>1. Workers!NoOccurrenceLost => Queue!NoOccurrenceLost
  BY SameCardinality DEF Workers!NoOccurrenceLost, Queue!NoOccurrenceLost, Workers!ProcessedOf,
     Queue!ProcessedOf, Workers!Event, Queue!Event
<1>2. Workers!AnalysisAccounted => Queue!AnalysisAccounted
  BY SameCardinality DEF Workers!AnalysisAccounted, Queue!AnalysisAccounted
<1>3. Workers!Safe => []Workers!NoOccurrenceLost
  BY WorkersAssumption, Workers!NoOccurrenceLostHolds
<1>4. Workers!Safe => []Workers!AnalysisAccounted
  BY WorkersAssumption, Workers!AnalysisAccountedHolds
<1> QED
  BY <1>1, <1>2, <1>3, <1>4, PathParts, CountedOnceHolds, InboxImplemented, PTL

-----------------------------------------------------------------------------
(* Together, while leases outlive their batches.                           *)
PathInv == IngestInv /\ Workers!QueueInv

LEMMA PathInvInit == PathInit => PathInv
  BY IngestInit, SameInit, WorkersAssumption, Workers!QueueInit DEF PathInit, PathInv

LEMMA PathInvStep == ASSUME ~SlowWorkers PROVE PathInv /\ [PathNext]_pathVars => PathInv'
  BY PathSteps, IngestStep, WorkersAssumption, Workers!QueueStep DEF PathInv

LEMMA Events == Workers!Event = EventId /\ EventId = 1 .. NumEvents
  BY PathAssumption DEF Workers!Event

(* An event is unseen while it is not stored, and waits when it is new. *)
LEMMA UnseenNotStored == ASSUME NEW e \in EventId PROVE At(e) = "unseen" <=> e \notin table
  BY DEF At, Queue!Stage

LEMMA NewRowsWait ==
  ASSUME PathInv, Request, NEW e \in EventId
  PROVE  At(e)' = IF e \in table' \ table THEN "waiting"
                  ELSE IF e \in table' THEN At(e) ELSE "unseen"
<1>1. /\ UNCHANGED <<processed, attempts>>
      /\ \A w \in Worker : Queue!Holding(w)' = Queue!Holding(w)
  BY DEF Request, workerVars, Queue!Holding, Queue!InTransaction
<1>2. CASE e \notin table'
  BY <1>2 DEF At, Queue!Stage
<1>3. CASE e \in table' /\ e \in table
  BY <1>1, <1>3 DEF At, Queue!Stage, Queue!Abandoned
<1>4. CASE e \in table' /\ e \notin table
  <2>1. ~processed[e] /\ attempts[e] = 0
    BY <1>4, Events DEF PathInv, Workers!QueueInv, Workers!UnseenOK
  <2>2. MaxAttempts # 0
    BY PathAssumption
  <2> QED
    BY <1>1, <1>4, <2>1, <2>2 DEF At, Queue!Stage, Queue!Abandoned
<1> QED
  BY <1>2, <1>3, <1>4

LEMMA RequestServes ==
  ASSUME PathInv, PathInv', Request
  PROVE  [Service!Next]_Service!vars
<1> DEFINE stages == [e \in EventId |-> Queue!Stage(e)]
           batches == [s \in Sender |-> {Batch[s][i] : i \in DOMAIN Batch[s]}]
<1>1. count' = count
  BY DEF Request, workerVars
<1>2. CASE table' = table
  <2>1. \A e \in EventId : Queue!Stage(e)' = Queue!Stage(e)
    BY <1>2, NewRowsWait, UnseenNotStored DEF At
  <2>2. stages' = stages
    BY <2>1
  <2>3. CASE acked' = acked
    BY <1>1, <2>2, <2>3 DEF Service!vars
  <2>4. ASSUME NEW s \in Sender, EventsOf(s) \subseteq table, acked' = [acked EXCEPT ![s] = TRUE]
        PROVE  Service!Acknowledge(s)
    <3>1. \A e \in batches[s] : stages[e] # "unseen"
      <4>1. table \subseteq EventId
        BY DEF PathInv, IngestInv, TypeOK
      <4> QED
        BY <2>4, <4>1, UnseenNotStored DEF EventsOf, At
    <3> QED
      BY <1>1, <2>2, <2>4, <3>1 DEF Service!Acknowledge
  <2> QED
    BY <1>2, <2>3, <2>4, RequestSteps DEF PathInv, Request, Service!Next
<1>3. CASE table' # table
  <2>1. PICK s \in Sender : ~acked[s] /\ table' = table \cup EventsOf(s) /\ acked' = acked
    BY <1>3, RequestSteps DEF PathInv, Request
  <2>2. \A e \in EventId : Queue!Stage(e)' = IF e \in EventsOf(s) /\ Queue!Stage(e) = "unseen"
                                            THEN "waiting" ELSE Queue!Stage(e)
    BY <2>1, NewRowsWait, UnseenNotStored DEF At
  <2>3. stages' = [e \in EventId |-> IF e \in batches[s] /\ stages[e] = "unseen"
                                    THEN "waiting" ELSE stages[e]]
    BY <2>2 DEF EventsOf
  <2>4. Service!Take(s)
    BY <1>1, <2>1, <2>3 DEF Service!Take
  <2> QED
    BY <2>4 DEF Service!Next
<1> QED
  BY <1>2, <1>3

LEMMA ProcessingServes ==
  ASSUME ~SlowWorkers, PathInv, Processing
  PROVE  [Service!Next]_Service!vars
<1> DEFINE stages == [e \in EventId |-> Queue!Stage(e)]
<1>1. acked' = acked /\ Workers!Process
  BY SameProcess DEF Processing, vars
<1>2. CASE \E e \in EventId :
              /\ At(e) = "waiting" /\ At(e)' = "counted"
              /\ \A x \in EventId \ {e} : At(x)' = At(x)
              /\ count' = [count EXCEPT ![Fp[e]] = count[Fp[e]] + 1]
  <2>1. PICK e \in EventId :
              /\ At(e) = "waiting" /\ At(e)' = "counted"
              /\ \A x \in EventId \ {e} : At(x)' = At(x)
              /\ count' = [count EXCEPT ![Fp[e]] = count[Fp[e]] + 1]
    BY <1>2
  <2>2. stages' = [stages EXCEPT ![e] = "counted"] /\ stages[e] = "waiting"
    BY <2>1 DEF At
  <2>3. Service!Count(e)
    BY <1>1, <2>1, <2>2 DEF Service!Count
  <2> QED
    BY <2>3 DEF Service!Next
<1>3. CASE /\ count' = count
           /\ \A e \in EventId : At(e)' # At(e) => At(e) = "waiting" /\ At(e)' = "abandoned"
  <2> DEFINE A == {e \in EventId : At(e)' # At(e)}
  <2>1. \A e \in A : Queue!Stage(e) = "waiting" /\ Queue!Stage(e)' = "abandoned"
    BY <1>3 DEF At
  <2>2. \A e \in EventId : Queue!Stage(e)' = IF e \in A THEN "abandoned" ELSE Queue!Stage(e)
    BY <2>1 DEF At
  <2>3. PICK S \in SUBSET EventId : S = A
    OBVIOUS
  <2>4. stages' = [e \in EventId |-> IF e \in S THEN "abandoned" ELSE stages[e]]
    BY <2>2, <2>3
  <2>5. CASE S = {}
    <3>1. stages' = stages
      BY <2>4, <2>5
    <3> QED
      BY <1>1, <1>3, <3>1 DEF Service!vars
  <2>6. CASE S # {}
    <3>1. Service!Abandon(S)
      BY <1>1, <1>3, <2>1, <2>3, <2>4, <2>6 DEF Service!Abandon
    <3> QED
      BY <3>1 DEF Service!Next
  <2> QED
    BY <2>5, <2>6
<1>4. \A e \in EventId : At(e) = Workers!Stage(e) /\ At(e)' = Workers!Stage(e)'
  BY SameStage
<1> QED
  BY <1>1, <1>2, <1>3, <1>4, Events, WorkersAssumption, Workers!WorkerSteps DEF PathInv

(* From the batch that is posted to the count on the incident: however     *)
(* requests repeat, overlap, deadlock, fail and lose their replies, and    *)
(* however workers race and crash, an acknowledged event stays known and   *)
(* is counted once, or abandoned (store_events and run_once together),     *)
(* as long as a batch is finished within its lease. *)
THEOREM ServiceImplemented == ASSUME ~SlowWorkers PROVE PathSpec => ImplementsService
<1>1. PathInit => Service!Init
  <2> SUFFICES ASSUME PathInit PROVE Service!Init
    OBVIOUS
  <2>1. \A e \in EventId : Queue!Stage(e) = "unseen"
    BY DEF PathInit, Init, Queue!Stage
  <2> QED
    BY <2>1 DEF PathInit, Init, Queue!Init, Service!Init
<1>2. PathInit => PathInv
  BY PathInvInit
<1>3. PathInv /\ [PathNext]_pathVars => PathInv'
  BY PathInvStep
<1>4. PathInv /\ PathInv' /\ [PathNext]_pathVars => [Service!Next]_Service!vars
  <2>1. ASSUME PathInv, UNCHANGED pathVars PROVE UNCHANGED Service!vars
    <3>1. \A e \in EventId : Queue!Stage(e)' = Queue!Stage(e)
      BY <2>1 DEF pathVars, vars, workerVars, Queue!Stage, Queue!Abandoned, Queue!Holding,
         Queue!InTransaction
    <3> QED
      BY <2>1, <3>1 DEF pathVars, vars, workerVars, Service!vars
  <2> QED
    BY <2>1, RequestServes, ProcessingServes DEF PathNext
<1> QED
  BY <1>1, <1>2, <1>3, <1>4, PTL DEF PathSpec, ImplementsService, Service!Safe
=============================================================================
