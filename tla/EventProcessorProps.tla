------------------------ MODULE EventProcessorProps -------------------------
(***************************************************************************)
(* What the event worker must guarantee, as stated by the module comment   *)
(* of event_processor.py and by the tests beside it.                       *)
(***************************************************************************)
EXTENDS EventProcessor

(* Every variable keeps its type, a worker between two events holds no     *)
(* job, and only an open transaction locks a row.                          *)
TypeOK ==
    /\ received \subseteq Event
    /\ processed \in [Event -> BOOLEAN]
    /\ attempts \in [Event -> 0 .. MaxAttempts]
    /\ lease \in [Event -> {"never", "held", "lapsed"}]
    /\ lastError \in [Event -> {"none", "failed", "analysis_failed"}]
    /\ count \in [Fingerprint -> Nat]
    /\ rowLock \in [Fingerprint -> Worker \cup {NoWorker}]
    /\ pc \in [Worker -> InTransaction \cup {"idle", "analyse", "down"}]
    /\ batch \in [Worker -> SUBSET Event]
    /\ job \in [Worker -> Event \cup {NoEvent}]
    /\ analysis \in [Fingerprint -> {"none", "running", "done", "failed", "lost"}]

(* The events of a fingerprint that are marked processed. *)
ProcessedOf(f) == {e \in Event : processed[e] /\ Fp[e] = f}

(* No occurrence is lost: whatever workers crash, race or overrun their    *)
(* leases, an event marked processed was counted on its incident, and an   *)
(* incident counts no event nobody processed (upsert and mark commit       *)
(* together in _process).                                                  *)
NoOccurrenceLost ==
    \A f \in Fingerprint : /\ count[f] >= Cardinality(ProcessedOf(f))
                           /\ count[f] > 0 => ProcessedOf(f) # {}

(* "an event is never counted twice" (event_processor.py): the count of an *)
(* incident is the number of its processed events.                         *)
NeverCountedTwice ==
    \A f \in Fingerprint : count[f] = Cardinality(ProcessedOf(f))

(* "two workers never take the same event" (event_processor.py): no event  *)
(* is in the hands of two workers, and none is there once it is processed. *)
ExclusiveClaims ==
    \A w \in Worker : \A e \in Holding(w) :
        /\ ~processed[e]
        /\ \A v \in Worker \ {w} : e \notin Holding(v)

(* Two writers that race on a new fingerprint produce one new incident:    *)
(* one analysis runs per incident, so one suggestion, one alert and at     *)
(* most one pull request come of it (upsert_incident's is_new).            *)
AnalysedOnce ==
    [][\A f \in Fingerprint : analysis[f] # "none" =>
          analysis'[f] # "none" /\ (analysis'[f] = "running" => analysis[f] = "running")]_vars

(* A stored incident is accounted for: its analysis has run, failed or was *)
(* lost with its worker, or exactly one live worker is running it.         *)
AnalysisAccounted ==
    \A f \in Fingerprint :
        /\ count[f] > 0 <=> analysis[f] # "none"
        /\ LET running == {w \in Worker : pc[w] = "analyse" /\ Fp[job[w]] = f}
           IN  Cardinality(running) = IF analysis[f] = "running" THEN 1 ELSE 0

(* An event that has used its attempts and is in nobody's hands. *)
Abandoned(e) == /\ ~processed[e]
                /\ attempts[e] = MaxAttempts
                /\ \A w \in Worker : e \notin Holding(w)

-----------------------------------------------------------------------------
(* The worker implements the promise of EventLifecycle: where an event is  *)
(* in its life is read off the table and the workers' hands.               *)
Stage(e) == IF e \notin received THEN "unseen"
            ELSE IF processed[e] THEN "counted"
            ELSE IF Abandoned(e) THEN "abandoned" ELSE "waiting"

Lifecycle == INSTANCE EventLifecycle WITH
                stage <- [e \in Event |-> Stage(e)], tally <- count

(* Every step of the workers is a step of the abstract queue, or none. *)
ImplementsLifecycle == Lifecycle!Safe

(* ... and every waiting event leaves the queue. *)
ImplementsLifecycleFairly == Lifecycle!Spec
=============================================================================
