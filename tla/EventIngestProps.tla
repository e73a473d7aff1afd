--------------------------- MODULE EventIngestProps ---------------------------
(* What storing batches must guarantee. *)
EXTENDS EventIngest

TypeOK ==
    /\ table \subseteq EventId
    /\ acked \in [Sender -> BOOLEAN]
    /\ pc \in [Thread -> {"idle", "insert", "commit", "reply", "handler", "unavailable", "error"}]
    /\ sender \in [Thread -> Sender]
    /\ pos \in [Thread -> Nat] /\ \A t \in Thread : pos[t] \in 1..(Size(t) + 1)
    /\ rows \in [Thread -> SUBSET EventId]
    /\ stored \in [Thread -> Nat] /\ duplicates \in [Thread -> Nat]
    /\ source \in Thread \cup {Nobody}
    /\ faults \in Nat /\ accepted \in Nat

(* "a retry is never counted twice" (store_events): the "accepted" counts  *)
(* of all committed batches add up to the rows stored, however requests    *)
(* with the same events overlap, fail and are repeated.                    *)
CountedOnce == accepted = Cardinality(table)

(* "an accepted event is not lost" (event_routes): the inbox stores a      *)
(* batch whole and acknowledges only what is stored; a duplicate that was  *)
(* not inserted again is in the table.                                     *)
Inbox == INSTANCE DurableInbox WITH Events <- [s \in Sender |-> {Batch[s][i] : i \in DOMAIN Batch[s]}]
ImplementsInbox == Inbox!Safe

(* Every sender that keeps posting is acknowledged, although batches with  *)
(* the same events in another order abort each other.                      *)
Delivered == \A s \in Sender : <>acked[s]

(* "a storage failure is a 503 so the sender retries"                      *)
(* (test_event_routes.py): no failure to store ends in anything else.      *)
StorageFailureIs503 == \A t \in Thread : pc[t] # "error"
=============================================================================
