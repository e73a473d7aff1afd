---------------------------- MODULE EventService ----------------------------
(***************************************************************************)
(* What the service promises to those who send it events, from the batch   *)
(* that is posted to the count on the incident, without requests, threads, *)
(* workers, transactions or retries: the batch of a sender is taken whole, *)
(* it is acknowledged once it is taken, and each event of it, however      *)
(* often it was sent and whoever else sent it, waits and then is counted   *)
(* once or abandoned.                                                      *)
(***************************************************************************)
EXTENDS Naturals

CONSTANTS Sender,       \* the services that send events
          EventId,      \* the events
          Events,       \* the events each sender has to deliver
          Fingerprint,  \* the incident groups
          Fp            \* the fingerprint of each event

VARIABLES stage,  \* [EventId -> {"unseen", "waiting", "counted", "abandoned"}]
          acked,  \* the senders that got their 202
          tally   \* [Fingerprint -> Nat], the occurrence count of each incident

vars == <<stage, acked, tally>>

Init == /\ stage = [e \in EventId |-> "unseen"]
        /\ acked = [s \in Sender |-> FALSE]
        /\ tally = [f \in Fingerprint |-> 0]

(* The events of a batch that are new wait from now on; a repeated event   *)
(* stays where it is, counted or not.                                      *)
Take(s) == /\ ~acked[s]
           /\ stage' = [e \in EventId |-> IF e \in Events[s] /\ stage[e] = "unseen"
                                        THEN "waiting" ELSE stage[e]]
           /\ UNCHANGED <<acked, tally>>

Acknowledge(s) == /\ \A e \in Events[s] : stage[e] # "unseen"
                  /\ acked' = [acked EXCEPT ![s] = TRUE]
                  /\ UNCHANGED <<stage, tally>>

(* The event becomes, or adds one to, the incident of its fingerprint. *)
Count(e) == /\ stage[e] = "waiting"
            /\ stage' = [stage EXCEPT ![e] = "counted"]
            /\ tally' = [tally EXCEPT ![Fp[e]] = @ + 1]
            /\ UNCHANGED acked

(* Some waiting events have used up their attempts. *)
Abandon(S) == /\ S # {} /\ \A e \in S : stage[e] = "waiting"
              /\ stage' = [e \in EventId |-> IF e \in S THEN "abandoned" ELSE stage[e]]
              /\ UNCHANGED <<acked, tally>>

Next == \/ \E s \in Sender : Take(s) \/ Acknowledge(s)
        \/ \E e \in EventId : Count(e)
        \/ \E S \in SUBSET EventId : Abandon(S)

Safe == Init /\ [][Next]_vars
=============================================================================
