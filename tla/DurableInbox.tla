---------------------------- MODULE DurableInbox ----------------------------
(***************************************************************************)
(* What POST /v1/events promises its senders: a batch is stored as a whole *)
(* or not at all, and it is acknowledged only once it is stored.           *)
(***************************************************************************)
CONSTANTS Sender,  \* the services that send events
          Events   \* the events each of them has to deliver

VARIABLES table,  \* the events stored for good
          acked   \* the senders that got their 202

vars == <<table, acked>>

Init == table = {} /\ acked = [s \in Sender |-> FALSE]

Store(s) == /\ ~acked[s]
            /\ table' = table \cup Events[s]
            /\ UNCHANGED acked

Ack(s) == /\ Events[s] \subseteq table
          /\ acked' = [acked EXCEPT ![s] = TRUE]
          /\ UNCHANGED table

Next == \E s \in Sender : Store(s) \/ Ack(s)

Safe == Init /\ [][Next]_vars
=============================================================================
