-------------------------- MODULE IncidentStatusProps --------------------------
(* What the status of an incident must tell. *)
EXTENDS IncidentStatus

StatusTypeOK ==
    /\ now \in 0..MaxClock
    /\ row.status \in {"open", "resolved"} /\ row.resolvedAt \in 0..MaxClock
    /\ row.status = "open" => row.resolvedAt = 0
    /\ row.lastSeen \in 0..(MaxClock + MaxFuture) /\ row.count \in 1..(MaxRepeats + 1)
    /\ holder.by \in Counters \cup {"nobody"}
    /\ Len(seen) <= MaxRepeats /\ mark \in 0..Len(seen)

(* In whatever order repeats, their transactions and the resolutions come, *)
(* and whatever the clocks of the senders say: every repeat that was       *)
(* committed is counted, once; the last time is the latest of them; and an *)
(* incident that is resolved has not been seen, in any repeat counted      *)
(* since, after the time of its resolution (_count_repeat). *)
BackMeansOpen ==
    holder = Nobody =>
        /\ row.count = Len(seen) + 1
        /\ \A i \in DOMAIN seen : seen[i] <= row.lastSeen
        /\ row.lastSeen = 0 \/ \E i \in DOMAIN seen : seen[i] = row.lastSeen
        /\ row.status = "resolved" => \A i \in (mark + 1)..Len(seen) : seen[i] <= row.resolvedAt
=============================================================================
