--------------------------- MODULE EventLifecycle ---------------------------
(***************************************************************************)
(* What the event queue promises, without workers, claims or transactions: *)
(* an event that was accepted waits, and it stops waiting in one of two    *)
(* ways.  Either it is counted on the incident of its fingerprint, once,   *)
(* or it is abandoned for a person to look at and counted nowhere.         *)
(***************************************************************************)
EXTENDS Naturals

CONSTANTS Event,        \* the events
          Fingerprint,  \* the incident groups
          Fp            \* the fingerprint of each event

VARIABLES stage,  \* [Event -> {"unseen", "waiting", "counted", "abandoned"}]
          tally   \* [Fingerprint -> Nat], the occurrence count of each incident

vars == <<stage, tally>>

Init == /\ stage = [e \in Event |-> "unseen"]
        /\ tally = [f \in Fingerprint |-> 0]

(* New events of a source are accepted and stored, together. *)
Arrive(S) == /\ S # {}
             /\ \A e \in S : stage[e] = "unseen"
             /\ stage' = [e \in Event |-> IF e \in S THEN "waiting" ELSE stage[e]]
             /\ UNCHANGED tally

(* The event becomes, or adds one to, the incident of its fingerprint. *)
Count(e) == /\ stage[e] = "waiting"
            /\ stage' = [stage EXCEPT ![e] = "counted"]
            /\ tally' = [tally EXCEPT ![Fp[e]] = @ + 1]

(* Some waiting events have used up their attempts. *)
Abandon(S) == /\ S # {}
              /\ \A e \in S : stage[e] = "waiting"
              /\ stage' = [e \in Event |-> IF e \in S THEN "abandoned" ELSE stage[e]]
              /\ UNCHANGED tally

Next == \/ \E e \in Event : Count(e)
        \/ \E S \in SUBSET Event : Arrive(S) \/ Abandon(S)

(* A waiting event leaves the queue: no event waits for ever. *)
Leave(e) == Count(e) \/ \E S \in SUBSET Event : e \in S /\ Abandon(S)

Safe == Init /\ [][Next]_vars
Spec == Safe /\ \A e \in Event : WF_vars(Leave(e))
=============================================================================
