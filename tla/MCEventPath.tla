----------------------------- MODULE MCEventPath -----------------------------
(* The instance of EventPath that TLC checks: two senders that have an      *)
(* event in common, and two threads that run the same code. *)
EXTENDS EventPath, TLC

CONSTANTS s1, s2, t1, t2, fa

Overlapping == s1 :> <<1, 2>> @@ s2 :> <<2>>
ThreadSymmetry == Permutations({t1, t2})

OneGroup == [e \in 1 .. NumEvents |-> fa]
=============================================================================
