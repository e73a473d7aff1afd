-------------------------- MODULE MCEventProcessor --------------------------
(* The instances of EventProcessor that TLC checks. *)
EXTENDS EventProcessorProps, TLC

CONSTANTS w1, w2, fa, fb

(* Two workers race on one fingerprint and on a second one. *)
MCWorker == {w1, w2}
MCFingerprint == {fa, fb}

(* Two events of one group and one of another. *)
FpPair == (1 :> fa) @@ (2 :> fa) @@ (3 :> fb)

(* All events in one group, so that every transaction contends. *)
FpSame == [e \in 1 .. NumEvents |-> fa]

(* The workers are interchangeable; the fingerprints are not (Fp). *)
WorkerSymmetry == Permutations(MCWorker)
=============================================================================
