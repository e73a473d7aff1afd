---------------------------- MODULE MCEventIngest ----------------------------
(* The instance of EventIngest that TLC checks: two senders with the same  *)
(* events in opposite order, one of which has an event twice.              *)
EXTENDS EventIngestProps, TLC

CONSTANTS s1, s2, e1, e2

Crossed == s1 :> <<e1, e2>> @@ s2 :> <<e2, e1, e2>>
=============================================================================
