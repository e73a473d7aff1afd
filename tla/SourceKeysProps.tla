---------------------------- MODULE SourceKeysProps ----------------------------
(* What keys and sources must guarantee. *)
EXTENDS SourceKeys

SourceRow == [key : 1..MaxKeys, revoked : BOOLEAN, used : BOOLEAN]

SourceTypeOK ==
    /\ issued \in 0..MaxKeys /\ retired \subseteq 1..issued
    /\ DOMAIN sources \subseteq Names /\ \A n \in DOMAIN sources : sources[n] \in SourceRow
    /\ closed \subseteq DOMAIN sources
    /\ \A m \in Managers : changes[m] = NoChange \/
          /\ changes[m].kind \in {"rotate", "revoke"} /\ changes[m].name \in DOMAIN sources
          /\ changes[m].row \in SourceRow
    /\ \A r \in Senders :
          /\ uses[r].stage \in {"idle", "arrived", "known", "accepted"} /\ uses[r].key \in 0..issued
          /\ uses[r].dead \in BOOLEAN
          /\ uses[r].stage \in {"known", "accepted"} => uses[r].source \in DOMAIN sources

(* However rotations, revocations and uses overlap: events are taken from  *)
(* no request that came with a key after the rotation that replaced it, or *)
(* for a source after the revocation that closed it; a rotation that had   *)
(* read the source before does not open it again (rotate_key,              *)
(* revoke_source, authenticate). *)
RetiredKeyRefused ==
    \A r \in Senders :
        uses[r].stage \in {"known", "accepted"} =>
            ~uses[r].dead /\ uses[r].source \notin uses[r].shut
=============================================================================
