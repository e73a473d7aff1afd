------------------------------ MODULE AccessProps ------------------------------
(* What the bootstrap and the sessions must guarantee. *)
EXTENDS Access

AccessTypeOK ==
    /\ \A p \in Processes : boots[p] \in {"down", "creating", "created", "up"}
    /\ clock \in 0..MaxTime /\ opened \in 0..MaxTokens
    /\ DOMAIN sessions \subseteq 1..opened
    /\ \A t \in DOMAIN sessions : sessions[t] \in 0..(clock + Lifetime)
    /\ ended \subseteq 1..opened
    /\ \A c \in Callers : calls[c].stage \in {"idle", "arrived", "served"} /\ calls[c].over \in BOOLEAN

(* However many processes start at once and die: there is one              *)
(* administrator, and a password in the log is the one that works          *)
(* (bootstrap_default_account). *)
OneAdmin ==
    /\ Cardinality(accounts) <= 1
    /\ printed \subseteq accounts
    /\ \A p \in Processes : boots[p] = "created" => accounts = {Password(p)}

(* No request is served whose session, when the request came, had expired  *)
(* or had been ended by a logout, on whatever device and however the two   *)
(* requests overlap; and a session that was ended is gone (require_user,   *)
(* logout). *)
ServedInSession ==
    /\ \A c \in Callers : calls[c].stage = "served" => ~calls[c].over
    /\ ended \cap DOMAIN sessions = {}
=============================================================================
