------------------------------ MODULE SourceKeys ------------------------------
(***************************************************************************)
(* Event sources and their keys (src/src/db/sources.py,                    *)
(* src/src/api/source_routes.py): administrators create sources, rotate    *)
(* their keys and revoke them, while senders use the keys.                 *)
(*                                                                         *)
(* A rotation or a revocation reads the row, then writes the columns that  *)
(* it changed; authenticate reads the row, then writes the time of its     *)
(* last use.  The bootstrap makes the only account, so every source is     *)
(* the administrators' own.  A key is a number: keys are random, and no    *)
(* two are the same.                                                       *)
(***************************************************************************)
EXTENDS Naturals, FiniteSets

CONSTANTS Names,    \* of sources, unique in the account
          Managers, \* requests that change sources, one at a time each
          Senders,  \* requests that send events
          MaxKeys   \* bound: keys generated

ASSUME SourceAssumption == MaxKeys \in Nat

VARIABLES sources, \* the table, by name
          issued,  \* keys generated so far
          changes, \* by manager, the change under way and the row it has read
          uses,    \* by sender, the request with its key
          retired, \* keys replaced or revoked, once that is committed
          closed   \* sources revoked, once that is committed

sourceVars == <<sources, issued, changes, uses, retired, closed>>

NoSource == [key |-> 0, revoked |-> FALSE, used |-> FALSE]
NoChange == [kind |-> "none", name |-> "none", row |-> NoSource]
NoUse    == [stage |-> "idle", key |-> 0, source |-> "none", dead |-> FALSE, shut |-> {}]

SourceInit ==
    /\ sources = << >> /\ issued = 0 /\ retired = {} /\ closed = {}
    /\ changes = [m \in Managers |-> NoChange]
    /\ uses = [r \in Senders |-> NoUse]

-----------------------------------------------------------------------------
(* create_source: a name that is taken is refused. *)
CreateSource(name) ==
    /\ name \notin DOMAIN sources /\ issued < MaxKeys
    /\ issued' = issued + 1
    /\ sources' = [n \in DOMAIN sources \cup {name} |->
                     IF n = name THEN [NoSource EXCEPT !.key = issued + 1] ELSE sources[n]]
    /\ UNCHANGED <<changes, uses, retired, closed>>

(* get_source; a source that is revoked is not changed again. *)
ReadSource(m, kind, name) ==
    /\ changes[m] = NoChange /\ name \in DOMAIN sources /\ ~sources[name].revoked
    /\ changes' = [changes EXCEPT ![m] = [kind |-> kind, name |-> name, row |-> sources[name]]]
    /\ UNCHANGED <<sources, issued, uses, retired, closed>>

ChangeDone(m) == changes' = [changes EXCEPT ![m] = NoChange]

(* Mutant of RotateKey: the whole row is written. *)
RotateKeyInRow(m) ==
    LET name == changes[m].name
    IN /\ changes[m].kind = "rotate" /\ issued < MaxKeys
       /\ issued' = issued + 1
       /\ sources' = [sources EXCEPT ![name] = [changes[m].row EXCEPT !.key = issued + 1]]
       /\ retired' = retired \cup {sources[name].key}
       /\ ChangeDone(m) /\ UNCHANGED <<uses, closed>>

(* rotate_key commits: of the row, the key is written. *)
RotateKey(m) ==
    LET name == changes[m].name
    IN /\ changes[m].kind = "rotate" /\ issued < MaxKeys
       /\ issued' = issued + 1
       /\ sources' = [sources EXCEPT ![name].key = issued + 1]
       /\ retired' = retired \cup {sources[name].key}
       /\ ChangeDone(m) /\ UNCHANGED <<uses, closed>>

(* revoke_source commits. *)
RevokeSource(m) ==
    LET name == changes[m].name
    IN /\ changes[m].kind = "revoke"
       /\ sources' = [sources EXCEPT ![name].revoked = TRUE]
       /\ retired' = retired \cup {sources[name].key}
       /\ closed' = closed \cup {name}
       /\ ChangeDone(m) /\ UNCHANGED <<issued, uses>>

(* The process dies before it commits, or the database fails. *)
ChangeLost(m) ==
    /\ changes[m] # NoChange /\ ChangeDone(m)
    /\ UNCHANGED <<sources, issued, uses, retired, closed>>

-----------------------------------------------------------------------------
(* A request arrives with a key, 0 for one that was never issued. *)
SendEvents(r, key) ==
    /\ uses[r] = NoUse
    /\ uses' = [uses EXCEPT ![r] = [NoUse EXCEPT !.stage = "arrived", !.key = key,
                                                 !.dead = key \in retired, !.shut = closed]]
    /\ UNCHANGED <<sources, issued, changes, retired, closed>>

(* authenticate: the row of the key's prefix, if it is not revoked. *)
Authenticate(r) ==
    /\ uses[r].stage = "arrived"
    /\ \E name \in DOMAIN sources :
          /\ sources[name].key = uses[r].key /\ ~sources[name].revoked
          /\ uses' = [uses EXCEPT ![r].stage = "known", ![r].source = name]
    /\ UNCHANGED <<sources, issued, changes, retired, closed>>

RefuseKey(r) ==
    /\ uses[r].stage = "arrived"
    /\ \A name \in DOMAIN sources : sources[name].key # uses[r].key \/ sources[name].revoked
    /\ uses' = [uses EXCEPT ![r] = NoUse]
    /\ UNCHANGED <<sources, issued, changes, retired, closed>>

(* The time of the last use, which is written once a minute; the source is  *)
(* not looked at again before the events are stored. *)
TouchSource(r) ==
    /\ uses[r].stage = "known"
    /\ \/ sources' = [sources EXCEPT ![uses[r].source].used = TRUE]
       \/ sources[uses[r].source].used /\ UNCHANGED sources
    /\ uses' = [uses EXCEPT ![r].stage = "accepted"]
    /\ UNCHANGED <<issued, changes, retired, closed>>

(* The response: 202, or 503 when the database fails. *)
UseDone(r) ==
    /\ uses[r].stage \in {"known", "accepted"}
    /\ uses' = [uses EXCEPT ![r] = NoUse]
    /\ UNCHANGED <<sources, issued, changes, retired, closed>>

SourceNext ==
    \/ \E n \in Names : CreateSource(n)
    \/ \E m \in Managers, n \in Names, kind \in {"rotate", "revoke"} : ReadSource(m, kind, n)
    \/ \E m \in Managers : RotateKey(m) \/ RevokeSource(m) \/ ChangeLost(m)
    \/ \E r \in Senders, key \in 0..issued : SendEvents(r, key)
    \/ \E r \in Senders : Authenticate(r) \/ RefuseKey(r) \/ TouchSource(r) \/ UseDone(r)

SourceSpec == SourceInit /\ [][SourceNext]_sourceVars
=============================================================================
