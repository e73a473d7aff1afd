--------------------------------- MODULE Access ---------------------------------
(***************************************************************************)
(* The first administrator and the sessions: processes that start          *)
(* (src/src/db/startup.py, src/src/db/bootstrap.py), logins and logouts    *)
(* (src/src/api/auth_routes.py), and requests that need a session          *)
(* (src/src/api/deps.py).                                                  *)
(*                                                                         *)
(* Without a configured password each process makes its own; here it is    *)
(* the process itself.  Users are made by the bootstrap alone, so the      *)
(* role of every user is administrator.                                    *)
(***************************************************************************)
EXTENDS Naturals, FiniteSets

CONSTANTS Processes,
          Configured, \* SENTINAI_ADMIN_PASSWORD, or "none"
          Callers,    \* requests with a session token
          Lifetime,   \* _SESSION_LIFETIME
          MaxTime,    \* bound: of the clock
          MaxTokens   \* bound: sessions opened

ASSUME LifetimeAssumption == Lifetime \in Nat \ {0} /\ MaxTime \in Nat /\ MaxTokens \in Nat

VARIABLES accounts, \* of the default account, the passwords of its administrators
          boots,    \* by process, how far its start is
          printed,  \* passwords written to the log
          clock,
          sessions, \* by token, when it expires
          opened,   \* tokens so far
          calls,    \* by caller, the request
          ended     \* tokens that a logout has ended

accessVars == <<accounts, boots, printed, clock, sessions, opened, calls, ended>>

NoCall == [stage |-> "idle", kind |-> "none", token |-> 0, over |-> FALSE]

AccessInit ==
    /\ accounts = {} /\ boots = [p \in Processes |-> "down"] /\ printed = {}
    /\ clock = 0 /\ sessions = << >> /\ opened = 0
    /\ calls = [c \in Callers |-> NoCall] /\ ended = {}

-----------------------------------------------------------------------------
(* prepare_database; when the database fails, the process serves anyway. *)
CheckAccount(p) ==
    /\ boots[p] = "down"
    /\ \/ boots' = [boots EXCEPT ![p] = IF accounts = {} THEN "creating" ELSE "up"]
       \/ boots' = [boots EXCEPT ![p] = "up"]
    /\ UNCHANGED <<accounts, printed, clock, sessions, opened, calls, ended>>

Password(p) == IF Configured = "none" THEN p ELSE Configured

(* Mutant of CreateAdmin: the address of a user is not unique. *)
CreateAnotherAdmin(p) ==
    /\ boots[p] = "creating"
    /\ accounts' = accounts \cup {Password(p)}
    /\ boots' = [boots EXCEPT ![p] = IF Configured = "none" THEN "created" ELSE "up"]
    /\ UNCHANGED <<printed, clock, sessions, opened, calls, ended>>

(* Account and administrator in one transaction. *)
CreateAdmin(p) ==
    /\ boots[p] = "creating" /\ accounts = {}
    /\ accounts' = {Password(p)}
    /\ boots' = [boots EXCEPT ![p] = IF Configured = "none" THEN "created" ELSE "up"]
    /\ UNCHANGED <<printed, clock, sessions, opened, calls, ended>>

(* Another process was first (its address is unique), or the database       *)
(* fails: all of the transaction is rolled back. *)
CreationFails(p) ==
    /\ boots[p] = "creating"
    /\ boots' = [boots EXCEPT ![p] = "up"]
    /\ UNCHANGED <<accounts, printed, clock, sessions, opened, calls, ended>>

PrintPassword(p) ==
    /\ boots[p] = "created"
    /\ printed' = printed \cup {Password(p)}
    /\ boots' = [boots EXCEPT ![p] = "up"]
    /\ UNCHANGED <<accounts, clock, sessions, opened, calls, ended>>

ProcessDies(p) ==
    /\ boots[p] # "down"
    /\ boots' = [boots EXCEPT ![p] = "down"]
    /\ UNCHANGED <<accounts, printed, clock, sessions, opened, calls, ended>>

-----------------------------------------------------------------------------
TimePasses ==
    /\ clock < MaxTime /\ clock' = clock + 1
    /\ UNCHANGED <<accounts, boots, printed, sessions, opened, calls, ended>>

(* Somebody who knows a password logs in. *)
Login ==
    /\ opened < MaxTokens
    /\ \E password \in printed \cup {Configured} : password \in accounts
    /\ opened' = opened + 1
    /\ sessions' = [t \in DOMAIN sessions \cup {opened + 1} |->
                      IF t = opened + 1 THEN clock + Lifetime ELSE sessions[t]]
    /\ UNCHANGED <<accounts, boots, printed, clock, calls, ended>>

Expired(token) == clock >= sessions[token]

(* A request arrives; it may come long after its token has ended. *)
CallArrives(c, kind, token) ==
    /\ calls[c] = NoCall
    /\ calls' = [calls EXCEPT ![c] =
                   [stage |-> "arrived", kind |-> kind, token |-> token,
                    over |-> token \in ended \/ token \in {t \in DOMAIN sessions : Expired(t)}]]
    /\ UNCHANGED <<accounts, boots, printed, clock, sessions, opened, ended>>

(* require_user *)
RequireUser(c) ==
    /\ calls[c].stage = "arrived" /\ calls[c].token \in DOMAIN sessions /\ ~Expired(calls[c].token)
    /\ calls' = [calls EXCEPT ![c].stage = "served"]
    /\ UNCHANGED <<accounts, boots, printed, clock, sessions, opened, ended>>

RefuseCall(c) ==
    /\ calls[c].stage = "arrived"
    /\ calls[c].token \in DOMAIN sessions => Expired(calls[c].token)
    /\ sessions' = [t \in DOMAIN sessions \ {calls[c].token} |-> sessions[t]]
    /\ calls' = [calls EXCEPT ![c] = NoCall]
    /\ UNCHANGED <<accounts, boots, printed, clock, opened, ended>>

(* Mutant of Logout: the session that asked is deleted, and no other. *)
LogoutOne(c) ==
    /\ calls[c].stage = "served" /\ calls[c].kind = "logout"
    /\ sessions' = [t \in DOMAIN sessions \ {calls[c].token} |-> sessions[t]]
    /\ ended' = ended \cup DOMAIN sessions
    /\ calls' = [calls EXCEPT ![c] = NoCall]
    /\ UNCHANGED <<accounts, boots, printed, clock, opened>>

(* logout deletes every session of the user. *)
Logout(c) ==
    /\ calls[c].stage = "served" /\ calls[c].kind = "logout"
    /\ sessions' = << >>
    /\ ended' = ended \cup DOMAIN sessions
    /\ calls' = [calls EXCEPT ![c] = NoCall]
    /\ UNCHANGED <<accounts, boots, printed, clock, opened>>

(* The response of any other route. *)
CallDone(c) ==
    /\ calls[c].stage = "served" /\ calls[c].kind = "route"
    /\ calls' = [calls EXCEPT ![c] = NoCall]
    /\ UNCHANGED <<accounts, boots, printed, clock, sessions, opened, ended>>

AccessNext ==
    \/ \E p \in Processes :
          CheckAccount(p) \/ CreateAdmin(p) \/ CreationFails(p) \/ PrintPassword(p) \/ ProcessDies(p)
    \/ TimePasses \/ Login
    \/ \E c \in Callers, kind \in {"logout", "route"}, token \in 1..opened : CallArrives(c, kind, token)
    \/ \E c \in Callers : RequireUser(c) \/ RefuseCall(c) \/ Logout(c) \/ CallDone(c)

AccessSpec == AccessInit /\ [][AccessNext]_accessVars
=============================================================================
