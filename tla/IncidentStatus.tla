----------------------------- MODULE IncidentStatus -----------------------------
(***************************************************************************)
(* One incident in the table: repeats of it are counted (_count_repeat in  *)
(* src/src/db/repository.py) while administrators resolve and reopen it    *)
(* (set_incident_status).                                                  *)
(*                                                                         *)
(* A repeat is of the time that its sender gives (_prepare in              *)
(* src/src/api/event_routes.py) and may be counted long after.  Its two    *)
(* statements are in the transaction of whoever counts it, which holds the *)
(* row until it ends; a resolution takes the time first, then waits for    *)
(* the row.                                                                *)
(***************************************************************************)
EXTENDS Naturals, Sequences

CONSTANTS Counters,  \* transactions that count repeats, one at a time each
          Resolvers, \* requests that resolve the incident
          MaxFuture, \* MAX_FUTURE, how far ahead a sender's clock may be
          MaxClock,  \* bound: of the clock
          MaxRepeats \* bound: repeats

ASSUME StatusAssumption ==
    MaxFuture \in Nat /\ MaxClock \in Nat /\ MaxRepeats \in Nat /\ "nobody" \notin Counters

VARIABLES now,
          row,     \* status, resolvedAt, lastSeen, count
          holder,  \* of the row, with the row as it was, or nobody
          pending, \* by counter, the times of repeats that wait to be counted
          resolve, \* by resolver, the time that it took, in a sequence of at most one
          seen,    \* times of the repeats counted, as they were committed
          mark     \* how many of them there were at the last resolution

statusVars == <<now, row, holder, pending, resolve, seen, mark>>

Open == [status |-> "open", resolvedAt |-> 0, lastSeen |-> 0, count |-> 1]
Nobody == [by |-> "nobody", before |-> Open]

StatusInit ==
    /\ now = 0 /\ row = Open /\ holder = Nobody
    /\ pending = [c \in Counters |-> << >>] /\ resolve = [r \in Resolvers |-> << >>]
    /\ seen = << >> /\ mark = 0

ClockTicks == now < MaxClock /\ now' = now + 1 /\ UNCHANGED <<row, holder, pending, resolve, seen, mark>>

-----------------------------------------------------------------------------
(* _prepare: a time too far ahead is replaced by the time it is. *)
Occurred(time) == IF time > now + MaxFuture THEN now ELSE time

RepeatArrives(c, time) ==
    /\ pending[c] = << >> /\ Len(seen) < MaxRepeats
    /\ pending' = [pending EXCEPT ![c] = <<Occurred(time)>>]
    /\ UNCHANGED <<now, row, holder, resolve, seen, mark>>

(* Mutant of CountRepeat: it reopens only when the incident was last seen   *)
(* before. *)
CountRepeatForward(c) ==
    /\ pending[c] # << >> /\ holder = Nobody /\ Len(seen) < MaxRepeats
    /\ holder' = [by |-> c, before |-> row]
    /\ \E time \in {pending[c][1]} :
          row' = [status     |-> IF row.status = "resolved" /\ row.resolvedAt < time /\ row.lastSeen < time
                                 THEN "open" ELSE row.status,
                  resolvedAt |-> IF row.resolvedAt < time /\ row.lastSeen < time THEN 0 ELSE row.resolvedAt,
                  lastSeen   |-> IF row.lastSeen < time THEN time ELSE row.lastSeen,
                  count      |-> row.count + 1]
    /\ UNCHANGED <<now, pending, resolve, seen, mark>>

(* Both statements of _count_repeat; the row is held. *)
CountRepeat(c) ==
    /\ pending[c] # << >> /\ holder = Nobody /\ Len(seen) < MaxRepeats
    /\ holder' = [by |-> c, before |-> row]
    /\ \E time \in {pending[c][1]} :
          row' = [status     |-> IF row.status = "resolved" /\ row.resolvedAt < time
                                 THEN "open" ELSE row.status,
                  resolvedAt |-> IF row.resolvedAt < time THEN 0 ELSE row.resolvedAt,
                  lastSeen   |-> IF row.lastSeen < time THEN time ELSE row.lastSeen,
                  count      |-> row.count + 1]
    /\ UNCHANGED <<now, pending, resolve, seen, mark>>

CommitRepeat(c) ==
    /\ holder.by = c /\ holder' = Nobody
    /\ seen' = Append(seen, pending[c][1])
    /\ pending' = [pending EXCEPT ![c] = << >>]
    /\ UNCHANGED <<now, row, resolve, mark>>

(* What follows in the transaction fails; the repeat is tried again, or     *)
(* given up. *)
RollBackRepeat(c) ==
    /\ holder.by = c /\ holder' = Nobody /\ row' = holder.before
    /\ \/ UNCHANGED pending
       \/ pending' = [pending EXCEPT ![c] = << >>]
    /\ UNCHANGED <<now, resolve, seen, mark>>

-----------------------------------------------------------------------------
(* set_incident_status: the time is taken, then the row is written. *)
AskToResolve(r) ==
    /\ resolve[r] = << >> /\ resolve' = [resolve EXCEPT ![r] = <<now>>]
    /\ UNCHANGED <<now, row, holder, pending, seen, mark>>

Resolve(r) ==
    /\ resolve[r] # << >> /\ holder = Nobody
    /\ row' = [row EXCEPT !.status = "resolved", !.resolvedAt = resolve[r][1]]
    /\ mark' = Len(seen)
    /\ resolve' = [resolve EXCEPT ![r] = << >>]
    /\ UNCHANGED <<now, holder, pending, seen>>

Reopen ==
    /\ holder = Nobody
    /\ row' = [row EXCEPT !.status = "open", !.resolvedAt = 0]
    /\ UNCHANGED <<now, holder, pending, resolve, seen, mark>>

StatusNext ==
    \/ ClockTicks \/ Reopen
    \/ \E c \in Counters, time \in 0..(now + MaxFuture + 1) : RepeatArrives(c, time)
    \/ \E c \in Counters : CountRepeat(c) \/ CommitRepeat(c) \/ RollBackRepeat(c)
    \/ \E r \in Resolvers : AskToResolve(r) \/ Resolve(r)

StatusSpec == StatusInit /\ [][StatusNext]_statusVars
=============================================================================
