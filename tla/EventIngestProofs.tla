-------------------------- MODULE EventIngestProofs --------------------------
(***************************************************************************)
(* Proofs about storing batches, for any number of senders, batches and    *)
(* threads, and any number of failures.                                    *)
(***************************************************************************)
EXTENDS EventIngestProps, FiniteSetTheorems, TLAPS

EventsOf(s) == {Batch[s][i] : i \in DOMAIN Batch[s]}

LEMMA BatchTyped ==
  ASSUME NEW s \in Sender
  PROVE  /\ Len(Batch[s]) \in Nat
         /\ DOMAIN Batch[s] = 1..Len(Batch[s])
         /\ \A i \in 1..Len(Batch[s]) : Batch[s][i] \in EventId
  BY IngestAssumption

LEMMA TypeInit == Init => TypeOK
<1> SUFFICES ASSUME Init PROVE TypeOK
  OBVIOUS
<1>1. sender \in [Thread -> Sender]
  BY IngestAssumption DEF Init
<1>2. \A t \in Thread : pos[t] \in 1..(Size(t) + 1)
  BY <1>1, BatchTyped DEF Init, Size
<1> QED
  BY <1>1, <1>2 DEF Init, TypeOK

LEMMA GotoTyped ==
  ASSUME TypeOK, NEW t \in Thread,
         NEW l \in {"idle", "insert", "commit", "reply", "handler", "unavailable", "error"},
         Goto(t, l)
  PROVE  pc' \in [Thread -> {"idle", "insert", "commit", "reply", "handler", "unavailable", "error"}]
  BY DEF TypeOK, Goto

LEMMA TypeStep == TypeOK /\ [Next]_vars => TypeOK'
<1> SUFFICES ASSUME TypeOK, [Next]_vars PROVE TypeOK'
  OBVIOUS
<1> USE DEF TypeOK, Goto, Undo, Unlock, Fault
<1>1. ASSUME NEW t \in Thread, NEW s \in Sender, Post(t, s) PROVE TypeOK'
  <2>1. \A u \in Thread : pos'[u] \in 1..(Len(Batch[sender'[u]]) + 1)
    BY <1>1, BatchTyped DEF Post, Size
  <2> QED
    BY <1>1, <2>1 DEF Post, Size
<1>2. ASSUME NEW t \in Thread, Insert(t) PROVE TypeOK'
  <2>1. Event(t) \in EventId /\ Size(t) \in Nat
    BY <1>2, BatchTyped DEF Insert, Event, Size
  <2>2. \A u \in Thread : pos'[u] \in 1..(Size(u) + 1)
    BY <1>2, <2>1 DEF Insert, Count
  <2>3. rows' \in [Thread -> SUBSET EventId]
    BY <1>2, <2>1 DEF Insert, Count
  <2>4. stored' \in [Thread -> Nat] /\ duplicates' \in [Thread -> Nat] /\ pos' \in [Thread -> Nat]
    BY <1>2 DEF Insert, Count
  <2> QED
    BY <1>2, <2>2, <2>3, <2>4 DEF Insert, Count, Size
<1>3. ASSUME NEW t \in Thread, Touch(t) PROVE TypeOK'
  BY <1>3 DEF Touch, Size
<1>4. ASSUME NEW t \in Thread, Commit(t) PROVE TypeOK'
  <2>1. pc' \in [Thread -> {"idle", "insert", "commit", "reply", "handler", "unavailable", "error"}]
    BY <1>4, GotoTyped DEF Commit
  <2>2. /\ table' \subseteq EventId /\ rows' \in [Thread -> SUBSET EventId]
        /\ accepted' \in Nat /\ source' \in Thread \cup {Nobody} /\ faults' \in Nat
    BY <1>4 DEF Commit
  <2> QED
    BY <1>4, <2>1, <2>2 DEF Commit, Size
<1>5. ASSUME NEW t \in Thread, Reply(t) \/ Handler(t) \/ Answer(t) PROVE TypeOK'
  <2>1. pc' \in [Thread -> {"idle", "insert", "commit", "reply", "handler", "unavailable", "error"}]
    BY <1>5, GotoTyped DEF Reply, Handler, Answer
  <2>2. acked' \in [Sender -> BOOLEAN]
    <3>1. acked' = acked \/ acked' = [acked EXCEPT ![sender[t]] = TRUE]
      BY <1>5 DEF Reply, Handler, Answer
    <3> QED
      BY <3>1
  <2>4. faults' \in Nat
    BY <1>5 DEF Reply, Handler, Answer
  <2>3. UNCHANGED <<table, sender, pos, rows, stored, duplicates, source, accepted>>
    BY <1>5 DEF Reply, Handler, Answer
  <2> QED
    BY <2>1, <2>2, <2>3, <2>4 DEF Size
<1>6. ASSUME NEW t \in Thread, Raise(t) \/ Fail(t) \/ DeadlockAbort(t) PROVE TypeOK'
  <2>1. pc' \in [Thread -> {"idle", "insert", "commit", "reply", "handler", "unavailable", "error"}]
    BY <1>6, GotoTyped DEF Raise, Fail, DeadlockAbort
  <2>2. /\ rows' \in [Thread -> SUBSET EventId]
        /\ source' \in Thread \cup {Nobody} /\ faults' \in Nat
    BY <1>6 DEF Raise, Fail, DeadlockAbort
  <2>3. UNCHANGED <<table, acked, sender, pos, stored, duplicates, accepted>>
    BY <1>6 DEF Raise, Fail, DeadlockAbort
  <2> QED
    BY <2>1, <2>2, <2>3 DEF Size
<1>7. CASE UNCHANGED vars \/ Done
  BY <1>7 DEF vars, Done, Size
<1> QED
  BY <1>1, <1>2, <1>3, <1>4, <1>5, <1>6, <1>7 DEF Next, Work

(* The table, the transactions and the counts of store_events keep their   *)
(* types, and the loop never leaves its batch.                             *)
THEOREM IngestTypeCorrect == Safe => []TypeOK
  BY TypeInit, TypeStep, PTL DEF Safe

-----------------------------------------------------------------------------
Open(t) == pc[t] \in {"insert", "commit"}

(* A transaction holds rows that nobody else has, and has counted them. *)
RowsOK ==
    \A t \in Thread :
        /\ IsFiniteSet(rows[t]) /\ rows[t] \subseteq EventsOf(sender[t]) /\ rows[t] \cap table = {}
        /\ IF Open(t) THEN stored[t] = Cardinality(rows[t]) ELSE rows[t] = {}

DisjointOK == \A t, u \in Thread : t # u => rows[t] \cap rows[u] = {}

TableOK == IsFiniteSet(table) /\ accepted = Cardinality(table)

(* What the loop has passed is in the table or in the transaction. *)
LoopOK ==
    \A t \in Thread : pc[t] = "insert" =>
        \A i \in 1..Len(Batch[sender[t]]) : i < pos[t] => Batch[sender[t]][i] \in table \cup rows[t]

WholeOK ==
    \A t \in Thread :
        /\ pc[t] = "commit" => EventsOf(sender[t]) \subseteq table \cup rows[t]
        /\ pc[t] = "reply"  => EventsOf(sender[t]) \subseteq table

AckOK == \A s \in Sender : acked[s] => EventsOf(s) \subseteq table

IngestInv == TypeOK /\ RowsOK /\ DisjointOK /\ TableOK /\ LoopOK /\ WholeOK /\ AckOK

LEMMA IngestInit == Init => IngestInv
<1> SUFFICES ASSUME Init PROVE IngestInv
  OBVIOUS
<1>1. TypeOK
  BY TypeInit
<1>2. TableOK /\ RowsOK
  BY FS_EmptySet DEF Init, TableOK, RowsOK, Open
<1> QED
  BY <1>1, <1>2 DEF Init, IngestInv, DisjointOK, LoopOK, WholeOK, AckOK

(* The loop: waiting for the others keeps the transactions disjoint. *)
LEMMA InsertStep ==
  ASSUME IngestInv, NEW t \in Thread, Insert(t)
  PROVE  IngestInv'
<1>1. TypeOK /\ TypeOK'
  BY TypeStep DEF IngestInv, Next, Work
<1>2. /\ pc[t] = "insert" /\ pos[t] \in 1..Len(Batch[sender[t]])
      /\ pos' = [pos EXCEPT ![t] = pos[t] + 1]
      /\ UNCHANGED <<table, acked, pc, sender, accepted>>
  BY <1>1, BatchTyped DEF Insert, Count, Size, TypeOK
<1>3. Event(t) \in EventsOf(sender[t])
  BY <1>1, <1>2, BatchTyped DEF Event, EventsOf, TypeOK
<1>4. \A u \in Thread \ {t} : Event(t) \notin rows[u]
  BY DEF Insert, Holders
<1>7. \A u \in Thread : \A i \in 1..Len(Batch[sender[u]]) :
          i < pos'[u] => i < pos[u] \/ (u = t /\ i = pos[t])
  <2> SUFFICES ASSUME NEW u \in Thread, NEW i \in 1..Len(Batch[sender[u]]), i < pos'[u]
               PROVE  i < pos[u] \/ (u = t /\ i = pos[t])
    OBVIOUS
  <2>1. pos[t] \in Nat /\ i \in Int
    BY <1>1 DEF TypeOK
  <2>2. pos'[u] = IF u = t THEN pos[t] + 1 ELSE pos[u]
    BY <1>1, <1>2 DEF TypeOK
  <2> QED
    BY <2>1, <2>2
<1>5. CASE Event(t) \in table \cup rows[t]
  <2>1. UNCHANGED <<rows, stored>>
    BY <1>5 DEF Insert, Count
  <2>2. LoopOK'
    BY <1>2, <1>5, <1>7, <2>1 DEF IngestInv, LoopOK, Event
  <2> QED
    BY <1>1, <1>2, <2>1, <2>2
    DEF IngestInv, RowsOK, DisjointOK, TableOK, WholeOK, AckOK, Open
<1>6. CASE Event(t) \notin table \cup rows[t]
  <2>1. /\ rows' = [rows EXCEPT ![t] = rows[t] \cup {Event(t)}]
        /\ stored' = [stored EXCEPT ![t] = stored[t] + 1]
    BY <1>6 DEF Insert, Count
  <2>2. /\ IsFiniteSet(rows[t] \cup {Event(t)})
        /\ Cardinality(rows[t] \cup {Event(t)}) = stored[t] + 1
    <3>1. IsFiniteSet(rows[t]) /\ stored[t] = Cardinality(rows[t])
      BY <1>2 DEF IngestInv, RowsOK, Open
    <3> QED
      BY <1>6, <3>1, FS_AddElement
  <2>3. RowsOK'
    BY <1>1, <1>2, <1>3, <1>6, <2>1, <2>2, SMTT(30) DEF IngestInv, RowsOK, Open, TypeOK
  <2>4. DisjointOK'
    BY <1>1, <1>4, <2>1 DEF IngestInv, DisjointOK, TypeOK
  <2>5. LoopOK'
    <3>1. \A u \in Thread : rows[u] \subseteq rows'[u] /\ Event(t) \in rows'[t]
      BY <1>1, <2>1 DEF TypeOK
    <3> QED
      BY <1>2, <1>7, <3>1 DEF IngestInv, LoopOK, Event
  <2>6. WholeOK'
    BY <1>1, <1>2, <2>1 DEF IngestInv, WholeOK, TypeOK
  <2> QED
    BY <1>1, <1>2, <2>3, <2>4, <2>5, <2>6 DEF IngestInv, TableOK, AckOK
<1> QED
  BY <1>5, <1>6

(* The commit: the rows of one transaction move to the table. *)
LEMMA CommitStep ==
  ASSUME IngestInv, NEW t \in Thread, Commit(t)
  PROVE  IngestInv'
<1>1. TypeOK /\ TypeOK'
  BY TypeStep DEF IngestInv, Next, Work
<1>2. /\ pc[t] = "commit" /\ table' = table \cup rows[t] /\ accepted' = accepted + stored[t]
      /\ rows' = [rows EXCEPT ![t] = {}]
      /\ pc' = [pc EXCEPT ![t] = "reply"] \/ pc' = [pc EXCEPT ![t] = "handler"]
      /\ UNCHANGED <<acked, sender, pos, stored>>
  BY DEF Commit, Goto
<1>3. TableOK'
  <2>1. /\ IsFiniteSet(table) /\ IsFiniteSet(rows[t]) /\ table \cap rows[t] = {}
        /\ accepted = Cardinality(table) /\ stored[t] = Cardinality(rows[t])
    BY <1>2 DEF IngestInv, TableOK, RowsOK, Open
  <2>2. /\ IsFiniteSet(table \cup rows[t])
        /\ Cardinality(table \cup rows[t])
             = Cardinality(table) + Cardinality(rows[t]) - Cardinality(table \cap rows[t])
    BY <2>1, FS_Union
  <2>3. Cardinality(table \cap rows[t]) = 0
    BY <2>1, FS_EmptySet
  <2> QED
    BY <1>1, <1>2, <2>1, <2>2, <2>3 DEF TableOK, TypeOK
<1>4. \A u \in Thread : rows'[u] = IF u = t THEN {} ELSE rows[u]
  BY <1>1, <1>2 DEF TypeOK
<1>5. RowsOK' /\ DisjointOK'
  BY <1>1, <1>2, <1>4, FS_EmptySet DEF IngestInv, RowsOK, DisjointOK, Open, TypeOK
<1>6. LoopOK' /\ WholeOK'
  BY <1>1, <1>2, <1>4, ZenonT(40) DEF IngestInv, LoopOK, WholeOK, TypeOK
<1>7. AckOK'
  BY <1>2 DEF IngestInv, AckOK
<1> QED
  BY <1>1, <1>3, <1>5, <1>6, <1>7 DEF IngestInv

(* Everything a transaction did is undone. *)
LEMMA UndoStep ==
  ASSUME IngestInv, NEW t \in Thread, Raise(t) \/ Fail(t) \/ DeadlockAbort(t)
  PROVE  IngestInv'
<1>1. TypeOK /\ TypeOK'
  BY TypeStep DEF IngestInv, Next, Work
<1>2. /\ rows' = [rows EXCEPT ![t] = {}]
      /\ pc' = [pc EXCEPT ![t] = "handler"] \/ pc' = [pc EXCEPT ![t] = "idle"]
      /\ UNCHANGED <<table, acked, sender, pos, stored, accepted>>
  BY DEF Raise, Fail, DeadlockAbort, Undo, Goto
<1>3. \A u \in Thread : rows'[u] = IF u = t THEN {} ELSE rows[u]
  BY <1>1, <1>2 DEF TypeOK
<1>4. RowsOK' /\ DisjointOK'
  BY <1>1, <1>2, <1>3, FS_EmptySet DEF IngestInv, RowsOK, DisjointOK, Open, TypeOK
<1>5. LoopOK' /\ WholeOK'
  BY <1>1, <1>2, <1>3, SMTT(30) DEF IngestInv, LoopOK, WholeOK, TypeOK
<1> QED
  BY <1>1, <1>2, <1>4, <1>5 DEF IngestInv, TableOK, AckOK

LEMMA IngestStep == IngestInv /\ [Next]_vars => IngestInv'
<1> SUFFICES ASSUME IngestInv, [Next]_vars PROVE IngestInv'
  OBVIOUS
<1> TypeOK /\ TypeOK'
  BY TypeStep DEF IngestInv
<1>1. ASSUME NEW t \in Thread, NEW s \in Sender, Post(t, s) PROVE IngestInv'
  <2>1. /\ pc[t] = "idle" /\ pc' = [pc EXCEPT ![t] = "insert"]
        /\ sender' = [sender EXCEPT ![t] = s] /\ pos' = [pos EXCEPT ![t] = 1]
        /\ stored' = [stored EXCEPT ![t] = 0]
        /\ UNCHANGED <<table, acked, rows, accepted>>
    BY <1>1 DEF Post, Goto
  <2>2. RowsOK'
    BY <2>1, FS_EmptySet DEF IngestInv, RowsOK, Open, TypeOK
  <2>3. LoopOK' /\ WholeOK'
    BY <2>1 DEF IngestInv, LoopOK, WholeOK, TypeOK
  <2> QED
    BY <2>1, <2>2, <2>3 DEF IngestInv, DisjointOK, TableOK, AckOK
<1>2. ASSUME NEW t \in Thread, Touch(t) PROVE IngestInv'
  <2>1. /\ pc[t] = "insert" /\ pos[t] > Len(Batch[sender[t]])
        /\ pc' = [pc EXCEPT ![t] = "commit"]
        /\ UNCHANGED <<table, acked, sender, pos, rows, stored, accepted>>
    BY <1>2 DEF Touch, Goto, Size
  <2>2. EventsOf(sender[t]) \subseteq table \cup rows[t]
    <3> SUFFICES ASSUME NEW i \in DOMAIN Batch[sender[t]]
                 PROVE  Batch[sender[t]][i] \in table \cup rows[t]
      BY DEF EventsOf
    <3>1. i \in 1..Len(Batch[sender[t]]) /\ Len(Batch[sender[t]]) \in Nat /\ pos[t] \in Nat
      BY BatchTyped DEF TypeOK
    <3>2. i < pos[t]
      BY <2>1, <3>1
    <3> QED
      BY <2>1, <3>1, <3>2 DEF IngestInv, LoopOK
  <2>3. WholeOK' /\ LoopOK'
    BY <2>1, <2>2 DEF IngestInv, WholeOK, LoopOK, TypeOK
  <2>4. RowsOK'
    BY <2>1 DEF IngestInv, RowsOK, Open, TypeOK
  <2> QED
    BY <2>1, <2>3, <2>4 DEF IngestInv, DisjointOK, TableOK, AckOK
<1>3. ASSUME NEW t \in Thread, Reply(t) PROVE IngestInv'
  <2>1. /\ pc[t] = "reply" /\ pc' = [pc EXCEPT ![t] = "idle"]
        /\ acked' = [acked EXCEPT ![sender[t]] = TRUE]
        /\ UNCHANGED <<table, sender, pos, rows, stored, accepted>>
    BY <1>3 DEF Reply, Goto
  <2>2. AckOK'
    BY <2>1 DEF IngestInv, WholeOK, AckOK, TypeOK
  <2>3. RowsOK' /\ LoopOK' /\ WholeOK'
    BY <2>1 DEF IngestInv, RowsOK, LoopOK, WholeOK, Open, TypeOK
  <2> QED
    BY <2>1, <2>2, <2>3 DEF IngestInv, DisjointOK, TableOK
<1>4. ASSUME NEW t \in Thread, Handler(t) \/ Answer(t) PROVE IngestInv'
  <2>1. /\ pc[t] \in {"handler", "unavailable", "error"}
        /\ \E l \in {"idle", "unavailable", "error"} : pc' = [pc EXCEPT ![t] = l]
        /\ UNCHANGED <<table, acked, sender, pos, rows, stored, accepted>>
    BY <1>4 DEF Handler, Answer, Goto
  <2>2. RowsOK' /\ LoopOK' /\ WholeOK'
    BY <2>1 DEF IngestInv, RowsOK, LoopOK, WholeOK, Open, TypeOK
  <2> QED
    BY <2>1, <2>2 DEF IngestInv, DisjointOK, TableOK, AckOK
<1>5. CASE UNCHANGED vars \/ Done
  BY <1>5 DEF vars, Done, IngestInv, RowsOK, DisjointOK, TableOK, LoopOK, WholeOK, AckOK, Open
<1> QED
  BY <1>1, <1>2, <1>3, <1>4, <1>5, InsertStep, CommitStep, UndoStep DEF Next, Work

LEMMA IngestHolds == Safe => []IngestInv
  BY IngestInit, IngestStep, PTL DEF Safe

-----------------------------------------------------------------------------
(* store_events counts every row once: however requests overlap, abort and *)
(* are repeated, the "accepted" of the committed calls is the table's size.*)
THEOREM CountedOnceHolds == Safe => []CountedOnce
<1>1. IngestInv => CountedOnce
  BY DEF IngestInv, TableOK, CountedOnce
<1> QED
  BY <1>1, IngestHolds, PTL

(* Of all a request does, two things are seen from outside: its commit, and *)
(* its 202. *)
LEMMA RequestSteps ==
  ASSUME IngestInv, [Next]_vars
  PROVE  \/ table' = table /\ acked' = acked
         \/ \E s \in Sender : ~acked[s] /\ table' = table \cup EventsOf(s) /\ acked' = acked
         \/ \E s \in Sender : /\ EventsOf(s) \subseteq table /\ table' = table
                              /\ acked' = [acked EXCEPT ![s] = TRUE]
<1>1. ASSUME NEW t \in Thread, Commit(t), table' # table
      PROVE  \E s \in Sender : ~acked[s] /\ table' = table \cup EventsOf(s) /\ acked' = acked
  <2>1. /\ pc[t] = "commit" /\ table' = table \cup rows[t] /\ acked' = acked
        /\ sender[t] \in Sender
    BY <1>1 DEF Commit, IngestInv, TypeOK
  <2>2. /\ rows[t] \subseteq EventsOf(sender[t]) /\ rows[t] \cap table = {}
        /\ EventsOf(sender[t]) \subseteq table \cup rows[t]
    BY <2>1 DEF IngestInv, RowsOK, WholeOK
  <2>3. table' = table \cup EventsOf(sender[t])
    BY <2>1, <2>2
  <2>4. ~acked[sender[t]]
    BY <1>1, <2>1, <2>3 DEF IngestInv, AckOK
  <2> QED
    BY <2>1, <2>3, <2>4
<1>2. ASSUME NEW t \in Thread, Commit(t) PROVE acked' = acked
  BY <1>2 DEF Commit
<1>3. ASSUME NEW t \in Thread, Reply(t)
      PROVE  \E s \in Sender : /\ EventsOf(s) \subseteq table /\ table' = table
                               /\ acked' = [acked EXCEPT ![s] = TRUE]
  <2>1. /\ pc[t] = "reply" /\ table' = table /\ acked' = [acked EXCEPT ![sender[t]] = TRUE]
        /\ sender[t] \in Sender
    BY <1>3 DEF Reply, IngestInv, TypeOK
  <2> QED
    BY <2>1 DEF IngestInv, WholeOK
<1> QED
  BY <1>1, <1>2, <1>3 DEF Next, Work, Post, Insert, Count, Touch, Raise, Fail, Handler, Answer,
     DeadlockAbort, Done, vars

(* The transactions of store_events implement the durable inbox: a batch   *)
(* is stored whole, and a 202 means that it is stored.                     *)
THEOREM InboxImplemented == Safe => ImplementsInbox
<1>1. Init => Inbox!Init
  BY DEF Init, Inbox!Init
<1>2. IngestInv /\ [Next]_vars => [Inbox!Next]_Inbox!vars
  <2> SUFFICES ASSUME IngestInv, [Next]_vars, ~UNCHANGED <<table, acked>>
               PROVE  Inbox!Next
    BY DEF Inbox!vars
  <2>1. ASSUME NEW s \in Sender, ~acked[s], table' = table \cup EventsOf(s), acked' = acked
        PROVE  Inbox!Next
    <3>1. Inbox!Store(s)
      BY <2>1 DEF Inbox!Store, EventsOf
    <3> QED
      BY <3>1 DEF Inbox!Next
  <2>2. ASSUME NEW s \in Sender, EventsOf(s) \subseteq table, table' = table,
               acked' = [acked EXCEPT ![s] = TRUE]
        PROVE  Inbox!Next
    <3>1. Inbox!Ack(s)
      BY <2>2 DEF Inbox!Ack, EventsOf
    <3> QED
      BY <3>1 DEF Inbox!Next
  <2> QED
    BY <2>1, <2>2, RequestSteps
<1> QED
  BY <1>1, <1>2, IngestHolds, PTL DEF Safe, ImplementsInbox, Inbox!Safe
=============================================================================
