------------------------------- MODULE ServerProofs -------------------------------
(***************************************************************************)
(* Proofs about the parts of the server: the audit log, sources and keys,  *)
(* administrator and sessions, the scan of the logs, the status of an      *)
(* incident, channels and settings; and at the end the server made of      *)
(* them, of the pipeline (PatchPipelineProofs) and of the rate limiter     *)
(* (TokenBucketProofs).  Each part has an invariant of its own, that its   *)
(* steps keep (...InvInit, ...InvNext or ...InvStep), and what follows     *)
(* from it.                                                                *)
(***************************************************************************)
EXTENDS Server, PatchPipelineProofs, TokenBucketProofs, FiniteSetTheorems, TLAPS

-----------------------------------------------------------------------------
(***************************************************************************)
(* The audit log.                                                          *)
(***************************************************************************)

(***************************************************************************)
(* Rows and screens.  Ids are never given twice, so a row that is new is   *)
(* on no screen.                                                           *)
(***************************************************************************)
RowsBelow == nextRow \in Nat \ {0} /\ \A id \in DOMAIN rows : id \in 1..(nextRow - 1)

LEMMA RowsBelowInit == AuditInit => RowsBelow
BY DEF AuditInit, RowsBelow

LEMMA RowsBelowNext == RowsBelow /\ [AuditNext]_auditVars => RowsBelow'
<1> SUFFICES ASSUME RowsBelow, [AuditNext]_auditVars PROVE RowsBelow'
  OBVIOUS
<1>1. CASE UNCHANGED <<rows, nextRow>>
  BY <1>1 DEF RowsBelow
<1>2. ASSUME NEW w \in Writers, StoreEntry(w) PROVE RowsBelow'
  <2>1. \/ DOMAIN rows' = DOMAIN rows \cup {nextRow} /\ nextRow' = nextRow + 1
        \/ UNCHANGED <<rows, nextRow>>
    BY <1>2 DEF StoreEntry
  <2> QED
    BY <1>1, <2>1 DEF RowsBelow
<1>3. ASSUME NEW w \in Writers, NEW o \in Outcomes, AppendEntry(w, o) PROVE RowsBelow'
  BY <1>1, <1>3 DEF AppendEntry
<1>4. ASSUME NEW w \in Writers, WriterDies(w) PROVE RowsBelow'
  BY <1>1, <1>4 DEF WriterDies
<1>5. ASSUME NEW a \in Admins, NEW archived \in BOOLEAN, LoadFeed(a, archived) PROVE RowsBelow'
  BY <1>1, <1>5 DEF LoadFeed
<1>6. ASSUME NEW a \in Admins, NEW ids \in Selections(a),
             ArchiveRows(a, ids) \/ RestoreRows(ids) \/ DeleteRows(ids)
      PROVE  RowsBelow'
  <2>1. DOMAIN rows' \subseteq DOMAIN rows /\ nextRow' = nextRow
    BY <1>6 DEF ArchiveRows, RestoreRows, DeleteRows
  <2> QED
    BY <2>1 DEF RowsBelow
<1>7. CASE UNCHANGED auditVars
  BY <1>1, <1>7 DEF auditVars
<1> QED
  BY <1>2, <1>3, <1>4, <1>5, <1>6, <1>7 DEF AuditNext

LEMMA SelectedIsSeen ==
  ASSUME NEW a \in Admins, NEW ids \in Selections(a), NEW id \in ids
  PROVE  \E b \in Admins : \E i \in DOMAIN screens[b] : id \in screens[b][i].rowIds
BY DEF Selections

LEMMA HiddenStep ==
  ASSUME RowsBelow, [AuditNext]_auditVars, NEW id \in DOMAIN rows
  PROVE  /\ ~rows[id].archived => id \in DOMAIN rows'
         /\ (id \in DOMAIN rows' => rows'[id].archived # rows[id].archived)
            => \E a \in Admins : \E i \in DOMAIN screens[a] : id \in screens[a][i].rowIds
<1> DEFINE Seen == \E a \in Admins : \E i \in DOMAIN screens[a] : id \in screens[a][i].rowIds
           Goal == /\ ~rows[id].archived => id \in DOMAIN rows'
                   /\ (id \in DOMAIN rows' => rows'[id].archived # rows[id].archived) => Seen
<1>1. ASSUME id \in DOMAIN rows', rows'[id] = rows[id] PROVE Goal
  BY <1>1
<1>2. CASE UNCHANGED rows
  BY <1>1, <1>2
<1>3. ASSUME NEW w \in Writers, StoreEntry(w) PROVE Goal
  <2>1. id # nextRow
    BY DEF RowsBelow
  <2>2. id \in DOMAIN rows' /\ rows'[id] = rows[id]
    BY <1>3, <2>1 DEF StoreEntry
  <2> QED
    BY <1>1, <2>2
<1>4. ASSUME NEW w \in Writers, NEW o \in Outcomes, AppendEntry(w, o) PROVE Goal
  BY <1>2, <1>4 DEF AppendEntry
<1>5. ASSUME NEW w \in Writers, WriterDies(w) PROVE Goal
  BY <1>2, <1>5 DEF WriterDies
<1>6. ASSUME NEW a \in Admins, NEW archived \in BOOLEAN, LoadFeed(a, archived) PROVE Goal
  BY <1>2, <1>6 DEF LoadFeed
<1>7. ASSUME NEW a \in Admins, NEW ids \in Selections(a), ArchiveRows(a, ids) \/ RestoreRows(ids)
      PROVE  Goal
  <2>1. id \in DOMAIN rows' /\ (id \notin ids => rows'[id] = rows[id])
    BY <1>7 DEF ArchiveRows, RestoreRows
  <2>2. id \in ids => Seen
    BY SelectedIsSeen
  <2> QED
    BY <1>1, <2>1, <2>2
<1>8. ASSUME NEW a \in Admins, NEW ids \in Selections(a), DeleteRows(ids) PROVE Goal
  <2>1. id \notin ids \cap Marked(TRUE) => id \in DOMAIN rows' /\ rows'[id] = rows[id]
    BY <1>8 DEF DeleteRows
  <2>2. id \in Marked(TRUE) => rows[id].archived
    BY DEF Marked
  <2>3. id \in ids => Seen
    BY SelectedIsSeen
  <2> QED
    BY <1>1, <2>1, <2>2, <2>3
<1>9. CASE UNCHANGED auditVars
  BY <1>2, <1>9 DEF auditVars
<1> QED
  BY <1>3, <1>4, <1>5, <1>6, <1>7, <1>8, <1>9 DEF AuditNext

(* An entry leaves the feed, or the archive, only by the hand of somebody   *)
(* who had that row on the screen, and the table only from the archive,     *)
(* however old the screens are (archive, restore, delete_archived). *)
THEOREM HiddenBySightHolds == AuditSpec => HiddenBySight
<1>1. RowsBelow /\ [AuditNext]_auditVars =>
        [\A id \in DOMAIN rows :
          /\ ~rows[id].archived => id \in DOMAIN rows'
          /\ (id \in DOMAIN rows' => rows'[id].archived # rows[id].archived)
             => \E a \in Admins : \E i \in DOMAIN screens[a] : id \in screens[a][i].rowIds]_auditVars
  BY HiddenStep
<1> QED
  BY <1>1, RowsBelowInit, RowsBelowNext, PTL DEF AuditSpec, HiddenBySight

-----------------------------------------------------------------------------
(***************************************************************************)
(* The file and the table.                                                 *)
(***************************************************************************)
Entry == {[o EXCEPT !.timestamp = t] : o \in Outcomes, t \in Nat}
AuditRow == [entry : Entry, archived : BOOLEAN, by : Admins \cup {"nobody"}]

TrailType ==
    /\ recorded \in Nat /\ log \in Seq(Entry)
    /\ writing \in [Writers -> SUBSET Entry]
    /\ \A id \in DOMAIN rows : rows[id] \in AuditRow

(* Whatever there is of an entry is older than the next one. *)
Past ==
    /\ \A i \in DOMAIN log : log[i].timestamp \in 1..recorded
    /\ \A w \in Writers : \A e \in writing[w] : e.timestamp \in 1..recorded
    /\ \A id \in DOMAIN rows : rows[id].entry.timestamp \in 1..recorded

(* What a writer holds has been offered to the file, is in nobody else's    *)
(* hands, and is in no row. *)
InHand ==
    /\ \A w \in Writers : \A e \in writing[w] :
          /\ e \in ToSet(log) \cup unlogged
          /\ \A f \in writing[w] : f = e
          /\ \A id \in DOMAIN rows : rows[id].entry.timestamp # e.timestamp
    /\ \A w, x \in Writers : \A e \in writing[w], f \in writing[x] :
          e.timestamp = f.timestamp => w = x

TrailInv == RowsBelow /\ TrailType /\ Past /\ InHand /\ TableIsInFile

LEMMA Stamped ==
  ASSUME NEW o \in Outcomes, NEW t \in Nat
  PROVE  [o EXCEPT !.timestamp = t] \in Entry /\ [o EXCEPT !.timestamp = t].timestamp = t
<1>1. "timestamp" \in DOMAIN o
  BY AuditAssumption
<1> QED
  BY <1>1 DEF Entry

LEMMA ToSetAppend ==
  ASSUME NEW S, NEW seq \in Seq(S), NEW e \in S
  PROVE  ToSet(Append(seq, e)) = ToSet(seq) \cup {e}
<1>1. /\ DOMAIN Append(seq, e) = 1..(Len(seq) + 1) /\ Append(seq, e)[Len(seq) + 1] = e
      /\ \A i \in 1..Len(seq) : Append(seq, e)[i] = seq[i]
      /\ DOMAIN seq = 1..Len(seq) /\ Len(seq) \in Nat
  OBVIOUS
<1>2. ASSUME NEW x \in ToSet(Append(seq, e)) PROVE x \in ToSet(seq) \cup {e}
  BY <1>1, <1>2 DEF ToSet
<1>3. ASSUME NEW x \in ToSet(seq) PROVE x \in ToSet(Append(seq, e))
  BY <1>1, <1>3 DEF ToSet
<1>4. e \in ToSet(Append(seq, e))
  BY <1>1 DEF ToSet
<1> QED
  BY <1>2, <1>3, <1>4

LEMMA TrailInvInit == AuditInit => TrailInv
<1> SUFFICES ASSUME AuditInit PROVE TrailInv
  OBVIOUS
<1>1. DOMAIN rows = {} /\ log = << >> /\ recorded = 0 /\ DOMAIN log = {}
  BY DEF AuditInit
<1>2. writing \in [Writers -> SUBSET Entry] /\ \A w \in Writers : writing[w] = {}
  BY DEF AuditInit
<1>3. log \in Seq(Entry)
  BY <1>1
<1> QED
  BY <1>1, <1>2, <1>3, RowsBelowInit DEF TrailInv, TrailType, Past, InHand, TableIsInFile

LEMMA TrailAppend ==
  ASSUME TrailInv, RowsBelow', NEW w \in Writers, NEW o \in Outcomes, AppendEntry(w, o)
  PROVE  TrailInv'
<1> DEFINE entry == [o EXCEPT !.timestamp = recorded + 1]
<1>1. recorded \in Nat /\ recorded' = recorded + 1 /\ UNCHANGED rows /\ writing[w] = {}
  BY DEF AppendEntry, TrailInv, TrailType
<1>2. entry \in Entry /\ entry.timestamp = recorded + 1
  BY <1>1, Stamped
<1>3. writing' = [writing EXCEPT ![w] = {entry}]
      /\ \/ log' = Append(log, entry) /\ UNCHANGED unlogged
         \/ unlogged' = unlogged \cup {entry} /\ UNCHANGED log
  BY DEF AppendEntry
<1> HIDE DEF entry
<1>4. log \in Seq(Entry) /\ writing \in [Writers -> SUBSET Entry]
  BY DEF TrailInv, TrailType
<1>5. log' \in Seq(Entry) /\ ToSet(log') \cup unlogged' = ToSet(log) \cup unlogged \cup {entry}
  <2>1. CASE log' = Append(log, entry) /\ UNCHANGED unlogged
    BY <1>2, <1>4, <2>1, ToSetAppend
  <2>2. CASE unlogged' = unlogged \cup {entry} /\ UNCHANGED log
    BY <1>4, <2>2 DEF ToSet
  <2> QED
    BY <1>3, <2>1, <2>2
<1>6. \A i \in DOMAIN log' :
          (i \in DOMAIN log /\ log'[i] = log[i]) \/ (i = Len(log) + 1 /\ log'[i] = entry)
  BY <1>2, <1>3, <1>4
<1>7. writing' \in [Writers -> SUBSET Entry] /\ writing'[w] = {entry}
      /\ \A x \in Writers : x # w => writing'[x] = writing[x]
  BY <1>2, <1>3, <1>4
<1>8. TrailType'
  BY <1>1, <1>5, <1>7 DEF TrailInv, TrailType, AuditRow
<1>9. Past'
  <2>1. \A i \in DOMAIN log' : log'[i].timestamp \in 1..recorded'
    BY <1>1, <1>2, <1>6 DEF TrailInv, Past
  <2>2. \A x \in Writers : \A e \in writing'[x] : e.timestamp \in 1..recorded'
    BY <1>1, <1>2, <1>7 DEF TrailInv, Past
  <2>3. \A id \in DOMAIN rows' : rows'[id].entry.timestamp \in 1..recorded'
    BY <1>1 DEF TrailInv, Past
  <2> QED
    BY <2>1, <2>2, <2>3 DEF Past
<1>10. InHand'
  <2>1. \A x \in Writers : \A e \in writing'[x] :
          /\ e \in ToSet(log') \cup unlogged'
          /\ \A f \in writing'[x] : f = e
    BY <1>5, <1>7 DEF TrailInv, InHand
  <2>2. \A x \in Writers : \A e \in writing'[x] : \A id \in DOMAIN rows' :
          rows'[id].entry.timestamp # e.timestamp
    BY <1>1, <1>2, <1>7 DEF TrailInv, InHand, Past
  <2>3. \A x, y \in Writers : \A e \in writing'[x], f \in writing'[y] :
          e.timestamp = f.timestamp => x = y
    <3> SUFFICES ASSUME NEW x \in Writers, NEW y \in Writers, NEW e \in writing'[x], NEW f \in writing'[y],
                        e.timestamp = f.timestamp, x # y
                 PROVE  FALSE
      OBVIOUS
    <3>1. CASE x # w /\ y # w
      BY <1>7, <3>1 DEF TrailInv, InHand
    <3>2. CASE x = w
      <4>1. e = entry /\ f \in writing[y]
        BY <1>7, <3>2
      <4> QED
        BY <1>1, <1>2, <4>1 DEF TrailInv, Past
    <3>3. CASE y = w
      <4>1. f = entry /\ e \in writing[x]
        BY <1>7, <3>3
      <4> QED
        BY <1>1, <1>2, <4>1 DEF TrailInv, Past
    <3> QED
      BY <3>1, <3>2, <3>3
  <2> QED
    BY <2>1, <2>2, <2>3 DEF InHand
<1>11. TableIsInFile'
  <2>1. \A id \in DOMAIN rows' : rows'[id].entry \in ToSet(log') \cup unlogged'
    BY <1>1, <1>5 DEF TrailInv, TableIsInFile
  <2>2. \A i, j \in DOMAIN log' : log'[i].timestamp = log'[j].timestamp => i = j
    <3> SUFFICES ASSUME NEW i \in DOMAIN log', NEW j \in DOMAIN log', log'[i].timestamp = log'[j].timestamp
                 PROVE  i = j
      OBVIOUS
    <3>1. CASE i \in DOMAIN log /\ log'[i] = log[i] /\ j \in DOMAIN log /\ log'[j] = log[j]
      BY <3>1 DEF TrailInv, TableIsInFile
    <3>2. CASE i \in DOMAIN log /\ log'[i] = log[i] /\ log'[j] = entry
      BY <1>1, <1>2, <3>2 DEF TrailInv, Past
    <3>3. CASE j \in DOMAIN log /\ log'[j] = log[j] /\ log'[i] = entry
      BY <1>1, <1>2, <3>3 DEF TrailInv, Past
    <3>4. CASE i = Len(log) + 1 /\ j = Len(log) + 1
      BY <3>4
    <3> QED
      BY <1>6, <3>1, <3>2, <3>3, <3>4
  <2>3. \A id, jd \in DOMAIN rows' : rows'[id].entry.timestamp = rows'[jd].entry.timestamp => id = jd
    BY <1>1 DEF TrailInv, TableIsInFile
  <2> QED
    BY <2>1, <2>2, <2>3 DEF TableIsInFile
<1> QED
  BY <1>8, <1>9, <1>10, <1>11 DEF TrailInv

(* The writer's entry gets a row, or is let go. *)
LEMMA TrailStore ==
  ASSUME TrailInv, RowsBelow', NEW w \in Writers,
         writing' = [writing EXCEPT ![w] = {}], UNCHANGED <<log, recorded, unlogged>>,
         \/ UNCHANGED rows
         \/ \E entry \in writing[w] :
               rows' = [id \in DOMAIN rows \cup {nextRow} |->
                          IF id = nextRow THEN [entry |-> entry, archived |-> FALSE, by |-> "nobody"]
                          ELSE rows[id]]
  PROVE  TrailInv'
<1>1. writing \in [Writers -> SUBSET Entry] /\ recorded \in Nat /\ log \in Seq(Entry)
      /\ nextRow \notin DOMAIN rows
  BY DEF TrailInv, TrailType, RowsBelow
<1>2. /\ writing' \in [Writers -> SUBSET Entry] /\ writing'[w] = {}
      /\ \A x \in Writers : writing'[x] \subseteq writing[x] /\ (x # w => writing'[x] = writing[x])
      /\ ToSet(log') = ToSet(log)
  BY <1>1 DEF ToSet
<1>3. CASE UNCHANGED rows
  <2>1. TrailType'
    BY <1>1, <1>2, <1>3 DEF TrailInv, TrailType, AuditRow
  <2>2. Past' /\ InHand'
    BY <1>2, <1>3 DEF TrailInv, Past, InHand
  <2>3. TableIsInFile'
    BY <1>2, <1>3 DEF TrailInv, TableIsInFile
  <2> QED
    BY <2>1, <2>2, <2>3 DEF TrailInv
<1>4. ASSUME NEW entry \in writing[w],
             rows' = [id \in DOMAIN rows \cup {nextRow} |->
                          IF id = nextRow THEN [entry |-> entry, archived |-> FALSE, by |-> "nobody"]
                          ELSE rows[id]]
      PROVE  TrailInv'
  <2>1. /\ DOMAIN rows' = DOMAIN rows \cup {nextRow} /\ \A id \in DOMAIN rows : rows'[id] = rows[id]
        /\ rows'[nextRow] = [entry |-> entry, archived |-> FALSE, by |-> "nobody"]
    BY <1>1, <1>4
  <2>2. entry \in Entry
    BY <1>1
  <2>3. rows'[nextRow] \in AuditRow /\ rows'[nextRow].entry = entry
    BY <2>1, <2>2 DEF AuditRow
  <2>4. /\ entry.timestamp \in 1..recorded /\ entry \in ToSet(log) \cup unlogged
        /\ \A id \in DOMAIN rows : rows[id].entry.timestamp # entry.timestamp
        /\ \A x \in Writers : \A e \in writing[x] : e.timestamp = entry.timestamp => x = w
    BY DEF TrailInv, Past, InHand
  <2>5. TrailType'
    <3>1. \A id \in DOMAIN rows' : rows'[id] \in AuditRow
      BY <2>1, <2>3 DEF TrailInv, TrailType
    <3> QED
      BY <1>1, <1>2, <3>1 DEF TrailType, AuditRow
  <2>6. Past'
    <3>1. \A id \in DOMAIN rows' : rows'[id].entry.timestamp \in 1..recorded
      BY <2>1, <2>3, <2>4 DEF TrailInv, Past
    <3> QED
      BY <1>2, <3>1 DEF TrailInv, Past
  <2>7. InHand'
    <3>1. \A x \in Writers : \A e \in writing'[x] : \A id \in DOMAIN rows' :
            rows'[id].entry.timestamp # e.timestamp
      <4> TAKE x \in Writers
      <4> TAKE e \in writing'[x]
      <4> TAKE id \in DOMAIN rows'
      <4>1. x # w /\ e \in writing[x]
        BY <1>2
      <4>2. CASE id = nextRow
        BY <2>3, <2>4, <4>1, <4>2
      <4>3. CASE id \in DOMAIN rows
        BY <2>1, <4>1, <4>3 DEF TrailInv, InHand
      <4> QED
        BY <2>1, <4>2, <4>3
    <3> QED
      BY <1>2, <3>1 DEF TrailInv, InHand
  <2>8. TableIsInFile'
    <3>1. \A id \in DOMAIN rows' : rows'[id].entry \in ToSet(log') \cup unlogged'
      BY <1>2, <2>1, <2>3, <2>4 DEF TrailInv, TableIsInFile
    <3>2. \A id, jd \in DOMAIN rows' : rows'[id].entry.timestamp = rows'[jd].entry.timestamp => id = jd
      BY <2>1, <2>3, <2>4 DEF TrailInv, TableIsInFile
    <3> QED
      BY <3>1, <3>2 DEF TrailInv, TableIsInFile
  <2> QED
    BY <2>5, <2>6, <2>7, <2>8 DEF TrailInv
<1> QED
  BY <1>3, <1>4

(* Rows that go, or that are marked, keep their entries. *)
LEMMA TrailMark ==
  ASSUME TrailInv, RowsBelow', UNCHANGED <<log, recorded, writing, unlogged>>,
         DOMAIN rows' \subseteq DOMAIN rows,
         \A id \in DOMAIN rows' : rows'[id] \in AuditRow /\ rows'[id].entry = rows[id].entry
  PROVE  TrailInv'
<1>1. TrailType'
  BY DEF TrailInv, TrailType, AuditRow
<1>2. Past' /\ InHand'
  BY DEF TrailInv, Past, InHand
<1>3. TableIsInFile'
  BY DEF TrailInv, TableIsInFile
<1> QED
  BY <1>1, <1>2, <1>3 DEF TrailInv

LEMMA TrailInvNext == TrailInv /\ [AuditNext]_auditVars => TrailInv'
<1> SUFFICES ASSUME TrailInv, [AuditNext]_auditVars PROVE TrailInv'
  OBVIOUS
<1>1. RowsBelow' /\ \A id \in DOMAIN rows : rows[id] \in AuditRow
  BY RowsBelowNext DEF TrailInv, TrailType
<1>2. CASE UNCHANGED <<log, rows, recorded, writing, unlogged>>
  BY <1>1, <1>2, TrailMark
<1>3. ASSUME NEW w \in Writers, NEW o \in Outcomes, AppendEntry(w, o) PROVE TrailInv'
  BY <1>1, <1>3, TrailAppend
<1>4. ASSUME NEW w \in Writers, StoreEntry(w) PROVE TrailInv'
  BY <1>1, <1>4, TrailStore DEF StoreEntry
<1>5. ASSUME NEW w \in Writers, WriterDies(w) PROVE TrailInv'
  BY <1>1, <1>5, TrailStore DEF WriterDies
<1>6. ASSUME NEW a \in Admins, NEW archived \in BOOLEAN, LoadFeed(a, archived) PROVE TrailInv'
  BY <1>2, <1>6 DEF LoadFeed
<1>7. ASSUME NEW a \in Admins, NEW ids \in Selections(a), ArchiveRows(a, ids) PROVE TrailInv'
  <2>1. DOMAIN rows' = DOMAIN rows /\ UNCHANGED <<log, recorded, writing, unlogged>>
    BY <1>7 DEF ArchiveRows
  <2>2. ASSUME NEW id \in DOMAIN rows'
        PROVE  rows'[id] = rows[id] \/ rows'[id] = [rows[id] EXCEPT !.archived = TRUE, !.by = a]
    BY <1>7, <2>1, <2>2 DEF ArchiveRows
  <2>3. \A id \in DOMAIN rows' : rows'[id] \in AuditRow /\ rows'[id].entry = rows[id].entry
    BY <1>1, <2>1, <2>2 DEF AuditRow
  <2> QED
    BY <1>1, <2>1, <2>3, TrailMark
<1>8. ASSUME NEW a \in Admins, NEW ids \in Selections(a), RestoreRows(ids) PROVE TrailInv'
  <2>1. DOMAIN rows' = DOMAIN rows /\ UNCHANGED <<log, recorded, writing, unlogged>>
    BY <1>8 DEF RestoreRows
  <2>2. ASSUME NEW id \in DOMAIN rows'
        PROVE  rows'[id] = rows[id] \/ rows'[id] = [rows[id] EXCEPT !.archived = FALSE, !.by = "nobody"]
    BY <1>8, <2>1, <2>2 DEF RestoreRows
  <2>3. \A id \in DOMAIN rows' : rows'[id] \in AuditRow /\ rows'[id].entry = rows[id].entry
    BY <1>1, <2>1, <2>2, ZenonT(40) DEF AuditRow
  <2> QED
    BY <1>1, <2>1, <2>3, TrailMark
<1>9. ASSUME NEW a \in Admins, NEW ids \in Selections(a), DeleteRows(ids) PROVE TrailInv'
  BY <1>1, <1>9, TrailMark DEF DeleteRows
<1>10. CASE UNCHANGED auditVars
  BY <1>2, <1>10 DEF auditVars
<1> QED
  BY <1>3, <1>4, <1>5, <1>6, <1>7, <1>8, <1>9, <1>10 DEF AuditNext

-----------------------------------------------------------------------------
(* The feed, event by event. *)
Item == [entry : Entry, row : Nat]
Event == [key : {EventKey(e) : e \in Entry}, title : {Classify(e) : e \in Entry},
          newest : Nat, count : Nat, rowIds : SUBSET Nat]
KeyOf(item) == EventKey(item.entry)

LEMMA EntryStamped == ASSUME NEW e \in Entry PROVE e.timestamp \in Nat
<1>1. PICK o \in Outcomes, t \in Nat : e = [o EXCEPT !.timestamp = t]
  BY DEF Entry
<1>2. "timestamp" \in DOMAIN o
  BY AuditAssumption
<1> QED
  BY <1>1, <1>2

(* An item goes to the event that it repeats, or is a new event. *)
LEMMA ItemCounted ==
  ASSUME NEW feed \in Seq(Event), NEW item \in Item,
         NEW k \in 1..Len(feed), feed[k].key = KeyOf(item)
  PROVE  /\ AddItem(feed, item) \in Seq(Event) /\ Len(AddItem(feed, item)) = Len(feed)
         /\ \A i \in 1..Len(feed) :
               IF feed[i].key # KeyOf(item) THEN AddItem(feed, item)[i] = feed[i]
               ELSE AddItem(feed, item)[i] =
                       [feed[i] EXCEPT !.count = feed[i].count + 1, !.rowIds = feed[i].rowIds \cup RowIds(item)]
<1> DEFINE more(i) == IF feed[i].key # KeyOf(item) THEN feed[i]
                      ELSE [feed[i] EXCEPT !.count = feed[i].count + 1, !.rowIds = feed[i].rowIds \cup RowIds(item)]
<1>1. DOMAIN feed = 1..Len(feed) /\ Len(feed) \in Nat
  OBVIOUS
<1>2. AddItem(feed, item) = [i \in 1..Len(feed) |-> more(i)]
  BY <1>1 DEF AddItem, KeyOf
<1>3. RowIds(item) \subseteq Nat
  BY DEF RowIds, Item
<1>4. \A i \in 1..Len(feed) : more(i) \in Event
  <2> SUFFICES ASSUME NEW i \in 1..Len(feed) PROVE more(i) \in Event
    OBVIOUS
  <2>1. feed[i] \in Event
    BY <1>1
  <2>2. feed[i].count + 1 \in Nat /\ feed[i].rowIds \cup RowIds(item) \in SUBSET Nat
    BY <1>3, <2>1, SMTT(30) DEF Event
  <2>3. \A c \in Nat, ids \in SUBSET Nat : [feed[i] EXCEPT !.count = c, !.rowIds = ids] \in Event
    BY <2>1 DEF Event
  <2> QED
    BY <2>1, <2>2, <2>3
<1> HIDE DEF more
<1>5. AddItem(feed, item) \in Seq(Event) /\ Len(AddItem(feed, item)) = Len(feed)
  BY <1>1, <1>2, <1>4
<1>6. \A i \in 1..Len(feed) : AddItem(feed, item)[i] = more(i)
  BY <1>2
<1> QED
  BY <1>5, <1>6 DEF more

LEMMA ItemAppended ==
  ASSUME NEW feed \in Seq(Event), NEW item \in Item,
         \A k \in 1..Len(feed) : feed[k].key # KeyOf(item)
  PROVE  /\ AddItem(feed, item) \in Seq(Event) /\ Len(AddItem(feed, item)) = Len(feed) + 1
         /\ \A i \in 1..Len(feed) : AddItem(feed, item)[i] = feed[i]
         /\ LET event == AddItem(feed, item)[Len(feed) + 1]
            IN /\ event.key = KeyOf(item) /\ event.newest = item.entry.timestamp
               /\ event.count = 1 /\ event.rowIds = RowIds(item)
<1> DEFINE event == [key |-> EventKey(item.entry), title |-> Classify(item.entry),
                     newest |-> item.entry.timestamp, count |-> 1, rowIds |-> RowIds(item)]
<1>1. DOMAIN feed = 1..Len(feed) /\ Len(feed) \in Nat
  OBVIOUS
<1>2. AddItem(feed, item) = Append(feed, event)
  BY <1>1 DEF AddItem, KeyOf
<1>3. item.entry \in Entry /\ RowIds(item) \subseteq Nat
  BY DEF RowIds, Item
<1>4. event \in Event
  BY <1>3, EntryStamped DEF Event
<1>5. event.key = KeyOf(item) /\ event.newest = item.entry.timestamp /\ event.count = 1 /\ event.rowIds = RowIds(item)
  BY DEF KeyOf
<1> HIDE DEF event
<1> QED
  BY <1>1, <1>2, <1>4, <1>5

LEMMA ItemAdded == ASSUME NEW feed \in Seq(Event), NEW item \in Item PROVE AddItem(feed, item) \in Seq(Event)
BY ItemCounted, ItemAppended

(* The feed is made item by item (build_feed). *)
LEMMA FeedFold ==
  ASSUME NEW items \in Seq(Item)
  PROVE  \E f \in [0..Len(items) -> Seq(Event)] :
            /\ f[0] = << >> /\ \A i \in 1..Len(items) : f[i] = AddItem(f[i - 1], items[i])
            /\ FoldLeft(AddItem, << >>, items) = f[Len(items)]
<1> DEFINE n == Len(items)
           X == Seq(Event)
           none == << >>
           Fold(iter) == [s \in SUBSET (1..n) |->
                            IF s = {} THEN none ELSE AddItem(iter[s \ {Max(s)}], items[Max(s)])]
           step == [i \in 1..n |-> [feed \in X |-> AddItem(feed, items[i])]]
<1>1. n \in Nat /\ none \in X /\ DOMAIN items = 1..n
  OBVIOUS
<1>2. \A i \in 1..n : items[i] \in Item
  BY <1>1
<1>3. step \in [1..n -> [X -> X]]
  BY <1>2, ItemAdded
<1> DEFINE iter == CHOOSE iter : iter = Fold(iter)
<1>4. FoldLeft(AddItem, << >>, items) = iter[1..n]
  BY <1>1 DEF FoldLeft, MapThenFoldSet
<1>5. \A s \in SUBSET (1..n) : s # {} => Max(s) \in 1..n /\ s \ {Max(s)} \in SUBSET (1..n)
  <2> HIDE DEF n
  <2> SUFFICES ASSUME NEW s \in SUBSET (1..n), s # {} PROVE Max(s) \in 1..n
    OBVIOUS
  <2>1. s \subseteq 0..n
    BY <1>1
  <2> QED
    BY <1>1, <2>1, Greatest
<1>6. \E f : f = Fold(f)
  <2>1. PICK f \in [SUBSET (1..n) -> X] : Folds(n, X, none, step, f)
    <3> HIDE DEF n, X, step, none
    <3> QED
      BY <1>1, <1>3, FoldExists
  <2>2. ASSUME NEW s \in SUBSET (1..n)
        PROVE  f[s] = IF s = {} THEN none ELSE AddItem(f[s \ {Max(s)}], items[Max(s)])
    <3>1. s # {} => Max(s) \in 1..n /\ f[s \ {Max(s)}] \in X
      BY <1>5, <2>1
    <3>2. s # {} => step[Max(s)][f[s \ {Max(s)}]] = AddItem(f[s \ {Max(s)}], items[Max(s)])
      BY <3>1
    <3> QED
      BY <2>1, <3>1, <3>2 DEF Folds
  <2> HIDE DEF step, n
  <2>3. f = Fold(f)
    BY <2>1, <2>2
  <2> QED
    BY <2>3
<1>7. iter = Fold(iter)
  <2> HIDE DEF Fold
  <2> QED
    BY <1>6
<1> HIDE DEF iter
<1>8. Folds(n, X, none, step, iter)
  <2> SUFFICES ASSUME NEW s \in SUBSET (1..n)
               PROVE  /\ s = {} => iter[s] = none
                      /\ s # {} /\ iter[s \ {Max(s)}] \in X => iter[s] = step[Max(s)][iter[s \ {Max(s)}]]
    BY DEF Folds
  <2>1. iter[s] = IF s = {} THEN none ELSE AddItem(iter[s \ {Max(s)}], items[Max(s)])
    BY <1>7
  <2> QED
    BY <1>5, <2>1
<1>9. PICK g : Runs(n, X, none, step, g) /\ g[n] = iter[1..n]
  <2> HIDE DEF n, X, step, none
  <2> QED
    BY <1>1, <1>3, <1>8, FoldRuns, SMTT(30)
<1>11. g \in [0..n -> X] /\ g[0] = none /\ \A i \in 1..n : g[i] = step[i][g[i - 1]]
  BY <1>9 DEF Runs
<1>10. \A i \in 1..n : g[i] = AddItem(g[i - 1], items[i])
  <2> SUFFICES ASSUME NEW i \in 1..n PROVE g[i] = AddItem(g[i - 1], items[i])
    OBVIOUS
  <2> HIDE DEF n
  <2>1. i - 1 \in 0..n /\ g[i - 1] \in X
    BY <1>1, <1>11
  <2>2. step[i][g[i - 1]] = AddItem(g[i - 1], items[i])
    BY <2>1
  <2> QED
    BY <1>11, <2>2
<1> QED
  BY <1>4, <1>9, <1>10, <1>11

(* The first m items, in their feed: each is in one event, events come in   *)
(* the order of their first items, count their rows and show their first. *)
Fed(feed, items, m) ==
    /\ \A i, j \in 1..Len(feed) : feed[i].key = feed[j].key => i = j
    /\ \A k \in 1..m : \E i \in 1..Len(feed) : feed[i].key = KeyOf(items[k])
    /\ \A i \in 1..Len(feed) :
          /\ feed[i].rowIds = {items[k].row : k \in {l \in 1..m : KeyOf(items[l]) = feed[i].key}}
          /\ IsFiniteSet(feed[i].rowIds) /\ feed[i].count = Cardinality(feed[i].rowIds)
          /\ \E k \in 1..m :
                /\ KeyOf(items[k]) = feed[i].key /\ feed[i].newest = items[k].entry.timestamp
                /\ \A l \in 1..m : KeyOf(items[l]) = feed[i].key => k <= l
                /\ \A j \in (i + 1)..Len(feed) : \A l \in 1..m :
                      KeyOf(items[l]) = feed[j].key => k < l

Descending(items) ==
    /\ \A i \in 1..Len(items) : items[i].row > 0
    /\ \A i, j \in 1..Len(items) : i < j => items[j].row < items[i].row

LEMMA FedNext ==
  ASSUME NEW items \in Seq(Item), Descending(items), NEW m \in 0..(Len(items) - 1),
         NEW feed \in Seq(Event), Fed(feed, items, m)
  PROVE  Fed(AddItem(feed, items[m + 1]), items, m + 1)
<1> DEFINE item == items[m + 1]
           new == AddItem(feed, item)
           n == Len(feed)
           rowsOf(key, last) == {items[k].row : k \in {l \in 1..last : KeyOf(items[l]) = key}}
<1>1. m + 1 \in 1..Len(items) /\ m \in Nat /\ n \in Nat /\ Len(items) \in Nat /\ item \in Item
      /\ 1..(m + 1) = 1..m \cup {m + 1} /\ m + 1 \notin 1..m
  OBVIOUS
<1>2. \A k \in 1..(m + 1) : items[k] \in Item /\ items[k].row \in Nat /\ k \in 1..Len(items)
  <2>1. \A k \in 1..Len(items) : items[k] \in Item
    OBVIOUS
  <2>2. \A it \in Item : it.row \in Nat
    BY DEF Item
  <2>3. \A k \in 1..(m + 1) : k \in 1..Len(items)
    BY <1>1
  <2> QED
    BY <2>1, <2>2, <2>3
<1>3. RowIds(item) = {item.row} /\ item.row \in Nat
  BY <1>1, <1>2 DEF RowIds, Descending
<1>4. \A k \in 1..m : items[k].row # item.row
  BY <1>1, <1>2 DEF Descending
<1>5. \A key : rowsOf(key, m + 1) = IF KeyOf(item) = key THEN rowsOf(key, m) \cup {item.row} ELSE rowsOf(key, m)
  <2> SUFFICES ASSUME NEW key
               PROVE  rowsOf(key, m + 1) = IF KeyOf(item) = key THEN rowsOf(key, m) \cup {item.row} ELSE rowsOf(key, m)
    OBVIOUS
  <2>1. {l \in 1..(m + 1) : KeyOf(items[l]) = key} =
           {l \in 1..m : KeyOf(items[l]) = key} \cup (IF KeyOf(item) = key THEN {m + 1} ELSE {})
    BY <1>1
  <2> QED
    BY <2>1
<1>6. \A key : item.row \notin rowsOf(key, m)
  BY <1>4
<1>7. \A i \in 1..n : feed[i].rowIds = rowsOf(feed[i].key, m) /\ IsFiniteSet(feed[i].rowIds)
                      /\ feed[i].count = Cardinality(feed[i].rowIds) /\ feed[i] \in Event
  BY <1>1 DEF Fed
<1> HIDE DEF rowsOf
<1>8. CASE \E k \in 1..n : feed[k].key = KeyOf(item)
  <2>1. PICK same \in 1..n : feed[same].key = KeyOf(item)
    BY <1>8
  <2>2. /\ new \in Seq(Event) /\ Len(new) = n
        /\ \A i \in 1..n : IF feed[i].key # KeyOf(item) THEN new[i] = feed[i]
               ELSE new[i] = [feed[i] EXCEPT !.count = feed[i].count + 1, !.rowIds = feed[i].rowIds \cup RowIds(item)]
    BY <1>1, <2>1, ItemCounted
  <2>3. \A i \in 1..n : new[i].key = feed[i].key /\ new[i].newest = feed[i].newest
                        /\ (feed[i].key # KeyOf(item) => new[i] = feed[i])
                        /\ (feed[i].key = KeyOf(item) => new[i].count = feed[i].count + 1
                                                        /\ new[i].rowIds = feed[i].rowIds \cup {item.row})
    <3> SUFFICES ASSUME NEW i \in 1..n
                 PROVE  /\ new[i].key = feed[i].key /\ new[i].newest = feed[i].newest
                        /\ feed[i].key # KeyOf(item) => new[i] = feed[i]
                        /\ feed[i].key = KeyOf(item) => new[i].count = feed[i].count + 1
                                                        /\ new[i].rowIds = feed[i].rowIds \cup {item.row}
      OBVIOUS
    <3> HIDE DEF new, item, n
    <3>1. CASE feed[i].key # KeyOf(item)
      BY <2>2, <3>1
    <3>2. CASE feed[i].key = KeyOf(item)
      <4>1. new[i] = [feed[i] EXCEPT !.count = feed[i].count + 1, !.rowIds = feed[i].rowIds \cup {item.row}]
        BY <1>3, <2>2, <3>2
      <4>2. feed[i] \in Event
        BY <1>7
      <4> QED
        BY <3>2, <4>1, <4>2 DEF Event
    <3> QED
      BY <3>1, <3>2
  <2> HIDE DEF new, item, n
  <2>4. \A i \in 1..n : /\ new[i].rowIds = rowsOf(new[i].key, m + 1)
                        /\ IsFiniteSet(new[i].rowIds) /\ new[i].count = Cardinality(new[i].rowIds)
    <3> SUFFICES ASSUME NEW i \in 1..n
                 PROVE  /\ new[i].rowIds = rowsOf(new[i].key, m + 1)
                        /\ IsFiniteSet(new[i].rowIds) /\ new[i].count = Cardinality(new[i].rowIds)
      OBVIOUS
    <3>1. CASE feed[i].key # KeyOf(item)
      BY <1>5, <1>7, <2>3, <3>1, ZenonT(40)
    <3>2. CASE feed[i].key = KeyOf(item)
      <4>1. item.row \notin feed[i].rowIds /\ IsFiniteSet(feed[i].rowIds)
        BY <1>6, <1>7
      <4>2. IsFiniteSet(feed[i].rowIds \cup {item.row})
            /\ Cardinality(feed[i].rowIds \cup {item.row}) = Cardinality(feed[i].rowIds) + 1
        BY <4>1, FS_AddElement
      <4> QED
        BY <1>5, <1>7, <2>3, <3>2, <4>2, ZenonT(40)
    <3> QED
      BY <3>1, <3>2
  <2>5. \A i \in 1..n : \E l \in 1..(m + 1) :
           /\ KeyOf(items[l]) = new[i].key /\ new[i].newest = items[l].entry.timestamp
           /\ \A q \in 1..(m + 1) : KeyOf(items[q]) = new[i].key => l <= q
           /\ \A j \in (i + 1)..n : \A q \in 1..(m + 1) : KeyOf(items[q]) = new[j].key => l < q
    <3> SUFFICES ASSUME NEW i \in 1..n
                 PROVE  \E l \in 1..(m + 1) :
                          /\ KeyOf(items[l]) = new[i].key /\ new[i].newest = items[l].entry.timestamp
                          /\ \A q \in 1..(m + 1) : KeyOf(items[q]) = new[i].key => l <= q
                          /\ \A j \in (i + 1)..n : \A q \in 1..(m + 1) : KeyOf(items[q]) = new[j].key => l < q
      OBVIOUS
    <3>1. PICK l \in 1..m :
           /\ KeyOf(items[l]) = feed[i].key /\ feed[i].newest = items[l].entry.timestamp
           /\ \A q \in 1..m : KeyOf(items[q]) = feed[i].key => l <= q
           /\ \A j \in (i + 1)..n : \A q \in 1..m : KeyOf(items[q]) = feed[j].key => l < q
      BY DEF Fed, n
    <3>2. l \in 1..(m + 1) /\ l < m + 1
      BY <1>1, <3>1
    <3>3. \A j \in (i + 1)..n : j \in 1..n
      BY <1>1
    <3> QED
      BY <1>1, <2>3, <3>1, <3>2, <3>3, SMTT(30)
  <2>6. \A q \in 1..(m + 1) : \E i \in 1..n : new[i].key = KeyOf(items[q])
    <3>1. \A q \in 1..m : \E i \in 1..n : feed[i].key = KeyOf(items[q])
      BY DEF Fed, n
    <3> QED
      BY <1>1, <2>1, <2>3, <3>1 DEF item
  <2>7. \A i, j \in 1..n : new[i].key = new[j].key => i = j
    <3>1. \A i, j \in 1..n : feed[i].key = feed[j].key => i = j
      BY DEF Fed, n
    <3> QED
      BY <2>3, <3>1
  <2>8. Fed(new, items, m + 1)
    <3>1. \A i \in 1..Len(new) :
             new[i].rowIds = {items[k].row : k \in {l \in 1..(m + 1) : KeyOf(items[l]) = new[i].key}}
      BY <2>2, <2>4 DEF rowsOf
    <3>2. \A i \in 1..Len(new) : IsFiniteSet(new[i].rowIds) /\ new[i].count = Cardinality(new[i].rowIds)
      BY <2>2, <2>4
    <3>3. \A i \in 1..Len(new) : \E l \in 1..(m + 1) :
           /\ KeyOf(items[l]) = new[i].key /\ new[i].newest = items[l].entry.timestamp
           /\ \A q \in 1..(m + 1) : KeyOf(items[q]) = new[i].key => l <= q
           /\ \A j \in (i + 1)..Len(new) : \A q \in 1..(m + 1) : KeyOf(items[q]) = new[j].key => l < q
      BY <2>2, <2>5, ZenonT(40)
    <3> QED
      BY <2>2, <2>6, <2>7, <3>1, <3>2, <3>3 DEF Fed
  <2> QED
    BY <2>8 DEF new, item
<1>9. CASE ~\E k \in 1..n : feed[k].key = KeyOf(item)
  <2> DEFINE event == new[n + 1]
  <2>1. /\ new \in Seq(Event) /\ Len(new) = n + 1 /\ \A i \in 1..n : new[i] = feed[i]
        /\ event.key = KeyOf(item) /\ event.newest = item.entry.timestamp
        /\ event.count = 1 /\ event.rowIds = {item.row}
    BY <1>1, <1>3, <1>9, ItemAppended
  <2>2. 1..(n + 1) = 1..n \cup {n + 1}
    BY <1>1
  <2> HIDE DEF new, item, n, event
  <2>3. rowsOf(KeyOf(item), m) = {}
    <3>1. \A k \in 1..m : KeyOf(items[k]) # KeyOf(item)
      BY <1>9 DEF Fed, n
    <3> QED
      BY <3>1 DEF rowsOf
  <2>4. \A i \in 1..(n + 1) : /\ new[i].rowIds = rowsOf(new[i].key, m + 1)
                              /\ IsFiniteSet(new[i].rowIds) /\ new[i].count = Cardinality(new[i].rowIds)
    <3>1. \A i \in 1..n : new[i].rowIds = rowsOf(new[i].key, m + 1)
      BY <1>5, <1>7, <1>9, <2>1, ZenonT(40)
    <3>2. \A i \in 1..n : IsFiniteSet(new[i].rowIds) /\ new[i].count = Cardinality(new[i].rowIds)
      BY <1>7, <2>1
    <3>3. event.rowIds = rowsOf(event.key, m + 1)
      BY <1>5, <2>1, <2>3
    <3>4. IsFiniteSet(event.rowIds) /\ event.count = Cardinality(event.rowIds)
      BY <2>1, FS_Singleton
    <3> QED
      BY <2>2, <3>1, <3>2, <3>3, <3>4 DEF event
  <2>5. \A i \in 1..(n + 1) : \E l \in 1..(m + 1) :
           /\ KeyOf(items[l]) = new[i].key /\ new[i].newest = items[l].entry.timestamp
           /\ \A q \in 1..(m + 1) : KeyOf(items[q]) = new[i].key => l <= q
           /\ \A j \in (i + 1)..(n + 1) : \A q \in 1..(m + 1) : KeyOf(items[q]) = new[j].key => l < q
    <3>1. ASSUME NEW i \in 1..n
          PROVE  \E l \in 1..(m + 1) :
                          /\ KeyOf(items[l]) = new[i].key /\ new[i].newest = items[l].entry.timestamp
                          /\ \A q \in 1..(m + 1) : KeyOf(items[q]) = new[i].key => l <= q
                          /\ \A j \in (i + 1)..(n + 1) : \A q \in 1..(m + 1) : KeyOf(items[q]) = new[j].key => l < q
      <4>1. PICK l \in 1..m :
             /\ KeyOf(items[l]) = feed[i].key /\ feed[i].newest = items[l].entry.timestamp
             /\ \A q \in 1..m : KeyOf(items[q]) = feed[i].key => l <= q
             /\ \A j \in (i + 1)..n : \A q \in 1..m : KeyOf(items[q]) = feed[j].key => l < q
        BY DEF Fed, n
      <4>2. l \in 1..(m + 1) /\ l < m + 1
        BY <1>1, <4>1
      <4>3. \A j \in (i + 1)..(n + 1) : j = n + 1 \/ (j \in (i + 1)..n /\ j \in 1..n)
        BY <1>1
      <4>4. ASSUME NEW q \in 1..(m + 1), KeyOf(items[q]) = KeyOf(item) PROVE l < q
        <5>1. ASSUME q \in 1..m PROVE FALSE
          <6>1. PICK k \in 1..n : feed[k].key = KeyOf(items[q])
            BY <5>1 DEF Fed, n
          <6> QED
            BY <1>9, <4>4, <6>1
        <5> QED
          BY <1>1, <4>2, <5>1
      <4>5. \A j \in (i + 1)..(n + 1) : \A q \in 1..(m + 1) : KeyOf(items[q]) = new[j].key => l < q
        <5> SUFFICES ASSUME NEW j \in (i + 1)..(n + 1), NEW q \in 1..(m + 1), KeyOf(items[q]) = new[j].key
                     PROVE  l < q
          OBVIOUS
        <5>1. CASE j = n + 1
          BY <2>1, <4>4, <5>1 DEF event
        <5>2. CASE j \in (i + 1)..n /\ j \in 1..n
          BY <1>1, <2>1, <4>1, <4>2, <5>2
        <5> QED
          BY <4>3, <5>1, <5>2
      <4>6. \A q \in 1..(m + 1) : KeyOf(items[q]) = new[i].key => l <= q
        BY <1>1, <2>1, <4>1, <4>2
      <4> QED
        BY <2>1, <4>1, <4>2, <4>5, <4>6
    <3>2. \E l \in 1..(m + 1) :
             /\ KeyOf(items[l]) = event.key /\ event.newest = items[l].entry.timestamp
             /\ \A q \in 1..(m + 1) : KeyOf(items[q]) = event.key => l <= q
      <4>1. \A k \in 1..m : KeyOf(items[k]) # KeyOf(item)
        BY <1>9 DEF Fed, n
      <4>2. m + 1 \in 1..(m + 1) /\ items[m + 1] = item
        BY <1>1 DEF item
      <4> QED
        BY <1>1, <2>1, <4>1, <4>2, SMTT(30)
    <3>3. (n + 1 + 1)..(n + 1) = {}
      BY <1>1
    <3> QED
      BY <2>2, <3>1, <3>2, <3>3 DEF event
  <2>6. \A q \in 1..(m + 1) : \E i \in 1..(n + 1) : new[i].key = KeyOf(items[q])
    <3>1. \A q \in 1..m : \E i \in 1..n : feed[i].key = KeyOf(items[q])
      BY DEF Fed, n
    <3> QED
      BY <1>1, <2>1, <2>2, <3>1 DEF item, event
  <2>7. \A i, j \in 1..(n + 1) : new[i].key = new[j].key => i = j
    <3>1. \A i, j \in 1..n : feed[i].key = feed[j].key => i = j
      BY DEF Fed, n
    <3> QED
      BY <1>9, <2>1, <2>2, <3>1, SMTT(30) DEF event
  <2>8. Fed(new, items, m + 1)
    <3>1. \A i \in 1..Len(new) :
             new[i].rowIds = {items[k].row : k \in {l \in 1..(m + 1) : KeyOf(items[l]) = new[i].key}}
      BY <2>1, <2>4 DEF rowsOf
    <3>2. \A i \in 1..Len(new) : IsFiniteSet(new[i].rowIds) /\ new[i].count = Cardinality(new[i].rowIds)
      BY <2>1, <2>4
    <3>3. \A i \in 1..Len(new) : \E l \in 1..(m + 1) :
           /\ KeyOf(items[l]) = new[i].key /\ new[i].newest = items[l].entry.timestamp
           /\ \A q \in 1..(m + 1) : KeyOf(items[q]) = new[i].key => l <= q
           /\ \A j \in (i + 1)..Len(new) : \A q \in 1..(m + 1) : KeyOf(items[q]) = new[j].key => l < q
      BY <2>1, <2>5, SMTT(30)
    <3> QED
      BY <2>1, <2>6, <2>7, <3>1, <3>2, <3>3 DEF Fed
  <2> QED
    BY <2>8 DEF new, item
<1> QED
  BY <1>8, <1>9

LEMMA FedAll ==
  ASSUME NEW items \in Seq(Item), Descending(items)
  PROVE  FoldLeft(AddItem, << >>, items) \in Seq(Event) /\ Fed(FoldLeft(AddItem, << >>, items), items, Len(items))
<1> DEFINE n == Len(items)
<1>1. PICK f \in [0..n -> Seq(Event)] :
            /\ f[0] = << >> /\ \A i \in 1..n : f[i] = AddItem(f[i - 1], items[i])
            /\ FoldLeft(AddItem, << >>, items) = f[n]
  BY FeedFold
<1>2. n \in Nat
  OBVIOUS
<1> DEFINE S == {m \in 0..n : Fed(f[m], items, m)}
<1>3. 0 \in S
  <2>1. Len(f[0]) = 0 /\ 1..0 = {} /\ 0 \in 0..n
    BY <1>1, <1>2
  <2> QED
    BY <2>1 DEF Fed
<1>4. ASSUME NEW m \in 0..(n - 1), m \in S PROVE m + 1 \in S
  <2> HIDE DEF n
  <2>1. m \in 0..n /\ m + 1 \in 0..n /\ m + 1 \in 1..n /\ (m + 1) - 1 = m
    BY <1>2
  <2>2. f[m] \in Seq(Event) /\ f[m + 1] = AddItem(f[m], items[m + 1])
    BY <1>1, <2>1
  <2>3. Fed(f[m + 1], items, m + 1)
    BY <1>4, <2>1, <2>2, FedNext DEF n
  <2> QED
    BY <2>1, <2>3
<1> HIDE DEF S, n
<1>5. 0..n \subseteq S
  BY <1>2, <1>3, <1>4, InductTo
<1>6. n \in 0..n
  BY <1>2
<1>7. Fed(f[n], items, n) /\ f[n] \in Seq(Event)
  BY <1>1, <1>5, <1>6 DEF S
<1> QED
  BY <1>1, <1>7 DEF n

LEMMA FirstOfFeed ==
  ASSUME NEW feed \in Seq(Event), NEW limit \in Nat
  PROVE  LET shown == SubSeq(feed, 1, Min({limit, Len(feed)}))
         IN /\ shown \in Seq(Event) /\ Len(shown) <= limit /\ Len(shown) <= Len(feed)
            /\ Len(shown) < Len(feed) => Len(shown) = limit
            /\ \A i \in 1..Len(shown) : shown[i] = feed[i]
<1> DEFINE m == Min({limit, Len(feed)})
<1>1. Len(feed) \in Nat
  OBVIOUS
<1>2. \E x \in {limit, Len(feed)} : \A y \in {limit, Len(feed)} : x <= y
  BY <1>1
<1>3. m \in {limit, Len(feed)} /\ \A y \in {limit, Len(feed)} : m <= y
  BY <1>2 DEF Min
<1>4. m \in Nat /\ m <= limit /\ m <= Len(feed) /\ (m < Len(feed) => m = limit)
  BY <1>1, <1>3
<1> HIDE DEF m
<1>5. SubSeq(feed, 1, m) \in Seq(Event) /\ Len(SubSeq(feed, 1, m)) = m
      /\ \A i \in 1..m : SubSeq(feed, 1, m)[i] = feed[i]
  BY <1>1, <1>4
<1> QED
  BY <1>4, <1>5 DEF m

LEMMA Reversed ==
  ASSUME NEW S, NEW s \in Seq(S)
  PROVE  /\ Reverse(s) \in Seq(S) /\ Len(Reverse(s)) = Len(s)
         /\ \A i \in 1..Len(s) : Reverse(s)[i] = s[Len(s) - i + 1] /\ Len(s) - i + 1 \in 1..Len(s)
<1>1. Len(s) \in Nat
  OBVIOUS
<1>2. \A i \in 1..Len(s) : Len(s) - i + 1 \in 1..Len(s) /\ s[Len(s) - i + 1] \in S
  BY <1>1
<1>3. Reverse(s) = [i \in 1..Len(s) |-> s[Len(s) - i + 1]]
  BY DEF Reverse
<1> QED
  BY <1>1, <1>2, <1>3

LEMMA FeedTyped ==
  ASSUME NEW items \in Seq(Item), NEW limit \in Nat
  PROVE  BuildFeed(items, limit) \in Seq(Event) /\ Len(BuildFeed(items, limit)) <= limit
<1>1. Reverse(items) \in Seq(Item)
  BY Reversed
<1>2. PICK f \in [0..Len(Reverse(items)) -> Seq(Event)] :
            FoldLeft(AddItem, << >>, Reverse(items)) = f[Len(Reverse(items))]
  BY <1>1, FeedFold
<1>3. FoldLeft(AddItem, << >>, Reverse(items)) \in Seq(Event)
  BY <1>1, <1>2
<1> QED
  BY <1>3, FirstOfFeed DEF BuildFeed

-----------------------------------------------------------------------------
(* The rows of the table, in the order of their ids. *)
AscendingIn(seq, ids) ==
    /\ \A id \in ids : \E i \in DOMAIN seq : seq[i] = id
    /\ \A i, j \in DOMAIN seq : i < j => seq[i] < seq[j]

LEMMA AscendingExists ==
  ASSUME NEW m \in Nat, NEW ids \in SUBSET (1..m)
  PROVE  \E seq \in [1..Cardinality(ids) -> ids] : AscendingIn(seq, ids)
<1> DEFINE S == {k \in 0..m : \A T \in SUBSET (1..k) : \E seq \in [1..Cardinality(T) -> T] : AscendingIn(seq, T)}
<1>1. 0 \in S
  <2> SUFFICES ASSUME NEW T \in SUBSET (1..0)
               PROVE  \E seq \in [1..Cardinality(T) -> T] : AscendingIn(seq, T)
    OBVIOUS
  <2>1. T = {} /\ Cardinality(T) = 0
    <3>1. T = {}
      OBVIOUS
    <3> QED
      BY <3>1, FS_EmptySet
  <2>2. << >> \in [1..0 -> T] /\ DOMAIN << >> = {}
    OBVIOUS
  <2> QED
    BY <2>1, <2>2 DEF AscendingIn
<1>2. ASSUME NEW k \in 0..(m - 1), k \in S PROVE k + 1 \in S
  <2>1. k + 1 \in 0..m /\ k \in Nat
    OBVIOUS
  <2>2. ASSUME NEW T \in SUBSET (1..(k + 1))
        PROVE  \E seq \in [1..Cardinality(T) -> T] : AscendingIn(seq, T)
    <3>1. CASE k + 1 \notin T
      <4>1. T \in SUBSET (1..k)
        <5>1. \A x \in T : x \in 1..(k + 1) /\ x # k + 1
          BY <3>1
        <5>2. \A x \in T : x \in 1..k
          BY <2>1, <5>1
        <5> QED
          BY <5>2
      <4> QED
        BY <1>2, <4>1
    <3>2. CASE k + 1 \in T
      <4> DEFINE U == T \ {k + 1}
                 c == Cardinality(U)
      <4>1. U \in SUBSET (1..k)
        <5>1. \A x \in U : x \in 1..(k + 1) /\ x # k + 1
          OBVIOUS
        <5>2. \A x \in U : x \in 1..k
          BY <2>1, <5>1
        <5> QED
          BY <5>2
      <4>2. IsFiniteSet(U) /\ c \in Nat
        <5>1. IsFiniteSet(1..k)
          BY <2>1, FS_Interval
        <5>2. IsFiniteSet(U)
          BY <4>1, <5>1, FS_Subset
        <5> QED
          BY <5>2, FS_CardinalityType
      <4>3. T = U \cup {k + 1} /\ k + 1 \notin U
        BY <3>2
      <4>4. Cardinality(T) = c + 1
        <5> HIDE DEF U
        <5> QED
          BY <4>2, <4>3, FS_AddElement
      <4>5. PICK seq \in [1..c -> U] : AscendingIn(seq, U)
        BY <1>2, <4>1
      <4> DEFINE longer == [i \in 1..(c + 1) |-> IF i = c + 1 THEN k + 1 ELSE seq[i]]
      <4> HIDE DEF U, c
      <4>6. \A i \in 1..(c + 1) : i = c + 1 \/ i \in 1..c
        BY <4>2
      <4>7. longer \in [1..Cardinality(T) -> T]
        <5>1. \A i \in 1..(c + 1) : (IF i = c + 1 THEN k + 1 ELSE seq[i]) \in T
          BY <4>3, <4>5, <4>6
        <5> QED
          BY <4>4, <5>1
      <4>8. \A i \in 1..c : i \in 1..(c + 1) /\ longer[i] = seq[i] /\ seq[i] \in U /\ seq[i] \in 1..k
        <5> SUFFICES ASSUME NEW i \in 1..c
                     PROVE  i \in 1..(c + 1) /\ longer[i] = seq[i] /\ seq[i] \in U /\ seq[i] \in 1..k
          OBVIOUS
        <5>1. i \in 1..(c + 1) /\ i # c + 1
          BY <4>2
        <5>2. seq[i] \in U
          BY <4>5
        <5> QED
          BY <4>1, <5>1, <5>2
      <4>9. longer[c + 1] = k + 1 /\ c + 1 \in 1..(c + 1) /\ DOMAIN longer = 1..(c + 1)
        BY <4>2
      <4> HIDE DEF longer
      <4>10. DOMAIN seq = 1..c
        BY <4>5
      <4>11. \A id \in T : \E i \in 1..(c + 1) : longer[i] = id
        BY <4>3, <4>5, <4>8, <4>9, <4>10 DEF AscendingIn
      <4>12. \A i, j \in 1..(c + 1) : i < j => longer[i] < longer[j]
        <5> SUFFICES ASSUME NEW i \in 1..(c + 1), NEW j \in 1..(c + 1), i < j PROVE longer[i] < longer[j]
          OBVIOUS
        <5>1. i \in 1..c
          BY <4>2
        <5>2. CASE j = c + 1
          BY <2>1, <4>8, <4>9, <5>1, <5>2
        <5>3. CASE j \in 1..c
          BY <4>5, <4>8, <4>10, <5>1, <5>3 DEF AscendingIn
        <5> QED
          BY <4>6, <5>2, <5>3
      <4>13. AscendingIn(longer, T)
        BY <4>9, <4>11, <4>12 DEF AscendingIn
      <4> QED
        BY <4>7, <4>13
    <3> QED
      BY <3>1, <3>2
  <2> QED
    BY <2>1, <2>2
<1> HIDE DEF S
<1>3. 0..m \subseteq S
  BY <1>1, <1>2, InductTo
<1>4. m \in S
  BY <1>3
<1> QED
  BY <1>4 DEF S

LEMMA GreaterOf ==
  ASSUME NEW a \in Int, NEW b \in Int
  PROVE  Max({a, b}) = IF a >= b THEN a ELSE b
<1>1. \E x \in {a, b} : \A y \in {a, b} : x >= y
  OBVIOUS
<1>2. Max({a, b}) \in {a, b} /\ \A y \in {a, b} : Max({a, b}) >= y
  BY <1>1 DEF Max
<1> QED
  BY <1>2

LEMMA LastOfSeq ==
  ASSUME NEW S, NEW s \in Seq(S), NEW n \in Nat
  PROVE  /\ LastOf(s, n) \in Seq(S)
         /\ \E d \in Nat : Len(LastOf(s, n)) + d = Len(s)
               /\ \A i \in 1..Len(LastOf(s, n)) : LastOf(s, n)[i] = s[i + d] /\ i + d \in 1..Len(s)
<1> DEFINE first == Max({1, Len(s) - n + 1})
<1>1. Len(s) \in Nat
  OBVIOUS
<1>2. first = IF 1 >= Len(s) - n + 1 THEN 1 ELSE Len(s) - n + 1
  BY <1>1, GreaterOf
<1>3. first \in 1..(Len(s) + 1)
  BY <1>1, <1>2
<1> HIDE DEF first
<1>4. /\ SubSeq(s, first, Len(s)) \in Seq(S) /\ Len(SubSeq(s, first, Len(s))) = Len(s) - first + 1
      /\ \A i \in 1..(Len(s) - first + 1) : SubSeq(s, first, Len(s))[i] = s[first + i - 1]
  BY <1>1, <1>3
<1>5. LastOf(s, n) = SubSeq(s, first, Len(s))
  BY DEF LastOf, first
<1>6. first - 1 \in Nat /\ Len(LastOf(s, n)) + (first - 1) = Len(s)
  BY <1>1, <1>3, <1>4, <1>5
<1>7. \A i \in 1..Len(LastOf(s, n)) : LastOf(s, n)[i] = s[i + (first - 1)] /\ i + (first - 1) \in 1..Len(s)
  <2> SUFFICES ASSUME NEW i \in 1..(Len(s) - first + 1)
               PROVE  SubSeq(s, first, Len(s))[i] = s[i + (first - 1)] /\ i + (first - 1) \in 1..Len(s)
    BY <1>4, <1>5
  <2>1. i + (first - 1) = first + i - 1 /\ i + (first - 1) \in 1..Len(s)
    BY <1>1, <1>3
  <2> QED
    BY <1>4, <2>1
<1> QED
  BY <1>4, <1>5, <1>6, <1>7

(* What a feed is made of: rows of the table, or lines of the file. *)
RowsTyped == nextRow \in Nat /\ DOMAIN rows \subseteq 1..(nextRow - 1) /\ \A id \in DOMAIN rows : rows[id].entry \in Entry

LEMMA TableRowsAre ==
  ASSUME RowsTyped, NEW archived
  PROVE  /\ TableRows(archived) \in Seq(Item)
         /\ \A i \in 1..Len(TableRows(archived)) :
               /\ TableRows(archived)[i].row > 0
               /\ TableRows(archived)[i].entry = rows[TableRows(archived)[i].row].entry
         /\ \A i, j \in 1..Len(TableRows(archived)) :
               i < j => TableRows(archived)[i].row < TableRows(archived)[j].row
<1> DEFINE ids == Marked(archived)
           seq == Ascending(ids)
           last == LastOf(seq, ScanWindow)
           items == TableRows(archived)
<1>1. ids \subseteq DOMAIN rows /\ ids \in SUBSET (1..nextRow) /\ nextRow \in Nat
  BY DEF Marked, RowsTyped
<1>2. \E s \in [1..Cardinality(ids) -> ids] : AscendingIn(s, ids)
  BY <1>1, AscendingExists
<1>3. seq \in [1..Cardinality(ids) -> ids] /\ AscendingIn(seq, ids)
  BY <1>2 DEF Ascending, AscendingIn
<1>4. Cardinality(ids) \in Nat
  <2>1. IsFiniteSet(1..nextRow)
    BY <1>1, FS_Interval
  <2>2. IsFiniteSet(ids)
    BY <1>1, <2>1, FS_Subset
  <2> QED
    BY <2>2, FS_CardinalityType
<1> HIDE DEF seq, ids
<1>5. seq \in Seq(ids) /\ Len(seq) = Cardinality(ids) /\ DOMAIN seq = 1..Len(seq)
  BY <1>3, <1>4
<1>6. /\ last \in Seq(ids)
      /\ \E d \in Nat : Len(last) + d = Len(seq)
               /\ \A i \in 1..Len(last) : last[i] = seq[i + d] /\ i + d \in 1..Len(seq)
  BY <1>5, LastOfSeq, AuditAssumption
<1>7. PICK d \in Nat : \A i \in 1..Len(last) : last[i] = seq[i + d] /\ i + d \in 1..Len(seq)
  BY <1>6
<1>8. items = [i \in DOMAIN last |-> [entry |-> rows[last[i]].entry, row |-> last[i]]]
  BY DEF TableRows, ids, seq
<1> HIDE DEF last, items
<1>9. DOMAIN last = 1..Len(last) /\ Len(last) \in Nat /\ \A i \in 1..Len(last) : last[i] \in ids
  BY <1>6
<1>10. \A i \in 1..Len(last) : /\ last[i] \in Nat /\ last[i] > 0 /\ rows[last[i]].entry \in Entry
  BY <1>1, <1>9 DEF RowsTyped
<1>11. \A i \in 1..Len(last) : [entry |-> rows[last[i]].entry, row |-> last[i]] \in Item
  BY <1>10 DEF Item
<1>12. items \in Seq(Item) /\ Len(items) = Len(last)
       /\ \A i \in 1..Len(last) : items[i] = [entry |-> rows[last[i]].entry, row |-> last[i]]
  BY <1>8, <1>9, <1>11
<1>13. \A i, j \in 1..Len(last) : i < j => last[i] < last[j]
  <2> SUFFICES ASSUME NEW i \in 1..Len(last), NEW j \in 1..Len(last), i < j PROVE last[i] < last[j]
    OBVIOUS
  <2>1. i + d < j + d /\ i + d \in DOMAIN seq /\ j + d \in DOMAIN seq
    BY <1>5, <1>7, <1>9
  <2> QED
    BY <1>3, <1>7, <2>1 DEF AscendingIn
<1>14. \A i \in 1..Len(last) : items[i].row = last[i] /\ items[i].entry = rows[last[i]].entry
  <2> SUFFICES ASSUME NEW i \in 1..Len(last)
               PROVE  items[i].row = last[i] /\ items[i].entry = rows[last[i]].entry
    OBVIOUS
  <2>1. items[i] = [entry |-> rows[last[i]].entry, row |-> last[i]]
    BY <1>12
  <2> QED
    BY ONLY <2>1
<1>15. \A i, j \in 1..Len(items) : i < j => items[i].row < items[j].row
  <2> SUFFICES ASSUME NEW i \in 1..Len(last), NEW j \in 1..Len(last), i < j PROVE items[i].row < items[j].row
    BY <1>12
  <2>1. last[i] < last[j]
    BY <1>13
  <2> QED
    BY <1>14, <2>1
<1>16. \A i \in 1..Len(items) : items[i].row > 0 /\ items[i].entry = rows[items[i].row].entry
  BY <1>10, <1>12, <1>14
<1> QED
  BY <1>12, <1>15, <1>16 DEF items

(* The newest row of an event, and the events after it. *)
LEMMA NewestOfEvent ==
  ASSUME NEW items \in Seq(Item), Descending(items),
         NEW feed \in Seq(Event), Fed(feed, items, Len(items)), NEW i \in 1..Len(feed)
  PROVE  \E k \in 1..Len(items) :
            /\ feed[i].newest = items[k].entry.timestamp /\ Max(feed[i].rowIds) = items[k].row
            /\ \A j \in (i + 1)..Len(feed) : \A l \in 1..Len(items) :
                  KeyOf(items[l]) = feed[j].key => items[l].row < items[k].row
<1> DEFINE n == Len(items)
           ids == feed[i].rowIds
<1>1. PICK k \in 1..n :
         /\ KeyOf(items[k]) = feed[i].key /\ feed[i].newest = items[k].entry.timestamp
         /\ \A l \in 1..n : KeyOf(items[l]) = feed[i].key => k <= l
         /\ \A j \in (i + 1)..Len(feed) : \A l \in 1..n : KeyOf(items[l]) = feed[j].key => k < l
  BY DEF Fed
<1>2. ids = {items[l].row : l \in {q \in 1..n : KeyOf(items[q]) = feed[i].key}}
  BY DEF Fed
<1>3. n \in Nat /\ \A l \in 1..n : items[l].row \in Nat
  <2>1. \A l \in 1..n : items[l] \in Item
    OBVIOUS
  <2>2. \A item \in Item : item.row \in Nat
    BY DEF Item
  <2> QED
    BY <2>1, <2>2
<1>4. \A l \in 1..n : /\ k < l => items[l].row < items[k].row
                      /\ k <= l => items[k].row >= items[l].row
  <2> SUFFICES ASSUME NEW l \in 1..n, k <= l
               PROVE  /\ k < l => items[l].row < items[k].row
                      /\ items[k].row >= items[l].row
    BY <1>3
  <2>1. k < l => items[l].row < items[k].row
    BY DEF Descending
  <2> QED
    BY <1>3, <2>1
<1> HIDE DEF n, ids
<1>5. items[k].row \in ids /\ \A x \in ids : items[k].row >= x /\ x \in Nat
  BY <1>1, <1>2, <1>3, <1>4
<1>6. Max(ids) \in ids /\ \A x \in ids : Max(ids) >= x
  BY <1>5 DEF Max
<1>7. Max(ids) = items[k].row
  BY <1>5, <1>6
<1> QED
  BY <1>1, <1>4, <1>7 DEF n, ids

LEMMA FeedAccounts == ASSUME RowsTyped PROVE FeedAccountsForRows
<1> SUFFICES ASSUME NEW archived \in BOOLEAN
             PROVE  LET items == ToSet(TableRows(archived))
                        feed  == BuildFeed(TableRows(archived), FeedLimit)
                        Alike(event) == {item \in items : EventKey(item.entry) = event.key}
                        hidden == {item \in items : \A i \in DOMAIN feed : item \notin Alike(feed[i])}
                    IN /\ \A i \in DOMAIN feed :
                             /\ feed[i].rowIds = {item.row : item \in Alike(feed[i])}
                             /\ feed[i].count = Cardinality(feed[i].rowIds)
                             /\ feed[i].newest = rows[Max(feed[i].rowIds)].entry.timestamp
                       /\ hidden # {} => Len(feed) = FeedLimit
                       /\ \A item \in hidden : \A i \in DOMAIN feed : item.row < Max(feed[i].rowIds)
  BY DEF FeedAccountsForRows
<1> DEFINE table == TableRows(archived)
           items == ToSet(table)
           n == Len(table)
           desc == Reverse(table)
           F == FoldLeft(AddItem, << >>, desc)
           feed == BuildFeed(table, FeedLimit)
           Alike(event) == {item \in items : EventKey(item.entry) = event.key}
           hidden == {item \in items : \A i \in DOMAIN feed : item \notin Alike(feed[i])}
<1>1. /\ table \in Seq(Item) /\ \A i \in 1..n : table[i].row > 0 /\ table[i].entry = rows[table[i].row].entry
      /\ \A i, j \in 1..n : i < j => table[i].row < table[j].row
  BY TableRowsAre
<1>2. n \in Nat /\ DOMAIN table = 1..n
  BY <1>1
<1>3. F \in Seq(Event) => /\ feed \in Seq(Event) /\ Len(feed) <= Len(F)
                          /\ Len(feed) < Len(F) => Len(feed) = FeedLimit
                          /\ \A i \in 1..Len(feed) : feed[i] = F[i]
  BY AuditAssumption, FirstOfFeed DEF BuildFeed
<1> HIDE DEF table
<1>4. desc \in Seq(Item) /\ Len(desc) = n
      /\ \A i \in 1..n : desc[i] = table[n - i + 1] /\ n - i + 1 \in 1..n
  BY <1>1, Reversed
<1>5. Descending(desc)
  <2> HIDE DEF desc, n
  <2>1. \A i \in 1..n : desc[i].row > 0
    BY <1>1, <1>4
  <2>2. \A i, j \in 1..n : i < j => desc[j].row < desc[i].row
    <3> SUFFICES ASSUME NEW i \in 1..n, NEW j \in 1..n, i < j PROVE desc[j].row < desc[i].row
      OBVIOUS
    <3>1. n - j + 1 < n - i + 1
      BY <1>2
    <3> QED
      BY <1>1, <1>4, <3>1
  <2> QED
    BY <1>4, <2>1, <2>2 DEF Descending
<1> HIDE DEF desc
<1>6. F \in Seq(Event) /\ Fed(F, desc, n)
  BY <1>4, <1>5, FedAll
<1> HIDE DEF F, n
<1>7. items = {desc[k] : k \in 1..n}
  <2>1. items = {table[k] : k \in 1..n}
    BY <1>2 DEF ToSet
  <2>2. \A k \in 1..n : n - (n - k + 1) + 1 = k
    BY <1>2
  <2>3. ASSUME NEW k \in 1..n PROVE \E l \in 1..n : desc[l] = table[k]
    <3> DEFINE l == n - k + 1
    <3>1. l \in 1..n /\ n - l + 1 = k
      BY <1>4, <2>2
    <3> HIDE DEF l
    <3> QED
      BY <1>4, <3>1
  <2>4. ASSUME NEW k \in 1..n PROVE \E l \in 1..n : table[l] = desc[k]
    <3> DEFINE l == n - k + 1
    <3>1. l \in 1..n /\ desc[k] = table[l]
      BY <1>4
    <3> HIDE DEF l
    <3> QED
      BY <3>1
  <2> HIDE DEF items
  <2> QED
    BY <2>1, <2>3, <2>4
<1>8. \A k \in 1..n : desc[k].entry = rows[desc[k].row].entry
  BY <1>1, <1>4, ZenonT(40)
<1>9. /\ feed \in Seq(Event) /\ Len(feed) \in Nat /\ Len(F) \in Nat /\ Len(feed) <= Len(F)
      /\ DOMAIN feed = 1..Len(feed)
      /\ Len(feed) < Len(F) => Len(feed) = FeedLimit
      /\ \A i \in 1..Len(feed) : i \in 1..Len(F) /\ feed[i] = F[i]
  BY <1>3, <1>6
<1> HIDE DEF feed, items
<1>12. ASSUME NEW i \in 1..Len(F)
       PROVE  \E k \in 1..n :
            /\ F[i].newest = desc[k].entry.timestamp /\ Max(F[i].rowIds) = desc[k].row
            /\ \A j \in (i + 1)..Len(F) : \A l \in 1..n : KeyOf(desc[l]) = F[j].key => desc[l].row < desc[k].row
  <2>1. Fed(F, desc, Len(desc))
    BY <1>4, <1>6
  <2>2. \E k \in 1..Len(desc) :
            /\ F[i].newest = desc[k].entry.timestamp /\ Max(F[i].rowIds) = desc[k].row
            /\ \A j \in (i + 1)..Len(F) : \A l \in 1..Len(desc) :
                  KeyOf(desc[l]) = F[j].key => desc[l].row < desc[k].row
    BY <1>4, <1>5, <1>6, <2>1, NewestOfEvent
  <2> QED
    BY <1>4, <2>2
<1>13. ASSUME NEW i \in DOMAIN feed PROVE feed[i].rowIds = {item.row : item \in Alike(feed[i])}
  <2>1. feed[i].rowIds = {desc[k].row : k \in {l \in 1..n : KeyOf(desc[l]) = feed[i].key}}
    BY <1>6, <1>9 DEF Fed
  <2>2. Alike(feed[i]) = {desc[k] : k \in {l \in 1..n : KeyOf(desc[l]) = feed[i].key}}
    BY <1>7 DEF KeyOf
  <2> HIDE DEF Alike
  <2> QED
    BY <2>1, <2>2
<1>14. ASSUME NEW i \in DOMAIN feed PROVE feed[i].count = Cardinality(feed[i].rowIds)
  BY <1>6, <1>9 DEF Fed
<1>15. ASSUME NEW i \in DOMAIN feed PROVE feed[i].newest = rows[Max(feed[i].rowIds)].entry.timestamp
  BY <1>8, <1>9, <1>12
<1>10. ASSUME NEW item \in hidden
       PROVE  /\ Len(feed) = FeedLimit
              /\ \A i \in DOMAIN feed : item.row < Max(feed[i].rowIds)
  <2>1. PICK l \in 1..n : item = desc[l]
    BY <1>7
  <2>2. PICK j \in 1..Len(F) : F[j].key = KeyOf(desc[l])
    BY <1>6 DEF Fed
  <2>3. j \notin DOMAIN feed
    <3> SUFFICES ASSUME j \in DOMAIN feed PROVE FALSE
      OBVIOUS
    <3>1. item \in Alike(feed[j])
      BY <1>9, <2>1, <2>2 DEF KeyOf
    <3> QED
      BY <3>1
  <2>4. j > Len(feed) /\ Len(feed) < Len(F)
    BY <1>9, <2>3
  <2>5. ASSUME NEW i \in DOMAIN feed PROVE item.row < Max(feed[i].rowIds)
    <3>1. j \in (i + 1)..Len(F)
      BY <1>9, <2>4
    <3> QED
      BY <1>9, <1>12, <2>1, <2>2, <3>1
  <2> QED
    BY <1>9, <2>4, <2>5
<1> HIDE DEF hidden, Alike
<1>11. /\ \A i \in DOMAIN feed :
             /\ feed[i].rowIds = {item.row : item \in Alike(feed[i])}
             /\ feed[i].count = Cardinality(feed[i].rowIds)
             /\ feed[i].newest = rows[Max(feed[i].rowIds)].entry.timestamp
       /\ hidden # {} => Len(feed) = FeedLimit
       /\ \A item \in hidden : \A i \in DOMAIN feed : item.row < Max(feed[i].rowIds)
  BY <1>13, <1>14, <1>15, <1>10
<1> QED
  BY <1>11 DEF hidden, Alike, feed, items, table

LEMMA TrailRowsTyped == TrailInv => RowsTyped
<1>1. TrailInv => \A id \in DOMAIN rows : rows[id].entry \in Entry
  BY DEF TrailInv, TrailType, AuditRow
<1> QED
  BY <1>1 DEF TrailInv, RowsBelow, RowsTyped

LEMMA TrailInvAccounts == TrailInv => EveryEntryAccountedFor
BY TrailRowsTyped, FeedAccounts DEF TrailInv, EveryEntryAccountedFor

(* The table holds nothing that the file lacks, and each feed accounts for  *)
(* the rows that it is made of, for any window and any limit (record,       *)
(* tail_rows, build_feed). *)
THEOREM EveryEntryAccountedForHolds == AuditSpec => []EveryEntryAccountedFor
<1> QED
  BY TrailInvAccounts, TrailInvInit, TrailInvNext, PTL DEF AuditSpec

-----------------------------------------------------------------------------
(***************************************************************************)
(* Counting: a row is an entry that was recorded and has left its writer's *)
(* hands.                                                                  *)
(***************************************************************************)
Stamps == {t \in 1..recorded : \E w \in Writers : \E e \in writing[w] : e.timestamp = t}

Counted ==
    /\ recorded <= MaxEntries /\ Len(log) <= recorded
    /\ Cardinality(Stamps) + nextRow <= recorded + 1

MarksNamed == \A id \in DOMAIN rows : rows[id].by = "nobody" <=> ~rows[id].archived

ScreensShort == screens \in [Admins -> Seq(Event)] /\ \A a \in Admins : Len(screens[a]) <= FeedLimit

AuditInv == TrailInv /\ Counted /\ MarksNamed /\ ScreensShort

LEMMA StampsCount == ASSUME recorded \in Nat PROVE IsFiniteSet(Stamps) /\ Cardinality(Stamps) \in Nat
<1>1. IsFiniteSet(1..recorded)
  BY FS_Interval
<1>2. IsFiniteSet(Stamps)
  BY <1>1, FS_Subset DEF Stamps
<1> QED
  BY <1>2, FS_CardinalityType

LEMMA AuditInvInit == AuditInit => AuditInv
<1> SUFFICES ASSUME AuditInit PROVE AuditInv
  OBVIOUS
<1>1. TrailInv
  BY TrailInvInit
<1>2. Stamps = {}
  BY DEF AuditInit, Stamps
<1>3. Cardinality(Stamps) = 0
  BY <1>2, FS_EmptySet
<1>4. Counted
  BY <1>3, AuditAssumption DEF AuditInit, Counted
<1>5. MarksNamed
  BY DEF AuditInit, MarksNamed
<1>6. ScreensShort
  <2>1. << >> \in Seq(Event) /\ Len(<< >>) = 0
    OBVIOUS
  <2>2. \A a \in Admins : screens[a] = << >>
    BY DEF AuditInit
  <2>3. screens \in [Admins -> Seq(Event)]
    BY <2>1 DEF AuditInit
  <2> QED
    BY <2>1, <2>2, <2>3, AuditAssumption DEF ScreensShort
<1> QED
  BY <1>1, <1>4, <1>5, <1>6 DEF AuditInv

(* The table and the file are sequences of items, for build_feed. *)
LEMMA RowsAreItems ==
  ASSUME TrailInv, NEW archived, NEW items \in {TableRows(archived), FileRows(archived)}
  PROVE  items \in Seq(Item)
<1>1. RowsTyped
  BY TrailRowsTyped
<1>2. TableRows(archived) \in Seq(Item)
  BY <1>1, TableRowsAre
<1>3. FileRows(archived) \in Seq(Item)
  <2> DEFINE tail == LastOf(log, ScanWindow)
  <2>1. log \in Seq(Entry)
    BY DEF TrailInv, TrailType
  <2>2. tail \in Seq(Entry)
    BY <2>1, LastOfSeq, AuditAssumption
  <2>3. FileRows(archived) = << >>
        \/ FileRows(archived) = [i \in DOMAIN tail |-> [entry |-> tail[i], row |-> 0]]
    BY DEF FileRows
  <2> HIDE DEF tail
  <2>4. \A i \in DOMAIN tail : [entry |-> tail[i], row |-> 0] \in Item
    BY <2>2 DEF Item
  <2>5. DOMAIN tail = 1..Len(tail) /\ Len(tail) \in Nat
    BY <2>2
  <2>6. [i \in DOMAIN tail |-> [entry |-> tail[i], row |-> 0]] \in Seq(Item)
    BY <2>4, <2>5
  <2>7. << >> \in Seq(Item)
    OBVIOUS
  <2> QED
    BY <2>3, <2>6, <2>7
<1> QED
  BY <1>2, <1>3

LEMMA AuditInvNext == AuditInv /\ [AuditNext]_auditVars => AuditInv'
<1> SUFFICES ASSUME AuditInv, [AuditNext]_auditVars PROVE AuditInv'
  OBVIOUS
<1>1. TrailInv /\ TrailInv' /\ Counted /\ MarksNamed /\ ScreensShort
  BY TrailInvNext DEF AuditInv
<1>2. /\ recorded \in Nat /\ nextRow \in Nat /\ log \in Seq(Entry) /\ writing \in [Writers -> SUBSET Entry]
      /\ nextRow \notin DOMAIN rows /\ \A id \in DOMAIN rows : rows[id] \in AuditRow
  BY <1>1 DEF TrailInv, TrailType, RowsBelow
<1>3. IsFiniteSet(Stamps) /\ Cardinality(Stamps) \in Nat
  BY <1>2, StampsCount
<1>4. CASE UNCHANGED <<log, recorded, writing, nextRow>>
  <2>1. Counted'
    BY <1>1, <1>4 DEF Counted, Stamps
  <2>2. MarksNamed'
    <3> USE <1>4
    <3>1. CASE UNCHANGED rows
      BY <1>1, <3>1 DEF MarksNamed
    <3>2. ASSUME NEW a \in Admins, NEW ids \in Selections(a),
                 ArchiveRows(a, ids) \/ RestoreRows(ids) \/ DeleteRows(ids)
          PROVE  MarksNamed'
      <4>1. a # "nobody"
        BY AuditAssumption
      <4> SUFFICES ASSUME NEW id \in DOMAIN rows' PROVE rows'[id].by = "nobody" <=> ~rows'[id].archived
        BY DEF MarksNamed
      <4>2. id \in DOMAIN rows
        BY <3>2 DEF ArchiveRows, RestoreRows, DeleteRows
      <4>3. \/ rows'[id] = rows[id]
            \/ rows'[id] = [rows[id] EXCEPT !.archived = TRUE, !.by = a]
            \/ rows'[id] = [rows[id] EXCEPT !.archived = FALSE, !.by = "nobody"]
        BY <3>2, <4>2 DEF ArchiveRows, RestoreRows, DeleteRows
      <4>4. rows[id] \in AuditRow /\ (rows[id].by = "nobody" <=> ~rows[id].archived)
        BY <1>1, <1>2, <4>2 DEF MarksNamed
      <4> QED
        BY <4>1, <4>3, <4>4 DEF AuditRow
    <3>3. ASSUME NEW w \in Writers, StoreEntry(w) PROVE MarksNamed'
      <4>1. nextRow' # nextRow \/ UNCHANGED rows
        BY <1>2, <3>3 DEF StoreEntry
      <4> QED
        BY <3>1, <4>1
    <3>4. ASSUME NEW w \in Writers, WriterDies(w) \/ \E o \in Outcomes : AppendEntry(w, o) PROVE MarksNamed'
      BY <3>1, <3>4 DEF WriterDies, AppendEntry
    <3>5. ASSUME NEW a \in Admins, NEW archived \in BOOLEAN, LoadFeed(a, archived) PROVE MarksNamed'
      BY <3>1, <3>5 DEF LoadFeed
    <3>6. CASE UNCHANGED auditVars
      BY <3>1, <3>6 DEF auditVars
    <3> QED
      BY <3>2, <3>3, <3>4, <3>5, <3>6 DEF AuditNext
  <2>3. ScreensShort'
    <3>1. CASE UNCHANGED screens
      BY <1>1, <3>1 DEF ScreensShort
    <3>2. ASSUME NEW a \in Admins, NEW archived \in BOOLEAN, LoadFeed(a, archived) PROVE ScreensShort'
      <4>1. PICK items \in {TableRows(archived), FileRows(archived)} :
               screens' = [screens EXCEPT ![a] = BuildFeed(items, FeedLimit)]
        BY <3>2 DEF LoadFeed
      <4>2. items \in Seq(Item)
        BY <1>1, RowsAreItems
      <4>3. BuildFeed(items, FeedLimit) \in Seq(Event) /\ Len(BuildFeed(items, FeedLimit)) <= FeedLimit
        BY <4>2, FeedTyped, AuditAssumption
      <4> QED
        BY <1>1, <4>1, <4>3 DEF ScreensShort
    <3>3. ASSUME NEW w \in Writers, StoreEntry(w) \/ WriterDies(w) \/ \E o \in Outcomes : AppendEntry(w, o)
          PROVE  ScreensShort'
      BY <3>1, <3>3 DEF StoreEntry, WriterDies, AppendEntry
    <3>4. ASSUME NEW a \in Admins, NEW ids \in Selections(a),
                 ArchiveRows(a, ids) \/ RestoreRows(ids) \/ DeleteRows(ids)
          PROVE  ScreensShort'
      BY <3>1, <3>4 DEF ArchiveRows, RestoreRows, DeleteRows
    <3>5. CASE UNCHANGED auditVars
      BY <3>1, <3>5 DEF auditVars
    <3> QED
      BY <3>2, <3>3, <3>4, <3>5 DEF AuditNext
  <2> QED
    BY <1>1, <2>1, <2>2, <2>3 DEF AuditInv
<1>5. ASSUME NEW w \in Writers, NEW o \in Outcomes, AppendEntry(w, o) PROVE AuditInv'
  <2> DEFINE entry == [o EXCEPT !.timestamp = recorded + 1]
  <2>1. entry.timestamp = recorded + 1 /\ entry \in Entry
    <3>1. recorded + 1 \in Nat
      BY <1>2
    <3> QED
      BY <3>1, Stamped
  <2>2. /\ recorded < MaxEntries /\ recorded' = recorded + 1 /\ UNCHANGED <<rows, nextRow, screens>>
        /\ log' = Append(log, entry) \/ log' = log
        /\ writing[w] = {} /\ writing' = [writing EXCEPT ![w] = {entry}]
    BY <1>5 DEF AppendEntry
  <2> HIDE DEF entry
  <2>3. Stamps' = Stamps \cup {recorded + 1} /\ recorded + 1 \notin Stamps
    <3>1. \A x \in Writers : writing'[x] = IF x = w THEN {entry} ELSE writing[x]
      BY <1>2, <2>2
    <3>2. 1..recorded' = 1..recorded \cup {recorded + 1} /\ recorded + 1 \notin 1..recorded
      BY <1>2, <2>2
    <3>3. ASSUME NEW t \in Stamps' PROVE t \in Stamps \cup {recorded + 1}
      BY <2>1, <3>1, <3>2 DEF Stamps
    <3>4. ASSUME NEW t \in Stamps PROVE t \in Stamps'
      <4>1. PICK x \in Writers : \E f \in writing[x] : f.timestamp = t
        BY DEF Stamps
      <4>2. x # w /\ t \in 1..recorded'
        BY <2>2, <3>2, <4>1 DEF Stamps
      <4> QED
        BY <3>1, <4>1, <4>2 DEF Stamps
    <3>5. recorded + 1 \in Stamps'
      BY <2>1, <3>1, <3>2 DEF Stamps
    <3> QED
      BY <3>2, <3>3, <3>4, <3>5 DEF Stamps
  <2>4. Cardinality(Stamps') = Cardinality(Stamps) + 1
    BY <1>3, <2>3, FS_AddElement
  <2>5. Len(log') <= recorded + 1
    BY <1>1, <1>2, <2>1, <2>2 DEF Counted
  <2>6. Counted'
    BY <1>1, <1>2, <1>3, <2>2, <2>4, <2>5, AuditAssumption DEF Counted
  <2> QED
    BY <1>1, <2>2, <2>6 DEF AuditInv, MarksNamed, ScreensShort
<1>6. ASSUME NEW w \in Writers, NEW e \in writing[w], writing' = [writing EXCEPT ![w] = {}], recorded' = recorded
      PROVE  Cardinality(Stamps) = Cardinality(Stamps') + 1 /\ Cardinality(Stamps') \in Nat
  <2>1. e \in Entry /\ \A f \in writing[w] : f = e
    BY <1>1, <1>2 DEF TrailInv, InHand
  <2>2. \A x \in Writers : \A f \in writing[x] : f.timestamp = e.timestamp => x = w
    BY <1>1 DEF TrailInv, InHand
  <2>3. Stamps = Stamps' \cup {e.timestamp} /\ e.timestamp \notin Stamps'
    <3>1. \A x \in Writers : writing'[x] = IF x = w THEN {} ELSE writing[x]
      BY <1>2, <1>6
    <3>2. e.timestamp \notin Stamps'
      BY <2>2, <3>1 DEF Stamps
    <3>3. e.timestamp \in Stamps
      BY <1>1 DEF TrailInv, Past, Stamps
    <3>4. ASSUME NEW t \in Stamps, t # e.timestamp PROVE t \in Stamps'
      <4>1. PICK x \in Writers : \E f \in writing[x] : f.timestamp = t
        BY DEF Stamps
      <4>2. x # w
        BY <2>1, <3>4, <4>1
      <4> QED
        BY <1>6, <3>1, <4>1, <4>2 DEF Stamps
    <3>5. Stamps' \subseteq Stamps
      BY <1>6, <3>1 DEF Stamps
    <3> QED
      BY <3>2, <3>3, <3>4, <3>5
  <2>4. IsFiniteSet(Stamps')
    BY <1>3, <2>3, FS_Subset
  <2> QED
    BY <2>3, <2>4, FS_AddElement, FS_CardinalityType
<1>7. ASSUME NEW w \in Writers, StoreEntry(w) PROVE AuditInv'
  <2>1. PICK e \in writing[w] :
          /\ \/ /\ rows' = [id \in DOMAIN rows \cup {nextRow} |->
                              IF id = nextRow THEN [entry |-> e, archived |-> FALSE, by |-> "nobody"]
                              ELSE rows[id]]
                /\ nextRow' = nextRow + 1
             \/ UNCHANGED <<rows, nextRow>>
          /\ writing' = [writing EXCEPT ![w] = {}]
          /\ UNCHANGED <<log, recorded, screens>>
    BY <1>7 DEF StoreEntry
  <2>2. Cardinality(Stamps) = Cardinality(Stamps') + 1 /\ Cardinality(Stamps') \in Nat
    BY <1>6, <2>1
  <2>3. nextRow' <= nextRow + 1 /\ nextRow' \in Nat
    BY <1>2, <2>1
  <2>4. Counted'
    BY <1>1, <1>2, <2>1, <2>2, <2>3 DEF Counted
  <2>5. MarksNamed'
    <3>1. \A id \in DOMAIN rows' :
             \/ id \in DOMAIN rows /\ rows'[id] = rows[id]
             \/ rows'[id] = [entry |-> e, archived |-> FALSE, by |-> "nobody"]
      BY <2>1
    <3> QED
      BY <1>1, <3>1 DEF MarksNamed
  <2> QED
    BY <1>1, <2>1, <2>4, <2>5 DEF AuditInv, ScreensShort
<1>8. ASSUME NEW w \in Writers, WriterDies(w) PROVE AuditInv'
  <2>1. PICK e \in writing[w] : writing' = [writing EXCEPT ![w] = {}] /\ recorded' = recorded
    BY <1>8 DEF WriterDies
  <2>2. Cardinality(Stamps) = Cardinality(Stamps') + 1 /\ Cardinality(Stamps') \in Nat
    BY <1>6, <2>1
  <2>3. UNCHANGED <<log, recorded, nextRow, rows, screens>>
    BY <1>8 DEF WriterDies
  <2>4. Counted'
    BY <1>1, <1>2, <2>2, <2>3 DEF Counted
  <2> QED
    BY <1>1, <2>3, <2>4 DEF AuditInv, MarksNamed, ScreensShort
<1>9. ASSUME NEW a \in Admins, NEW archived \in BOOLEAN, LoadFeed(a, archived) PROVE AuditInv'
  BY <1>4, <1>9 DEF LoadFeed
<1>10. ASSUME NEW a \in Admins, NEW ids \in Selections(a),
              ArchiveRows(a, ids) \/ RestoreRows(ids) \/ DeleteRows(ids)
       PROVE  AuditInv'
  BY <1>4, <1>10 DEF ArchiveRows, RestoreRows, DeleteRows
<1>11. CASE UNCHANGED auditVars
  BY <1>4, <1>11 DEF auditVars
<1> QED
  BY <1>5, <1>7, <1>8, <1>9, <1>10, <1>11 DEF AuditNext

LEMMA AuditInvType == AuditInv => AuditTypeOK
<1> SUFFICES ASSUME AuditInv PROVE AuditTypeOK
  OBVIOUS
<1>1. TrailInv /\ Counted /\ MarksNamed /\ ScreensShort
  BY DEF AuditInv
<1>2. /\ recorded \in Nat /\ nextRow \in Nat \ {0} /\ DOMAIN rows \subseteq 1..(nextRow - 1)
      /\ Cardinality(Stamps) \in Nat
  BY <1>1, StampsCount DEF TrailInv, TrailType, RowsBelow
<1>3. recorded \in 0..MaxEntries /\ nextRow \in 1..(MaxEntries + 1) /\ Len(log) <= recorded
  BY <1>1, <1>2, AuditAssumption DEF Counted
<1>4. ASSUME NEW w \in Writers PROVE Cardinality(writing[w]) <= 1
  <2>1. \A e, f \in writing[w] : e = f
    BY <1>1 DEF TrailInv, InHand
  <2>2. writing[w] = {} \/ \E e : writing[w] = {e}
    BY <2>1
  <2>3. ASSUME NEW e, writing[w] = {e} PROVE Cardinality(writing[w]) = 1
    BY <2>3, FS_Singleton
  <2>4. writing[w] = {} => Cardinality(writing[w]) = 0
    BY FS_EmptySet
  <2> QED
    BY <2>2, <2>3, <2>4
<1> QED
  BY <1>1, <1>2, <1>3, <1>4 DEF AuditTypeOK, MarksNamed, ScreensShort

(* The bounds and marks of the audit log, in every state. *)
THEOREM AuditTypeCorrect == AuditSpec => []AuditTypeOK
<1> QED
  BY AuditInvInit, AuditInvNext, AuditInvType, PTL DEF AuditSpec

-----------------------------------------------------------------------------
(***************************************************************************)
(* Sources and their keys.                                                 *)
(***************************************************************************)

Change == [kind : {"none", "rotate", "revoke"}, name : Names \cup {"none"},
           row : [key : Nat, revoked : BOOLEAN, used : BOOLEAN]]
Use == [stage : {"idle", "arrived", "known", "accepted"}, key : Nat,
        source : Names \cup {"none"}, dead : BOOLEAN, shut : SUBSET Names]

(* What has not its type in SourceTypeOK. *)
Typed == /\ changes \in [Managers -> Change] /\ uses \in [Senders -> Use]
         /\ \A n \in DOMAIN sources : sources[n].key \in 1..issued

(* Every source has a key of its own. *)
KeysApart == \A n, k \in DOMAIN sources : sources[n].key = sources[k].key => n = k

(* A key that was retired is on no row but a revoked one, and a source that *)
(* was closed is revoked: no request opens it again. *)
OutOfUse == /\ \A n \in DOMAIN sources : sources[n].key \in retired => sources[n].revoked
            /\ \A n \in closed : sources[n].revoked

(* What a request found retired or closed when it came is so for good. *)
ForGood == \A r \in Senders : /\ uses[r].dead => uses[r].key \in retired
                              /\ uses[r].shut \subseteq closed

SourceInv == SourceTypeOK /\ Typed /\ KeysApart /\ OutOfUse /\ ForGood /\ RetiredKeyRefused

LEMMA SourceInvInit == SourceInit => SourceInv
<1> SUFFICES ASSUME SourceInit PROVE SourceInv
  OBVIOUS
<1>1. DOMAIN sources = {} /\ issued = 0 /\ retired = {} /\ closed = {}
  BY DEF SourceInit
<1>2. \A r \in Senders : uses[r] = NoUse
  BY DEF SourceInit
<1>3. \A m \in Managers : changes[m] = NoChange
  BY DEF SourceInit
<1>4. NoUse \in Use /\ NoChange \in Change
  BY DEF NoUse, NoChange, NoSource, Use, Change
<1>5. changes \in [Managers -> Change] /\ uses \in [Senders -> Use]
  BY <1>4 DEF SourceInit
<1>6. ~NoUse.dead /\ NoUse.shut = {} /\ NoUse.stage = "idle" /\ NoUse.key = 0
      /\ NoUse.dead \in BOOLEAN
  BY DEF NoUse
<1>7. SourceTypeOK
  BY <1>1, <1>2, <1>3, <1>6, SourceAssumption DEF SourceTypeOK
<1> QED
  BY <1>1, <1>2, <1>5, <1>6, <1>7
     DEF SourceInv, Typed, KeysApart, OutOfUse, ForGood, RetiredKeyRefused

LEMMA KeepsSources ==
  ASSUME SourceInv, UNCHANGED <<sources, issued, retired, closed>>,
         changes' \in [Managers -> Change], uses' \in [Senders -> Use],
         \A m \in Managers : changes'[m] = changes[m] \/ changes'[m] = NoChange \/
            /\ changes'[m].kind \in {"rotate", "revoke"} /\ changes'[m].name \in DOMAIN sources
            /\ changes'[m].row \in SourceRow,
         \A r \in Senders : uses'[r] = uses[r] \/
            /\ uses'[r].stage \in {"idle", "arrived", "known", "accepted"}
            /\ uses'[r].key \in 0..issued
            /\ uses'[r].stage \in {"known", "accepted"} =>
                  /\ uses'[r].source \in DOMAIN sources
                  /\ ~uses'[r].dead /\ uses'[r].source \notin uses'[r].shut
            /\ uses'[r].dead => uses'[r].key \in retired
            /\ uses'[r].shut \subseteq closed
  PROVE  SourceInv'
<1>1. SourceTypeOK'
  <2>1. \A m \in Managers : (changes[m] = NoChange \/
          /\ changes[m].kind \in {"rotate", "revoke"} /\ changes[m].name \in DOMAIN sources
          /\ changes[m].row \in SourceRow)'
    BY DEF SourceInv, SourceTypeOK, NoChange, SourceRow
  <2>2. \A r \in Senders :
          (/\ uses[r].stage \in {"idle", "arrived", "known", "accepted"} /\ uses[r].key \in 0..issued
           /\ uses[r].dead \in BOOLEAN
           /\ uses[r].stage \in {"known", "accepted"} => uses[r].source \in DOMAIN sources)'
    <3> TAKE r \in Senders
    <3>1. uses'[r].dead \in BOOLEAN
      BY DEF Use
    <3> QED
      BY <3>1 DEF SourceInv, SourceTypeOK
  <2> QED
    BY <2>1, <2>2 DEF SourceInv, SourceTypeOK, SourceRow
<1>2. Typed' /\ KeysApart' /\ OutOfUse'
  BY DEF SourceInv, Typed, KeysApart, OutOfUse
<1>3. ForGood' /\ RetiredKeyRefused'
  BY DEF SourceInv, ForGood, RetiredKeyRefused
<1> QED
  BY <1>1, <1>2, <1>3 DEF SourceInv

LEMMA KeepsCreate ==
  ASSUME SourceInv, NEW name \in Names, CreateSource(name)
  PROVE  SourceInv'
<1> DEFINE fresh == [NoSource EXCEPT !.key = issued + 1]
<1>1. /\ name \notin DOMAIN sources /\ issued \in 0..MaxKeys /\ issued < MaxKeys /\ issued' = issued + 1
      /\ DOMAIN sources' = DOMAIN sources \cup {name} /\ sources'[name] = fresh
      /\ \A n \in DOMAIN sources : sources'[n] = sources[n]
      /\ UNCHANGED <<changes, uses, retired, closed>>
  BY DEF CreateSource, SourceInv, SourceTypeOK
<1>2. fresh.key = issued + 1 /\ ~fresh.revoked /\ fresh \in [key : {issued + 1}, revoked : BOOLEAN, used : BOOLEAN]
  BY DEF NoSource
<1>3. issued + 1 \in 1..MaxKeys
  BY <1>1, SourceAssumption
<1>4. retired \subseteq 1..issued /\ issued + 1 \notin retired /\ closed \subseteq DOMAIN sources
  BY <1>1 DEF SourceInv, SourceTypeOK
<1>5. \A n \in DOMAIN sources' : sources'[n] \in SourceRow /\ sources'[n].key \in 1..issued'
  <2> TAKE n \in DOMAIN sources'
  <2>1. CASE n = name
    BY <2>1, <1>1, <1>2, <1>3 DEF SourceRow
  <2>2. CASE n \in DOMAIN sources
    BY <2>2, <1>1 DEF SourceInv, SourceTypeOK, Typed
  <2> QED
    BY <2>1, <2>2, <1>1
<1>6. SourceTypeOK'
  BY <1>1, <1>3, <1>4, <1>5 DEF SourceInv, SourceTypeOK, SourceRow
<1>7. Typed'
  BY <1>1, <1>5 DEF SourceInv, Typed
<1>8. KeysApart'
  BY <1>1, <1>2 DEF SourceInv, Typed, KeysApart
<1>9. OutOfUse'
  BY <1>1, <1>2, <1>4 DEF SourceInv, OutOfUse
<1> QED
  BY <1>1, <1>6, <1>7, <1>8, <1>9 DEF SourceInv, ForGood, RetiredKeyRefused

LEMMA ChangeNamesRow ==
  ASSUME SourceInv, NEW m \in Managers, changes[m].kind # "none"
  PROVE  changes[m].name \in DOMAIN sources
BY DEF SourceInv, SourceTypeOK, NoChange

(* A commit of a manager that leaves the rows but one as they are. *)
LEMMA KeepsRows ==
  ASSUME SourceInv, NEW m \in Managers, ChangeDone(m), UNCHANGED uses,
         DOMAIN sources' = DOMAIN sources, issued' \in issued..MaxKeys,
         retired \subseteq retired', retired' \subseteq 1..issued',
         closed \subseteq closed', closed' \subseteq DOMAIN sources,
         \A n \in DOMAIN sources : sources'[n] \in SourceRow /\ sources'[n].key \in 1..issued',
         KeysApart', OutOfUse'
  PROVE  SourceInv'
<1>1. issued \in 0..MaxKeys /\ issued' \in 0..MaxKeys /\ issued <= issued'
  BY SourceAssumption DEF SourceInv, SourceTypeOK
<1>2. /\ changes' \in [Managers -> Change]
      /\ \A k \in Managers : changes'[k] = changes[k] \/ changes'[k] = NoChange
  <2>1. NoChange \in Change
    BY DEF NoChange, NoSource, Change
  <2> QED
    BY <2>1 DEF SourceInv, Typed, ChangeDone
<1>3. Typed'
  BY <1>2 DEF SourceInv, Typed
<1>4. ForGood' /\ RetiredKeyRefused'
  BY DEF SourceInv, ForGood, RetiredKeyRefused
<1>5. \A k \in Managers : (changes[k] = NoChange \/
          /\ changes[k].kind \in {"rotate", "revoke"} /\ changes[k].name \in DOMAIN sources
          /\ changes[k].row \in SourceRow)'
  BY <1>2 DEF SourceInv, SourceTypeOK, NoChange, SourceRow
<1>6. \A r \in Senders : uses[r].key \in 0..issued'
  BY <1>1 DEF SourceInv, SourceTypeOK
<1>7. SourceTypeOK'
  BY <1>1, <1>5, <1>6 DEF SourceInv, SourceTypeOK, SourceRow
<1> QED
  BY <1>3, <1>4, <1>7 DEF SourceInv

(* The key of the row as it is now is retired, not that of the row as it    *)
(* was read: no other row has it, and this one gets a new one. *)
LEMMA KeepsRotate ==
  ASSUME SourceInv, NEW m \in Managers, RotateKey(m)
  PROVE  SourceInv'
<1> DEFINE name == changes[m].name
<1>1. name \in DOMAIN sources
  BY ChangeNamesRow DEF RotateKey
<1>2. /\ issued \in 0..MaxKeys /\ issued < MaxKeys /\ issued' = issued + 1
      /\ retired \subseteq 1..issued /\ closed \subseteq DOMAIN sources
  BY DEF RotateKey, SourceInv, SourceTypeOK
<1>3. \A n \in DOMAIN sources : sources[n] \in SourceRow /\ sources[n].key \in 1..issued
  BY DEF SourceInv, SourceTypeOK, Typed
<1>4. DOMAIN sources' = DOMAIN sources /\ \A n \in DOMAIN sources : n # name => sources'[n] = sources[n]
  BY <1>1 DEF RotateKey
<1>5. sources'[name] = [sources[name] EXCEPT !.key = issued + 1]
  BY <1>1 DEF RotateKey
<1>6. /\ sources'[name].key = issued + 1 /\ sources'[name].revoked = sources[name].revoked
      /\ sources'[name] \in SourceRow
  BY <1>1, <1>2, <1>3, <1>5, SourceAssumption DEF SourceRow
<1>7. retired' = retired \cup {sources[name].key} /\ UNCHANGED <<uses, closed>> /\ ChangeDone(m)
  BY DEF RotateKey
<1>8. retired' \subseteq 1..issued /\ issued' \notin retired' /\ issued' \in issued..MaxKeys
  <2>1. sources[name].key \in 1..issued
    BY <1>1, <1>3
  <2>2. retired' \subseteq 1..issued
    BY <1>2, <1>7, <2>1
  <2> QED
    BY <1>2, <2>2, SourceAssumption
<1>9. \A n \in DOMAIN sources : sources'[n] \in SourceRow /\ sources'[n].key \in 1..issued'
  BY <1>2, <1>3, <1>4, <1>6
<1>10. KeysApart'
  BY <1>2, <1>3, <1>4, <1>6 DEF SourceInv, KeysApart
<1>11. OutOfUse'
  BY <1>1, <1>2, <1>4, <1>6, <1>7, <1>8 DEF SourceInv, OutOfUse, KeysApart
<1>12. retired' \subseteq 1..issued'
  BY <1>2, <1>8
<1> QED
  BY <1>2, <1>4, <1>7, <1>8, <1>9, <1>10, <1>11, <1>12, KeepsRows

LEMMA KeepsRevoke ==
  ASSUME SourceInv, NEW m \in Managers, RevokeSource(m)
  PROVE  SourceInv'
<1> DEFINE name == changes[m].name
<1>1. name \in DOMAIN sources
  BY ChangeNamesRow DEF RevokeSource
<1>2. /\ issued \in 0..MaxKeys /\ issued' = issued
      /\ retired \subseteq 1..issued /\ closed \subseteq DOMAIN sources
  BY DEF RevokeSource, SourceInv, SourceTypeOK
<1>3. \A n \in DOMAIN sources : sources[n] \in SourceRow /\ sources[n].key \in 1..issued
  BY DEF SourceInv, SourceTypeOK, Typed
<1>4. DOMAIN sources' = DOMAIN sources /\ \A n \in DOMAIN sources : n # name => sources'[n] = sources[n]
  BY <1>1 DEF RevokeSource
<1>5. sources'[name] = [sources[name] EXCEPT !.revoked = TRUE]
  BY <1>1 DEF RevokeSource
<1>6. sources'[name].key = sources[name].key /\ sources'[name].revoked /\ sources'[name] \in SourceRow
  BY <1>1, <1>3, <1>5 DEF SourceRow
<1>7. /\ retired' = retired \cup {sources[name].key} /\ closed' = closed \cup {name}
      /\ UNCHANGED uses /\ ChangeDone(m)
  BY DEF RevokeSource
<1>8. retired' \subseteq 1..issued' /\ issued' \in issued..MaxKeys /\ closed' \subseteq DOMAIN sources
  <2>1. sources[name].key \in 1..issued
    BY <1>1, <1>3
  <2>2. retired' \subseteq 1..issued' /\ closed' \subseteq DOMAIN sources
    BY <1>1, <1>2, <1>7, <2>1
  <2> QED
    BY <1>2, <2>2, SourceAssumption
<1>9. \A n \in DOMAIN sources : sources'[n] \in SourceRow /\ sources'[n].key \in 1..issued'
  BY <1>2, <1>3, <1>4, <1>6
<1>10. KeysApart'
  BY <1>1, <1>3, <1>4, <1>6 DEF SourceInv, KeysApart
<1>11. OutOfUse'
  <2>1. ASSUME NEW n \in DOMAIN sources, sources'[n].key \in retired' PROVE sources'[n].revoked
    <3>1. CASE n = name
      BY <3>1, <1>6
    <3>2. CASE n # name
      <4>1. sources'[n] = sources[n] /\ sources[n].key # sources[name].key
        BY <1>1, <1>4, <3>2 DEF SourceInv, KeysApart
      <4>2. sources[n].key \in retired
        BY <1>7, <2>1, <4>1
      <4> QED
        BY <4>1, <4>2 DEF SourceInv, OutOfUse
    <3> QED
      BY <3>1, <3>2
  <2>2. ASSUME NEW n \in closed' PROVE sources'[n].revoked
    <3>1. CASE n = name
      BY <3>1, <1>6
    <3>2. CASE n # name
      BY <1>2, <1>4, <1>7, <2>2, <3>2 DEF SourceInv, OutOfUse
    <3> QED
      BY <3>1, <3>2
  <2> QED
    BY <1>4, <2>1, <2>2 DEF OutOfUse
<1> QED
  BY <1>4, <1>7, <1>8, <1>9, <1>10, <1>11, KeepsRows

(* The key under which a request authenticates is on a row that is not      *)
(* revoked, so it was not retired when the request came. *)
LEMMA KeepsAuthenticate ==
  ASSUME SourceInv, NEW r \in Senders, Authenticate(r)
  PROVE  SourceInv'
<1>1. PICK name \in DOMAIN sources :
          /\ sources[name].key = uses[r].key /\ ~sources[name].revoked
          /\ uses' = [uses EXCEPT ![r].stage = "known", ![r].source = name]
  BY DEF Authenticate
<1>2. uses \in [Senders -> Use] /\ name \in Names /\ changes \in [Managers -> Change]
  BY DEF SourceInv, SourceTypeOK, Typed
<1>3. /\ uses'[r].stage = "known" /\ uses'[r].source = name /\ uses'[r].key = uses[r].key
      /\ uses'[r].dead = uses[r].dead /\ uses'[r].shut = uses[r].shut /\ uses'[r] \in Use
  BY <1>1, <1>2 DEF Use
<1>4. uses' \in [Senders -> Use] /\ \A k \in Senders : k # r => uses'[k] = uses[k]
  BY <1>1, <1>2, <1>3
<1>5. ~uses[r].dead /\ name \notin uses[r].shut
  BY <1>1 DEF SourceInv, OutOfUse, ForGood
<1>6. uses[r].key \in 0..issued /\ uses[r].shut \subseteq closed
  BY DEF SourceInv, SourceTypeOK, ForGood
<1>7. UNCHANGED <<sources, issued, changes, retired, closed>>
  BY DEF Authenticate
<1>8. \A k \in Senders : uses'[k] = uses[k] \/
        /\ uses'[k].stage \in {"idle", "arrived", "known", "accepted"}
        /\ uses'[k].key \in 0..issued
        /\ uses'[k].stage \in {"known", "accepted"} =>
              /\ uses'[k].source \in DOMAIN sources
              /\ ~uses'[k].dead /\ uses'[k].source \notin uses'[k].shut
        /\ uses'[k].dead => uses'[k].key \in retired
        /\ uses'[k].shut \subseteq closed
  BY <1>1, <1>3, <1>4, <1>5, <1>6
<1>9. changes' \in [Managers -> Change] /\ \A m \in Managers : changes'[m] = changes[m]
  BY <1>2, <1>7
<1> QED
  BY <1>4, <1>7, <1>8, <1>9, KeepsSources

LEMMA KeepsSend ==
  ASSUME SourceInv, NEW r \in Senders, NEW key \in 0..issued, SendEvents(r, key)
  PROVE  SourceInv'
<1> DEFINE dead == key \in retired
           use == [NoUse EXCEPT !.stage = "arrived", !.key = key, !.dead = dead, !.shut = closed]
<1>1. uses \in [Senders -> Use] /\ changes \in [Managers -> Change] /\ issued \in Nat
      /\ closed \subseteq Names
  BY DEF SourceInv, SourceTypeOK, Typed
<1>2. /\ use.stage = "arrived" /\ use.key = key /\ use.shut = closed /\ use \in Use
  <2>1. dead \in BOOLEAN /\ key \in Nat
    BY <1>1
  <2> HIDE DEF dead
  <2> QED
    BY <1>1, <2>1 DEF NoUse, Use
<1>3. use.dead <=> key \in retired
  <2> HIDE DEF dead
  <2>1. use.dead = dead
    BY DEF NoUse
  <2> QED
    BY <2>1 DEF dead
<1>4. uses' = [uses EXCEPT ![r] = use] /\ UNCHANGED <<sources, issued, changes, retired, closed>>
  BY DEF SendEvents
<1>5. uses' \in [Senders -> Use] /\ uses'[r] = use /\ \A k \in Senders : k # r => uses'[k] = uses[k]
  BY <1>1, <1>2, <1>4
<1>6. \A k \in Senders : uses'[k] = uses[k] \/
        /\ uses'[k].stage \in {"idle", "arrived", "known", "accepted"}
        /\ uses'[k].key \in 0..issued
        /\ uses'[k].stage \in {"known", "accepted"} =>
              /\ uses'[k].source \in DOMAIN sources
              /\ ~uses'[k].dead /\ uses'[k].source \notin uses'[k].shut
        /\ uses'[k].dead => uses'[k].key \in retired
        /\ uses'[k].shut \subseteq closed
  BY <1>2, <1>3, <1>5
<1>7. changes' \in [Managers -> Change] /\ \A m \in Managers : changes'[m] = changes[m]
  BY <1>1, <1>4
<1> QED
  BY <1>4, <1>5, <1>6, <1>7, KeepsSources

(* A request that is refused or answered is done. *)
LEMMA KeepsDone ==
  ASSUME SourceInv, NEW r \in Senders, uses' = [uses EXCEPT ![r] = NoUse],
         UNCHANGED <<sources, issued, changes, retired, closed>>
  PROVE  SourceInv'
<1>1. uses \in [Senders -> Use] /\ changes \in [Managers -> Change] /\ issued \in Nat
  BY DEF SourceInv, SourceTypeOK, Typed
<1>2. NoUse \in Use /\ NoUse.stage = "idle" /\ NoUse.key = 0 /\ ~NoUse.dead /\ NoUse.shut = {}
  BY DEF NoUse, Use
<1>3. uses' \in [Senders -> Use] /\ uses'[r] = NoUse /\ \A k \in Senders : k # r => uses'[k] = uses[k]
  BY <1>1, <1>2
<1>4. \A k \in Senders : uses'[k] = uses[k] \/
        /\ uses'[k].stage \in {"idle", "arrived", "known", "accepted"}
        /\ uses'[k].key \in 0..issued
        /\ uses'[k].stage \in {"known", "accepted"} =>
              /\ uses'[k].source \in DOMAIN sources
              /\ ~uses'[k].dead /\ uses'[k].source \notin uses'[k].shut
        /\ uses'[k].dead => uses'[k].key \in retired
        /\ uses'[k].shut \subseteq closed
  BY <1>1, <1>2, <1>3
<1>5. changes' \in [Managers -> Change] /\ \A m \in Managers : changes'[m] = changes[m]
  BY <1>1
<1> QED
  BY <1>3, <1>4, <1>5, KeepsSources

(* The time of the last use is a column that nothing else looks at. *)
LEMMA KeepsTouch ==
  ASSUME SourceInv, NEW r \in Senders, TouchSource(r)
  PROVE  SourceInv'
<1> DEFINE name == uses[r].source
<1>1. name \in DOMAIN sources /\ uses[r].stage = "known" /\ issued \in Nat
  BY DEF TouchSource, SourceInv, SourceTypeOK
<1>2. /\ \/ sources' = [sources EXCEPT ![name].used = TRUE]
         \/ UNCHANGED sources
      /\ uses' = [uses EXCEPT ![r].stage = "accepted"]
      /\ UNCHANGED <<issued, changes, retired, closed>>
  BY DEF TouchSource
<1>3. \A n \in DOMAIN sources : sources[n] \in SourceRow /\ sources[n].key \in 1..issued
  BY DEF SourceInv, SourceTypeOK, Typed
<1>4. /\ DOMAIN sources' = DOMAIN sources
      /\ \A n \in DOMAIN sources : /\ sources'[n].key = sources[n].key /\ sources'[n] \in SourceRow
                                   /\ sources'[n].revoked = sources[n].revoked
  <2>1. CASE UNCHANGED sources
    BY <2>1, <1>3
  <2>2. CASE sources' = [sources EXCEPT ![name].used = TRUE]
    <3>1. DOMAIN sources' = DOMAIN sources /\ \A n \in DOMAIN sources : n # name => sources'[n] = sources[n]
      BY <2>2
    <3>2. sources'[name] = [sources[name] EXCEPT !.used = TRUE]
      BY <2>2, <1>1
    <3>3. /\ sources'[name].key = sources[name].key /\ sources'[name] \in SourceRow
          /\ sources'[name].revoked = sources[name].revoked
      BY <1>1, <1>3, <3>2 DEF SourceRow
    <3> QED
      BY <1>3, <3>1, <3>3
  <2> QED
    BY <1>2, <2>1, <2>2
<1>5. uses \in [Senders -> Use]
  BY DEF SourceInv, Typed
<1>6. /\ uses'[r].stage = "accepted" /\ uses'[r].source = name /\ uses'[r].key = uses[r].key
      /\ uses'[r].dead = uses[r].dead /\ uses'[r].shut = uses[r].shut /\ uses'[r] \in Use
  BY <1>2, <1>5 DEF Use
<1>7. uses' \in [Senders -> Use] /\ \A k \in Senders : k # r => uses'[k] = uses[k]
  BY <1>2, <1>5, <1>6
<1>8. \A k \in Senders :
        /\ uses'[k].stage \in {"idle", "arrived", "known", "accepted"} /\ uses'[k].key \in 0..issued
        /\ uses'[k].dead \in BOOLEAN
        /\ uses'[k].stage \in {"known", "accepted"} => uses'[k].source \in DOMAIN sources
  <2>1. \A k \in Senders : uses'[k].dead \in BOOLEAN
    BY <1>7 DEF Use
  <2> QED
    BY <2>1, <1>1, <1>6, <1>7 DEF SourceInv, SourceTypeOK
<1>9. SourceTypeOK'
  BY <1>2, <1>4, <1>8 DEF SourceInv, SourceTypeOK, SourceRow, NoChange
<1>10. Typed' /\ KeysApart' /\ OutOfUse'
  BY <1>2, <1>3, <1>4, <1>7 DEF SourceInv, SourceTypeOK, Typed, KeysApart, OutOfUse
<1>11. ForGood' /\ RetiredKeyRefused'
  BY <1>1, <1>2, <1>6, <1>7 DEF SourceInv, ForGood, RetiredKeyRefused
<1> QED
  BY <1>9, <1>10, <1>11 DEF SourceInv

(* A manager begins a change, or loses it. *)
LEMMA KeepsChanges ==
  ASSUME SourceInv, NEW m \in Managers, NEW change \in Change, changes' = [changes EXCEPT ![m] = change],
         change = NoChange \/ /\ change.kind \in {"rotate", "revoke"} /\ change.name \in DOMAIN sources
                              /\ change.row \in SourceRow,
         UNCHANGED <<sources, issued, uses, retired, closed>>
  PROVE  SourceInv'
<1>1. uses \in [Senders -> Use] /\ changes \in [Managers -> Change]
  BY DEF SourceInv, Typed
<1>2. changes' \in [Managers -> Change] /\ uses' \in [Senders -> Use]
      /\ changes'[m] = change /\ \A k \in Managers : k # m => changes'[k] = changes[k]
  BY <1>1
<1>3. \A k \in Managers : changes'[k] = changes[k] \/ changes'[k] = NoChange \/
            /\ changes'[k].kind \in {"rotate", "revoke"} /\ changes'[k].name \in DOMAIN sources
            /\ changes'[k].row \in SourceRow
  BY <1>2
<1>4. \A r \in Senders : uses'[r] = uses[r]
  OBVIOUS
<1> QED
  BY <1>2, <1>3, <1>4, KeepsSources

LEMMA SourceInvNext == SourceInv /\ [SourceNext]_sourceVars => SourceInv'
<1> SUFFICES ASSUME SourceInv, [SourceNext]_sourceVars PROVE SourceInv'
  OBVIOUS
<1>1. ASSUME NEW n \in Names, CreateSource(n) PROVE SourceInv'
  BY <1>1, KeepsCreate
<1>2. ASSUME NEW m \in Managers, NEW n \in Names, NEW kind \in {"rotate", "revoke"}, ReadSource(m, kind, n)
      PROVE  SourceInv'
  <2> DEFINE change == [kind |-> kind, name |-> n, row |-> sources[n]]
  <2>1. n \in DOMAIN sources /\ sources[n] \in SourceRow
    BY <1>2 DEF ReadSource, SourceInv, SourceTypeOK
  <2>2. change \in Change
    BY <2>1, SourceAssumption DEF Change, SourceRow
  <2>3. changes' = [changes EXCEPT ![m] = change] /\ UNCHANGED <<sources, issued, uses, retired, closed>>
    BY <1>2 DEF ReadSource
  <2> QED
    BY <2>1, <2>2, <2>3, KeepsChanges
<1>3. ASSUME NEW m \in Managers, RotateKey(m) PROVE SourceInv'
  BY <1>3, KeepsRotate
<1>4. ASSUME NEW m \in Managers, RevokeSource(m) PROVE SourceInv'
  BY <1>4, KeepsRevoke
<1>5. ASSUME NEW m \in Managers, ChangeLost(m) PROVE SourceInv'
  <2>1. NoChange \in Change
    BY DEF NoChange, NoSource, Change
  <2> QED
    BY <1>5, <2>1, KeepsChanges DEF ChangeLost, ChangeDone
<1>6. ASSUME NEW r \in Senders, NEW key \in 0..issued, SendEvents(r, key) PROVE SourceInv'
  BY <1>6, KeepsSend
<1>7. ASSUME NEW r \in Senders, Authenticate(r) PROVE SourceInv'
  BY <1>7, KeepsAuthenticate
<1>8. ASSUME NEW r \in Senders, RefuseKey(r) \/ UseDone(r) PROVE SourceInv'
  BY <1>8, KeepsDone DEF RefuseKey, UseDone
<1>9. ASSUME NEW r \in Senders, TouchSource(r) PROVE SourceInv'
  BY <1>9, KeepsTouch
<1>10. CASE UNCHANGED sourceVars
  BY <1>10 DEF sourceVars, SourceInv, SourceTypeOK, Typed, KeysApart, OutOfUse, ForGood,
               RetiredKeyRefused, SourceRow, NoChange
<1> QED
  BY <1>1, <1>2, <1>3, <1>4, <1>5, <1>6, <1>7, <1>8, <1>9, <1>10 DEF SourceNext

LEMMA SourceInvHolds == SourceSpec => []SourceInv
BY SourceInvInit, SourceInvNext, PTL DEF SourceSpec

(* The sources, the changes and the uses keep their types, and a change or  *)
(* a use under way is of a source in the table (src/src/db/sources.py). *)
THEOREM SourceTypeCorrect == SourceSpec => []SourceTypeOK
<1>1. SourceInv => SourceTypeOK
  BY DEF SourceInv
<1> QED
  BY <1>1, SourceInvHolds, PTL

(* However rotations, revocations and uses overlap, a request whose key was *)
(* replaced or whose source was closed before it came is refused            *)
(* (rotate_key, revoke_source, authenticate). *)
THEOREM RetiredKeyRefusedHolds == SourceSpec => []RetiredKeyRefused
<1>1. SourceInv => RetiredKeyRefused
  BY DEF SourceInv
<1> QED
  BY <1>1, SourceInvHolds, PTL

-----------------------------------------------------------------------------
(***************************************************************************)
(* The first administrator, and sessions.                                  *)
(***************************************************************************)

(***************************************************************************)
(* The bootstrap.                                                          *)
(***************************************************************************)
AdminInv ==
    /\ \/ accounts = {}
       \/ \E password : accounts = {password}
    /\ printed \subseteq accounts
    /\ boots \in [Processes -> {"down", "creating", "created", "up"}]
    /\ \A p \in Processes : boots[p] = "created" => accounts = {Password(p)}

LEMMA AdminInvInit == AccessInit => AdminInv
BY DEF AccessInit, AdminInv

LEMMA AdminInvNext == AdminInv /\ [AccessNext]_accessVars => AdminInv'
<1> SUFFICES ASSUME AdminInv, [AccessNext]_accessVars PROVE AdminInv'
  OBVIOUS
<1>1. ASSUME NEW p \in Processes, CheckAccount(p) \/ CreationFails(p) \/ ProcessDies(p) PROVE AdminInv'
  BY <1>1 DEF AdminInv, CheckAccount, CreationFails, ProcessDies, Password
<1>2. ASSUME NEW p \in Processes, CreateAdmin(p) PROVE AdminInv'
  <2>1. \A q \in Processes : boots[q] # "created"
    BY <1>2 DEF AdminInv, CreateAdmin
  <2>2. \A q \in Processes : boots'[q] = "created" => q = p
    BY <1>2, <2>1 DEF AdminInv, CreateAdmin
  <2>3. accounts' = {Password(p)} /\ printed' = {}
    BY <1>2 DEF AdminInv, CreateAdmin
  <2>4. boots' \in [Processes -> {"down", "creating", "created", "up"}]
    BY <1>2 DEF AdminInv, CreateAdmin
  <2> QED
    BY <2>2, <2>3, <2>4 DEF AdminInv, Password
<1>3. ASSUME NEW p \in Processes, PrintPassword(p) PROVE AdminInv'
  BY <1>3 DEF AdminInv, PrintPassword, Password
<1>4. CASE UNCHANGED <<accounts, boots, printed>>
  BY <1>4 DEF AdminInv, Password
<1>5. CASE TimePasses \/ Login
  BY <1>4, <1>5 DEF TimePasses, Login
<1>6. ASSUME NEW c \in Callers, NEW kind \in {"logout", "route"}, NEW token \in 1..opened,
             CallArrives(c, kind, token)
      PROVE  AdminInv'
  BY <1>4, <1>6 DEF CallArrives
<1>7. ASSUME NEW c \in Callers, RequireUser(c) \/ RefuseCall(c) \/ Logout(c) \/ CallDone(c)
      PROVE  AdminInv'
  BY <1>4, <1>7 DEF RequireUser, RefuseCall, Logout, CallDone
<1>8. CASE UNCHANGED accessVars
  BY <1>4, <1>8 DEF accessVars
<1> QED
  BY <1>1, <1>2, <1>3, <1>5, <1>6, <1>7, <1>8 DEF AccessNext

LEMMA AdminInvHolds == AccessSpec => []AdminInv
BY AdminInvInit, AdminInvNext, PTL DEF AccessSpec

LEMMA AdminInvOne == AdminInv => OneAdmin
<1> SUFFICES ASSUME AdminInv PROVE OneAdmin
  OBVIOUS
<1>1. Cardinality(accounts) <= 1
  <2>1. CASE accounts = {}
    BY <2>1, FS_EmptySet
  <2>2. ASSUME NEW password, accounts = {password} PROVE Cardinality(accounts) <= 1
    <3>1. Cardinality({password}) = 1
      BY FS_Singleton
    <3> QED
      BY <2>2, <3>1
  <2> QED
    BY <2>1, <2>2 DEF AdminInv
<1> QED
  BY <1>1 DEF AdminInv, OneAdmin

(* However many processes start at once, fail or die: one administrator at  *)
(* most, and a password in the log is the administrator's                   *)
(* (bootstrap_default_account). *)
THEOREM OneAdminHolds == AccessSpec => []OneAdmin
<1> QED
  BY AdminInvOne, AdminInvHolds, PTL

-----------------------------------------------------------------------------
(***************************************************************************)
(* The sessions.                                                           *)
(***************************************************************************)
CallType == [stage : {"idle", "arrived", "served"}, kind : {"none", "logout", "route"},
             token : Nat, over : BOOLEAN]

SessionType ==
    /\ clock \in Nat /\ opened \in Nat /\ DOMAIN sessions \subseteq 1..opened
    /\ \A t \in DOMAIN sessions : sessions[t] \in Nat /\ sessions[t] <= clock + Lifetime
    /\ ended \subseteq 1..opened
    /\ calls \in [Callers -> CallType] /\ \A c \in Callers : calls[c].token <= opened

(* A token that was over when a request came stays over: it is gone, or it  *)
(* has expired.  A token that was ended is gone, and none is given twice. *)
StaysOver ==
    \A c \in Callers : calls[c].over =>
        (calls[c].token \in DOMAIN sessions => Expired(calls[c].token))

SessionInv == SessionType /\ StaysOver /\ ServedInSession

LEMMA SessionInvInit == AccessInit => SessionInv
<1> SUFFICES ASSUME AccessInit PROVE SessionInv
  OBVIOUS
<1>1. DOMAIN sessions = {} /\ opened = 0 /\ clock = 0 /\ ended = {}
  BY DEF AccessInit
<1>2. NoCall \in CallType /\ NoCall.token = 0 /\ ~NoCall.over /\ NoCall.stage = "idle"
  BY DEF NoCall, CallType
<1>3. calls \in [Callers -> CallType] /\ \A c \in Callers : calls[c] = NoCall
  BY <1>2 DEF AccessInit
<1> QED
  BY <1>1, <1>2, <1>3 DEF SessionInv, SessionType, StaysOver, ServedInSession

(* Steps of one request, while sessions may only go. *)
LEMMA KeepsCall ==
  ASSUME SessionInv, NEW c \in Callers, NEW call \in CallType, calls' = [calls EXCEPT ![c] = call],
         call.token <= opened,
         call.over => (call.token \in DOMAIN sessions => Expired(call.token)),
         call.stage = "served" => ~call.over,
         DOMAIN sessions' \subseteq DOMAIN sessions,
         \A t \in DOMAIN sessions' : sessions'[t] = sessions[t],
         UNCHANGED <<clock, opened>>,
         ended' \subseteq 1..opened, ended' \cap DOMAIN sessions' = {}
  PROVE  SessionInv'
<1>1. calls' \in [Callers -> CallType] /\ calls'[c] = call /\ \A d \in Callers : d # c => calls'[d] = calls[d]
  BY DEF SessionInv, SessionType
<1>2. SessionType'
  BY <1>1 DEF SessionInv, SessionType
<1>3. StaysOver'
  BY <1>1 DEF SessionInv, StaysOver, Expired
<1>4. ServedInSession'
  BY <1>1 DEF SessionInv, ServedInSession
<1> QED
  BY <1>2, <1>3, <1>4 DEF SessionInv

LEMMA SessionInvNext == SessionInv /\ [AccessNext]_accessVars => SessionInv'
<1> SUFFICES ASSUME SessionInv, [AccessNext]_accessVars PROVE SessionInv'
  OBVIOUS
<1>1. CASE UNCHANGED <<clock, sessions, opened, calls, ended>>
  BY <1>1 DEF SessionInv, SessionType, StaysOver, ServedInSession, Expired, CallType
<1>2. ASSUME NEW p \in Processes,
             CheckAccount(p) \/ CreateAdmin(p) \/ CreationFails(p) \/ PrintPassword(p) \/ ProcessDies(p)
      PROVE  SessionInv'
  BY <1>1, <1>2 DEF CheckAccount, CreateAdmin, CreationFails, PrintPassword, ProcessDies
<1>3. CASE TimePasses
  <2>1. clock' = clock + 1 /\ UNCHANGED <<sessions, opened, calls, ended>> /\ clock \in Nat
    BY <1>3 DEF TimePasses, SessionInv, SessionType
  <2>2. SessionType'
    BY <2>1, LifetimeAssumption DEF SessionInv, SessionType, CallType
  <2>3. StaysOver'
    BY <2>1 DEF SessionInv, SessionType, StaysOver, Expired
  <2> QED
    BY <2>1, <2>2, <2>3 DEF SessionInv, ServedInSession
<1>4. CASE Login
  <2>1. /\ opened' = opened + 1 /\ UNCHANGED <<clock, calls, ended>> /\ opened \in Nat /\ clock \in Nat
        /\ DOMAIN sessions' = DOMAIN sessions \cup {opened + 1}
        /\ sessions'[opened + 1] = clock + Lifetime
        /\ opened + 1 \notin DOMAIN sessions
    BY <1>4 DEF Login, SessionInv, SessionType
  <2>2. \A t \in DOMAIN sessions : sessions'[t] = sessions[t]
    BY <1>4, <2>1 DEF Login
  <2>3. opened + 1 \notin ended /\ \A c \in Callers : calls[c].token # opened + 1
    BY <2>1 DEF SessionInv, SessionType, CallType
  <2>4. DOMAIN sessions' \subseteq 1..opened' /\ ended' \subseteq 1..opened'
    BY <2>1 DEF SessionInv, SessionType
  <2>5. \A t \in DOMAIN sessions' : sessions'[t] \in Nat /\ sessions'[t] <= clock + Lifetime
    BY <2>1, <2>2, LifetimeAssumption DEF SessionInv, SessionType
  <2>6. \A c \in Callers : calls[c].token <= opened'
    BY <2>1 DEF SessionInv, SessionType, CallType
  <2>7. SessionType'
    BY <2>1, <2>4, <2>5, <2>6 DEF SessionInv, SessionType, CallType
  <2>8. StaysOver'
    BY <2>1, <2>2, <2>3 DEF SessionInv, StaysOver, Expired
  <2> QED
    BY <2>1, <2>3, <2>7, <2>8 DEF SessionInv, ServedInSession
<1>5. ASSUME NEW c \in Callers, NEW kind \in {"logout", "route"}, NEW token \in 1..opened,
             CallArrives(c, kind, token)
      PROVE  SessionInv'
  <2> DEFINE over == token \in ended \/ token \in {t \in DOMAIN sessions : Expired(t)}
             call == [stage |-> "arrived", kind |-> kind, token |-> token, over |-> over]
  <2>1. calls' = [calls EXCEPT ![c] = call] /\ UNCHANGED <<clock, sessions, opened, ended>>
    BY <1>5 DEF CallArrives
  <2>2. over => (token \in DOMAIN sessions => Expired(token))
    BY DEF SessionInv, ServedInSession
  <2>3. over \in BOOLEAN /\ token \in Nat /\ token <= opened
    BY DEF SessionInv, SessionType
  <2> HIDE DEF over
  <2>4. call \in CallType
    BY <2>3 DEF CallType
  <2>5. call.token = token /\ call.stage = "arrived"
    OBVIOUS
  <2>6. call.over => over
    OBVIOUS
  <2>7. ended' \subseteq 1..opened /\ ended' \cap DOMAIN sessions' = {}
    BY <2>1 DEF SessionInv, SessionType, ServedInSession
  <2> HIDE DEF call
  <2> QED
    BY <2>1, <2>2, <2>3, <2>4, <2>5, <2>6, <2>7, KeepsCall
<1>6. ASSUME NEW c \in Callers, RequireUser(c) PROVE SessionInv'
  <2> DEFINE call == [calls[c] EXCEPT !.stage = "served"]
  <2>1. calls[c] \in CallType /\ calls[c].token <= opened
    BY DEF SessionInv, SessionType
  <2>2. /\ call \in CallType /\ call.token = calls[c].token /\ call.over = calls[c].over
    BY <2>1 DEF CallType
  <2>3. ~calls[c].over
    BY <1>6 DEF RequireUser, SessionInv, StaysOver
  <2>4. calls' = [calls EXCEPT ![c] = call] /\ UNCHANGED <<clock, sessions, opened, ended>>
    BY <1>6 DEF RequireUser
  <2>5. ended' \subseteq 1..opened /\ ended' \cap DOMAIN sessions' = {}
    BY <2>4 DEF SessionInv, SessionType, ServedInSession
  <2> HIDE DEF call
  <2> QED
    BY <2>1, <2>2, <2>3, <2>4, <2>5, KeepsCall
<1>7. NoCall \in CallType /\ NoCall.token = 0 /\ ~NoCall.over /\ 0 <= opened
  BY DEF NoCall, CallType, SessionInv, SessionType
<1>8. ASSUME NEW c \in Callers, RefuseCall(c) PROVE SessionInv'
  <2>1. /\ calls' = [calls EXCEPT ![c] = NoCall] /\ UNCHANGED <<clock, opened, ended>>
        /\ DOMAIN sessions' = DOMAIN sessions \ {calls[c].token}
        /\ \A t \in DOMAIN sessions' : sessions'[t] = sessions[t]
    BY <1>8 DEF RefuseCall
  <2>2. ended' \subseteq 1..opened /\ ended' \cap DOMAIN sessions' = {}
    BY <2>1 DEF SessionInv, SessionType, ServedInSession
  <2> QED
    BY <1>7, <2>1, <2>2, KeepsCall
<1>9. ASSUME NEW c \in Callers, Logout(c) PROVE SessionInv'
  <2>1. /\ calls' = [calls EXCEPT ![c] = NoCall] /\ UNCHANGED <<clock, opened>>
        /\ DOMAIN sessions' = {} /\ ended' = ended \cup DOMAIN sessions
    BY <1>9 DEF Logout
  <2>2. ended' \subseteq 1..opened /\ ended' \cap DOMAIN sessions' = {}
    BY <2>1 DEF SessionInv, SessionType
  <2> QED
    BY <1>7, <2>1, <2>2, KeepsCall
<1>10. ASSUME NEW c \in Callers, CallDone(c) PROVE SessionInv'
  <2>1. calls' = [calls EXCEPT ![c] = NoCall] /\ UNCHANGED <<clock, sessions, opened, ended>>
    BY <1>10 DEF CallDone
  <2>2. ended' \subseteq 1..opened /\ ended' \cap DOMAIN sessions' = {}
    BY <2>1 DEF SessionInv, SessionType, ServedInSession
  <2> QED
    BY <1>7, <2>1, <2>2, KeepsCall
<1>11. CASE UNCHANGED accessVars
  BY <1>1, <1>11 DEF accessVars
<1> QED
  BY <1>2, <1>3, <1>4, <1>5, <1>6, <1>8, <1>9, <1>10, <1>11 DEF AccessNext

LEMMA SessionInvHolds == AccessSpec => []SessionInv
BY SessionInvInit, SessionInvNext, PTL DEF AccessSpec

(* However requests, log-outs on other devices and the clock overlap: no    *)
(* request is served whose session was over when it came (require_user,     *)
(* logout). *)
THEOREM ServedInSessionHolds == AccessSpec => []ServedInSession
<1>1. SessionInv => ServedInSession
  BY DEF SessionInv
<1> QED
  BY <1>1, SessionInvHolds, PTL

-----------------------------------------------------------------------------
(***************************************************************************)
(* Types and bounds of both.                                               *)
(***************************************************************************)
AccessInv == AdminInv /\ SessionInv /\ clock <= MaxTime /\ opened <= MaxTokens

LEMMA AccessInvInit == AccessInit => AccessInv
BY AdminInvInit, SessionInvInit, LifetimeAssumption DEF AccessInit, AccessInv

LEMMA AccessInvNext == AccessInv /\ [AccessNext]_accessVars => AccessInv'
<1> SUFFICES ASSUME AccessInv, [AccessNext]_accessVars PROVE AccessInv'
  OBVIOUS
<1>1. AdminInv' /\ SessionInv'
  BY AdminInvNext, SessionInvNext DEF AccessInv
<1>2. clock \in Nat /\ opened \in Nat /\ clock <= MaxTime /\ opened <= MaxTokens
  BY DEF AccessInv, SessionInv, SessionType
<1>3. ASSUME UNCHANGED <<clock, opened>> PROVE AccessInv'
  BY <1>1, <1>2, <1>3 DEF AccessInv
<1>4. CASE TimePasses \/ Login
  BY <1>1, <1>2, <1>4, LifetimeAssumption DEF TimePasses, Login, AccessInv
<1>5. ASSUME NEW p \in Processes,
             CheckAccount(p) \/ CreateAdmin(p) \/ CreationFails(p) \/ PrintPassword(p) \/ ProcessDies(p)
      PROVE  AccessInv'
  BY <1>3, <1>5 DEF CheckAccount, CreateAdmin, CreationFails, PrintPassword, ProcessDies
<1>6. ASSUME NEW c \in Callers,
             \/ \E kind \in {"logout", "route"}, token \in 1..opened : CallArrives(c, kind, token)
             \/ RequireUser(c) \/ RefuseCall(c) \/ Logout(c) \/ CallDone(c)
      PROVE  AccessInv'
  BY <1>3, <1>6 DEF CallArrives, RequireUser, RefuseCall, Logout, CallDone
<1>7. CASE UNCHANGED accessVars
  BY <1>3, <1>7 DEF accessVars
<1> QED
  BY <1>4, <1>5, <1>6, <1>7 DEF AccessNext

LEMMA AccessInvType == AccessInv => AccessTypeOK
<1> SUFFICES ASSUME AccessInv PROVE AccessTypeOK
  OBVIOUS
<1>1. AdminInv /\ SessionType /\ clock <= MaxTime /\ opened <= MaxTokens
  BY DEF AccessInv, SessionInv
<1>2. \A p \in Processes : boots[p] \in {"down", "creating", "created", "up"}
  BY <1>1 DEF AdminInv
<1>3. clock \in 0..MaxTime /\ opened \in 0..MaxTokens
  BY <1>1, LifetimeAssumption DEF SessionType
<1>4. \A t \in DOMAIN sessions : sessions[t] \in 0..(clock + Lifetime)
  BY <1>1, <1>3, LifetimeAssumption DEF SessionType
<1>5. \A c \in Callers : calls[c].stage \in {"idle", "arrived", "served"} /\ calls[c].over \in BOOLEAN
  BY <1>1 DEF SessionType, CallType
<1> QED
  BY <1>1, <1>2, <1>3, <1>4, <1>5 DEF AccessTypeOK, SessionType

-----------------------------------------------------------------------------
(***************************************************************************)
(* The scan of the logs.                                                   *)
(***************************************************************************)

Blocks == [places : SUBSET Nat, lines : 1..MaxBlock]
ScanStates == {s \in [blocks : Seq(Blocks), open : BOOLEAN] : s.open => s.blocks # << >>}
Covers(blocks) == UNION {blocks[k].places : k \in DOMAIN blocks}

LEMMA ToSetOfSeq == ASSUME NEW S, NEW s \in Seq(S) PROVE ToSet(s) \subseteq S /\ DOMAIN s = 1..Len(s) /\ Len(s) \in Nat
BY DEF ToSet

(* One line: what is covered stays so, and an error line is covered.        *)
LEMMA ScanLineCovers ==
  ASSUME NEW scan \in ScanStates, NEW line, line.places \subseteq Nat
  PROVE  /\ ScanLine(scan, line) \in ScanStates
         /\ Covers(scan.blocks) \subseteq Covers(ScanLine(scan, line).blocks)
         /\ Covers(ScanLine(scan, line).blocks) \subseteq Covers(scan.blocks) \cup line.places
         /\ IsErrorSignal(line) => line.places \subseteq Covers(ScanLine(scan, line).blocks)
<1> DEFINE last == Len(scan.blocks)
           blocks == scan.blocks
           new == ScanLine(scan, line)
           extends == scan.open /\ blocks[last].lines < MaxBlock /\ (LooksLikeContinuation(line) \/ Blank(line))
<1>1. blocks \in Seq(Blocks) /\ scan.open \in BOOLEAN /\ (scan.open => blocks # << >>)
      /\ last \in Nat /\ DOMAIN blocks = 1..last
  BY DEF ScanStates
<1>2. CASE extends
  <2>1. last \in 1..last /\ blocks[last] \in Blocks
    BY <1>1, <1>2
  <2>2. new = [scan EXCEPT !.blocks[last] = Extended(@, line)]
    BY <1>2 DEF ScanLine
  <2> DEFINE longer == Extended(blocks[last], line)
  <2>3. longer.places = blocks[last].places \cup line.places /\ longer.lines = blocks[last].lines + 1
    BY DEF Extended
  <2>4. longer \in Blocks
    <3>1. blocks[last].lines \in 1..MaxBlock /\ blocks[last].lines < MaxBlock /\ blocks[last].places \subseteq Nat
      BY <1>2, <2>1 DEF Blocks
    <3>2. blocks[last].lines + 1 \in 1..MaxBlock
      BY <3>1, LogAssumption
    <3> QED
      BY <3>1, <3>2 DEF Extended, Blocks
  <2> HIDE DEF longer
  <2>5. new.blocks = [blocks EXCEPT ![last] = longer] /\ new.open = scan.open
    BY <2>2 DEF ScanStates, longer
  <2>6. new.blocks \in Seq(Blocks) /\ DOMAIN new.blocks = 1..last /\ new.blocks # << >>
        /\ new.blocks[last] = longer /\ \A k \in 1..last : k # last => new.blocks[k] = blocks[k]
    BY <1>1, <2>1, <2>4, <2>5
  <2>7. new = [blocks |-> new.blocks, open |-> new.open]
    BY <2>2 DEF ScanStates
  <2>8. new \in ScanStates
    BY <1>1, <2>5, <2>6, <2>7 DEF ScanStates
  <2> HIDE DEF new, blocks, last
  <2>9. \A k \in 1..last : blocks[k].places \subseteq new.blocks[k].places
                           /\ new.blocks[k].places \subseteq blocks[k].places \cup line.places
    BY <2>3, <2>6
  <2>10. line.places \subseteq new.blocks[last].places
    BY <2>3, <2>6
  <2>11. /\ Covers(blocks) \subseteq Covers(new.blocks)
         /\ Covers(new.blocks) \subseteq Covers(blocks) \cup line.places
         /\ line.places \subseteq Covers(new.blocks)
    BY <1>1, <2>1, <2>6, <2>9, <2>10 DEF Covers
  <2> QED
    BY <2>8, <2>11 DEF new, blocks
<1>3. CASE ~extends /\ IsErrorSignal(line)
  <2>1. new.blocks = Append(blocks, Block(line)) /\ new = [blocks |-> new.blocks, open |-> TRUE]
    BY <1>3 DEF ScanLine
  <2>2. Block(line) \in Blocks /\ Block(line).places = line.places
    BY LogAssumption DEF Block, Blocks
  <2>3. new.blocks \in Seq(Blocks) /\ new.blocks # << >> /\ DOMAIN new.blocks = 1..(last + 1)
        /\ new.blocks[last + 1] = Block(line) /\ \A k \in 1..last : new.blocks[k] = blocks[k]
    BY <1>1, <2>1, <2>2
  <2> HIDE DEF new, blocks, last
  <2>4. new \in ScanStates
    <3>1. new.open = TRUE
      BY <2>1
    <3> QED
      BY <2>1, <2>3, <3>1 DEF ScanStates
  <2>5. /\ Covers(blocks) \subseteq Covers(new.blocks)
        /\ Covers(new.blocks) \subseteq Covers(blocks) \cup line.places
        /\ line.places \subseteq Covers(new.blocks)
    <3>1. last + 1 \in DOMAIN new.blocks /\ DOMAIN blocks \subseteq DOMAIN new.blocks
      BY <1>1, <2>3
    <3>2. \A k \in DOMAIN new.blocks : k = last + 1 \/ k \in DOMAIN blocks
      BY <1>1, <2>3
    <3> QED
      BY <1>1, <2>2, <2>3, <3>1, <3>2 DEF Covers
  <2> QED
    BY <2>4, <2>5 DEF new, blocks
<1>4. CASE ~extends /\ ~IsErrorSignal(line)
  <2>1. new = [scan EXCEPT !.open = FALSE]
    BY <1>4 DEF ScanLine
  <2>2. new \in ScanStates /\ new.blocks = blocks
    BY <1>1, <2>1 DEF ScanStates
  <2> QED
    BY <1>4, <2>2
<1> QED
  BY <1>2, <1>3, <1>4

LEMMA LineBegins ==
  ASSUME logFile \in Seq(Symbols), NEW position \in 0..Len(logFile), NEW i \in (position + 1)..Len(logFile)
  PROVE  \E first \in (position + 1)..i :
            /\ LineTo(position, i) = Line(first, i)
            /\ first = position + 1 \/ logFile[first - 1] = "nl"
<1> DEFINE M == {position} \cup {k \in (position + 1)..(i - 1) : logFile[k] = "nl"}
<1>1. i \in Nat /\ position \in Nat /\ position < i /\ Len(logFile) \in Nat
  OBVIOUS
<1>2. M \subseteq 0..i /\ M # {}
  BY <1>1
<1>3. Max(M) \in M
  <2> HIDE DEF M
  <2> QED
    BY <1>1, <1>2, Greatest
<1> DEFINE m == Max(M)
<1>4. m \in position..(i - 1) /\ (m = position \/ logFile[m] = "nl")
  BY <1>1, <1>3
<1>5. LineTo(position, i) = Line(m + 1, i)
  BY DEF LineTo
<1> HIDE DEF m
<1>6. m + 1 \in (position + 1)..i /\ (m + 1) - 1 = m
  BY <1>1, <1>4
<1> QED
  BY <1>4, <1>5, <1>6

(* The scan is defined, and goes from line to line. *)
LEMMA ScannedSteps ==
  ASSUME logFile \in Seq(Symbols), NEW position \in 0..Len(logFile)
  PROVE  /\ Scanned(position) \in [0..Len(logFile) -> ScanStates]
         /\ Scanned(position) =
               [i \in 0..Len(logFile) |->
                   IF i <= position THEN NoScan
                   ELSE IF EndsLine(i) THEN ScanLine(Scanned(position)[i - 1], LineTo(position, i))
                   ELSE Scanned(position)[i - 1]]
<1> DEFINE n == Len(logFile)
           Next(i, scan) == IF i <= position THEN NoScan
                            ELSE IF EndsLine(i) THEN ScanLine(scan, LineTo(position, i)) ELSE scan
           step == [i \in 1..n |-> [scan \in ScanStates |-> Next(i, scan)]]
<1>1. n \in Nat /\ NoScan \in ScanStates
  BY DEF NoScan, ScanStates
<1>2. ASSUME NEW i \in 1..n, NEW scan \in ScanStates PROVE Next(i, scan) \in ScanStates
  <2>1. CASE i <= position
    BY <1>1, <2>1
  <2>2. CASE ~(i <= position)
    <3>1. i \in (position + 1)..Len(logFile)
      BY <2>2
    <3>2. PICK first \in (position + 1)..i : LineTo(position, i) = Line(first, i)
      BY <3>1, LineBegins
    <3>3. LineTo(position, i).places \subseteq Nat
      BY <3>1, <3>2 DEF Line
    <3>4. ScanLine(scan, LineTo(position, i)) \in ScanStates
      BY <3>3, ScanLineCovers
    <3> QED
      BY <1>2, <2>2, <3>4
  <2> QED
    BY <2>1, <2>2
<1> HIDE DEF Next
<1>3. step \in [1..n -> [ScanStates -> ScanStates]]
  BY <1>2
<1>4. PICK f : Runs(n, ScanStates, NoScan, step, f)
  <2> HIDE DEF step, n
  <2> QED
    BY <1>1, <1>3, RecursionExists
<1>11. f \in [0..n -> ScanStates] /\ f[0] = NoScan /\ \A i \in 1..n : f[i] = step[i][f[i - 1]]
  BY <1>4 DEF Runs
<1> HIDE DEF n, step
<1>5. \A i \in 0..n : f[i] = Next(i, f[i - 1])
  <2> SUFFICES ASSUME NEW i \in 0..n PROVE f[i] = Next(i, f[i - 1])
    OBVIOUS
  <2>1. CASE i = 0
    <3>1. f[0] = NoScan
      BY <1>11
    <3>2. Next(0, f[0 - 1]) = NoScan
      BY <1>1 DEF Next
    <3> QED
      BY <2>1, <3>1, <3>2
  <2>2. CASE i # 0
    <3>1. i \in 1..n /\ i - 1 \in 0..n
      BY <1>1, <2>2
    <3>3. f[i - 1] \in ScanStates
      BY <1>11, <3>1
    <3>2. f[i] = step[i][f[i - 1]]
      BY <1>11, <3>1
    <3> QED
      BY <3>1, <3>2, <3>3 DEF step
  <2> QED
    BY <2>1, <2>2
<1>6. f = [i \in 0..n |-> Next(i, f[i - 1])]
  BY <1>5, <1>11
<1> DEFINE scanned == Scanned(position)
<1>7. scanned = CHOOSE scan : scan = [i \in 0..n |-> Next(i, scan[i - 1])]
  BY DEF Scanned, Next, n
<1> HIDE DEF scanned
<1>8. scanned = [i \in 0..n |-> Next(i, scanned[i - 1])]
  BY <1>6, <1>7
<1>9. \A i \in 0..n : scanned[i] \in ScanStates
  <2> DEFINE S == {i \in 0..n : scanned[i] \in ScanStates}
  <2>1. 0 \in S
    BY <1>1, <1>8 DEF Next
  <2>2. ASSUME NEW i \in 0..(n - 1), i \in S PROVE i + 1 \in S
    <3>1. i + 1 \in 1..n /\ (i + 1) - 1 = i /\ i + 1 \in 0..n /\ scanned[i] \in ScanStates
      BY <1>1, <2>2
    <3>2. scanned[i + 1] = Next(i + 1, scanned[i])
      BY <1>8, <3>1
    <3> QED
      BY <1>2, <3>1, <3>2
  <2> HIDE DEF S
  <2>3. 0..n \subseteq S
    BY <1>1, <2>1, <2>2, InductTo
  <2> QED
    BY <2>3 DEF S
<1>10. scanned \in [0..n -> ScanStates]
  BY <1>8, <1>9
<1> QED
  BY <1>8, <1>10 DEF scanned, n, Next

LEMMA ScannedCovers ==
  ASSUME logFile \in Seq(Symbols), NEW position \in 0..Len(logFile)
  PROVE  /\ Incidents(position) \in Seq(Blocks)
         /\ Covers(Incidents(position)) \subseteq (position + 1)..Len(logFile)
         /\ \A e \in (position + 1)..Len(logFile) :
               logFile[e] = "exc" \/ ErrorAt(logFile, e) => e \in Covers(Incidents(position))
<1> DEFINE n == Len(logFile)
           scanned == Scanned(position)
<1>1. n \in Nat /\ position \in 0..n /\ position \in Nat
  OBVIOUS
<1>2. scanned \in [0..n -> ScanStates]
  BY ScannedSteps
<1>3. \A i \in 0..n : scanned[i] = IF i <= position THEN NoScan
                                   ELSE IF EndsLine(i) THEN ScanLine(scanned[i - 1], LineTo(position, i))
                                   ELSE scanned[i - 1]
  BY ScannedSteps
<1> HIDE DEF scanned
<1>4. ASSUME NEW i \in (position + 1)..n
      PROVE  /\ LineTo(position, i).places \subseteq (position + 1)..i
             /\ Covers(scanned[i - 1].blocks) \subseteq Covers(scanned[i].blocks)
             /\ Covers(scanned[i].blocks) \subseteq Covers(scanned[i - 1].blocks) \cup (position + 1)..i
             /\ EndsLine(i) /\ IsErrorSignal(LineTo(position, i)) =>
                   LineTo(position, i).places \subseteq Covers(scanned[i].blocks)
  <2>1. PICK first \in (position + 1)..i : LineTo(position, i) = Line(first, i)
    BY LineBegins
  <2>2. LineTo(position, i).places \subseteq (position + 1)..i /\ LineTo(position, i).places \subseteq Nat
    BY <1>1, <2>1 DEF Line
  <2>3. i \in 0..n /\ i - 1 \in 0..n /\ ~(i <= position)
    BY <1>1
  <2>4. scanned[i - 1] \in ScanStates
    BY <1>2, <2>3
  <2>5. CASE EndsLine(i)
    <3>1. scanned[i] = ScanLine(scanned[i - 1], LineTo(position, i))
      BY <1>3, <2>3, <2>5
    <3>2. /\ Covers(scanned[i - 1].blocks) \subseteq Covers(scanned[i].blocks)
          /\ Covers(scanned[i].blocks) \subseteq Covers(scanned[i - 1].blocks) \cup LineTo(position, i).places
          /\ IsErrorSignal(LineTo(position, i)) =>
                LineTo(position, i).places \subseteq Covers(scanned[i].blocks)
      BY <2>2, <2>4, <3>1, ScanLineCovers
    <3> QED
      BY <2>2, <3>2
  <2>6. CASE ~EndsLine(i)
    <3>1. scanned[i] = scanned[i - 1]
      BY <1>3, <2>3, <2>6
    <3> QED
      BY <2>2, <2>6, <3>1
  <2> QED
    BY <2>5, <2>6
<1>5. Covers(NoScan.blocks) = {}
  BY DEF NoScan, Covers
<1>6. \A i \in 0..n : Covers(scanned[i].blocks) \subseteq (position + 1)..n
  <2> DEFINE S == {i \in 0..n : Covers(scanned[i].blocks) \subseteq (position + 1)..n}
  <2>1. 0 \in S
    <3>1. 0 \in 0..n /\ scanned[0] = NoScan
      BY <1>1, <1>3
    <3> QED
      BY <1>5, <3>1
  <2>2. ASSUME NEW i \in 0..(n - 1), i \in S PROVE i + 1 \in S
    <3>1. i + 1 \in 0..n /\ (i + 1) - 1 = i
      BY <1>1
    <3>2. CASE i + 1 <= position
      BY <1>3, <1>5, <3>1, <3>2
    <3>3. CASE ~(i + 1 <= position)
      <4>1. i + 1 \in (position + 1)..n
        BY <1>1, <3>1, <3>3
      <4>2. Covers(scanned[i + 1].blocks) \subseteq Covers(scanned[i].blocks) \cup (position + 1)..(i + 1)
        BY <1>4, <3>1, <4>1
      <4>3. (position + 1)..(i + 1) \subseteq (position + 1)..n
        BY <1>1, <4>1
      <4> QED
        BY <2>2, <3>1, <4>2, <4>3
    <3> QED
      BY <3>2, <3>3
  <2> HIDE DEF S
  <2>3. 0..n \subseteq S
    BY <1>1, <2>1, <2>2, InductTo
  <2> QED
    BY <2>3 DEF S
<1>7. ASSUME NEW i \in (position + 1)..n, NEW places, places \subseteq Covers(scanned[i].blocks)
      PROVE  places \subseteq Covers(scanned[n].blocks)
  <2> DEFINE S == {k \in 0..n : i <= k => places \subseteq Covers(scanned[k].blocks)}
  <2>1. 0 \in S
    BY <1>1
  <2>2. ASSUME NEW k \in 0..(n - 1), k \in S PROVE k + 1 \in S
    <3>1. k + 1 \in 0..n /\ (k + 1) - 1 = k
      BY <1>1
    <3>2. CASE i <= k
      <4>1. k + 1 \in (position + 1)..n
        BY <1>1, <3>2
      <4>2. Covers(scanned[k].blocks) \subseteq Covers(scanned[k + 1].blocks)
        BY <1>4, <3>1, <4>1
      <4> QED
        BY <2>2, <3>1, <3>2, <4>2
    <3>3. CASE i = k + 1
      BY <1>7, <3>1, <3>3
    <3>4. CASE k + 1 < i
      BY <3>1, <3>4
    <3> QED
      BY <1>1, <3>2, <3>3, <3>4
  <2> HIDE DEF S
  <2>3. 0..n \subseteq S
    BY <1>1, <2>1, <2>2, InductTo
  <2>4. n \in S
    BY <1>1, <2>3
  <2> QED
    BY <1>1, <2>4 DEF S
<1>8. ASSUME NEW e \in (position + 1)..n, logFile[e] = "exc" \/ ErrorAt(logFile, e)
      PROVE  e \in Covers(scanned[n].blocks)
  <2> DEFINE T == {i \in e..n : EndsLine(i)}
  <2>1. T \subseteq Nat /\ n \in T
    BY <1>1 DEF EndsLine
  <2>2. PICK i \in T : \A k \in T : i <= k
    <3> HIDE DEF T
    <3> QED
      BY <2>1, Least
  <2>3. i \in (position + 1)..n /\ e <= i /\ EndsLine(i)
    BY <1>1, <2>2
  <2>4. PICK first \in (position + 1)..i :
           /\ LineTo(position, i) = Line(first, i)
           /\ first = position + 1 \/ logFile[first - 1] = "nl"
    BY <2>3, LineBegins
  <2>5. first <= e
    <3> SUFFICES ASSUME ~(first <= e) PROVE FALSE
      OBVIOUS
    <3>1. first # position + 1 /\ first - 1 \in e..n /\ logFile[first - 1] = "nl"
      BY <1>1, <2>3, <2>4
    <3>2. first - 1 \in T /\ first - 1 < i
      BY <1>1, <2>3, <2>4, <3>1 DEF EndsLine
    <3>3. i <= first - 1
      BY <2>2, <3>2
    <3> QED
      BY <1>1, <2>3, <2>4, <3>2, <3>3
  <2>6. e \in LineTo(position, i).places
    BY <1>1, <2>3, <2>4, <2>5 DEF Line
  <2>7. IsErrorSignal(LineTo(position, i))
    <3> DEFINE text == SubSeq(logFile, first, i)
               k == e - first + 1
    <3>1. first \in 1..n /\ i \in first..n /\ e \in first..i
      BY <1>1, <2>3, <2>4, <2>5
    <3>2. /\ DOMAIN text = 1..(i - first + 1) /\ Len(text) = i - first + 1
          /\ \A j \in 1..(i - first + 1) : text[j] = logFile[first + j - 1]
      BY <1>1, <3>1
    <3>3. k \in 1..(i - first + 1) /\ first + k - 1 = e /\ first + (k + 1) - 1 = e + 1
      BY <3>1
    <3>4. text[k] = logFile[e] /\ k \in DOMAIN text
      BY <3>2, <3>3
    <3>5. ErrorAt(logFile, e) => e < i
      <4> SUFFICES ASSUME ErrorAt(logFile, e), ~(e < i) PROVE FALSE
        OBVIOUS
      <4>1. i = e
        BY <1>1, <2>3
      <4> QED
        BY <1>1, <2>3, <4>1 DEF ErrorAt, EndsLine
    <3>6. ErrorAt(logFile, e) => ErrorAt(text, k)
      <4> SUFFICES ASSUME ErrorAt(logFile, e) PROVE ErrorAt(text, k)
        OBVIOUS
      <4>1. k < Len(text) /\ k + 1 \in 1..(i - first + 1)
        BY <3>1, <3>2, <3>3, <3>5
      <4>2. text[k + 1] = logFile[e + 1]
        BY <3>2, <3>3, <4>1
      <4> HIDE DEF text, k
      <4> QED
        BY <3>4, <4>1, <4>2 DEF ErrorAt
    <3> HIDE DEF k
    <3>7. \E j \in DOMAIN text : text[j] = "exc" \/ ErrorAt(text, j)
      <4> HIDE DEF text
      <4> QED
        BY <1>8, <3>4, <3>6
    <3> QED
      BY <2>4, <3>7 DEF IsErrorSignal, Line
  <2>8. LineTo(position, i).places \subseteq Covers(scanned[i].blocks)
    BY <1>4, <2>3, <2>7
  <2> QED
    BY <1>7, <2>3, <2>6, <2>8
<1>9. n \in 0..n /\ Incidents(position) = scanned[n].blocks
  BY <1>1 DEF Incidents, scanned
<1>10. Incidents(position) \in Seq(Blocks)
  BY <1>2, <1>9 DEF ScanStates
<1> QED
  BY <1>6, <1>8, <1>9, <1>10

-----------------------------------------------------------------------------
(* What is found, analysed, handled and silenced is in the file as it is.   *)
ScanTyped ==
    /\ logFile \in Seq(Symbols) /\ Len(logFile) <= MaxLog /\ cursor \in 0..MaxLog /\ from \in 0..cursor
    /\ truncated \in BOOLEAN /\ found \in Seq(Blocks) /\ current \in Seq(Blocks) /\ Len(current) <= 1
    /\ handled \subseteq 1..Len(logFile) /\ Awaited \subseteq 1..Len(logFile)
    /\ silenced \subseteq 1..Len(logFile) /\ halves \subseteq 1..Len(logFile)
    /\ ~truncated => cursor <= Len(logFile)

(* The word that a scan cut in two is known. *)
CutKnown == ~truncated /\ from < cursor /\ logFile[cursor] = "er" => cursor \in halves

ScanInv == ScanTyped /\ CutKnown /\ ErrorsReadAreTaken

LEMMA ScanInvInit == ScanInit => ScanInv
<1> SUFFICES ASSUME ScanInit PROVE ScanInv
  OBVIOUS
<1>1. ToSet(found) = {} /\ ToSet(current) = {} /\ Len(logFile) = 0
  BY DEF ScanInit, ToSet
<1>2. Awaited = {}
  BY <1>1 DEF Awaited
<1>3. logFile \in Seq(Symbols) /\ found \in Seq(Blocks) /\ current \in Seq(Blocks) /\ Len(current) = 0
  BY DEF ScanInit
<1>4. cursor = 0 /\ from = 0 /\ truncated = FALSE /\ handled = {} /\ silenced = {} /\ halves = {}
  BY DEF ScanInit
<1>5. ScanTyped
  <2>1. 0 \in 0..MaxLog /\ 0 \in 0..0
    BY LogAssumption
  <2>2. Len(logFile) <= MaxLog /\ cursor \in 0..MaxLog /\ from \in 0..cursor /\ Len(current) <= 1
    BY <1>1, <1>3, <1>4, <2>1, LogAssumption
  <2> QED
    <3>1. truncated \in BOOLEAN
      BY <1>4
    <3>2. /\ handled \subseteq 1..Len(logFile) /\ Awaited \subseteq 1..Len(logFile)
          /\ silenced \subseteq 1..Len(logFile) /\ halves \subseteq 1..Len(logFile)
      BY <1>2, <1>4
    <3>3. cursor <= Len(logFile)
      BY <1>1, <1>4
    <3> QED
      BY <1>3, <2>2, <3>1, <3>2, <3>3 DEF ScanTyped
<1>6. CutKnown
  BY <1>4 DEF CutKnown
<1>7. ErrorsReadAreTaken
  BY DEF ErrorsReadAreTaken, ScanInit
<1> QED
  BY <1>5, <1>6, <1>7 DEF ScanInv

LEMMA ScanKeepsWrite ==
  ASSUME ScanInv, NEW piece \in Pieces, WriteLog(piece)
  PROVE  ScanInv'
<1>1. /\ piece \in Seq(Symbols) /\ Len(logFile) + Len(piece) <= MaxLog /\ logFile' = logFile \o piece
      /\ UNCHANGED <<cursor, from, truncated, found, current, handled, silenced, halves>>
  BY LogAssumption DEF WriteLog
<1>2. logFile \in Seq(Symbols) /\ Len(logFile) \in Nat /\ Len(piece) \in Nat /\ DOMAIN logFile = 1..Len(logFile)
  BY <1>1 DEF ScanInv, ScanTyped
<1>3. /\ logFile' \in Seq(Symbols) /\ Len(logFile') = Len(logFile) + Len(piece)
      /\ DOMAIN logFile' = 1..(Len(logFile) + Len(piece))
      /\ \A i \in 1..Len(logFile) : logFile'[i] = logFile[i]
  <2>1. logFile' = logFile \o piece /\ piece \in Seq(Symbols) /\ logFile \in Seq(Symbols)
    BY <1>1, <1>2
  <2> QED
    BY ONLY <1>2, <2>1
<1>4. 1..Len(logFile) \subseteq 1..Len(logFile') /\ Len(logFile) <= Len(logFile')
  BY <1>2, <1>3
<1>5. Awaited' = Awaited
  BY <1>1 DEF Awaited
<1>6. ScanTyped'
  BY <1>1, <1>3, <1>4, <1>5, LogAssumption DEF ScanInv, ScanTyped
<1>8. ~truncated => cursor <= Len(logFile) /\ cursor \in Nat /\ from \in Nat
  BY LogAssumption DEF ScanInv, ScanTyped
<1>9. CutKnown'
  <2> SUFFICES ASSUME ~truncated, from < cursor, logFile'[cursor] = "er" PROVE cursor \in halves
    BY <1>1 DEF CutKnown
  <2>1. cursor \in 1..Len(logFile)
    BY <1>2, <1>8
  <2> QED
    BY <1>3, <2>1 DEF ScanInv, CutKnown
<1>7. ErrorsReadAreTaken'
  <2> SUFFICES ASSUME ~truncated, NEW i \in DOMAIN logFile', ReadWhole(i)'
               PROVE  i \in handled \cup Awaited \cup silenced
    BY <1>1, <1>5 DEF ErrorsReadAreTaken
  <2>1. from < i /\ i <= cursor /\ i \in Nat /\ cursor <= Len(logFile)
    BY <1>1, <1>2, <1>3, <1>8 DEF ReadWhole
  <2>2. i \in 1..Len(logFile) /\ logFile'[i] = logFile[i]
    BY <1>2, <1>3, <1>8, <2>1
  <2>3. ErrorAt(logFile', i) /\ i < cursor => ErrorAt(logFile, i)
    <3> SUFFICES ASSUME ErrorAt(logFile', i), i < cursor PROVE ErrorAt(logFile, i)
      OBVIOUS
    <3>1. i + 1 \in 1..Len(logFile) /\ i < Len(logFile)
      BY <1>2, <1>8, <2>2
    <3>2. logFile'[i + 1] = logFile[i + 1]
      BY <1>3, <3>1
    <3> QED
      BY <2>2, <3>1, <3>2 DEF ErrorAt
  <2>4. ReadWhole(i)
    BY <1>1, <2>1, <2>2, <2>3 DEF ReadWhole
  <2> QED
    BY <1>2, <2>2, <2>4 DEF ScanInv, ErrorsReadAreTaken
<1> QED
  BY <1>6, <1>7, <1>9 DEF ScanInv

LEMMA ElsewhereBlocks ==
  ASSUME NEW blocks \in Seq(Blocks)
  PROVE  /\ Elsewhere(blocks) \in Seq(Blocks) /\ Len(Elsewhere(blocks)) = Len(blocks)
         /\ \A b \in ToSet(Elsewhere(blocks)) : b.places = {}
<1>1. DOMAIN blocks = 1..Len(blocks) /\ Len(blocks) \in Nat
  OBVIOUS
<1>2. \A i \in 1..Len(blocks) : [blocks[i] EXCEPT !.places = {}] \in Blocks
                                /\ [blocks[i] EXCEPT !.places = {}].places = {}
  <2> TAKE i \in 1..Len(blocks)
  <2>1. blocks[i] \in Blocks
    BY <1>1
  <2> QED
    BY <2>1 DEF Blocks
<1>3. Elsewhere(blocks) = [i \in 1..Len(blocks) |-> [blocks[i] EXCEPT !.places = {}]]
  BY <1>1 DEF Elsewhere
<1>4. Elsewhere(blocks) \in Seq(Blocks) /\ Len(Elsewhere(blocks)) = Len(blocks)
  BY <1>1, <1>2, <1>3
<1>5. \A b \in ToSet(Elsewhere(blocks)) : b.places = {}
  BY <1>2, <1>3 DEF ToSet
<1> QED
  BY <1>4, <1>5

LEMMA ScanKeepsTruncate == ASSUME ScanInv, TruncateLog PROVE ScanInv'
<1>1. /\ logFile' = << >> /\ truncated' = TRUE /\ found' = Elsewhere(found) /\ current' = Elsewhere(current)
      /\ handled' = {} /\ silenced' = {} /\ halves' = {} /\ UNCHANGED <<cursor, from>>
  BY DEF TruncateLog
<1>2. found \in Seq(Blocks) /\ current \in Seq(Blocks) /\ Len(current) <= 1
  BY DEF ScanInv, ScanTyped
<1>3. found' \in Seq(Blocks) /\ current' \in Seq(Blocks) /\ Len(current') <= 1
      /\ \A b \in ToSet(found') \cup ToSet(current') : b.places = {}
  BY <1>1, <1>2, ElsewhereBlocks
<1>4. Awaited' = {}
  BY <1>3 DEF Awaited
<1>5. logFile' \in Seq(Symbols) /\ Len(logFile') = 0
  BY <1>1
<1>6. ScanTyped'
  BY <1>1, <1>3, <1>4, <1>5, LogAssumption DEF ScanInv, ScanTyped
<1> QED
  BY <1>1, <1>6 DEF ScanInv, CutKnown, ErrorsReadAreTaken

LEMMA ScanKeepsScan == ASSUME ScanInv, Scan PROVE ScanInv'
<1> DEFINE position == StartOfScan
<1>1. /\ found = << >> /\ current = << >> /\ found' = Incidents(position) /\ cursor' = Len(logFile)
      /\ from' = (IF position = 0 THEN 0 ELSE IF truncated THEN cursor ELSE from)
      /\ truncated' = FALSE /\ UNCHANGED <<logFile, current, handled, silenced>>
      /\ halves' = halves \cup {i \in DOMAIN logFile : i = Len(logFile) /\ logFile[i] = "er"}
  BY DEF Scan, Scanning
<1>2. /\ logFile \in Seq(Symbols) /\ Len(logFile) \in Nat /\ Len(logFile) <= MaxLog /\ MaxLog \in Nat
      /\ cursor \in 0..MaxLog /\ from \in 0..cursor /\ DOMAIN logFile = 1..Len(logFile)
      /\ truncated \in BOOLEAN /\ (~truncated => cursor <= Len(logFile)) /\ handled \subseteq 1..Len(logFile)
      /\ silenced \subseteq 1..Len(logFile) /\ halves \subseteq 1..Len(logFile)
  BY LogAssumption DEF ScanInv, ScanTyped
<1>3. position \in 0..Len(logFile) /\ position \in {0, cursor}
  BY <1>2 DEF StartOfScan
<1> HIDE DEF position
<1>4. /\ found' \in Seq(Blocks) /\ Covers(found') \subseteq (position + 1)..Len(logFile)
      /\ \A e \in (position + 1)..Len(logFile) :
               logFile[e] = "exc" \/ ErrorAt(logFile, e) => e \in Covers(found')
  BY <1>1, <1>2, <1>3, ScannedCovers
<1>5. ToSet(current') = {} /\ ToSet(current) = {} /\ ToSet(found) = {}
  BY <1>1 DEF ToSet
<1>6. Awaited = {} /\ Awaited' = Covers(found')
  BY <1>5 DEF Awaited, Covers, ToSet
<1>7. from' \in 0..cursor' /\ cursor' \in 0..MaxLog
  BY <1>1, <1>2, <1>3
<1>8. Awaited' \subseteq 1..Len(logFile')
  BY <1>1, <1>2, <1>3, <1>4, <1>6
<1>11. current' \in Seq(Blocks) /\ Len(current') = 0
  BY <1>1
<1>9. ScanTyped'
  <2>1. Len(current') <= 1 /\ handled' \subseteq 1..Len(logFile') /\ cursor' <= Len(logFile')
    BY <1>1, <1>2, <1>11
  <2>3. silenced' \subseteq 1..Len(logFile') /\ halves' \subseteq 1..Len(logFile')
    BY <1>1, <1>2
  <2>2. logFile' \in Seq(Symbols) /\ Len(logFile') <= MaxLog /\ truncated' \in BOOLEAN
    BY <1>1, <1>2
  <2> QED
    BY <1>4, <1>7, <1>8, <1>11, <2>1, <2>2, <2>3 DEF ScanTyped
<1>12. CutKnown'
  <2> SUFFICES ASSUME from' < cursor', logFile[cursor'] = "er" PROVE cursor' \in halves'
    BY <1>1 DEF CutKnown
  <2>1. cursor' \in DOMAIN logFile /\ cursor' = Len(logFile)
    BY <1>1, <1>2, <1>7
  <2> QED
    BY <1>1, <2>1
<1>10. ErrorsReadAreTaken'
  <2> SUFFICES ASSUME NEW i \in 1..Len(logFile), ReadWhole(i)'
               PROVE  i \in handled \cup Awaited' \cup silenced
    BY <1>1, <1>2 DEF ErrorsReadAreTaken
  <2>3. /\ from' < i
        /\ \/ logFile[i] = "exc"
           \/ ErrorAt(logFile, i) /\ i \notin halves'
    BY <1>1 DEF ReadWhole
  <2>1. CASE i > position
    <3>1. i \in (position + 1)..Len(logFile)
      BY <1>2, <1>3, <2>1
    <3> QED
      BY <1>4, <1>6, <2>3, <3>1
  <2>2. CASE ~(i > position)
    <3>1. position # 0 /\ position = cursor
      BY <1>2, <1>3, <2>2
    <3>2. ~truncated /\ from < i /\ i <= cursor
      BY <1>1, <1>2, <2>2, <2>3, <3>1
    <3>3. ErrorAt(logFile, i) /\ i \notin halves' => i < cursor
      <4> SUFFICES ASSUME ErrorAt(logFile, i), i \notin halves', ~(i < cursor) PROVE FALSE
        OBVIOUS
      <4>1. i = cursor /\ logFile[cursor] = "er" /\ i \notin halves
        BY <1>1, <1>2, <3>2 DEF ErrorAt
      <4> QED
        BY <3>2, <4>1 DEF ScanInv, CutKnown
    <3>4. ReadWhole(i)
      BY <1>1, <2>3, <3>2, <3>3 DEF ReadWhole
    <3> QED
      BY <1>2, <1>6, <3>2, <3>4 DEF ScanInv, ErrorsReadAreTaken
  <2> QED
    BY <2>1, <2>2
<1> QED
  BY <1>9, <1>10, <1>12 DEF ScanInv

LEMMA HeadAndTail ==
  ASSUME NEW S, NEW s \in Seq(S), s # << >>
  PROVE  Head(s) \in S /\ Tail(s) \in Seq(S) /\ ToSet(s) = {Head(s)} \cup ToSet(Tail(s))
<1>1. Len(s) \in Nat /\ Len(s) > 0 /\ DOMAIN s = 1..Len(s)
  OBVIOUS
<1>2. /\ Tail(s) \in Seq(S) /\ DOMAIN Tail(s) = 1..(Len(s) - 1) /\ Head(s) = s[1] /\ Head(s) \in S
      /\ \A i \in 1..(Len(s) - 1) : Tail(s)[i] = s[i + 1]
  BY <1>1
<1>3. ToSet(s) \subseteq {Head(s)} \cup ToSet(Tail(s))
  <2> SUFFICES ASSUME NEW i \in 1..Len(s) PROVE s[i] \in {Head(s)} \cup ToSet(Tail(s))
    BY <1>1 DEF ToSet
  <2>1. CASE i = 1
    BY <1>2, <2>1
  <2>2. CASE i # 1
    <3>1. i - 1 \in 1..(Len(s) - 1) /\ (i - 1) + 1 = i
      BY <1>1, <2>2
    <3>2. Tail(s)[i - 1] = s[i]
      BY <1>2, <3>1
    <3> QED
      BY <1>2, <3>1, <3>2 DEF ToSet
  <2> QED
    BY <2>1, <2>2
<1>4. {Head(s)} \cup ToSet(Tail(s)) \subseteq ToSet(s)
  <2>1. Head(s) \in ToSet(s)
    BY <1>1, <1>2 DEF ToSet
  <2>2. \A i \in 1..(Len(s) - 1) : i + 1 \in 1..Len(s) /\ Tail(s)[i] = s[i + 1]
    BY <1>1, <1>2
  <2> QED
    BY <1>1, <1>2, <2>1, <2>2 DEF ToSet
<1> QED
  BY <1>2, <1>3, <1>4

(* A step after which what was awaited is awaited still, or handled, or     *)
(* silenced. *)
LEMMA ScanKeepsStored ==
  ASSUME ScanInv, UNCHANGED <<logFile, cursor, from, truncated, halves>>,
         found' \in Seq(Blocks), current' \in Seq(Blocks), Len(current') <= 1,
         handled' \cup Awaited' \cup silenced' = handled \cup Awaited \cup silenced
  PROVE  ScanInv'
<1>1. ScanTyped'
  BY DEF ScanInv, ScanTyped
<1>2. CutKnown'
  BY DEF ScanInv, CutKnown
<1>3. \A i : ReadWhole(i)' = ReadWhole(i)
  BY DEF ReadWhole
<1>4. ErrorsReadAreTaken'
  BY <1>3 DEF ScanInv, ErrorsReadAreTaken
<1> QED
  BY <1>1, <1>2, <1>4 DEF ScanInv

LEMMA ScanKeepsStore == ASSUME ScanInv, StoreIncident PROVE ScanInv'
<1>1. /\ found # << >> /\ current = << >> /\ found' = Tail(found)
      /\ UNCHANGED <<logFile, cursor, from, truncated, silenced, halves>>
  BY DEF StoreIncident
<1>2. found \in Seq(Blocks) /\ current \in Seq(Blocks)
  BY DEF ScanInv, ScanTyped
<1>3. Head(found) \in Blocks /\ found' \in Seq(Blocks) /\ ToSet(found) = {Head(found)} \cup ToSet(found')
  BY <1>1, <1>2, HeadAndTail
<1>4. ToSet(current) = {}
  BY <1>1 DEF ToSet
<1>5. /\ <<Head(found)>> \in Seq(Blocks) /\ Len(<<Head(found)>>) = 1
      /\ ToSet(<<Head(found)>>) = {Head(found)}
  BY <1>3 DEF ToSet
<1>6. CASE current' = << >> /\ handled' = handled \cup Head(found).places
  <2>1. ToSet(current') = {} /\ current' \in Seq(Blocks) /\ Len(current') = 0
    BY <1>6 DEF ToSet
  <2>2. Awaited' \cup Head(found).places = Awaited
    BY <1>3, <1>4, <2>1 DEF Awaited
  <2> QED
    BY <1>1, <1>3, <1>6, <2>1, <2>2, ScanKeepsStored
<1>7. CASE current' = <<Head(found)>> /\ handled' \in {handled, handled \cup Head(found).places}
  <2>1. Awaited' = Awaited /\ Head(found).places \subseteq Awaited
    BY <1>3, <1>4, <1>5, <1>7 DEF Awaited
  <2> QED
    BY <1>1, <1>3, <1>5, <1>7, <2>1, ScanKeepsStored
<1> QED
  BY <1>6, <1>7 DEF StoreIncident

LEMMA ScanKeepsAnalyse == ASSUME ScanInv, AnalyseIncident PROVE ScanInv'
<1>1. /\ current # << >> /\ current' = << >>
      /\ \/ handled' = handled \cup current[1].places /\ UNCHANGED silenced
         \/ silenced' = silenced \cup (current[1].places \ handled) /\ UNCHANGED handled
      /\ UNCHANGED <<logFile, cursor, from, truncated, found, halves>>
  BY DEF AnalyseIncident
<1>2. current \in Seq(Blocks) /\ Len(current) <= 1 /\ found \in Seq(Blocks)
  BY DEF ScanInv, ScanTyped
<1>3. ToSet(current) = {current[1]}
  BY <1>1, <1>2 DEF ToSet
<1>4. ToSet(current') = {}
  BY <1>1 DEF ToSet
<1>5. Awaited' \cup current[1].places = Awaited
  BY <1>1, <1>3, <1>4 DEF Awaited
<1>6. handled' \cup Awaited' \cup silenced' = handled \cup Awaited \cup silenced
  BY <1>1, <1>5
<1>7. current' \in Seq(Blocks) /\ Len(current') = 0
  BY <1>1
<1> QED
  BY <1>1, <1>2, <1>6, <1>7, ScanKeepsStored

LEMMA ScanKeepsRestart == ASSUME ScanInv, Restart PROVE ScanInv'
<1>1. /\ cursor' = Len(logFile) /\ from' = Len(logFile) /\ truncated' = FALSE /\ found' = << >>
      /\ current' = << >> /\ handled' = {} /\ silenced' = {} /\ halves' = {} /\ UNCHANGED logFile
  BY DEF Restart
<1>2. logFile \in Seq(Symbols) /\ Len(logFile) \in 0..MaxLog
  BY LogAssumption DEF ScanInv, ScanTyped
<1>3. ToSet(found') = {} /\ ToSet(current') = {}
  BY <1>1 DEF ToSet
<1>4. Awaited' = {}
  BY <1>3 DEF Awaited
<1>7. found' \in Seq(Blocks) /\ current' \in Seq(Blocks) /\ Len(current') = 0
  BY <1>1
<1>5. ScanTyped'
  <2>1. Len(current') <= 1 /\ handled' \subseteq 1..Len(logFile') /\ cursor' <= Len(logFile')
    BY <1>1, <1>2, <1>7
  <2>2. logFile' \in Seq(Symbols) /\ Len(logFile') <= MaxLog
    BY <1>1, <1>2, LogAssumption
  <2>4. truncated' \in BOOLEAN
    BY <1>1
  <2>3. cursor' \in 0..MaxLog /\ from' \in 0..cursor'
    BY <1>1, <1>2, LogAssumption
  <2>5. silenced' \subseteq 1..Len(logFile') /\ halves' \subseteq 1..Len(logFile')
    BY <1>1
  <2> QED
    BY <1>4, <1>7, <2>1, <2>2, <2>3, <2>4, <2>5 DEF ScanTyped
<1>6. CutKnown' /\ ErrorsReadAreTaken'
  <2>1. from' = Len(logFile') /\ cursor' = from' /\ Len(logFile') \in Nat
        /\ DOMAIN logFile' = 1..Len(logFile')
    BY <1>1, <1>2
  <2>2. CutKnown'
    BY <2>1 DEF CutKnown
  <2>3. \A i \in DOMAIN logFile' : ~ReadWhole(i)'
    BY <2>1 DEF ReadWhole
  <2> QED
    BY <2>2, <2>3 DEF ErrorsReadAreTaken
<1> QED
  BY <1>5, <1>6 DEF ScanInv

LEMMA ScanInvStep == ScanInv /\ [ScanNext]_scanVars => ScanInv'
<1> SUFFICES ASSUME ScanInv, [ScanNext]_scanVars PROVE ScanInv'
  OBVIOUS
<1>1. CASE UNCHANGED scanVars
  BY <1>1 DEF scanVars, ScanInv, ScanTyped, CutKnown, ErrorsReadAreTaken, ReadWhole, Awaited
<1> QED
  BY <1>1, ScanKeepsWrite, ScanKeepsTruncate, ScanKeepsScan, ScanKeepsStore, ScanKeepsAnalyse,
     ScanKeepsRestart DEF ScanNext

LEMMA ScanInvTells == ScanInv => ScanTypeOK /\ ErrorsReadAreTaken
<1> SUFFICES ASSUME ScanInv PROVE ScanTypeOK
  BY DEF ScanInv
<1>1. \A i \in DOMAIN found : found[i].lines \in 1..MaxBlock
  <2>1. found \in Seq(Blocks) /\ DOMAIN found = 1..Len(found)
    BY DEF ScanInv, ScanTyped
  <2>2. \A i \in 1..Len(found) : found[i] \in Blocks
    BY ONLY <2>1
  <2>3. \A b \in Blocks : b.lines \in 1..MaxBlock
    BY DEF Blocks
  <2> QED
    BY ONLY <2>1, <2>2, <2>3
<1>2. DOMAIN logFile = 1..Len(logFile)
  BY DEF ScanInv, ScanTyped
<1> QED
  BY <1>1, <1>2 DEF ScanInv, ScanTyped, ScanTypeOK

(* For any log, whatever is written in whatever pieces, wherever scans cut  *)
(* it: an error that a scan read whole is in an incident that is stored or  *)
(* notified, or waits for that, or was analysed while the database took     *)
(* neither it nor gave a channel to tell (scan_once, _do_scan). *)
THEOREM ErrorsReadAreTakenHolds == ScanSpec => [](ScanTypeOK /\ ErrorsReadAreTaken)
<1>1. ScanInit => ScanInv
  BY ScanInvInit
<1>2. ScanInv /\ [ScanNext]_scanVars => ScanInv'
  BY ScanInvStep
<1>3. ScanInv => ScanTypeOK /\ ErrorsReadAreTaken
  BY ScanInvTells
<1> QED
  BY <1>1, <1>2, <1>3, PTL DEF ScanSpec

-----------------------------------------------------------------------------
(***************************************************************************)
(* The status of an incident.                                              *)
(***************************************************************************)

IncidentRow == [status : {"open", "resolved"}, resolvedAt : 0..MaxClock,
        lastSeen : 0..(MaxClock + MaxFuture), count : 1..(MaxRepeats + 1)]

(* A row tells what was committed, in the terms of BackMeansOpen. *)
Tells(kept) ==
    /\ kept \in IncidentRow /\ (kept.status = "open" => kept.resolvedAt = 0)
    /\ kept.count = Len(seen) + 1
    /\ \A i \in DOMAIN seen : seen[i] <= kept.lastSeen
    /\ kept.lastSeen = 0 \/ \E i \in DOMAIN seen : seen[i] = kept.lastSeen
    /\ kept.status = "resolved" => \A i \in (mark + 1)..Len(seen) : seen[i] <= kept.resolvedAt

(* The row that a repeat makes of one. *)
Recounted(kept, time) ==
    [status     |-> IF kept.status = "resolved" /\ kept.resolvedAt < time THEN "open" ELSE kept.status,
     resolvedAt |-> IF kept.resolvedAt < time THEN 0 ELSE kept.resolvedAt,
     lastSeen   |-> IF kept.lastSeen < time THEN time ELSE kept.lastSeen,
     count      |-> kept.count + 1]

Times ==
    /\ now \in 0..MaxClock
    /\ seen \in Seq(0..(MaxClock + MaxFuture)) /\ Len(seen) <= MaxRepeats /\ mark \in 0..Len(seen)
    /\ pending \in [Counters -> Seq(0..(MaxClock + MaxFuture))]
    /\ resolve \in [Resolvers -> Seq(0..MaxClock)]

(* Who holds the row has counted its repeat on it, and on nothing else: the *)
(* row as it was still tells what was committed. *)
Held ==
    IF holder = Nobody THEN Tells(row)
    ELSE /\ holder.by \in Counters /\ pending[holder.by] # << >> /\ Len(seen) < MaxRepeats
         /\ Tells(holder.before) /\ row = Recounted(holder.before, pending[holder.by][1])

StatusInv == Times /\ Held

LEMMA StatusTimes == 0 \in 0..MaxClock /\ 0..MaxClock \subseteq 0..(MaxClock + MaxFuture)
                     /\ MaxClock + MaxFuture \in Nat /\ Nobody.by \notin Counters
BY StatusAssumption DEF Nobody

LEMMA FirstOf == ASSUME NEW S, NEW s \in Seq(S), s # << >> PROVE s[1] \in S
<1>1. Len(s) \in Nat /\ Len(s) # 0
  OBVIOUS
<1> QED
  BY <1>1

LEMMA StatusInvInit == StatusInit => StatusInv
<1> SUFFICES ASSUME StatusInit PROVE StatusInv
  OBVIOUS
<1>1. Times
  BY StatusTimes, StatusAssumption DEF Times, StatusInit
<1>2. Open \in IncidentRow
  BY StatusTimes, StatusAssumption DEF Open, IncidentRow
<1>3. Tells(Open)
  BY <1>2 DEF Tells, Open, StatusInit
<1> QED
  BY <1>1, <1>3 DEF StatusInv, Held, StatusInit

LEMMA CountedRow ==
  ASSUME NEW kept, Tells(kept), Times, Len(seen) < MaxRepeats,
         NEW time \in 0..(MaxClock + MaxFuture)
  PROVE  /\ Recounted(kept, time) \in IncidentRow
         /\ Recounted(kept, time).status = "open" => Recounted(kept, time).resolvedAt = 0
<1>1. Len(seen) \in Nat /\ kept.count + 1 \in 1..(MaxRepeats + 1)
  BY StatusAssumption DEF Tells, Times, IncidentRow
<1>2. kept.status \in {"open", "resolved"} /\ kept.resolvedAt \in 0..MaxClock
      /\ kept.lastSeen \in 0..(MaxClock + MaxFuture)
  BY DEF Tells, IncidentRow
<1> QED
  BY <1>1, <1>2, StatusTimes DEF Tells, Recounted, IncidentRow

LEMMA StatusKeepsCount ==
  ASSUME StatusInv, NEW c \in Counters, CountRepeat(c)
  PROVE  StatusInv'
<1>1. holder = Nobody /\ holder' = [by |-> c, before |-> row] /\ row' = Recounted(row, pending[c][1])
      /\ pending[c] # << >> /\ Len(seen) < MaxRepeats /\ UNCHANGED <<now, pending, resolve, seen, mark>>
  BY DEF CountRepeat, Recounted
<1>2. Tells(row)
  BY <1>1 DEF StatusInv, Held
<1>3. Times'
  BY <1>1 DEF StatusInv, Times
<1>4. holder'.by = c /\ holder'.before = row /\ holder' # Nobody
  BY <1>1, StatusTimes
<1>5. Tells(holder.before)'
  BY <1>1, <1>2, <1>4 DEF Tells
<1>6. Held'
  BY <1>1, <1>4, <1>5 DEF Held, Recounted
<1> QED
  BY <1>3, <1>6 DEF StatusInv

LEMMA HolderCounts ==
  ASSUME StatusInv, NEW c \in Counters, holder.by = c
  PROVE  /\ holder # Nobody /\ pending[c] # << >> /\ Len(seen) < MaxRepeats
         /\ Tells(holder.before) /\ row = Recounted(holder.before, pending[c][1])
         /\ pending[c][1] \in 0..(MaxClock + MaxFuture)
<1>1. holder # Nobody
  BY StatusTimes
<1>2. pending[c] \in Seq(0..(MaxClock + MaxFuture))
  BY DEF StatusInv, Times
<1>3. pending[c] # << >> /\ Len(seen) < MaxRepeats /\ Tells(holder.before)
      /\ row = Recounted(holder.before, pending[c][1])
  BY <1>1 DEF StatusInv, Held
<1>4. pending[c][1] \in 0..(MaxClock + MaxFuture)
  BY <1>2, <1>3, FirstOf
<1> QED
  BY <1>1, <1>3, <1>4

(* Whoever holds the row commits: the repeat is the last of those counted. *)
LEMMA StatusKeepsCommit ==
  ASSUME StatusInv, NEW c \in Counters, CommitRepeat(c)
  PROVE  StatusInv'
<1> DEFINE kept == holder.before
           time == pending[c][1]
<1>1. /\ Tells(kept) /\ row = Recounted(kept, time) /\ time \in 0..(MaxClock + MaxFuture)
      /\ Len(seen) < MaxRepeats
  BY HolderCounts DEF CommitRepeat
<1>2. /\ holder' = Nobody /\ seen' = Append(seen, time) /\ UNCHANGED <<now, row, resolve, mark>>
      /\ pending' = [pending EXCEPT ![c] = << >>]
  BY DEF CommitRepeat
<1> HIDE DEF kept, time
<1>3. /\ seen \in Seq(0..(MaxClock + MaxFuture)) /\ Len(seen) \in Nat /\ mark \in 0..Len(seen)
      /\ pending \in [Counters -> Seq(0..(MaxClock + MaxFuture))]
  BY DEF StatusInv, Times
<1>4. /\ seen' \in Seq(0..(MaxClock + MaxFuture)) /\ Len(seen') = Len(seen) + 1
      /\ seen'[Len(seen) + 1] = time /\ \A i \in 1..Len(seen) : seen'[i] = seen[i]
      /\ DOMAIN seen = 1..Len(seen) /\ DOMAIN seen' = 1..(Len(seen) + 1)
  BY <1>1, <1>2, <1>3
<1>5. Times'
  BY <1>1, <1>2, <1>3, <1>4, StatusAssumption DEF StatusInv, Times
<1>6. row \in IncidentRow /\ (row.status = "open" => row.resolvedAt = 0)
  BY <1>1, CountedRow DEF StatusInv
<1>7. /\ kept.lastSeen \in Nat /\ kept.resolvedAt \in Nat /\ kept.count \in Nat /\ time \in Nat
      /\ \A i \in 1..Len(seen) : seen[i] \in Nat
      /\ kept.status \in {"open", "resolved"}
  BY <1>1, <1>3, StatusTimes DEF Tells, IncidentRow
<1>8. /\ row.count = kept.count + 1
      /\ row.lastSeen = IF kept.lastSeen < time THEN time ELSE kept.lastSeen
      /\ row.status = "resolved" => kept.status = "resolved" /\ row.resolvedAt = kept.resolvedAt
                                    /\ ~(kept.resolvedAt < time)
  BY <1>1, <1>7 DEF Recounted
<1>9. row.count = Len(seen') + 1
  BY <1>1, <1>4, <1>8 DEF Tells
<1>10. \A i \in DOMAIN seen' : seen'[i] <= row.lastSeen
  <2> SUFFICES ASSUME NEW i \in 1..(Len(seen) + 1) PROVE seen'[i] <= row.lastSeen
    BY <1>4
  <2>1. CASE i = Len(seen) + 1
    BY <2>1, <1>4, <1>7, <1>8
  <2>2. CASE i \in 1..Len(seen)
    <3>1. seen'[i] = seen[i] /\ seen[i] <= kept.lastSeen /\ seen[i] \in Nat
      BY <2>2, <1>1, <1>4, <1>7 DEF Tells
    <3> QED
      BY <3>1, <1>7, <1>8
  <2> QED
    BY <2>1, <2>2, <1>3
<1>11. row.lastSeen = 0 \/ \E i \in DOMAIN seen' : seen'[i] = row.lastSeen
  <2>1. CASE kept.lastSeen < time
    <3>1. Len(seen) + 1 \in DOMAIN seen' /\ seen'[Len(seen) + 1] = row.lastSeen
      BY <2>1, <1>3, <1>4, <1>8
    <3> QED
      BY <3>1
  <2>2. CASE ~(kept.lastSeen < time)
    <3>1. row.lastSeen = 0 \/ \E i \in 1..Len(seen) : seen[i] = row.lastSeen
      BY <2>2, <1>1, <1>4, <1>8 DEF Tells
    <3> QED
      BY <3>1, <1>3, <1>4
  <2> QED
    BY <2>1, <2>2
<1>12. row.status = "resolved" => \A i \in (mark + 1)..Len(seen') : seen'[i] <= row.resolvedAt
  <2> SUFFICES ASSUME row.status = "resolved", NEW i \in (mark + 1)..Len(seen')
               PROVE  seen'[i] <= row.resolvedAt
    OBVIOUS
  <2>1. CASE i = Len(seen) + 1
    BY <2>1, <1>4, <1>7, <1>8
  <2>2. CASE i \in (mark + 1)..Len(seen)
    <3>1. i \in 1..Len(seen) /\ seen[i] <= kept.resolvedAt
      BY <2>2, <1>1, <1>3, <1>8 DEF Tells
    <3> QED
      BY <3>1, <1>4, <1>8
  <2> QED
    BY <2>1, <2>2, <1>3, <1>4
<1>13. Tells(row)'
  BY <1>2, <1>6, <1>9, <1>10, <1>11, <1>12 DEF Tells, IncidentRow
<1> QED
  BY <1>2, <1>5, <1>13 DEF StatusInv, Held

LEMMA StatusKeepsRollBack ==
  ASSUME StatusInv, NEW c \in Counters, RollBackRepeat(c)
  PROVE  StatusInv'
<1>1. Tells(holder.before)
  BY HolderCounts DEF RollBackRepeat
<1>2. holder' = Nobody /\ row' = holder.before /\ UNCHANGED <<now, resolve, seen, mark>>
  BY DEF RollBackRepeat
<1>3. Times'
  <2>1. pending' \in [Counters -> Seq(0..(MaxClock + MaxFuture))]
    <3>1. pending \in [Counters -> Seq(0..(MaxClock + MaxFuture))]
      BY DEF StatusInv, Times
    <3>2. UNCHANGED pending \/ pending' = [pending EXCEPT ![c] = << >>]
      BY DEF RollBackRepeat
    <3>3. << >> \in Seq(0..(MaxClock + MaxFuture))
      OBVIOUS
    <3>4. CASE pending' = [pending EXCEPT ![c] = << >>]
      BY <3>1, <3>3, <3>4
    <3> QED
      BY <3>1, <3>2, <3>4
  <2> QED
    BY <1>2, <2>1 DEF StatusInv, Times
<1>4. Tells(row)'
  BY <1>1, <1>2 DEF Tells, IncidentRow
<1> QED
  BY <1>2, <1>3, <1>4 DEF StatusInv, Held

(* An action that neither commits nor touches the row, but may give work to *)
(* who does not hold it. *)
LEMMA StatusKeepsAside ==
  ASSUME StatusInv, Times', UNCHANGED <<row, holder, seen, mark>>,
         \A c \in Counters : pending[c] # << >> => pending'[c] = pending[c]
  PROVE  StatusInv'
BY DEF StatusInv, Held, Tells, IncidentRow, Recounted

LEMMA StatusKeepsArrival ==
  ASSUME StatusInv, NEW c \in Counters, NEW time \in 0..(now + MaxFuture + 1), RepeatArrives(c, time)
  PROVE  StatusInv'
<1>1. now \in 0..MaxClock /\ pending \in [Counters -> Seq(0..(MaxClock + MaxFuture))]
  BY DEF StatusInv, Times
<1>2. Occurred(time) \in 0..(MaxClock + MaxFuture)
  BY <1>1, StatusAssumption DEF Occurred
<1>3. pending[c] = << >> /\ pending' = [pending EXCEPT ![c] = <<Occurred(time)>>]
      /\ UNCHANGED <<now, row, holder, resolve, seen, mark>>
  BY DEF RepeatArrives
<1>4. pending' \in [Counters -> Seq(0..(MaxClock + MaxFuture))]
      /\ \A k \in Counters : pending[k] # << >> => pending'[k] = pending[k]
  BY <1>1, <1>2, <1>3
<1>5. Times'
  BY <1>3, <1>4 DEF StatusInv, Times
<1> QED
  BY <1>3, <1>4, <1>5, StatusKeepsAside

(* A resolution may take its time from before repeats that are counted: it  *)
(* says nothing of those, for they were counted before it. *)
LEMMA StatusKeepsResolve ==
  ASSUME StatusInv, NEW r \in Resolvers, Resolve(r)
  PROVE  StatusInv'
<1>1. resolve[r] # << >> /\ resolve \in [Resolvers -> Seq(0..MaxClock)] /\ seen \in Seq(0..(MaxClock + MaxFuture))
      /\ Len(seen) \in Nat
  BY DEF Resolve, StatusInv, Times
<1>2. resolve[r][1] \in 0..MaxClock
  BY <1>1, FirstOf
<1>3. /\ holder = Nobody /\ row' = [row EXCEPT !.status = "resolved", !.resolvedAt = resolve[r][1]]
      /\ mark' = Len(seen) /\ resolve' = [resolve EXCEPT ![r] = << >>]
      /\ UNCHANGED <<now, holder, pending, seen>>
  BY DEF Resolve
<1>4. Times'
  BY <1>1, <1>3 DEF StatusInv, Times
<1>5. Tells(row)
  BY <1>3 DEF StatusInv, Held
<1>6. /\ row' \in IncidentRow /\ row'.status = "resolved" /\ row'.count = row.count /\ row'.lastSeen = row.lastSeen
  BY <1>2, <1>3, <1>5 DEF Tells, IncidentRow
<1>7. (mark' + 1)..Len(seen') = {}
  BY <1>1, <1>3
<1>8. Tells(row)'
  BY <1>3, <1>5, <1>6, <1>7 DEF Tells, IncidentRow
<1> QED
  BY <1>3, <1>4, <1>8 DEF StatusInv, Held

LEMMA StatusKeepsReopen == ASSUME StatusInv, Reopen PROVE StatusInv'
<1>1. /\ holder = Nobody /\ row' = [row EXCEPT !.status = "open", !.resolvedAt = 0]
      /\ UNCHANGED <<now, holder, pending, resolve, seen, mark>>
  BY DEF Reopen
<1>2. Times'
  BY <1>1 DEF StatusInv, Times
<1>3. Tells(row)
  BY <1>1 DEF StatusInv, Held
<1>4. /\ row' \in IncidentRow /\ row'.status = "open" /\ row'.resolvedAt = 0
      /\ row'.count = row.count /\ row'.lastSeen = row.lastSeen
  BY <1>1, <1>3, StatusTimes DEF Tells, IncidentRow
<1>5. Tells(row)'
  BY <1>1, <1>3, <1>4 DEF Tells, IncidentRow
<1> QED
  BY <1>1, <1>2, <1>5 DEF StatusInv, Held

LEMMA StatusInvStep == StatusInv /\ [StatusNext]_statusVars => StatusInv'
<1> SUFFICES ASSUME StatusInv, [StatusNext]_statusVars PROVE StatusInv'
  OBVIOUS
<1>1. CASE ClockTicks
  <2>1. Times' /\ UNCHANGED <<row, holder, pending, seen, mark>>
    BY <1>1, StatusAssumption DEF ClockTicks, StatusInv, Times
  <2> QED
    BY <2>1, StatusKeepsAside
<1>2. CASE Reopen
  BY <1>2, StatusKeepsReopen
<1>3. ASSUME NEW c \in Counters, NEW time \in 0..(now + MaxFuture + 1), RepeatArrives(c, time) PROVE StatusInv'
  BY <1>3, StatusKeepsArrival
<1>4. ASSUME NEW c \in Counters, CountRepeat(c) \/ CommitRepeat(c) \/ RollBackRepeat(c) PROVE StatusInv'
  BY <1>4, StatusKeepsCount, StatusKeepsCommit, StatusKeepsRollBack
<1>5. ASSUME NEW r \in Resolvers, AskToResolve(r) PROVE StatusInv'
  <2>1. Times' /\ UNCHANGED <<row, holder, pending, seen, mark>>
    BY <1>5 DEF AskToResolve, StatusInv, Times
  <2> QED
    BY <2>1, StatusKeepsAside
<1>6. ASSUME NEW r \in Resolvers, Resolve(r) PROVE StatusInv'
  BY <1>6, StatusKeepsResolve
<1>7. CASE UNCHANGED statusVars
  BY <1>7 DEF statusVars, StatusInv, Times, Held, Tells, IncidentRow, Recounted
<1> QED
  BY <1>1, <1>2, <1>3, <1>4, <1>5, <1>6, <1>7 DEF StatusNext

LEMMA StatusInvTells == StatusInv => StatusTypeOK /\ BackMeansOpen
<1> SUFFICES ASSUME StatusInv PROVE StatusTypeOK /\ BackMeansOpen
  OBVIOUS
<1>1. row \in IncidentRow /\ (row.status = "open" => row.resolvedAt = 0)
  <2>1. CASE holder = Nobody
    BY <2>1 DEF StatusInv, Held, Tells
  <2>2. CASE holder # Nobody
    <3>1. holder.by \in Counters
      BY <2>2 DEF StatusInv, Held
    <3> QED
      BY <3>1, HolderCounts, CountedRow DEF StatusInv
  <2> QED
    BY <2>1, <2>2
<1>2. holder.by \in Counters \cup {"nobody"}
  BY DEF StatusInv, Held, Nobody
<1>3. StatusTypeOK
  BY <1>1, <1>2 DEF StatusInv, Times, StatusTypeOK, IncidentRow
<1>4. BackMeansOpen
  BY DEF StatusInv, Held, Tells, BackMeansOpen
<1> QED
  BY <1>3, <1>4

(* Of any number of counters and resolvers: a row is what its type says,    *)
(* and a resolved incident that came back is open again (_count_repeat). *)
THEOREM BackMeansOpenHolds == StatusSpec => [](StatusTypeOK /\ BackMeansOpen)
<1>1. StatusInit => StatusInv
  BY StatusInvInit
<1>2. StatusInv /\ [StatusNext]_statusVars => StatusInv'
  BY StatusInvStep
<1>3. StatusInv => StatusTypeOK /\ BackMeansOpen
  BY StatusInvTells
<1> QED
  BY <1>1, <1>2, <1>3, PTL DEF StatusSpec

-----------------------------------------------------------------------------
(***************************************************************************)
(* The channels, and the import of old settings.                           *)
(***************************************************************************)

(* What a process that imports has still to do covers the file: what it     *)
(* does not add any more is accounted for. *)
Covered ==
    \A p \in Importers :
        /\ imports[p].todo \subseteq DOMAIN Legacy
        /\ imports[p].stage = "adding" =>
              LegacyNames \subseteq accounted \cup {Legacy[i].name : i \in imports[p].todo}

(* The tables by process, by editor and by id are functions. *)
Tables ==
    /\ imports \in [Importers -> [stage : {"start", "mode", "list", "adding", "done"},
                                  todo : SUBSET DOMAIN Legacy]]
    /\ edits = [e \in Editors |-> edits[e]]
    /\ channels = [id \in DOMAIN channels |-> channels[id]]

ChannelInv == Tables /\ ChannelTypeOK /\ Covered /\ RemovedWhenImported

LEMMA ChannelInvInit == ChannelInit => ChannelInv
<1> SUFFICES ASSUME ChannelInit PROVE ChannelInv
  OBVIOUS
<1>1. DOMAIN channels = {}
  BY DEF ChannelInit
<1>2. Tables
  BY DEF Tables, ChannelInit
<1>3. nextChannel \in 1..(MaxChannels + 1)
  BY ChannelAssumption DEF ChannelInit
<1>4. ChannelTypeOK
  BY <1>1, <1>3 DEF ChannelTypeOK, ChannelInit
<1> QED
  BY <1>2, <1>4 DEF ChannelInv, Covered, RemovedWhenImported, ChannelInit

(* The rows, what editors do and the import are changed by different steps. *)
LEMMA KeepsChannels ==
  ASSUME ChannelInv, UNCHANGED <<filePresent, imports, accounted>>,
         Tables', nextChannel' \in nextChannel..(MaxChannels + 1),
         DOMAIN channels' \subseteq 1..(nextChannel' - 1),
         \A id \in DOMAIN channels' : DOMAIN channels'[id] = Columns,
         \A e \in Editors : edits'[e] = edits[e] \/ edits'[e] = NoEdit
                            \/ edits'[e].id \in 1..(nextChannel - 1)
  PROVE  ChannelInv'
<1>1. nextChannel \in 1..(MaxChannels + 1) /\ MaxChannels \in Nat
  BY ChannelAssumption DEF ChannelInv, ChannelTypeOK
<1>2. nextChannel' \in 1..(MaxChannels + 1) /\ nextChannel <= nextChannel'
  BY <1>1
<1>3. \A e \in Editors : edits'[e] = NoEdit \/ edits'[e].id \in 1..(nextChannel' - 1)
  BY <1>1, <1>2 DEF ChannelInv, ChannelTypeOK
<1>4. ChannelTypeOK'
  BY <1>2, <1>3 DEF ChannelInv, ChannelTypeOK, Columns, NoEdit
<1> QED
  BY <1>4 DEF ChannelInv, Covered, RemovedWhenImported, LegacyNames

LEMMA InsertedRow ==
  ASSUME ChannelInv, NEW given, DOMAIN given = Columns, Inserted(given)
  PROVE  /\ channels' = [id \in DOMAIN channels' |-> channels'[id]]
         /\ nextChannel' \in nextChannel..(MaxChannels + 1) /\ nextChannel' \in 1..(MaxChannels + 1)
         /\ nextChannel' = nextChannel + 1
         /\ DOMAIN channels' \subseteq 1..(nextChannel' - 1)
         /\ \A id \in DOMAIN channels' : DOMAIN channels'[id] = Columns
         /\ \A id \in DOMAIN channels : id \in DOMAIN channels' /\ channels'[id] = channels[id]
<1>1. nextChannel \in 1..(MaxChannels + 1) /\ MaxChannels \in Nat /\ nextChannel <= MaxChannels
      /\ nextChannel' = nextChannel + 1 /\ DOMAIN channels \subseteq 1..(nextChannel - 1)
  BY ChannelAssumption DEF ChannelInv, ChannelTypeOK, Inserted
<1>2. channels' = [id \in DOMAIN channels \cup {nextChannel} |->
                     IF id = nextChannel THEN given ELSE channels[id]]
  BY DEF Inserted
<1>3. DOMAIN channels' = DOMAIN channels \cup {nextChannel}
  BY <1>2
<1>4. \A id \in DOMAIN channels : id # nextChannel
  BY <1>1
<1>5. \A id \in DOMAIN channels' : DOMAIN channels'[id] = Columns
  BY <1>2, <1>3 DEF ChannelInv, ChannelTypeOK
<1>6. \A id \in DOMAIN channels : id \in DOMAIN channels' /\ channels'[id] = channels[id]
  BY <1>2, <1>3, <1>4
<1>7. channels' = [id \in DOMAIN channels' |-> channels'[id]]
  BY <1>2
<1>8. DOMAIN channels' \subseteq 1..(nextChannel' - 1)
  BY <1>1, <1>3
<1>9. nextChannel' \in nextChannel..(MaxChannels + 1) /\ nextChannel' \in 1..(MaxChannels + 1)
  BY <1>1
<1> QED
  BY <1>1, <1>5, <1>6, <1>7, <1>8, <1>9

LEMMA ChannelKeepsCommit ==
  ASSUME ChannelInv, NEW e \in Editors, CommitChannel(e)
  PROVE  ChannelInv'
<1>1. /\ edits[e].id \in DOMAIN channels
      /\ channels' = [channels EXCEPT ![edits[e].id] =
           [c \in DOMAIN @ |-> IF c \in Written(edits[e]) THEN edits[e].updates[c] ELSE @[c]]]
      /\ edits' = [edits EXCEPT ![e] = NoEdit]
      /\ UNCHANGED <<nextChannel, mode, filePresent, imports, accounted>>
  BY DEF CommitChannel
<1>2. DOMAIN channels' = DOMAIN channels
      /\ \A id \in DOMAIN channels : DOMAIN channels'[id] = DOMAIN channels[id]
  BY <1>1
<1>3. Tables'
  BY <1>1 DEF ChannelInv, Tables
<1>4. nextChannel' \in nextChannel..(MaxChannels + 1)
  BY <1>1, ChannelAssumption DEF ChannelInv, ChannelTypeOK
<1>5. \A k \in Editors : edits'[k] = edits[k] \/ edits'[k] = NoEdit
  BY <1>1
<1>6. DOMAIN channels' \subseteq 1..(nextChannel' - 1) /\ \A id \in DOMAIN channels' : DOMAIN channels'[id] = Columns
  BY <1>1, <1>2 DEF ChannelInv, ChannelTypeOK
<1> QED
  BY <1>1, <1>3, <1>4, <1>5, <1>6, KeepsChannels

LEMMA ChannelKeepsTable ==
  ASSUME ChannelInv, ChannelTable
  PROVE  ChannelInv'
<1>1. nextChannel \in nextChannel..(MaxChannels + 1) /\ nextChannel \in 1..(MaxChannels + 1)
  BY ChannelAssumption DEF ChannelInv, ChannelTypeOK
<1>2. ASSUME NEW given \in Additions, AddChannel(given) PROVE ChannelInv'
  <2>1. DOMAIN given = Columns /\ Inserted(given) /\ UNCHANGED <<mode, filePresent, imports, edits, accounted>>
    BY <1>2, ChannelAssumption DEF AddChannel
  <2>2. Tables'
    BY <2>1, InsertedRow DEF ChannelInv, Tables
  <2> QED
    BY <2>1, <2>2, InsertedRow, KeepsChannels
<1>3. ASSUME NEW id \in DOMAIN channels, DeleteChannel(id) PROVE ChannelInv'
  <2>1. channels' = [other \in DOMAIN channels \ {id} |-> channels[other]]
        /\ UNCHANGED <<nextChannel, mode, filePresent, imports, edits, accounted>>
    BY <1>3 DEF DeleteChannel
  <2>2. DOMAIN channels' = DOMAIN channels \ {id} /\ \A k \in DOMAIN channels' : channels'[k] = channels[k]
    BY <2>1
  <2>3. Tables'
    BY <2>1, <2>2 DEF ChannelInv, Tables
  <2>4. DOMAIN channels' \subseteq 1..(nextChannel' - 1) /\ \A k \in DOMAIN channels' : DOMAIN channels'[k] = Columns
    BY <2>1, <2>2 DEF ChannelInv, ChannelTypeOK
  <2> QED
    BY <1>1, <2>1, <2>3, <2>4, KeepsChannels
<1>4. ASSUME NEW m, SetMode(m) PROVE ChannelInv'
  BY <1>4 DEF SetMode, ChannelInv, Tables, ChannelTypeOK, Covered, RemovedWhenImported
<1> QED
  BY <1>2, <1>3, <1>4 DEF ChannelTable

LEMMA ChannelKeepsEdits ==
  ASSUME ChannelInv, ChannelEdits
  PROVE  ChannelInv'
<1>1. nextChannel \in nextChannel..(MaxChannels + 1) /\ DOMAIN channels \subseteq 1..(nextChannel - 1)
  BY ChannelAssumption DEF ChannelInv, ChannelTypeOK
<1>2. \A id \in DOMAIN channels : DOMAIN channels[id] = Columns
  BY DEF ChannelInv, ChannelTypeOK
<1>3. ASSUME NEW e \in Editors, NEW id \in DOMAIN channels, NEW updates \in Updates,
             ReadChannel(e, id, updates)
      PROVE  ChannelInv'
  <2>1. /\ edits' = [edits EXCEPT ![e] = [id |-> id, row |-> channels[id], updates |-> updates]]
        /\ UNCHANGED <<channels, nextChannel, mode, filePresent, imports, accounted>>
    BY <1>3 DEF ReadChannel
  <2>2. \A k \in Editors : edits'[k] = edits[k] \/ edits'[k].id \in 1..(nextChannel - 1)
    BY <1>1, <2>1 DEF ChannelInv, Tables
  <2>3. Tables'
    BY <2>1 DEF ChannelInv, Tables
  <2> QED
    BY <1>1, <1>2, <2>1, <2>2, <2>3, KeepsChannels
<1>4. ASSUME NEW e \in Editors, EditFails(e) PROVE ChannelInv'
  <2>1. /\ edits' = [edits EXCEPT ![e] = NoEdit]
        /\ UNCHANGED <<channels, nextChannel, mode, filePresent, imports, accounted>>
    BY <1>4 DEF EditFails
  <2>2. Tables' /\ \A k \in Editors : edits'[k] = edits[k] \/ edits'[k] = NoEdit
    BY <2>1 DEF ChannelInv, Tables
  <2> QED
    BY <1>1, <1>2, <2>1, <2>2, KeepsChannels
<1> QED
  BY <1>3, <1>4, ChannelKeepsCommit DEF ChannelEdits

(* A step of an import that takes no channel out of what is accounted for,  *)
(* and removes the file only when all of them are. *)
LEMMA KeepsImport ==
  ASSUME ChannelInv, NEW p \in Importers, NEW phase \in {"start", "mode", "list", "adding", "done"},
         NEW todo \in SUBSET DOMAIN Legacy, Importing(p, phase, todo),
         UNCHANGED <<channels, nextChannel, edits>>, accounted \subseteq accounted',
         accounted' \subseteq LegacyNames, filePresent' \in BOOLEAN,
         phase = "adding" => LegacyNames \subseteq accounted' \cup {Legacy[i].name : i \in todo},
         filePresent' = filePresent \/ LegacyNames \subseteq accounted
  PROVE  ChannelInv'
<1>1. imports' = [imports EXCEPT ![p] = [stage |-> phase, todo |-> todo]]
  BY DEF Importing
<1>2. Tables'
  BY <1>1 DEF ChannelInv, Tables
<1>3. imports'[p].stage = phase /\ imports'[p].todo = todo /\ \A q \in Importers : q # p => imports'[q] = imports[q]
  BY <1>1 DEF ChannelInv, Tables
<1>4. Covered'
  BY <1>3 DEF ChannelInv, Covered, LegacyNames
<1>5. ChannelTypeOK'
  BY <1>3 DEF ChannelInv, ChannelTypeOK, LegacyNames, Columns, NoEdit
<1> QED
  BY <1>2, <1>4, <1>5 DEF ChannelInv, RemovedWhenImported, LegacyNames

LEMMA ChannelKeepsImport ==
  ASSUME ChannelInv, NEW p \in Importers, ImportChannel(p)
  PROVE  ChannelInv'
<1>1. PICK i \in imports[p].todo :
          /\ Inserted(Legacy[i]) /\ accounted' = accounted \cup {Legacy[i].name}
          /\ Importing(p, "adding", imports[p].todo \ {i})
  BY DEF ImportChannel
<1>2. imports[p].stage = "adding" /\ UNCHANGED <<mode, filePresent, edits>>
  BY DEF ImportChannel
<1>3. imports[p].todo \subseteq DOMAIN Legacy /\ i \in DOMAIN Legacy /\ DOMAIN Legacy[i] = Columns
  BY <1>1, ChannelAssumption DEF ChannelInv, Covered
<1> DEFINE todo == imports[p].todo \ {i}
<1>4. imports' = [imports EXCEPT ![p] = [stage |-> "adding", todo |-> todo]]
  BY <1>1 DEF Importing
<1>5. Tables'
  <2>1. todo \in SUBSET DOMAIN Legacy
    BY <1>3
  <2> HIDE DEF todo
  <2>2. imports' \in [Importers -> [stage : {"start", "mode", "list", "adding", "done"},
                                    todo : SUBSET DOMAIN Legacy]]
    BY <1>4, <2>1 DEF ChannelInv, Tables
  <2> QED
    BY <1>1, <1>2, <1>3, <2>2, InsertedRow DEF ChannelInv, Tables
<1>6. /\ imports'[p].stage = "adding" /\ imports'[p].todo = todo
      /\ \A q \in Importers : q # p => imports'[q] = imports[q]
  BY <1>4 DEF ChannelInv, Tables
<1>7. Covered'
  <2>1. LegacyNames \subseteq accounted' \cup {Legacy[k].name : k \in todo}
    BY <1>1, <1>2 DEF ChannelInv, Covered
  <2> QED
    BY <1>1, <1>3, <1>6, <2>1 DEF ChannelInv, Covered, LegacyNames
<1>8. accounted' \subseteq LegacyNames
  BY <1>1, <1>3 DEF ChannelInv, ChannelTypeOK, LegacyNames
<1>9. \A e \in Editors : edits'[e] = NoEdit \/ edits'[e].id \in 1..(nextChannel' - 1)
  <2>1. nextChannel' = nextChannel + 1 /\ nextChannel \in Nat
    BY <1>1, <1>3, InsertedRow DEF ChannelInv, ChannelTypeOK
  <2> QED
    BY <1>2, <2>1 DEF ChannelInv, ChannelTypeOK
<1>10. ChannelTypeOK'
  <2>1. \A q \in Importers : imports'[q].stage \in {"start", "mode", "list", "adding", "done"}
    BY <1>6 DEF ChannelInv, ChannelTypeOK
  <2>2. /\ nextChannel' \in 1..(MaxChannels + 1) /\ DOMAIN channels' \subseteq 1..(nextChannel' - 1)
        /\ \A id \in DOMAIN channels' : DOMAIN channels'[id] = Columns
    BY <1>1, <1>3, InsertedRow
  <2> QED
    BY <1>2, <1>8, <1>9, <2>1, <2>2 DEF ChannelInv, ChannelTypeOK, LegacyNames, Columns, NoEdit
<1> QED
  BY <1>1, <1>2, <1>5, <1>7, <1>10 DEF ChannelInv, RemovedWhenImported, LegacyNames

LEMMA ChannelKeepsImports ==
  ASSUME ChannelInv, ChannelImports
  PROVE  ChannelInv'
<1> SUFFICES ASSUME NEW p \in Importers,
                    \/ BeginImport(p) \/ ImportMode(p) \/ ListKnown(p) \/ ImportChannel(p)
                    \/ RemoveFile(p) \/ ImportEnds(p) \/ ImporterRestarts(p)
             PROVE  ChannelInv'
  BY DEF ChannelImports
<1>1. accounted \subseteq LegacyNames /\ filePresent \in BOOLEAN /\ {} \in SUBSET DOMAIN Legacy
  BY DEF ChannelInv, ChannelTypeOK
<1>2. CASE BeginImport(p)
  <2>1. PICK phase \in {"mode", "list"} : Importing(p, phase, {})
    BY <1>2 DEF BeginImport
  <2>2. phase \in {"start", "mode", "list", "adding", "done"} /\ phase # "adding"
    OBVIOUS
  <2>3. UNCHANGED <<channels, nextChannel, filePresent, edits, accounted>>
    BY <1>2 DEF BeginImport
  <2> QED
    BY <1>1, <2>1, <2>2, <2>3, KeepsImport
<1>3. CASE ImportMode(p)
  <2>1. Importing(p, "list", {}) /\ UNCHANGED <<channels, nextChannel, filePresent, edits, accounted>>
    BY <1>3 DEF ImportMode
  <2> QED
    BY <1>1, <2>1, KeepsImport
<1>4. CASE ListKnown(p)
  <2> DEFINE todo == {i \in DOMAIN Legacy : Legacy[i].name \notin ChannelNames}
  <2>1. /\ Importing(p, "adding", todo) /\ accounted' = accounted \cup (LegacyNames \cap ChannelNames)
        /\ UNCHANGED <<channels, nextChannel, mode, filePresent, edits>>
    BY <1>4 DEF ListKnown
  <2>2. LegacyNames \subseteq accounted' \cup {Legacy[i].name : i \in todo}
    BY <2>1 DEF LegacyNames
  <2>3. todo \in SUBSET DOMAIN Legacy /\ accounted \subseteq accounted' /\ accounted' \subseteq LegacyNames
    BY <1>1, <2>1
  <2> HIDE DEF todo
  <2> QED
    BY <1>1, <2>1, <2>2, <2>3, KeepsImport
<1>5. CASE ImportChannel(p)
  BY <1>5, ChannelKeepsImport
<1>6. CASE RemoveFile(p)
  <2>1. /\ imports[p].stage = "adding" /\ imports[p].todo = {} /\ filePresent' = FALSE
        /\ Importing(p, "done", {}) /\ UNCHANGED <<channels, nextChannel, mode, edits, accounted>>
    BY <1>6 DEF RemoveFile
  <2>2. LegacyNames \subseteq accounted
    BY <2>1 DEF ChannelInv, Covered
  <2> QED
    BY <1>1, <2>1, <2>2, KeepsImport
<1>7. CASE ImportEnds(p)
  <2>1. Importing(p, "done", {}) /\ UNCHANGED <<channels, nextChannel, filePresent, edits, accounted>>
    BY <1>7 DEF ImportEnds
  <2> QED
    BY <1>1, <2>1, KeepsImport
<1>8. CASE ImporterRestarts(p)
  <2>1. Importing(p, "start", {}) /\ UNCHANGED <<channels, nextChannel, filePresent, edits, accounted>>
    BY <1>8 DEF ImporterRestarts
  <2> QED
    BY <1>1, <2>1, KeepsImport
<1> QED
  BY <1>2, <1>3, <1>4, <1>5, <1>6, <1>7, <1>8

LEMMA ChannelInvStep == ChannelInv /\ [ChannelNext]_channelVars => ChannelInv'
<1> SUFFICES ASSUME ChannelInv, [ChannelNext]_channelVars PROVE ChannelInv'
  OBVIOUS
<1>1. CASE UNCHANGED channelVars
  BY <1>1 DEF channelVars, ChannelInv, Tables, ChannelTypeOK, Covered, RemovedWhenImported
<1> QED
  BY <1>1, ChannelKeepsTable, ChannelKeepsEdits, ChannelKeepsImports DEF ChannelNext

(* For any processes, requests and old settings: the file of the old        *)
(* settings is removed only when each of its channels was added or found    *)
(* (_import_legacy_settings). *)
THEOREM RemovedWhenImportedHolds == ChannelSpec => [](ChannelTypeOK /\ RemovedWhenImported)
<1>1. ChannelInit => ChannelInv
  BY ChannelInvInit
<1>2. ChannelInv /\ [ChannelNext]_channelVars => ChannelInv'
  BY ChannelInvStep
<1>3. ChannelInv => ChannelTypeOK /\ RemovedWhenImported
  BY DEF ChannelInv
<1> QED
  BY <1>1, <1>2, <1>3, PTL DEF ChannelSpec

-----------------------------------------------------------------------------
(* What EditsAsAsked says of one step. *)
AsAsked ==
    \A id \in DOMAIN channels \cap DOMAIN channels' : \A c \in DOMAIN channels[id] :
        channels'[id][c] # channels[id][c] =>
            \E e \in Editors :
                /\ edits[e].id = id /\ edits'[e] = NoEdit
                /\ c \in DOMAIN edits[e].updates
                /\ channels'[id][c] = edits[e].updates[c]
                /\ c = "url" => channels'[id].url # MaskedUrl

LEMMA RowsKept ==
  ASSUME \A id \in DOMAIN channels \cap DOMAIN channels' : channels'[id] = channels[id]
  PROVE  AsAsked
BY DEF AsAsked

LEMMA CommitAsAsked ==
  ASSUME ChannelInv, NEW e \in Editors, CommitChannel(e)
  PROVE  AsAsked
<1> DEFINE edit == edits[e]
<1>1. /\ edit.id \in DOMAIN channels
      /\ channels' = [channels EXCEPT ![edit.id] =
           [c \in DOMAIN @ |-> IF c \in Written(edit) THEN edit.updates[c] ELSE @[c]]]
      /\ edits' = [edits EXCEPT ![e] = NoEdit]
  BY DEF CommitChannel
<1>2. edits'[e] = NoEdit
  BY <1>1 DEF ChannelInv, Tables
<1>3. \A c \in Written(edit) : c \in DOMAIN edit.updates /\ (c = "url" => edit.updates.url # MaskedUrl)
  BY DEF Written
<1> SUFFICES ASSUME NEW id \in DOMAIN channels, NEW c \in DOMAIN channels[id],
                    channels'[id][c] # channels[id][c]
             PROVE  \E k \in Editors :
                      /\ edits[k].id = id /\ edits'[k] = NoEdit
                      /\ c \in DOMAIN edits[k].updates
                      /\ channels'[id][c] = edits[k].updates[c]
                      /\ c = "url" => channels'[id].url # MaskedUrl
  BY DEF AsAsked
<1> HIDE DEF edit
<1>4. edit.id = id
  BY <1>1
<1>5. channels'[id][c] = IF c \in Written(edit) THEN edit.updates[c] ELSE channels[id][c]
  BY <1>1, <1>4
<1>6. c \in Written(edit) /\ channels'[id][c] = edit.updates[c]
  BY <1>5
<1>7. c = "url" => channels'[id].url # MaskedUrl
  BY <1>3, <1>6
<1> QED
  BY <1>2, <1>3, <1>4, <1>6, <1>7 DEF edit

LEMMA ChannelStepAsAsked == ChannelInv /\ [ChannelNext]_channelVars => AsAsked
<1> SUFFICES ASSUME ChannelInv, [ChannelNext]_channelVars PROVE AsAsked
  OBVIOUS
<1>1. CASE UNCHANGED channels
  BY <1>1, RowsKept
<1>2. ASSUME NEW given, Inserted(given) PROVE AsAsked
  <2>1. \A id \in DOMAIN channels : id # nextChannel
    BY DEF ChannelInv, ChannelTypeOK
  <2> QED
    BY <1>2, <2>1, RowsKept DEF Inserted
<1>3. ASSUME NEW id \in DOMAIN channels, DeleteChannel(id) PROVE AsAsked
  BY <1>3, RowsKept DEF DeleteChannel
<1>4. CASE ChannelTable
  BY <1>1, <1>2, <1>3, <1>4 DEF ChannelTable, AddChannel, SetMode
<1>5. CASE ChannelEdits
  BY <1>1, <1>5, CommitAsAsked DEF ChannelEdits, ReadChannel, EditFails
<1>6. CASE ChannelImports
  BY <1>1, <1>2, <1>6 DEF ChannelImports, BeginImport, ImportMode, ListKnown, ImportChannel,
     RemoveFile, ImportEnds, ImporterRestarts
<1>7. CASE UNCHANGED channelVars
  BY <1>1, <1>7 DEF channelVars
<1> QED
  BY <1>4, <1>5, <1>6, <1>7 DEF ChannelNext

(* However requests for a channel overlap: a column changes only to what a  *)
(* request that names it asks for, and a URL never to the mask              *)
(* (update_channel). *)
THEOREM EditsAsAskedHolds == ChannelSpec => EditsAsAsked
<1>1. ChannelInit => ChannelInv
  BY ChannelInvInit
<1>2. ChannelInv /\ [ChannelNext]_channelVars => ChannelInv'
  BY ChannelInvStep
<1>3. ChannelInv /\ [ChannelNext]_channelVars => [AsAsked]_channelVars
  BY ChannelStepAsAsked
<1>4. EditsAsAsked <=> [][AsAsked]_channelVars
  BY PTL DEF EditsAsAsked, AsAsked
<1> QED
  BY <1>1, <1>2, <1>3, <1>4, PTL DEF ChannelSpec

-----------------------------------------------------------------------------
(***************************************************************************)
(* The server: each of its steps is a step of one part, and to the others  *)
(* it is no step at all.                                                   *)
(***************************************************************************)
ServerInv ==
    /\ part \in Parts
    /\ IF part = "pipeline" THEN PipelineInv ELSE PipelineAt("off")
    /\ part = "pipeline" => IdleSends /\ SecretsInv
    /\ AuditInv /\ SourceInv /\ AccessInv /\ ScanInv /\ StatusInv /\ ChannelInv
    /\ WindowInv /\ ThrottleInv

LEMMA ServerStep ==
  ASSUME [ServerNext]_serverVars
  PROVE  /\ part' = part /\ [PipelineNext]_pipelineVars
         /\ part # "pipeline" => UNCHANGED pipelineVars
         /\ [AuditNext]_auditVars /\ [SourceNext]_sourceVars /\ [AccessNext]_accessVars
         /\ [ScanNext]_scanVars /\ [StatusNext]_statusVars /\ [ChannelNext]_channelVars
         /\ [BucketNext]_bucketVars
<1>1. CASE Pipeline
  BY <1>1 DEF Pipeline, Still
<1>2. CASE Audit
  BY <1>2 DEF Audit, Still
<1>3. CASE Sources
  BY <1>3 DEF Sources, Still
<1>4. CASE Accesses
  BY <1>4 DEF Accesses, Still
<1>5. CASE Scans
  BY <1>5 DEF Scans, Still
<1>6. CASE Statuses
  BY <1>6 DEF Statuses, Still
<1>7. CASE Edits
  BY <1>7 DEF Edits, Still, ChannelNext
<1>8. CASE Imports
  BY <1>8 DEF Imports, Still, ChannelNext
<1>9. CASE Limits
  BY <1>9 DEF Limits, Still
<1>10. CASE UNCHANGED serverVars
  BY <1>10 DEF serverVars
<1> QED
  BY <1>1, <1>2, <1>3, <1>4, <1>5, <1>6, <1>7, <1>8, <1>9, <1>10 DEF ServerNext

LEMMA ServerInvInit == ServerInit => ServerInv
<1> SUFFICES ASSUME ServerInit PROVE ServerInv
  OBVIOUS
<1>1. IF part = "pipeline" THEN PipelineInv ELSE PipelineAt("off")
  BY PipelineInvInit DEF ServerInit
<1>2. AuditInv /\ SourceInv /\ AccessInv /\ ScanInv /\ StatusInv /\ ChannelInv
  BY AuditInvInit, SourceInvInit, AccessInvInit, ScanInvInit, StatusInvInit, ChannelInvInit DEF ServerInit
<1>3. WindowInv /\ ThrottleInv
  BY WindowInit, ThrottleInit DEF ServerInit
<1>4. part = "pipeline" => IdleSends /\ SecretsInv
  BY IdleSendsInit, SecretsInvInit DEF ServerInit
<1> QED
  BY <1>1, <1>2, <1>3, <1>4 DEF ServerInit, ServerInv

LEMMA ServerInvNext == ServerInv /\ [ServerNext]_serverVars => ServerInv'
<1> SUFFICES ASSUME ServerInv, [ServerNext]_serverVars PROVE ServerInv'
  OBVIOUS
<1>1. part' = part /\ part \in Parts
  BY ServerStep DEF ServerInv
<1>2. AuditInv' /\ SourceInv' /\ AccessInv' /\ ScanInv' /\ StatusInv' /\ ChannelInv'
  BY ServerStep, AuditInvNext, SourceInvNext, AccessInvNext, ScanInvStep, StatusInvStep, ChannelInvStep
     DEF ServerInv
<1>3. WindowInv' /\ ThrottleInv'
  BY ServerStep, WindowStep, ThrottleStep DEF ServerInv
<1>4. CASE part = "pipeline"
  <2>1. PipelineInv'
    BY <1>4, ServerStep, PipelineInvStep DEF ServerInv
  <2>2. IdleSends' /\ SecretsInv'
    BY <1>4, ServerStep, IdleSendsStep, SecretsInvStep DEF ServerInv
  <2> QED
    BY <1>1, <1>2, <1>3, <1>4, <2>1, <2>2 DEF ServerInv
<1>5. CASE part # "pipeline"
  <2>1. PipelineAt("off")'
    BY <1>5, ServerStep DEF ServerInv, PipelineAt, pipelineVars, marks
  <2> QED
    BY <1>1, <1>2, <1>5, <1>3, <2>1 DEF ServerInv
<1> QED
  BY <1>4, <1>5

(* What a server keeps to, whichever of its parts moves. *)
ServerPromises ==
    /\ PullWasVetted /\ ContainerConfined /\ TaintSound
    /\ SecretsKept
    /\ SectionsAsWritten /\ RedactedExactly /\ PatchReproduces
    /\ EveryEntryAccountedFor
    /\ RetiredKeyRefused /\ OneAdmin /\ ServedInSession /\ ErrorsReadAreTaken
    /\ BackMeansOpen /\ RemovedWhenImported
    /\ WindowBound /\ ThrottledAfterGrant

LEMMA ServerInvPromises == ServerInv => ServerTypeOK /\ ServerPromises
<1> SUFFICES ASSUME ServerInv PROVE ServerTypeOK /\ ServerPromises
  OBVIOUS
<1>1. AuditInv /\ SourceInv /\ AccessInv /\ ScanInv /\ StatusInv /\ ChannelInv
  BY DEF ServerInv
<1>2. AuditTypeOK /\ EveryEntryAccountedFor
  BY <1>1, AuditInvType, TrailInvAccounts DEF AuditInv
<1>3. SourceTypeOK /\ RetiredKeyRefused
  BY <1>1 DEF SourceInv
<1>4. AccessTypeOK /\ OneAdmin /\ ServedInSession
  BY <1>1, AccessInvType, AdminInvOne DEF AccessInv, SessionInv
<1>5. ScanTypeOK /\ ErrorsReadAreTaken
  BY <1>1, ScanInvTells
<1>6. StatusTypeOK /\ BackMeansOpen
  BY <1>1, StatusInvTells
<1>7. ChannelTypeOK /\ RemovedWhenImported
  BY <1>1 DEF ChannelInv
<1>8. part = "pipeline" => PipelineTypeOK
  BY PipelineInvTells DEF ServerInv
<1>9. PullWasVetted /\ ContainerConfined
  <2>1. CASE part = "pipeline"
    BY <2>1, PipelineInvTells, SMTT(30) DEF ServerInv
  <2>2. CASE part # "pipeline"
    BY <2>2 DEF ServerInv, PipelineAt, PullWasVetted, ContainerConfined
  <2> QED
    BY <2>1, <2>2
<1>10. TaintSound /\ SectionsAsWritten /\ RedactedExactly /\ PatchReproduces
  BY TaintIsSound, TheSections, TheRedaction, TheDiffs
<1>11. BucketTypeOK /\ WindowBound /\ ThrottledAfterGrant
  BY WindowInvBounds DEF ServerInv, WindowInv, BucketInv, ThrottleInv
<1>12. SecretsKept
  <2>1. CASE part = "pipeline"
    BY <2>1, SecretsTold DEF ServerInv
  <2>2. CASE part # "pipeline"
    BY <2>2 DEF ServerInv, PipelineAt, SecretsKept
  <2> QED
    BY <2>1, <2>2
<1>13. ServerTypeOK
  BY <1>2, <1>3, <1>4, <1>5, <1>6, <1>7, <1>8, <1>11 DEF ServerInv, ServerTypeOK
<1> QED
  BY <1>2, <1>3, <1>4, <1>5, <1>6, <1>7, <1>9, <1>10, <1>11, <1>12, <1>13
     DEF ServerPromises

(* The types of the server's state, whichever of its parts moves. *)
THEOREM ServerTypeCorrect == ServerSpec => []ServerTypeOK
<1> QED
  BY ServerInvInit, ServerInvNext, ServerInvPromises, PTL DEF ServerSpec

(* What is proved of each part is so in the server: no step of one part is  *)
(* the violation of another's promise. *)
THEOREM ServerPromisesHold ==
  ServerSpec => []ServerPromises /\ HiddenBySight /\ EditsAsAsked
<1>1. ServerInv /\ [ServerNext]_serverVars =>
        [\A id \in DOMAIN rows :
          /\ ~rows[id].archived => id \in DOMAIN rows'
          /\ (id \in DOMAIN rows' => rows'[id].archived # rows[id].archived)
             => \E a \in Admins : \E i \in DOMAIN screens[a] : id \in screens[a][i].rowIds]_auditVars
  <2>1. ServerInv => RowsBelow
    BY DEF ServerInv, AuditInv, TrailInv
  <2> QED
    BY <2>1, ServerStep, HiddenStep
<1>2. ServerInv /\ [ServerNext]_serverVars => AsAsked
  BY ServerStep, ChannelStepAsAsked DEF ServerInv
<1> QED
  BY <1>1, <1>2, ServerInvInit, ServerInvNext, ServerInvPromises, PTL
     DEF ServerSpec, HiddenBySight, EditsAsAsked, AsAsked
=============================================================================
