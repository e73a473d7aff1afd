------------------------------ MODULE AuditTrail ------------------------------
(***************************************************************************)
(* The audit log (src/src/core/audit.py): an entry goes to a file, then to *)
(* a table; and the feed of it that administrators read, archive, restore  *)
(* and delete from (src/src/api/audit_routes.py).                          *)
(*                                                                         *)
(* Writers are the threads and processes that record entries.  Either      *)
(* store may fail, and a process may die between the two.  A screen is     *)
(* what an administrator's dashboard loaded last: it may be out of date.   *)
(***************************************************************************)
EXTENDS Naturals, FiniteSets, Sequences, SequencesExt, FiniteSetsExt

CONSTANTS Admins,
          Writers,
          Outcomes,   \* what may be recorded of a run
          ScanWindow, \* _SCAN_WINDOW, entries that a feed is made of
          FeedLimit,  \* events that it shows
          MaxIds,     \* _MAX_IDS, rows that one request names
          MaxEntries  \* bound: entries recorded

ASSUME AuditAssumption ==
    /\ ScanWindow \in Nat /\ FeedLimit \in Nat /\ MaxEntries \in Nat /\ "nobody" \notin Admins
    /\ \A o \in Outcomes : DOMAIN o =
          {"timestamp", "incident", "patch", "reason", "decision", "applied", "pull", "review"}

VARIABLES log,      \* the file
          rows,     \* the table, by row id
          recorded, \* entries so far; the last one's timestamp
          nextRow,  \* the sequence of row ids
          writing,  \* by writer, its entries that are in the file and not in the table
          unlogged, \* entries that could not be appended to the file
          screens   \* by administrator, the feed on the dashboard

auditVars == <<log, rows, recorded, nextRow, writing, unlogged, screens>>

AuditInit ==
    /\ log = << >> /\ rows = << >> /\ recorded = 0 /\ nextRow = 1
    /\ writing = [w \in Writers |-> {}] /\ unlogged = {}
    /\ screens = [a \in Admins |-> << >>]

-----------------------------------------------------------------------------
(* build_feed: newest first, an entry that repeats another one is counted   *)
(* with it.  An item is an entry with its row, 0 when it comes from the     *)
(* file. *)
EventKey(entry) == <<entry.incident, entry.patch, entry.reason>>

Classify(entry) ==
    CASE entry.decision = "block" -> "denied"
      [] entry.decision # "block" /\ entry.applied /\ entry.pull -> "pull request"
      [] entry.decision # "block" /\ entry.applied /\ ~entry.pull -> "applied"
      [] entry.decision # "block" /\ ~entry.applied ->
            IF entry.reason # "none" THEN "not applied"
            ELSE IF entry.review THEN "review" ELSE "suggestion"

RowIds(item) == {item.row} \ {0}

AddItem(feed, item) ==
    IF \E i \in DOMAIN feed : feed[i].key = EventKey(item.entry)
    THEN [i \in DOMAIN feed |->
            IF feed[i].key # EventKey(item.entry) THEN feed[i]
            ELSE [feed[i] EXCEPT !.count = @ + 1, !.rowIds = @ \cup RowIds(item)]]
    ELSE Append(feed, [key |-> EventKey(item.entry), title |-> Classify(item.entry),
                       newest |-> item.entry.timestamp, count |-> 1, rowIds |-> RowIds(item)])

BuildFeed(items, limit) ==
    LET feed == FoldLeft(AddItem, << >>, Reverse(items))
    IN SubSeq(feed, 1, Min({limit, Len(feed)}))

(* tail_rows: the last rows that are archived or that are not; the end of   *)
(* the file when the table cannot be read. *)
LastOf(seq, n) == SubSeq(seq, Max({1, Len(seq) - n + 1}), Len(seq))

Marked(archived) == {id \in DOMAIN rows : rows[id].archived = archived}

Ascending(ids) ==
    CHOOSE seq \in [1..Cardinality(ids) -> ids] :
        /\ \A id \in ids : \E i \in DOMAIN seq : seq[i] = id
        /\ \A i, j \in DOMAIN seq : i < j => seq[i] < seq[j]

TableRows(archived) ==
    LET ids == LastOf(Ascending(Marked(archived)), ScanWindow)
    IN [i \in DOMAIN ids |-> [entry |-> rows[ids[i]].entry, row |-> ids[i]]]

FileRows(archived) ==
    IF archived THEN << >>
    ELSE LET tail == LastOf(log, ScanWindow)
         IN [i \in DOMAIN tail |-> [entry |-> tail[i], row |-> 0]]

-----------------------------------------------------------------------------
(* Mutant of AppendEntry: the table first (the entry waits for the file). *)
AppendEntryLast(w, outcome) ==
    LET entry == [outcome EXCEPT !.timestamp = recorded + 1]
    IN /\ writing[w] = {} /\ recorded < MaxEntries
       /\ recorded' = recorded + 1
       /\ writing' = [writing EXCEPT ![w] = {entry}]
       /\ UNCHANGED <<log, unlogged, rows, nextRow, screens>>

(* record(): the entry is appended to the file, or that fails. *)
AppendEntry(w, outcome) ==
    LET entry == [outcome EXCEPT !.timestamp = recorded + 1]
    IN /\ writing[w] = {} /\ recorded < MaxEntries
       /\ recorded' = recorded + 1
       /\ \/ log' = Append(log, entry) /\ UNCHANGED unlogged
          \/ unlogged' = unlogged \cup {entry} /\ UNCHANGED log
       /\ writing' = [writing EXCEPT ![w] = {entry}]
       /\ UNCHANGED <<rows, nextRow, screens>>

(* _store: the row gets the next id, which is never given again; or the     *)
(* table cannot be written, which is logged and no more. *)
StoreEntry(w) ==
    \E entry \in writing[w] :
        /\ \/ /\ rows' = [id \in DOMAIN rows \cup {nextRow} |->
                            IF id = nextRow THEN [entry |-> entry, archived |-> FALSE, by |-> "nobody"]
                            ELSE rows[id]]
              /\ nextRow' = nextRow + 1
           \/ UNCHANGED <<rows, nextRow>>
        /\ writing' = [writing EXCEPT ![w] = {}]
        /\ UNCHANGED <<log, recorded, unlogged, screens>>

(* A writer dies between the file and the table. *)
WriterDies(w) ==
    /\ writing[w] # {}
    /\ writing' = [writing EXCEPT ![w] = {}]
    /\ UNCHANGED <<log, rows, recorded, nextRow, unlogged, screens>>

-----------------------------------------------------------------------------
(* GET /audit, active or archived; the table can be read or not. *)
LoadFeed(a, archived) ==
    /\ \E items \in {TableRows(archived), FileRows(archived)} :
          screens' = [screens EXCEPT ![a] = BuildFeed(items, FeedLimit)]
    /\ UNCHANGED <<log, rows, recorded, nextRow, writing, unlogged>>

(* The ids of some of the events on the screen, as the dashboard sends them. *)
Selections(a) ==
    {ids \in {UNION {screens[a][i].rowIds : i \in chosen} : chosen \in SUBSET DOMAIN screens[a]} :
        ids # {} /\ Cardinality(ids) <= MaxIds}

(* Mutant of ArchiveRows: all rows of the events are archived. *)
ArchiveRowsByKey(a, ids) ==
    LET keys == {EventKey(rows[id].entry) : id \in ids \cap DOMAIN rows}
    IN /\ rows' = [id \in DOMAIN rows |->
                      IF EventKey(rows[id].entry) \in keys
                      THEN [rows[id] EXCEPT !.archived = TRUE, !.by = a] ELSE rows[id]]
       /\ UNCHANGED <<log, recorded, nextRow, writing, unlogged, screens>>

(* Each of these is one statement: rows that are gone, or that are not in   *)
(* the state that it starts from, are left alone. *)
ArchiveRows(a, ids) ==
    /\ rows' = [id \in DOMAIN rows |->
                   IF id \in ids /\ ~rows[id].archived
                   THEN [rows[id] EXCEPT !.archived = TRUE, !.by = a] ELSE rows[id]]
    /\ UNCHANGED <<log, recorded, nextRow, writing, unlogged, screens>>

(* Mutant of RestoreRows: who archived the row is kept. *)
RestoreRowsNamed(ids) ==
    /\ rows' = [id \in DOMAIN rows |->
                   IF id \in ids THEN [rows[id] EXCEPT !.archived = FALSE] ELSE rows[id]]
    /\ UNCHANGED <<log, recorded, nextRow, writing, unlogged, screens>>

RestoreRows(ids) ==
    /\ rows' = [id \in DOMAIN rows |->
                   IF id \in ids THEN [rows[id] EXCEPT !.archived = FALSE, !.by = "nobody"]
                   ELSE rows[id]]
    /\ UNCHANGED <<log, recorded, nextRow, writing, unlogged, screens>>

DeleteRows(ids) ==
    /\ rows' = [id \in DOMAIN rows \ (ids \cap Marked(TRUE)) |-> rows[id]]
    /\ UNCHANGED <<log, recorded, nextRow, writing, unlogged, screens>>

AuditNext ==
    \/ \E w \in Writers : StoreEntry(w) \/ WriterDies(w) \/ \E o \in Outcomes : AppendEntry(w, o)
    \/ \E a \in Admins, archived \in BOOLEAN : LoadFeed(a, archived)
    \/ \E a \in Admins : \E ids \in Selections(a) :
          ArchiveRows(a, ids) \/ RestoreRows(ids) \/ DeleteRows(ids)

AuditSpec == AuditInit /\ [][AuditNext]_auditVars
=============================================================================
