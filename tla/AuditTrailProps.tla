---------------------------- MODULE AuditTrailProps ----------------------------
(* What the audit log must guarantee. *)
EXTENDS AuditTrail

AuditTypeOK ==
    /\ recorded \in 0..MaxEntries /\ nextRow \in 1..(MaxEntries + 1)
    /\ DOMAIN rows \subseteq 1..(nextRow - 1)
    /\ \A id \in DOMAIN rows : rows[id].by = "nobody" <=> ~rows[id].archived
    /\ Len(log) <= recorded
    /\ \A w \in Writers : Cardinality(writing[w]) <= 1
    /\ \A a \in Admins : Len(screens[a]) <= FeedLimit

(* The file is the record that stays: whatever the table has got, in       *)
(* whatever order the writers and their crashes came, is in the file too,  *)
(* unless the file refused it; and no entry is there twice (record,        *)
(* _append, _store). *)
TableIsInFile ==
    /\ \A id \in DOMAIN rows : rows[id].entry \in ToSet(log) \cup unlogged
    /\ \A i, j \in DOMAIN log : log[i].timestamp = log[j].timestamp => i = j
    /\ \A id, jd \in DOMAIN rows : rows[id].entry.timestamp = rows[jd].entry.timestamp => id = jd

(* A feed made from the table shows each of its rows in one event, which   *)
(* counts its rows and shows the newest of them; the limits cut off the    *)
(* oldest (build_feed, tail_rows). *)
FeedAccountsForRows ==
    \A archived \in BOOLEAN :
        LET items == ToSet(TableRows(archived))
            feed  == BuildFeed(TableRows(archived), FeedLimit)
            Alike(event) == {item \in items : EventKey(item.entry) = event.key}
            hidden == {item \in items : \A i \in DOMAIN feed : item \notin Alike(feed[i])}
        IN /\ \A i \in DOMAIN feed :
                 /\ feed[i].rowIds = {item.row : item \in Alike(feed[i])}
                 /\ feed[i].count = Cardinality(feed[i].rowIds)
                 /\ feed[i].newest = rows[Max(feed[i].rowIds)].entry.timestamp
           /\ hidden # {} => Len(feed) = FeedLimit
           /\ \A item \in hidden : \A i \in DOMAIN feed : item.row < Max(feed[i].rowIds)

(* No entry is lost between the file, the table and the feeds: the table   *)
(* holds nothing that the file lacks, and the feeds nothing but the table. *)
EveryEntryAccountedFor == TableIsInFile /\ FeedAccountsForRows

(* An entry leaves the feed only if an administrator had that very entry   *)
(* on a screen: one that repeats it and came after the screen was loaded   *)
(* stays.  It leaves the table only from the archive, however old the      *)
(* screen is from which it is deleted (archive, delete_archived). *)
HiddenBySight ==
    [][\A id \in DOMAIN rows :
          /\ ~rows[id].archived => id \in DOMAIN rows'
          /\ (id \in DOMAIN rows' => rows'[id].archived # rows[id].archived)
             => \E a \in Admins : \E i \in DOMAIN screens[a] : id \in screens[a][i].rowIds]_auditVars
=============================================================================
