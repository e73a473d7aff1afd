------------------------------ MODULE LogScanProps ------------------------------
(* What the scan of the log must guarantee. *)
EXTENDS LogScan

ScanTypeOK ==
    /\ Len(logFile) <= MaxLog /\ cursor \in 0..MaxLog /\ from \in 0..cursor
    /\ Len(current) <= 1
    /\ \A i \in DOMAIN found : found[i].lines \in 1..MaxBlock
    /\ handled \cup silenced \cup halves \subseteq DOMAIN logFile

(* Every error that a scan read whole is in an incident that is stored or  *)
(* notified, or waits for that, or was analysed while the database took    *)
(* neither the incident nor gave a channel to tell: whichever lines come   *)
(* around it and wherever a scan cuts the file, except inside the word     *)
(* that marks it, of which neither half is a mark.  What was read is the   *)
(* file from the start of the process; a file that was emptied is read     *)
(* from its beginning, unless it grew past the old cursor before the next  *)
(* scan (scan_once, _do_scan). *)
Awaited == UNION {b.places : b \in ToSet(found) \cup ToSet(current)}

ReadWhole(i) ==
    /\ from < i
    /\ \/ logFile[i] = "exc" /\ i <= cursor
       \/ ErrorAt(logFile, i) /\ i < cursor /\ i \notin halves

ErrorsReadAreTaken ==
    ~truncated => {i \in DOMAIN logFile : ReadWhole(i)} \subseteq handled \cup Awaited \cup silenced
=============================================================================
