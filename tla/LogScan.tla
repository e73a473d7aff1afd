-------------------------------- MODULE LogScan --------------------------------
(***************************************************************************)
(* The scan of a log file (src/src/services/watcher.py) and what becomes   *)
(* of the incidents it finds (_do_scan in src/src/core/state.py).          *)
(*                                                                         *)
(* The file is a sequence of symbols: "nl" ends a line; "er" and "ror" are *)
(* the halves of a word that marks an error; "exc" is a mark that also     *)
(* continues a stack trace ("Traceback"); "indent" at the start of a line  *)
(* continues one; "text" is any other word.  The application writes a      *)
(* piece at a time, not always whole lines, nor always a whole word, of    *)
(* which the word of two halves stands for all.  Whether the table has an  *)
(* incident already is left open: others store incidents too.              *)
(***************************************************************************)
EXTENDS Naturals, SequencesExt, FiniteSetsExt

CONSTANTS Pieces,   \* what the application writes
          MaxBlock, \* max_stacktrace_lines
          MaxLog    \* bound: symbols in the file

Symbols == {"nl", "er", "ror", "exc", "indent", "text"}

ASSUME LogAssumption ==
    Pieces \subseteq Seq(Symbols) /\ MaxBlock \in Nat \ {0} /\ MaxLog \in Nat

VARIABLES logFile,
          cursor,    \* _file_position
          from,      \* where reading without a gap began
          truncated, \* since the last scan
          found,     \* incidents of the scan under way, to be stored
          current,   \* one that is to be analysed, in a sequence of at most one
          handled,   \* places in the file that a stored or notified incident shows
          silenced,  \* history: those that only an unstored one shows, told to nobody
          halves     \* history: where a scan ended between the halves of a word

scanVars ==
    <<logFile, cursor, from, truncated, found, current, handled, silenced, halves>>

ScanInit ==
    /\ logFile = << >> /\ cursor = 0 /\ from = 0 /\ truncated = FALSE
    /\ found = << >> /\ current = << >> /\ handled = {} /\ silenced = {} /\ halves = {}

-----------------------------------------------------------------------------
(* The application, and whoever rotates its log. *)
WriteLog(piece) ==
    /\ Len(logFile) + Len(piece) <= MaxLog
    /\ logFile' = logFile \o piece
    /\ UNCHANGED <<cursor, from, truncated, found, current, handled, silenced, halves>>

Elsewhere(blocks) == [i \in DOMAIN blocks |-> [blocks[i] EXCEPT !.places = {}]]

TruncateLog ==
    /\ logFile # << >> /\ logFile' = << >> /\ truncated' = TRUE
    /\ found' = Elsewhere(found) /\ current' = Elsewhere(current)
    /\ handled' = {} /\ silenced' = {} /\ halves' = {}
    /\ UNCHANGED <<cursor, from>>

-----------------------------------------------------------------------------
(* A line is where it stands in the file; it begins after the newline       *)
(* before it, or where reading begins. *)
Line(first, last) == [places |-> first..last, text |-> SubSeq(logFile, first, last)]

EndsLine(i) == logFile[i] = "nl" \/ i = Len(logFile)
LineTo(position, i) ==
    Line(Max({position} \cup {k \in (position + 1)..(i - 1) : logFile[k] = "nl"}) + 1, i)

ErrorAt(text, i) == text[i] = "er" /\ i < Len(text) /\ text[i + 1] = "ror"
IsErrorSignal(line) ==
    \E i \in DOMAIN line.text : line.text[i] = "exc" \/ ErrorAt(line.text, i)
Blank(line) == ToSet(line.text) \subseteq {"nl", "indent"}
LooksLikeContinuation(line) ==
    \/ line.text[1] = "exc"
    \/ line.text[1] = "indent" /\ ~Blank(line)

(* A block is an incident's lines; it is open while lines may be added. *)
Block(line) == [places |-> line.places, lines |-> 1]
Extended(block, line) ==
    [places |-> block.places \cup line.places, lines |-> block.lines + 1]

(* Mutant of ScanLine: the line that ends a block is consumed with it. *)
ScanLineConsumed(scan, line) ==
    LET last == Len(scan.blocks)
    IN IF scan.open /\ scan.blocks[last].lines < MaxBlock /\ (LooksLikeContinuation(line) \/ Blank(line))
       THEN [scan EXCEPT !.blocks[last] = Extended(@, line)]
       ELSE IF IsErrorSignal(line) /\ ~scan.open
       THEN [blocks |-> Append(scan.blocks, Block(line)), open |-> TRUE]
       ELSE [scan EXCEPT !.open = FALSE]

(* scan_once with _collect_multiline_error_block: a line that continues the *)
(* block of the error before it, if that is not full; an error of its own;  *)
(* any other line. *)
ScanLine(scan, line) ==
    LET last == Len(scan.blocks)
    IN IF scan.open /\ scan.blocks[last].lines < MaxBlock /\ (LooksLikeContinuation(line) \/ Blank(line))
       THEN [scan EXCEPT !.blocks[last] = Extended(@, line)]
       ELSE IF IsErrorSignal(line)
       THEN [blocks |-> Append(scan.blocks, Block(line)), open |-> TRUE]
       ELSE [scan EXCEPT !.open = FALSE]

NoScan == [blocks |-> << >>, open |-> FALSE]

(* The lines after a position, one after the other. *)
Scanned(position) ==
    LET scan[i \in 0..Len(logFile)] ==
            IF i <= position THEN NoScan
            ELSE IF EndsLine(i) THEN ScanLine(scan[i - 1], LineTo(position, i))
            ELSE scan[i - 1]
    IN scan

Incidents(position) == Scanned(position)[Len(logFile)].blocks

Scanning == found # << >> \/ current # << >>

(* The cursor from which a scan reads: a file that is shorter was emptied. *)
StartOfScan == IF Len(logFile) < cursor THEN 0 ELSE cursor

(* scan_once, under the lock of scan_logs_once. *)
Scan ==
    /\ ~Scanning
    /\ found' = Incidents(StartOfScan)
    /\ cursor' = Len(logFile)
    /\ from' = IF StartOfScan = 0 THEN 0 ELSE IF truncated THEN cursor ELSE from
    /\ truncated' = FALSE
    /\ halves' = halves \cup {i \in DOMAIN logFile : i = Len(logFile) /\ logFile[i] = "er"}
    /\ UNCHANGED <<logFile, current, handled, silenced>>

(* _store_incident: a repeat is counted; one that is new, or that cannot be *)
(* stored, is to be analysed. *)
StoreIncident ==
    /\ found # << >> /\ current = << >> /\ found' = Tail(found)
    /\ \/ handled' = handled \cup Head(found).places /\ current' \in {<< >>, <<Head(found)>>}
       \/ current' = <<Head(found)>> /\ UNCHANGED handled
    /\ UNCHANGED <<logFile, cursor, from, truncated, silenced, halves>>

(* analyse_new_incident, which ends with the notification; it names no      *)
(* channel when the table of channels cannot be read. *)
AnalyseIncident ==
    /\ current # << >> /\ current' = << >>
    /\ \/ handled' = handled \cup current[1].places /\ UNCHANGED silenced
       \/ silenced' = silenced \cup (current[1].places \ handled) /\ UNCHANGED handled
    /\ UNCHANGED <<logFile, cursor, from, truncated, found, halves>>

(* The process starts anew: at the end of the file (initialize_position). *)
Restart ==
    /\ cursor' = Len(logFile) /\ from' = Len(logFile) /\ truncated' = FALSE
    /\ found' = << >> /\ current' = << >>
    /\ handled' = {} /\ silenced' = {} /\ halves' = {}
    /\ UNCHANGED logFile

ScanNext ==
    \/ \E piece \in Pieces : WriteLog(piece)
    \/ TruncateLog \/ Scan \/ StoreIncident \/ AnalyseIncident \/ Restart

ScanSpec == ScanInit /\ [][ScanNext]_scanVars
=============================================================================
