----------------------- MODULE IncidentAnalysisProofs -----------------------
(***************************************************************************)
(* Proofs about the analysis of an incident, for any number of scanners,   *)
(* workers, contents of the file and failures.                             *)
(***************************************************************************)
EXTENDS IncidentAnalysisProps, TLAPS

LEMMA TypeInit == Init => TypeOK
<1> SUFFICES ASSUME Init PROVE TypeOK
  OBVIOUS
<1>1. /\ mode \in Mode \cup {None} /\ DefaultMode \in Mode
      /\ KnownModes \subseteq Mode
  BY AnalysisAssumption DEF Init, KnownModes
<1>2. cached \in [Analyser -> Mode]
  BY <1>1 DEF Init
<1>3. /\ stored \in BOOLEAN /\ pull \in BOOLEAN /\ again \in BOOLEAN
      /\ known \in [Analyser -> BOOLEAN] /\ opened \in [Analyser -> BOOLEAN]
  BY Zenon DEF Init
<1>4. sha \in [Analyser -> Sha] /\ meta \in [Analyser -> Sha]
  BY DEF Init, Sha
<1>5. ledger \in Seq(Blob) /\ branch \in Seq(Blob)
  BY DEF Init
<1>6. modes \subseteq Mode /\ permitted \subseteq Analyser
  BY <1>1 DEF Init
<1>7. suggestions \in Nat /\ faults \in 0 .. MaxFaults
  BY AnalysisAssumption DEF Init
<1>8. /\ pc \in [Analyser -> {"idle"}] /\ alert \in [Analyser -> {"none"}]
  BY DEF Init
<1> QED
  BY <1>1, <1>2, <1>3, <1>4, <1>5, <1>6, <1>7, <1>8 DEF TypeOK

LEMMA TypeBegin ==
  ASSUME TypeOK, BranchThere, NEW a \in Analyser,
         Detect(a) \/ DetectUnstored(a)
  PROVE  TypeOK'
<1> USE DEF TypeOK, Fault, Fine, github
<1>1. ASSUME NEW known_a \in BOOLEAN, Begin(a, known_a)
      PROVE  /\ mode' \in Mode \cup {None} /\ suggestions' \in Nat /\ modes' \subseteq Mode
             /\ permitted' \subseteq Analyser /\ sha' \in [Analyser -> Sha]
             /\ meta' \in [Analyser -> Sha] /\ opened' \in [Analyser -> BOOLEAN]
             /\ known' \in [Analyser -> BOOLEAN] /\ pc' = [pc EXCEPT ![a] = "mode"]
             /\ alert' = [alert EXCEPT ![a] = "due"]
             /\ UNCHANGED <<ledger, branch, pull, cached>>
  BY <1>1 DEF Begin, Goto, Sha
<1>2. CASE Detect(a)
  <2>1. Begin(a, TRUE)
    BY <1>2 DEF Detect
  <2>2. stored' \in BOOLEAN /\ again' \in BOOLEAN /\ faults' = faults
    BY <1>2 DEF Detect
  <2> QED
    BY <1>1, <2>1, <2>2
<1>3. CASE DetectUnstored(a)
  <2>1. Begin(a, FALSE)
    BY <1>3 DEF DetectUnstored
  <2>2. stored' \in BOOLEAN /\ again' \in BOOLEAN
    BY <1>3 DEF DetectUnstored
  <2>3. faults' \in 0 .. MaxFaults
    BY <1>3, AnalysisAssumption DEF DetectUnstored
  <2> QED
    BY <1>1, <2>1, <2>2, <2>3
<1> QED
  BY <1>2, <1>3

LEMMA TypeSuggest ==
  ASSUME TypeOK, NEW a \in Analyser, ReadMode(a) \/ Suggest(a)
  PROVE  TypeOK'
<1> USE AnalysisAssumption DEF TypeOK, Goto, Fault, Fine, Sha, Mode, github, database, locals, history
<1>1. CASE ReadMode(a)
  BY <1>1 DEF ReadMode
<1>2. CASE Suggest(a)
  BY <1>2 DEF Suggest
<1> QED
  BY <1>1, <1>2

LEMMA TypePull ==
  ASSUME TypeOK, BranchThere, NEW a \in Analyser,
         CreateBranch(a) \/ ReadFile(a) \/ CommitPatch(a) \/ OpenPull(a)
  PROVE  TypeOK'
<1> USE AnalysisAssumption DEF TypeOK, Goto, Fault, Fine, Sha, Mode, database, locals, history, github
<1>1. CASE CreateBranch(a)
  <2>1. Branched \in Seq(Blob)
    BY DEF Branched
  <2>2. branch' \in Seq(Blob)
    BY <1>1, <2>1 DEF CreateBranch
  <2>3. pc' \in [Analyser -> Mode \cup {"idle", "mode", "branch", "read", "commit", "pull",
                                       "store", "ledger", "notify"}]
    BY <1>1 DEF CreateBranch
  <2>4. faults' \in 0 .. MaxFaults
    BY <1>1 DEF CreateBranch
  <2> QED
    BY <1>1, <2>2, <2>3, <2>4 DEF CreateBranch
<1>2. CASE ReadFile(a)
  <2>1. Last(branch) \in Blob
    BY <1>2 DEF ReadFile, BranchThere, Last
  <2> QED
    BY <1>2, <2>1, SMTT(30) DEF ReadFile
<1>3. CASE CommitPatch(a)
  <2>1. branch' \in Seq(Blob)
    <3>1. \A blob \in Blob : Append(branch, blob) \in Seq(Blob)
      OBVIOUS
    <3> QED
      BY <1>3, <3>1, ZenonT(40) DEF CommitPatch
  <2>2. meta' \in [Analyser -> Sha]
    BY <1>3, ZenonT(40) DEF CommitPatch
  <2> QED
    BY <1>3, <2>1, <2>2 DEF CommitPatch
<1>4. CASE OpenPull(a)
  <2>1. pull' \in BOOLEAN
    BY Zenon, <1>4 DEF OpenPull
  <2>2. opened' \in {opened, [opened EXCEPT ![a] = TRUE]}
    BY <1>4 DEF OpenPull
  <2>3. opened' \in [Analyser -> BOOLEAN]
    BY <2>2
  <2>4. faults' \in 0 .. MaxFaults
    BY <1>4 DEF OpenPull
  <2>5. alert' \in {alert, [alert EXCEPT ![a] = "sent"]}
    BY <1>4 DEF OpenPull
  <2>6. alert' \in [Analyser -> {"none", "due", "sent", "silent", "dead"}]
    BY <2>5
  <2> QED
    BY <1>4, <2>1, <2>6, <2>3, <2>4 DEF OpenPull
<1> QED
  BY <1>1, <1>2, <1>3, <1>4

LEMMA ShaOf ==
  ASSUME TypeOK, NEW a \in Analyser, meta[a] # None
  PROVE  meta[a] \in Blob
<1>1. meta \in [Analyser -> Sha]
  BY DEF TypeOK
<1> QED
  BY <1>1 DEF Sha

LEMMA TypeRecord ==
  ASSUME TypeOK, NEW a \in Analyser,
         StoreSuggestion(a) \/ AddLedgerEntry(a) \/ Notify(a)
  PROVE  TypeOK'
<1> USE AnalysisAssumption DEF TypeOK, Goto, Fault, Fine, Sha, Mode, database, locals, history, github
<1>1. CASE StoreSuggestion(a)
  BY <1>1 DEF StoreSuggestion
<1>2. CASE AddLedgerEntry(a)
  <2>1. meta[a] # None => Append(ledger, meta[a]) \in Seq(Blob)
    BY ShaOf
  <2>2. CASE opened[a] /\ meta[a] # None
    <3>1. ledger' \in {ledger, Append(ledger, meta[a])}
      BY <1>2, <2>2 DEF AddLedgerEntry
    <3>2. ledger' \in Seq(Blob)
      BY <2>2, <2>1, <3>1
    <3>3. faults' \in 0 .. MaxFaults
      BY <1>2, <2>2 DEF AddLedgerEntry
    <3> QED
      BY <1>2, <3>2, <3>3 DEF AddLedgerEntry
  <2>3. CASE ~(opened[a] /\ meta[a] # None)
    BY <1>2, <2>3 DEF AddLedgerEntry
  <2> QED
    BY <2>2, <2>3
<1>3. CASE Notify(a)
  BY <1>3 DEF Notify
<1> QED
  BY <1>1, <1>2, <1>3

LEMMA TypeOthers ==
  ASSUME TypeOK, NEW a \in Analyser, SetMode(a) \/ ShowMode(a) \/ Crash(a)
  PROVE  TypeOK'
<1> USE AnalysisAssumption DEF TypeOK, Goto, Fault, Fine, Sha, Mode, database, locals, history, github
<1>1. CASE SetMode(a)
  BY <1>1, SMTT(30) DEF SetMode
<1>2. CASE ShowMode(a)
  BY <1>2 DEF ShowMode
<1>3. CASE Crash(a)
  BY <1>3 DEF Crash, KnownModes
<1> QED
  BY <1>1, <1>2, <1>3

LEMMA TypeStep == TypeOK /\ BranchThere /\ [Next]_vars => TypeOK'
<1> SUFFICES ASSUME TypeOK, BranchThere, [Next]_vars PROVE TypeOK'
  OBVIOUS
<1>1. CASE UNCHANGED vars
  BY <1>1 DEF vars, database, github, locals, history, TypeOK
<1>2. CASE Next
  BY <1>2, TypeBegin, TypeSuggest, TypePull, TypeRecord, TypeOthers DEF Next, Step
<1> QED
  BY <1>1, <1>2

(* A branch is created before it is read and never goes away. *)
LEMMA BranchStep == TypeOK /\ BranchThere /\ [Next]_vars => BranchThere'
<1> SUFFICES ASSUME TypeOK, BranchThere, [Next]_vars PROVE BranchThere'
  OBVIOUS
<1> USE DEF TypeOK, BranchThere, Goto, Mode, github
<1>1. CASE UNCHANGED vars
  BY <1>1 DEF vars
<1>2. ASSUME NEW a \in Analyser, Detect(a) \/ DetectUnstored(a) PROVE BranchThere'
  BY <1>2 DEF Detect, DetectUnstored, Begin
<1>3. ASSUME NEW a \in Analyser, ReadMode(a) \/ Suggest(a) PROVE BranchThere'
  <2>1. branch' = branch /\ \E l \in Mode \cup {"store", "branch"} : pc' = [pc EXCEPT ![a] = l]
    BY <1>3 DEF ReadMode, Suggest
  <2> QED
    BY <2>1
<1>4. ASSUME NEW a \in Analyser, CreateBranch(a) PROVE BranchThere'
  <2>1. Branched # << >>
    BY DEF Branched
  <2>2. branch # << >> => branch' = branch
    BY <1>4 DEF CreateBranch, Branched
  <2> QED
    BY <1>4, <2>1, <2>2 DEF CreateBranch
<1>5. ASSUME NEW a \in Analyser, ReadFile(a) \/ OpenPull(a) PROVE BranchThere'
  BY <1>5 DEF ReadFile, OpenPull
<1>6. ASSUME NEW a \in Analyser, CommitPatch(a) PROVE BranchThere'
  <2>1. \A blob \in Blob : Append(branch, blob) # << >>
    BY SMTT(30)
  <2>2. branch # << >> /\ branch' # << >>
    BY <1>6, <2>1, SMTT(30) DEF CommitPatch
  <2> QED
    BY <1>6, <2>2 DEF CommitPatch
<1>7. ASSUME NEW a \in Analyser, StoreSuggestion(a) \/ AddLedgerEntry(a) \/ Notify(a)
      PROVE BranchThere'
  BY <1>7 DEF StoreSuggestion, AddLedgerEntry, Notify
<1>8. ASSUME NEW a \in Analyser, SetMode(a) \/ ShowMode(a) \/ Crash(a) PROVE BranchThere'
  BY <1>8 DEF SetMode, ShowMode, Crash
<1> QED
  BY <1>1, <1>2, <1>3, <1>4, <1>5, <1>6, <1>7, <1>8 DEF Next, Step

(***************************************************************************)
(* One entry: GitHub gives the number of a new pull request to one process *)
(* and refuses a second, and that process writes at most one entry.        *)
(***************************************************************************)
LEMMA OwnerStep == TypeOK /\ OneOwner /\ [Next]_vars => OneOwner'
<1> SUFFICES ASSUME TypeOK, OneOwner, [Next]_vars PROVE OneOwner'
  OBVIOUS
<1> USE DEF TypeOK, OneOwner, OneEntry, Owes, Goto, Mode, github, locals, database, history
<1>1. CASE UNCHANGED vars
  BY <1>1 DEF vars
<1>2. ASSUME NEW a \in Analyser, Detect(a) \/ DetectUnstored(a) PROVE OneOwner'
  <2>1. /\ pc' = [pc EXCEPT ![a] = "mode"] /\ opened' = [opened EXCEPT ![a] = FALSE]
        /\ UNCHANGED <<ledger, pull>>
    BY <1>2 DEF Detect, DetectUnstored, Begin
  <2>2. \A b \in Analyser : opened'[b] => opened[b] /\ pc'[b] = pc[b]
    BY <2>1
  <2> QED
    BY <2>1, <2>2
<1>3. ASSUME NEW a \in Analyser, ReadMode(a) \/ Suggest(a) PROVE OneOwner'
  BY <1>3 DEF ReadMode, Suggest
<1>4. ASSUME NEW a \in Analyser, CreateBranch(a) \/ ReadFile(a) \/ CommitPatch(a)
      PROVE OneOwner'
  <2>1. ~opened[a] /\ UNCHANGED <<opened, ledger, pull>>
    BY <1>4 DEF CreateBranch, ReadFile, CommitPatch
  <2>2. \A b \in Analyser \ {a} : pc'[b] = pc[b]
    BY <1>4 DEF CreateBranch, ReadFile, CommitPatch
  <2> QED
    BY <2>1, <2>2
<1>5. ASSUME NEW a \in Analyser, OpenPull(a) PROVE OneOwner'
  <2>1. /\ pc[a] = "pull" /\ pc' = [pc EXCEPT ![a] = "store"] /\ UNCHANGED ledger
        /\ ~opened[a]
    BY <1>5 DEF OpenPull
  <2>2. CASE UNCHANGED opened
    <3>1. pull => pull'
      BY <1>5 DEF OpenPull
    <3> QED
      BY <2>1, <2>2, <3>1
  <2>3. CASE ~pull /\ pull' /\ opened' = [opened EXCEPT ![a] = TRUE]
    <3>1. ledger = << >> /\ \A b \in Analyser : ~Owes(b)
      BY <2>3
    <3> QED
      BY <2>1, <2>3, <3>1
  <2> QED
    BY <1>5, <2>2, <2>3 DEF OpenPull
<1>6. ASSUME NEW a \in Analyser, StoreSuggestion(a) \/ Notify(a) PROVE OneOwner'
  BY <1>6, SMTT(30) DEF StoreSuggestion, Notify
<1>7. ASSUME NEW a \in Analyser, AddLedgerEntry(a) PROVE OneOwner'
  <2>1. /\ pc[a] = "ledger" /\ pc' = [pc EXCEPT ![a] = "notify"]
        /\ UNCHANGED <<opened, pull>>
    BY <1>7 DEF AddLedgerEntry
  <2>2. CASE ledger' = ledger
    BY <2>1, <2>2
  <2>3. CASE opened[a] /\ ledger' = Append(ledger, meta[a])
    <3>1. pull /\ ledger = << >> /\ \A b \in Analyser : Owes(b) => b = a
      BY <2>1, <2>3
    <3>2. Len(ledger') = 1
      BY <2>3, <3>1
    <3> QED
      BY <2>1, <3>1, <3>2
  <2> QED
    BY <1>7, <2>2, <2>3 DEF AddLedgerEntry
<1>8. ASSUME NEW a \in Analyser, SetMode(a) \/ ShowMode(a) \/ Crash(a) PROVE OneOwner'
  BY <1>8, SMTT(30) DEF SetMode, ShowMode, Crash
<1> QED
  BY <1>1, <1>2, <1>3, <1>4, <1>5, <1>6, <1>7, <1>8 DEF Next, Step

(***************************************************************************)
(* Permission: what a process knows of the mode was stored at some time,   *)
(* and what it read in this analysis during this analysis.                 *)
(***************************************************************************)
LEMMA ModeStep == TypeOK /\ ModeHeld /\ [Next]_vars => ModeHeld'
<1> SUFFICES ASSUME TypeOK, ModeHeld, [Next]_vars PROVE ModeHeld'
  OBVIOUS
<1> USE DEF TypeOK, ModeHeld, PermittedOnly, Goto, Mode, github, locals, database, history
<1>1. CASE UNCHANGED vars
  BY <1>1 DEF vars
<1>2. ASSUME NEW a \in Analyser, Detect(a) \/ DetectUnstored(a) PROVE ModeHeld'
  BY <1>2 DEF Detect, DetectUnstored, Begin
<1>3. ASSUME NEW a \in Analyser, ReadMode(a) PROVE ModeHeld'
  <2>1. CASE /\ mode \in Mode /\ cached' = [cached EXCEPT ![a] = mode]
             /\ UNCHANGED permitted
    <3>1. pc[a] = "mode" /\ UNCHANGED <<mode, modes>>
      BY <1>3 DEF ReadMode
    <3>2. cached'[a] = mode
      BY <2>1
    <3>3. pc' = [pc EXCEPT ![a] = mode]
      BY <1>3, <3>2 DEF ReadMode
    <3>4. mode = "auto_pr" => a \in permitted'
      BY <2>1, <3>1
    <3>5. mode \in modes /\ \A b \in Analyser : cached'[b] \in modes
      BY <2>1, AnalysisAssumption
    <3>6. ASSUME NEW b \in Analyser
          PROVE  /\ pc'[b] # "idle" /\ mode = "auto_pr" => b \in permitted
                 /\ pc'[b] \in {"auto_pr", "branch", "read", "commit", "pull"} => b \in permitted
      <4>1. CASE b = a
        BY <2>1, <3>1, <3>3, <3>4, <4>1
      <4>2. CASE b # a
        BY <3>3, <4>2
      <4> QED
        BY <4>1, <4>2
    <3> QED
      BY <2>1, <3>1, <3>5, <3>6
  <2>2. CASE UNCHANGED cached /\ permitted' = IF "auto_pr" \in modes THEN permitted \cup {a} ELSE permitted
    <3>1. /\ pc' = [pc EXCEPT ![a] = cached[a]] /\ pc[a] = "mode"
          /\ UNCHANGED <<mode, modes>>
      BY <1>3, <2>2 DEF ReadMode
    <3>2. permitted \subseteq permitted'
      BY <2>2
    <3>3. cached[a] = "auto_pr" => a \in permitted'
      BY <2>2
    <3> QED
      BY <2>2, <3>1, <3>2, <3>3
  <2> QED
    BY <1>3, <2>1, <2>2 DEF ReadMode
<1>4. ASSUME NEW a \in Analyser, Suggest(a) PROVE ModeHeld'
  BY <1>4 DEF Suggest
<1>5. ASSUME NEW a \in Analyser,
             CreateBranch(a) \/ ReadFile(a) \/ CommitPatch(a) \/ OpenPull(a)
      PROVE ModeHeld'
  BY <1>5 DEF CreateBranch, ReadFile, CommitPatch, OpenPull
<1>6. ASSUME NEW a \in Analyser, StoreSuggestion(a) \/ AddLedgerEntry(a) \/ Notify(a)
      PROVE ModeHeld'
  BY <1>6 DEF StoreSuggestion, AddLedgerEntry, Notify
<1>7. ASSUME NEW a \in Analyser, SetMode(a) PROVE ModeHeld'
  BY <1>7 DEF SetMode
<1>8. ASSUME NEW a \in Analyser, ShowMode(a) \/ Crash(a) PROVE ModeHeld'
  BY <1>8, AnalysisAssumption DEF ShowMode, Crash, KnownModes
<1> QED
  BY <1>1, <1>2, <1>3, <1>4, <1>5, <1>6, <1>7, <1>8 DEF Next, Step

(***************************************************************************)
(* The content before the patch: without a scan that could not store the   *)
(* incident there is one analysis, and its commit is the first one.        *)
(***************************************************************************)
LEMMA AppendAlike ==
  ASSUME NEW S, NEW seq \in Seq(S), NEW e \in S, \A i \in 1..Len(seq) : seq[i] = e
  PROVE  \A i \in DOMAIN Append(seq, e) : Append(seq, e)[i] = e
  OBVIOUS

LEMMA FirstStep == TypeOK /\ FirstAnalysis /\ [Next]_vars => FirstAnalysis'
<1> SUFFICES ASSUME TypeOK, FirstAnalysis, [Next]_vars, ~again'
             PROVE FirstAnalysis'
  BY DEF FirstAnalysis
<1> USE DEF TypeOK, FirstAnalysis, Goto, Mode, github, locals, database, history
<1>1. CASE UNCHANGED vars
  BY <1>1 DEF vars
<1>2. ASSUME NEW a \in Analyser, Detect(a) PROVE FirstAnalysis'
  <2>1. /\ ~again /\ ~stored /\ stored' /\ UNCHANGED <<branch, ledger>>
        /\ pc' = [pc EXCEPT ![a] = "mode"] /\ meta' = [meta EXCEPT ![a] = None]
    BY <1>2 DEF Detect, Begin
  <2>2. branch = << >> /\ \A b \in Analyser : pc[b] = "idle"
    BY <2>1
  <2> QED
    BY <2>1, <2>2
<1>3. ASSUME NEW a \in Analyser, DetectUnstored(a) PROVE FALSE
  BY <1>3 DEF DetectUnstored
<1>4. ASSUME NEW a \in Analyser, ReadMode(a) \/ Suggest(a) PROVE FirstAnalysis'
  <2>1. /\ UNCHANGED <<again, stored, branch, ledger, sha, meta>>
        /\ pc[a] \in Mode \cup {"mode"}
        /\ \E l \in Mode \cup {"store", "branch"} : pc' = [pc EXCEPT ![a] = l]
    BY <1>4 DEF ReadMode, Suggest
  <2>2. branch = << >>
    BY <2>1
  <2> QED
    BY <2>1, <2>2
<1>5. ASSUME NEW a \in Analyser, CreateBranch(a) PROVE FirstAnalysis'
  <2>1. /\ UNCHANGED <<again, stored, ledger, sha, meta>> /\ pc[a] = "branch"
        /\ branch = << >> /\ Branched = <<Before>>
    BY <1>5 DEF CreateBranch, Branched
  <2>2. \A b \in Analyser : b # a => pc[b] = "idle" /\ pc'[b] = "idle"
    BY <1>5, <2>1 DEF CreateBranch
  <2>3. \/ branch' = <<Before>> /\ pc' = [pc EXCEPT ![a] = "read"]
        \/ pc' = [pc EXCEPT ![a] = "store"]
    BY <1>5, <2>1 DEF CreateBranch
  <2>4. stored' /\ meta[a] \in {None, Before}
    BY <2>1
  <2> QED
    BY <2>1, <2>2, <2>3, <2>4
<1>6. ASSUME NEW a \in Analyser, ReadFile(a) PROVE FirstAnalysis'
  <2>1. /\ UNCHANGED <<again, stored, branch, ledger, meta>> /\ pc[a] = "read"
    BY <1>6 DEF ReadFile
  <2>2. branch = <<Before>>
    BY <2>1
  <2>3. Last(branch) = Before
    BY <2>2 DEF Last
  <2>4. \A b \in Analyser : b # a => pc[b] = "idle" /\ pc'[b] = "idle"
    BY <1>6, <2>1 DEF ReadFile
  <2>5. \/ sha' = [sha EXCEPT ![a] = Before] /\ pc' = [pc EXCEPT ![a] = "commit"]
        \/ pc' = [pc EXCEPT ![a] = "pull"] \/ pc' = [pc EXCEPT ![a] = "store"]
    BY <1>6, <2>3 DEF ReadFile
  <2> QED
    BY <2>1, <2>2, <2>4, <2>5
<1>7. ASSUME NEW a \in Analyser, CommitPatch(a) PROVE FirstAnalysis'
  <2>1. /\ UNCHANGED <<again, stored, ledger, sha>> /\ pc[a] = "commit" /\ sha[a] = Before
    BY <1>7 DEF CommitPatch
  <2>2. \A b \in Analyser : b # a => pc[b] = "idle" /\ pc'[b] = "idle"
    BY <1>7, <2>1 DEF CommitPatch
  <2>3. pc' = [pc EXCEPT ![a] = "pull"] \/ pc' = [pc EXCEPT ![a] = "store"]
    BY <1>7 DEF CommitPatch
  <2>4. meta' = [meta EXCEPT ![a] = Before] \/ meta' = meta
    BY <1>7, <2>1 DEF CommitPatch
  <2> QED
    BY <2>1, <2>2, <2>3, <2>4
<1>8. ASSUME NEW a \in Analyser, OpenPull(a) \/ StoreSuggestion(a) \/ Notify(a)
      PROVE FirstAnalysis'
  <2>1. /\ UNCHANGED <<again, stored, branch, ledger, sha, meta>> /\ pc[a] # "idle"
        /\ \E l \in {"store", "ledger", "idle"} : pc' = [pc EXCEPT ![a] = l]
    BY <1>8 DEF OpenPull, StoreSuggestion, Notify
  <2> QED
    BY <2>1
<1>9. ASSUME NEW a \in Analyser, AddLedgerEntry(a) PROVE FirstAnalysis'
  <2>1. /\ UNCHANGED <<again, stored, branch, sha, meta>> /\ pc[a] # "idle"
        /\ pc' = [pc EXCEPT ![a] = "notify"]
    BY <1>9 DEF AddLedgerEntry
  <2>2. ledger' = ledger \/ (meta[a] # None /\ ledger' = Append(ledger, meta[a]))
    BY <1>9 DEF AddLedgerEntry
  <2>3. ASSUME meta[a] # None, ledger' = Append(ledger, meta[a]) PROVE \A i \in DOMAIN ledger' : ledger'[i] = Before
    <3>1. ledger \in Seq(Blob) /\ meta[a] = Before
      BY <2>1, <2>3
    <3>2. Before \in Blob /\ \A i \in 1..Len(ledger) : ledger[i] = Before
      BY <2>1, <3>1, AnalysisAssumption
    <3>3. \A i \in DOMAIN Append(ledger, Before) : Append(ledger, Before)[i] = Before
      BY <3>1, <3>2, AppendAlike
    <3>4. ledger' = Append(ledger, Before)
      BY <2>3, <3>1
    <3> QED
      BY <3>3, <3>4
  <2>4. \A i \in DOMAIN ledger' : ledger'[i] = Before
    BY <2>1, <2>2, <2>3
  <2> QED
    BY <2>1, <2>4
<1>10. ASSUME NEW a \in Analyser, SetMode(a) \/ ShowMode(a) \/ Crash(a) PROVE FirstAnalysis'
  <2>1. /\ UNCHANGED <<again, stored, branch, ledger, sha, meta>>
        /\ pc' = pc \/ pc' = [pc EXCEPT ![a] = "idle"]
    BY <1>10 DEF SetMode, ShowMode, Crash
  <2> QED
    BY <2>1
<1> QED
  BY <1>1, <1>2, <1>3, <1>4, <1>5, <1>6, <1>7, <1>8, <1>9, <1>10 DEF Next, Step

(***************************************************************************)
(* The past of the branch: a commit is made on top of the content that was  *)
(* read, which it leaves behind.                                            *)
(***************************************************************************)
LEMMA AppendPast ==
  ASSUME TypeOK, NEW blob \in Blob, branch # << >>, branch' = Append(branch, blob)
  PROVE  Past \subseteq Past' /\ Last(branch) \in Past'
<1>1. branch \in Seq(Blob) /\ Len(branch) \in Nat \ {0} /\ Len(branch') = Len(branch) + 1
  BY DEF TypeOK
<1>2. \A k \in 1 .. Len(branch) : branch'[k] = branch[k]
  BY <1>1
<1>3. \A k \in 1 .. Len(branch) : branch[k] \in Past'
  BY <1>1, <1>2 DEF Past
<1>4. Past \subseteq Past'
  BY <1>1, <1>3 DEF Past
<1> QED
  BY <1>1, <1>3, <1>4 DEF Last

LEMMA BranchedPast ==
  ASSUME TypeOK, branch' \in {branch, Branched}
  PROVE  Past \subseteq Past'
<1>1. branch' = branch \/ branch = << >>
  BY DEF Branched
<1>2. branch = << >> => Past = {}
  BY DEF Past
<1>3. branch' = branch => Past' = Past
  BY DEF Past
<1> QED
  BY <1>1, <1>2, <1>3

LEMMA PastStep == TypeOK /\ BranchThere /\ EntriesPast /\ [Next]_vars => EntriesPast'
<1> SUFFICES ASSUME TypeOK, BranchThere, EntriesPast, [Next]_vars PROVE EntriesPast'
  OBVIOUS
<1> USE DEF EntriesPast, github, locals, database, history
<1>0. branch' = branch => Past' = Past
  BY DEF Past
<1>1. CASE UNCHANGED vars
  BY <1>0, <1>1 DEF vars
<1>2. ASSUME NEW a \in Analyser, Detect(a) \/ DetectUnstored(a) PROVE EntriesPast'
  <2>1. meta' = [meta EXCEPT ![a] = None] /\ UNCHANGED <<branch, ledger>>
    BY <1>2 DEF Detect, DetectUnstored, Begin
  <2> QED
    BY <1>0, <2>1 DEF TypeOK
<1>3. ASSUME NEW a \in Analyser,
             \/ ReadMode(a) \/ Suggest(a) \/ ReadFile(a) \/ OpenPull(a) \/ StoreSuggestion(a)
             \/ Notify(a) \/ SetMode(a) \/ ShowMode(a) \/ Crash(a)
      PROVE EntriesPast'
  <2>1. UNCHANGED <<branch, ledger, meta>>
    BY <1>3 DEF ReadMode, Suggest, ReadFile, OpenPull, StoreSuggestion, Notify, SetMode, ShowMode,
       Crash
  <2> QED
    BY <1>0, <2>1
<1>4. ASSUME NEW a \in Analyser, CreateBranch(a) PROVE EntriesPast'
  <2>1. UNCHANGED <<ledger, meta>> /\ Past \subseteq Past'
    BY <1>4, BranchedPast DEF CreateBranch
  <2> QED
    BY <2>1
<1>5. ASSUME NEW a \in Analyser, CommitPatch(a) PROVE EntriesPast'
  <2>1. UNCHANGED ledger /\ branch # << >>
    BY <1>5 DEF CommitPatch, BranchThere
  <2>2. CASE UNCHANGED <<branch, meta>>
    BY <1>0, <2>1, <2>2
  <2>3. ASSUME NEW blob \in Blob, branch' = Append(branch, blob), Last(branch) = sha[a],
               meta' = [meta EXCEPT ![a] = sha[a]] \/ meta' = meta
        PROVE  EntriesPast'
    <3>1. Past \subseteq Past' /\ sha[a] \in Past'
      BY <2>1, <2>3, AppendPast
    <3>2. \A b \in Analyser : meta'[b] \in {meta[b], sha[a]}
      BY <2>3 DEF TypeOK
    <3> QED
      BY <2>1, <3>1, <3>2
  <2> QED
    BY <1>5, <2>2, <2>3 DEF CommitPatch
<1>6. ASSUME NEW a \in Analyser, AddLedgerEntry(a) PROVE EntriesPast'
  <2>1. UNCHANGED <<branch, meta>>
    BY <1>6 DEF AddLedgerEntry
  <2>2. ledger' = ledger \/ (meta[a] # None /\ ledger' = Append(ledger, meta[a]))
    BY <1>6 DEF AddLedgerEntry
  <2>3. ASSUME meta[a] # None, ledger' = Append(ledger, meta[a])
        PROVE  \A i \in DOMAIN ledger' : ledger'[i] \in Past
    <3>1. meta[a] \in Past /\ ledger \in Seq(Blob)
      BY <2>3 DEF TypeOK
    <3> QED
      BY <2>3, <3>1
  <2> QED
    BY <1>0, <2>1, <2>2, <2>3
<1> QED
  BY <1>1, <1>2, <1>3, <1>4, <1>5, <1>6 DEF Next, Step

(***************************************************************************)
(* The invariant: OneOwner, ModeHeld, FirstAnalysis and EntriesPast are     *)
(* inductive given the types, and the types need to know that a branch that *)
(* is read exists.                                                          *)
(***************************************************************************)
AnalysisInv == TypeOK /\ BranchThere /\ OneOwner /\ ModeHeld /\ FirstAnalysis /\ EntriesPast

LEMMA AnalysisInit == Init => AnalysisInv
<1> SUFFICES ASSUME Init PROVE AnalysisInv
  OBVIOUS
<1>1. BranchThere /\ OneOwner
  BY DEF Init, BranchThere, OneOwner, OneEntry, Owes
<1>2. ModeHeld
  BY AnalysisAssumption DEF Init, ModeHeld, PermittedOnly, KnownModes
<1>3. FirstAnalysis
  BY DEF Init, FirstAnalysis, Mode
<1>4. EntriesPast
  BY DEF Init, EntriesPast
<1> QED
  BY <1>1, <1>2, <1>3, <1>4, TypeInit DEF AnalysisInv

LEMMA AnalysisStep == AnalysisInv /\ [Next]_vars => AnalysisInv'
  BY TypeStep, BranchStep, OwnerStep, ModeStep, FirstStep, PastStep DEF AnalysisInv

LEMMA AnalysisHolds == Safe => []AnalysisInv
  BY AnalysisInit, AnalysisStep, PTL DEF Safe

(* Rows, GitHub and processes keep their types (state.py, github_client.py). *)
THEOREM AnalysisTypeCorrect == Safe => []TypeOK
<1>1. AnalysisInv => TypeOK
  BY DEF AnalysisInv
<1> QED
  BY <1>1, AnalysisHolds, PTL

(* Whatever fails and however often the incident is analysed, it has one    *)
(* rollback entry at most (open_patch_pr, analyse_new_incident). *)
THEOREM OneEntryHolds == Safe => []OneEntry
<1>1. AnalysisInv => OneEntry
  BY DEF AnalysisInv, OneOwner
<1> QED
  BY <1>1, AnalysisHolds, PTL

(* A rollback entry restores what the branch had before a commit: the file  *)
(* of the default branch, unless a scan could not store the incident        *)
(* (_commit_patch, create_git_ref). *)
THEOREM EntryRestoresHolds == Safe => []EntryRestores
<1>1. AnalysisInv => EntryRestores
  BY DEF AnalysisInv, FirstAnalysis, EntriesPast, EntryRestores
<1> QED
  BY <1>1, AnalysisHolds, PTL

(* GitHub is written to only in a mode that was read, or known, to allow it *)
(* (current_autonomy_mode, suggest_fix). *)
THEOREM PermittedOnlyHolds == Safe => []PermittedOnly
<1>1. AnalysisInv => PermittedOnly
  BY DEF AnalysisInv, ModeHeld
<1> QED
  BY <1>1, AnalysisHolds, PTL
=============================================================================
