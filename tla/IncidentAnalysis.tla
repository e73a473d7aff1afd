--------------------------- MODULE IncidentAnalysis ---------------------------
(***************************************************************************)
(* What follows the detection of an incident (analyse_new_incident of      *)
(* src/src/core/state.py, suggest_fix of the remediation engine, and       *)
(* open_patch_pr of the GitHub client), for one incident.                  *)
(*                                                                         *)
(* Log scans and event workers, each in its process, find the incident.    *)
(* The first to store it analyses it; a scan that cannot store it analyses *)
(* it nevertheless, so that the next one does so again, on a branch of the *)
(* same name.  Each call of the database or of GitHub is a step and may    *)
(* fail, or succeed without its reply.                                     *)
(*                                                                         *)
(* GitHub is external: the branch is the sequence of the contents of the   *)
(* one file that patches change.  Nobody else commits to the branch, and   *)
(* the pull request stays open.                                            *)
(***************************************************************************)
EXTENDS Naturals, SequencesExt

CONSTANTS Scanner, Worker,  \* processes that scan the log, or process events
          Blob,             \* contents of the file
          Before,           \* the file on the default branch
          None,             \* no sha, no mode stored yet
          DefaultMode,      \* AUTONOMY_MODE of the environment
          Channels,         \* TRUE: notification channels are configured
          EnvWebhook,       \* TRUE: a webhook is named in the environment
          MaxFaults         \* bound on failing calls

Analyser == Scanner \cup Worker
Mode == {"propose_only", "auto_pr"}

ASSUME AnalysisAssumption ==
    /\ Before \in Blob /\ None \notin Blob \cup Mode
    /\ DefaultMode \in Mode
    /\ Channels \in BOOLEAN /\ EnvWebhook \in BOOLEAN
    /\ MaxFaults \in Nat

VARIABLES
    \* the database
    stored,       \* the incident has a row
    mode,         \* the autonomy mode of the account
    suggestions,  \* suggestions stored for the incident
    ledger,       \* before_sha of each rollback entry
    \* GitHub
    branch,       \* the contents of the file on the branch, << >> without branch
    pull,         \* its pull request is open
    \* the processes
    pc,
    cached,       \* AppState.autonomy_mode
    known,        \* the analysis has the row of its incident
    sha,          \* file_sha of _commit_patch
    meta,         \* before_sha of the commit, or None
    opened,       \* the analysis has the number of its pull request
    \* history
    again,        \* a scan could not store the incident
    alert,        \* the alert of the analysis
    modes,        \* the modes ever set, and the default
    permitted,    \* processes for which the mode was auto_pr during their analysis,
                  \* or which found none to read when auto_pr was in modes
    faults

database == <<stored, mode, suggestions, ledger>>
github   == <<branch, pull>>
locals   == <<cached, known, sha, meta, opened>>
history  == <<again, modes, permitted>>
vars     == <<database, github, pc, locals, history, alert, faults>>

KnownModes == {mode, DefaultMode} \ {None}

Init == /\ stored = FALSE /\ mode \in Mode \cup {None} /\ suggestions = 0 /\ ledger = << >>
        /\ branch = << >> /\ pull = FALSE
        /\ pc = [a \in Analyser |-> "idle"]
        /\ cached \in [Analyser -> KnownModes]
        /\ known = [a \in Analyser |-> FALSE]
        /\ sha = [a \in Analyser |-> None]
        /\ meta = [a \in Analyser |-> None]
        /\ opened = [a \in Analyser |-> FALSE]
        /\ alert = [a \in Analyser |-> "none"]
        /\ again = FALSE
        /\ modes = KnownModes
        /\ permitted = {}
        /\ faults = 0

Goto(a, l) == pc' = [pc EXCEPT ![a] = l]
Fault == faults < MaxFaults /\ faults' = faults + 1
Fine  == UNCHANGED faults

(* create_git_ref: a branch that exists (422) is used as it is. *)
Branched  == IF branch = << >> THEN <<Before>> ELSE branch
Committed == Len(branch) > 1

-----------------------------------------------------------------------------
(* analyse_new_incident begins, with or without a row. *)
Begin(a, row) ==
    /\ Goto(a, "mode")
    /\ known' = [known EXCEPT ![a] = row]
    /\ sha' = [sha EXCEPT ![a] = None]
    /\ meta' = [meta EXCEPT ![a] = None]
    /\ opened' = [opened EXCEPT ![a] = FALSE]
    /\ alert' = [alert EXCEPT ![a] = "due"]
    /\ permitted' = IF mode = "auto_pr" THEN permitted \cup {a} ELSE permitted \ {a}
    /\ UNCHANGED <<mode, suggestions, ledger, github, cached, modes>>

(* The incident is new; a repeat is only counted. *)
Detect(a) ==
    /\ pc[a] = "idle" /\ ~stored
    /\ stored' = TRUE
    /\ Begin(a, TRUE) /\ Fine /\ UNCHANGED again

(* _store_incident fails, with or without effect: "unstored". *)
DetectUnstored(a) ==
    /\ a \in Scanner /\ pc[a] = "idle"
    /\ stored' \in {stored, TRUE}
    /\ again' = TRUE
    /\ Begin(a, FALSE) /\ Fault

(* Mutant of ReadMode: the mode is read when the process starts only. *)
ReadCachedMode(a) ==
    /\ pc[a] = "mode"
    /\ Goto(a, cached[a])
    /\ UNCHANGED <<database, github, locals, history, alert, faults>>

(* current_autonomy_mode: the stored mode, or the last known one.  The LLM *)
(* is asked for a remediation with the mode that is read here.             *)
ReadMode(a) ==
    /\ pc[a] = "mode"
    /\ \/ /\ mode \in Mode /\ Fine
          /\ cached' = [cached EXCEPT ![a] = mode]
          /\ UNCHANGED permitted
       \/ /\ (mode = None /\ Fine) \/ Fault
          /\ UNCHANGED cached
          /\ permitted' = IF "auto_pr" \in modes THEN permitted \cup {a} ELSE permitted
    /\ Goto(a, cached'[a])
    /\ UNCHANGED <<database, github, known, sha, meta, opened, again, modes, alert>>

(* suggest_fix, up to the pull request.  There is none without a patch, a  *)
(* token of each limit and a GitHub client.                                *)
Suggest(a) ==
    /\ \/ pc[a] \in Mode /\ Goto(a, "store")
       \/ pc[a] = "auto_pr" /\ Goto(a, "branch")
    /\ UNCHANGED <<database, github, locals, history, alert, faults>>

-----------------------------------------------------------------------------
(* open_patch_pr.  Any error but 422 ends the attempt, whether or not the  *)
(* branch was created. *)
CreateBranch(a) ==
    /\ pc[a] = "branch"
    /\ \/ branch' = Branched /\ Goto(a, "read") /\ Fine
       \/ branch' \in {branch, Branched} /\ Goto(a, "store") /\ Fault
    /\ UNCHANGED <<database, pull, locals, history, alert>>

(* get_contents and _apply_patch.  A diff that cannot be read, does not    *)
(* apply or changes nothing is not committed; nor is anything after an     *)
(* error of GitHub, and another error ends the attempt.                    *)
ReadFile(a) ==
    /\ pc[a] = "read"
    /\ \/ /\ sha' = [sha EXCEPT ![a] = Last(branch)]
          /\ Goto(a, "commit") \/ Goto(a, "pull")
          /\ Fine
       \/ (Goto(a, "pull") \/ Goto(a, "store")) /\ Fault /\ UNCHANGED sha
    /\ UNCHANGED <<database, github, cached, known, meta, opened, history, alert>>

(* Mutant of CommitPatch: the sha of the new content is kept. *)
CommitPatchNewSha(a) ==
    /\ pc[a] = "commit" /\ Last(branch) = sha[a]
    /\ \E blob \in Blob \ {sha[a]} :
          /\ branch' = Append(branch, blob)
          /\ meta' = [meta EXCEPT ![a] = blob]
    /\ Goto(a, "pull") /\ Fine
    /\ UNCHANGED <<database, pull, cached, known, sha, opened, history, alert>>

(* update_file, on top of the blob that was read; refused when the branch  *)
(* has moved on.                                                           *)
CommitPatch(a) ==
    /\ pc[a] = "commit"
    /\ \/ /\ Last(branch) = sha[a]
          /\ \E blob \in Blob \ {sha[a]} : branch' = Append(branch, blob)
          /\ \/ meta' = [meta EXCEPT ![a] = sha[a]] /\ Goto(a, "pull") /\ Fine
             \/ UNCHANGED meta /\ (Goto(a, "pull") \/ Goto(a, "store")) /\ Fault
       \/ /\ UNCHANGED <<branch, meta>>
          /\ \/ Last(branch) # sha[a] /\ Goto(a, "pull") /\ Fine
             \/ (Goto(a, "pull") \/ Goto(a, "store")) /\ Fault
    /\ UNCHANGED <<database, pull, cached, known, sha, opened, history, alert>>

(* Mutant of OpenPull: a pull request that is open already will do. *)
OpenPullAgain(a) ==
    /\ pc[a] = "pull"
    /\ pull' = (pull \/ Committed)
    /\ opened' = [opened EXCEPT ![a] = pull']
    /\ Goto(a, "store")
    /\ UNCHANGED <<database, branch, cached, known, sha, meta, history, alert, faults>>

(* create_pull: refused when one is open or the branch has no commit.      *)
(* suggest_fix alerts the webhook of the environment at once.              *)
OpenPull(a) ==
    /\ pc[a] = "pull"
    /\ \/ /\ ~pull /\ Committed
          /\ pull' = TRUE
          /\ \/ /\ opened' = [opened EXCEPT ![a] = TRUE] /\ Fine
                /\ alert' = IF EnvWebhook THEN [alert EXCEPT ![a] = "sent"] ELSE alert
             \/ UNCHANGED <<opened, alert>> /\ Fault
       \/ /\ UNCHANGED <<pull, opened, alert>>
          /\ ((pull \/ ~Committed) /\ Fine) \/ Fault
    /\ Goto(a, "store")
    /\ UNCHANGED <<database, branch, cached, known, sha, meta, history>>

-----------------------------------------------------------------------------
(* Mutant of StoreSuggestion: a failure ends the analysis. *)
StoreSuggestionRaises(a) ==
    /\ pc[a] = "store"
    /\ \/ suggestions' = (IF known[a] THEN suggestions + 1 ELSE suggestions)
          /\ Goto(a, "ledger") /\ Fine
       \/ known[a] /\ UNCHANGED suggestions /\ Goto(a, "idle") /\ Fault
    /\ UNCHANGED <<stored, mode, ledger, github, locals, history, alert>>

(* _store_suggestion, when the incident has a row; _record_audit. *)
StoreSuggestion(a) ==
    /\ pc[a] = "store"
    /\ \/ suggestions' = (IF known[a] THEN suggestions + 1 ELSE suggestions) /\ Fine
       \/ known[a] /\ suggestions' \in {suggestions, suggestions + 1} /\ Fault
    /\ Goto(a, "ledger")
    /\ UNCHANGED <<stored, mode, ledger, github, locals, history, alert>>

(* add_rollback_ledger_entry, for a pull request with a commit. *)
AddLedgerEntry(a) ==
    /\ pc[a] = "ledger"
    /\ IF opened[a] /\ meta[a] # None
       THEN \/ ledger' = Append(ledger, meta[a]) /\ Fine
            \/ ledger' \in {ledger, Append(ledger, meta[a])} /\ Fault
       ELSE UNCHANGED <<ledger, faults>>
    /\ Goto(a, "notify")
    /\ UNCHANGED <<stored, mode, suggestions, github, locals, history, alert>>

(* delivery_channels and notify: without channels, or without a database   *)
(* to read them from, the webhook of the environment.                      *)
Notify(a) ==
    /\ pc[a] = "notify"
    /\ \E read \in BOOLEAN :
          /\ IF read THEN Fine ELSE Fault
          /\ alert' = [alert EXCEPT ![a] =
                IF (read /\ Channels) \/ EnvWebhook \/ @ = "sent" THEN "sent" ELSE "silent"]
    /\ Goto(a, "idle")
    /\ UNCHANGED <<database, github, locals, history>>

-----------------------------------------------------------------------------
(* An admin sets the mode through the server that also scans; its cache    *)
(* follows when the commit is answered.                                    *)
SetMode(a) ==
    /\ a \in Scanner
    /\ mode' \in Mode
    /\ \/ cached' = [cached EXCEPT ![a] = mode'] /\ Fine
       \/ UNCHANGED cached /\ Fault
    /\ modes' = modes \cup {mode'}
    /\ permitted' = permitted \cup {b \in Analyser : pc[b] # "idle" /\ mode' = "auto_pr"}
    /\ UNCHANGED <<stored, suggestions, ledger, github, pc, known, sha, meta, opened, again, alert>>

(* The mode is shown, which refreshes the cache. *)
ShowMode(a) ==
    /\ a \in Scanner /\ mode \in Mode
    /\ cached' = [cached EXCEPT ![a] = mode]
    /\ UNCHANGED <<database, github, pc, known, sha, meta, opened, history, alert, faults>>

(* The process dies and is replaced; the mode is read again, if it can be. *)
Crash(a) ==
    /\ pc[a] # "idle"
    /\ Fault
    /\ Goto(a, "idle")
    /\ \E m \in KnownModes : cached' = [cached EXCEPT ![a] = m]
    /\ alert' = [alert EXCEPT ![a] = "dead"]
    /\ UNCHANGED <<database, github, known, sha, meta, opened, history>>

Step(a) == \/ ReadMode(a) \/ Suggest(a)
           \/ CreateBranch(a) \/ ReadFile(a) \/ CommitPatch(a) \/ OpenPull(a)
           \/ StoreSuggestion(a) \/ AddLedgerEntry(a) \/ Notify(a)

Next == \E a \in Analyser : \/ Detect(a) \/ DetectUnstored(a)
                            \/ Step(a) \/ Crash(a)
                            \/ SetMode(a) \/ ShowMode(a)

Safe == Init /\ [][Next]_vars

(* A process that analyses runs on. *)
Spec == Safe /\ \A a \in Analyser : WF_vars(Step(a))
=============================================================================
