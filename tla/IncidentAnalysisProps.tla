------------------------ MODULE IncidentAnalysisProps ------------------------
(* What the analysis of an incident promises. *)
EXTENDS IncidentAnalysis

Sha == Blob \cup {None}

(* The types of the state: rows, GitHub, processes (state.py, repository.py, *)
(* github_client.py). *)
TypeOK ==
    /\ stored \in BOOLEAN /\ mode \in Mode \cup {None} /\ suggestions \in Nat
    /\ ledger \in Seq(Blob) /\ branch \in Seq(Blob) /\ pull \in BOOLEAN
    /\ pc \in [Analyser -> Mode \cup {"idle", "mode", "branch", "read", "commit", "pull",
                                      "store", "ledger", "notify"}]
    /\ cached \in [Analyser -> Mode] /\ known \in [Analyser -> BOOLEAN]
    /\ sha \in [Analyser -> Sha] /\ meta \in [Analyser -> Sha]
    /\ opened \in [Analyser -> BOOLEAN]
    /\ again \in BOOLEAN /\ modes \subseteq Mode /\ permitted \subseteq Analyser
    /\ alert \in [Analyser -> {"none", "due", "sent", "silent", "dead"}]
    /\ faults \in 0 .. MaxFaults

(* However often an incident is analysed, by processes that do not know of  *)
(* each other and after any failure, at most one rollback entry exists for  *)
(* it: the entry of its one pull request (open_patch_pr, analyse_new_incident). *)
OneEntry == Len(ledger) <= 1

(* A rollback entry restores what the branch had before one of its commits, *)
(* and never what the last commit made of the file, however often the       *)
(* incident is analysed and whoever committed before.  It is the file of    *)
(* the default branch as long as the incident could be stored at its first  *)
(* detection; an analysis after one that could not be stored finds the      *)
(* branch of the one before, and its entry may take back only a part of     *)
(* the pull request (_commit_patch, create_git_ref). *)
Past == {branch[k] : k \in 1 .. (Len(branch) - 1)}

EntryRestores ==
    \A i \in DOMAIN ledger : ledger[i] \in Past /\ (~again => ledger[i] = Before)

(* A process writes to GitHub only if the stored mode was auto_pr at some   *)
(* time of this analysis, or no mode could be read and auto_pr is the       *)
(* default or was set before (current_autonomy_mode, suggest_fix): a stale  *)
(* cache opens a pull request only where the mode cannot be read. *)
PermittedOnly ==
    \A a \in Analyser : pc[a] \in {"branch", "read", "commit", "pull"} => a \in permitted

(* An analysis that begins reaches its notification, whatever fails on the  *)
(* way, unless its process dies (analyse_new_incident). *)
AlertGoesOut == \A a \in Analyser : (alert[a] = "due") ~> (alert[a] # "due")

(* "An unstored incident is still analysed and notified, so a database      *)
(* problem never silences an alert" (_store_incident of state.py): the      *)
(* analysis of an unstored incident that ends has alerted someone. *)
AlertNotSilenced == \A a \in Analyser : ~known[a] => alert[a] # "silent"

-----------------------------------------------------------------------------
(* What the proofs need in addition. *)

(* The branch exists while a process is at work on it (create_git_ref).     *)
BranchThere == \A a \in Analyser : pc[a] \in {"read", "commit", "pull"} => branch # << >>

(* What a process or the ledger has as the content before a commit is in    *)
(* the past of the branch, which only grows (_commit_patch). *)
EntriesPast == /\ \A a \in Analyser : meta[a] \in Past \cup {None}
               /\ \A i \in DOMAIN ledger : ledger[i] \in Past

(* The process that owes the ledger an entry for its pull request. *)
Owes(a) == opened[a] /\ pc[a] \in {"store", "ledger"}

(* The number of a pull request is known only once there is one, and its    *)
(* entry is owed by one process at most or written                          *)
(* (open_patch_pr, add_rollback_ledger_entry). *)
OneOwner ==
    /\ OneEntry
    /\ \A a \in Analyser : opened[a] => pc[a] \in {"store", "ledger", "notify", "idle"}
    /\ ledger # << >> => pull
    /\ \A a \in Analyser : Owes(a) => pull /\ ledger = << >>
    /\ \A a, b \in Analyser : Owes(a) /\ Owes(b) => a = b

(* A process holds a mode that was set or is the default, and what it read  *)
(* goes into the analysis as permitted (current_autonomy_mode). *)
ModeHeld == /\ mode \in modes \cup {None} /\ DefaultMode \in modes
            /\ \A a \in Analyser : cached[a] \in modes
            /\ \A a \in Analyser :
                  pc[a] # "idle" /\ mode = "auto_pr" => a \in permitted
            /\ \A a \in Analyser : pc[a] = "auto_pr" => a \in permitted
            /\ PermittedOnly

(* As long as no scan failed to store the incident, one process analyses    *)
(* it, once, and finds on GitHub what the steps before have left: no branch *)
(* until it creates one, the file of the default branch until it commits    *)
(* (insert_incident_if_new, create_git_ref, _commit_patch). *)
FirstAnalysis ==
    ~again =>
        /\ \A a \in Analyser : pc[a] # "idle" => stored
        /\ \A a, b \in Analyser : pc[a] # "idle" /\ pc[b] # "idle" => a = b
        /\ ~stored => branch = << >>
        /\ \A a \in Analyser :
              /\ pc[a] \in Mode \cup {"mode", "branch"} => branch = << >>
              /\ pc[a] \in {"read", "commit"} => branch = <<Before>>
              /\ pc[a] = "commit" => sha[a] = Before
              /\ meta[a] \in {None, Before}
        /\ \A i \in DOMAIN ledger : ledger[i] = Before
=============================================================================
