--------------------------- MODULE RollbackLedger ---------------------------
(***************************************************************************)
(* Reverting an auto-patch (propose_rollback and confirm_rollback of       *)
(* src/src/core/state.py, one rollback_ledger row, and the GitHub client). *)
(*                                                                         *)
(* Several admins call propose and confirm on the entry of one pull        *)
(* request.  A call locks the row (select ... for update) and talks to     *)
(* GitHub while it holds the lock; the first commit of a proposal drops    *)
(* the lock, and the rest of the call works on a copy of the row that was  *)
(* read again without it.  The database writes only the columns whose      *)
(* value differs from that copy.                                           *)
(*                                                                         *)
(* GitHub is external: the file's blob on the default branch and on the    *)
(* branch of the pull request, changed by people and other patches too. A  *)
(* read may fail, and update_file succeeds only on top of the blob it is   *)
(* given.                                                                  *)
(***************************************************************************)
EXTENDS Naturals

CONSTANTS Admin,    \* the requests in flight
          Blob,     \* contents of the patched file
          Before,   \* before_sha, the file without the patch
          Patched,  \* the file with the patch
          None,     \* a sha that is null
          MaxEdits, \* bound on commits of other people, and on reverts, one more
          NoAdmin   \* the holder of a free row

ASSUME LedgerAssumption ==
    /\ {Before, Patched} \subseteq Blob /\ Before # Patched
    /\ None \notin Blob
    /\ NoAdmin \notin Admin
    /\ MaxEdits \in Nat

VARIABLES
    row,      \* the ledger entry
    rowLock,  \* the request that holds the row
    pc,       \* the next statement of each request
    copy,     \* the row as a request has it in memory
    seen,     \* the blob a proposal read, current_sha
    \* GitHub
    merged,   \* the pull request is merged
    main,     \* the blob on the default branch
    branch,   \* the blob on the branch of the pull request, None once deleted
    \* history
    edits,    \* commits of other people
    changed,  \* main was changed, by people or a revert, since the patch was merged
    reverts   \* revert commits made by confirm_rollback

github  == <<merged, main, branch>>
history == <<edits, changed, reverts>>
vars    == <<row, rowLock, pc, copy, seen, github, history>>

Sha    == Blob \cup {None}
Status == {"proposed", "applied", "rollback_blocked", "rollback_proposed", "rolled_back"}

(* mergeKnown: merge_commit_sha is set; revertKnown: revert_commit_sha is. *)
Row == [status : Status, mergeKnown : BOOLEAN, after : Sha, current : Sha, revertKnown : BOOLEAN]

(* add_rollback_ledger_entry *)
NewRow == [status |-> "proposed", mergeKnown |-> FALSE, after |-> None, current |-> None,
           revertKnown |-> FALSE]

Init == /\ row = NewRow /\ rowLock = NoAdmin
        /\ pc = [a \in Admin |-> "idle"]
        /\ copy = [a \in Admin |-> NewRow]
        /\ seen = [a \in Admin |-> None]
        /\ merged = FALSE /\ main = Before /\ branch = Patched
        /\ edits = 0 /\ changed = FALSE /\ reverts = 0

Lock(a)    == rowLock = NoAdmin /\ rowLock' = a
Release(a) == rowLock' = IF rowLock = a THEN NoAdmin ELSE rowLock
Goto(a, l) == pc' = [pc EXCEPT ![a] = l]

(* The call returns or raises; its transaction ends. *)
Return(a) == Goto(a, "idle") /\ Release(a)

-----------------------------------------------------------------------------
(* propose_rollback: select ... for update. *)
Propose(a) ==
    /\ pc[a] = "idle"
    /\ row.status # "rolled_back"
    /\ Lock(a)
    /\ copy' = [copy EXCEPT ![a] = row]
    /\ Goto(a, IF row.mergeKnown THEN "read" ELSE "merge")
    /\ UNCHANGED <<row, seen, github, history>>

(* check_pr_merged: a request that fails counts as not merged. *)
CheckMerged(a) ==
    /\ pc[a] = "merge"
    /\ \/ merged /\ Goto(a, "after") /\ UNCHANGED rowLock
       \/ Return(a)
    /\ UNCHANGED <<row, copy, seen, github, history>>

(* get_current_file_sha of a ref that exists, or None. *)
ShaRead(blob) == {blob, None}

(* The merge and the sha of the branch are stored: commit, lock dropped. *)
RecordMerge(a) ==
    /\ pc[a] = "after"
    /\ \E sha \in ShaRead(branch) :
          row' = [row EXCEPT !.mergeKnown = TRUE, !.after = sha, !.status = "applied"]
    /\ Release(a)
    /\ Goto(a, "refresh")
    /\ UNCHANGED <<copy, seen, github, history>>

(* The attributes expired with the commit; they are read without a lock. *)
Refresh(a) ==
    /\ pc[a] = "refresh"
    /\ copy' = [copy EXCEPT ![a] = row]
    /\ Goto(a, "read")
    /\ UNCHANGED <<row, rowLock, seen, github, history>>

(* Mutant of ReadCurrent: an unreadable file starts the check over. *)
ReadCurrentRetries(a) ==
    /\ pc[a] = "read"
    /\ \E sha \in ShaRead(main) :
          /\ seen' = [seen EXCEPT ![a] = sha]
          /\ Goto(a, IF sha = None THEN "refresh" ELSE "decide")
          /\ UNCHANGED rowLock
    /\ UNCHANGED <<row, copy, github, history>>

(* The blob on the default branch now. *)
ReadCurrent(a) ==
    /\ pc[a] = "read"
    /\ \E sha \in ShaRead(main) :
          IF sha = None
          THEN Return(a) /\ UNCHANGED seen
          ELSE seen' = [seen EXCEPT ![a] = sha] /\ Goto(a, "decide") /\ UNCHANGED rowLock
    /\ UNCHANGED <<row, copy, github, history>>

(* Only changed columns are written. *)
Written(old, copied, new) == IF new = copied THEN old ELSE new

(* Mutant of Decide: the sha is not compared, the file is. *)
DecideUnchecked(a) ==
    LET new == [copy[a] EXCEPT !.status = "rollback_proposed", !.current = seen[a]]
    IN /\ pc[a] = "decide"
       /\ rowLock \in {a, NoAdmin}
       /\ row' = [row EXCEPT !.status  = Written(@, copy[a].status, new.status),
                             !.current = Written(@, copy[a].current, new.current)]
       /\ Return(a)
       /\ UNCHANGED <<copy, seen, github, history>>

(* Clean or blocked, and commit: an update waits for the row.  Nothing is  *)
(* written, and nothing waits, when the copy says so already.              *)
Decide(a) ==
    LET new == IF seen[a] # copy[a].after
               THEN [copy[a] EXCEPT !.status = "rollback_blocked"]
               ELSE [copy[a] EXCEPT !.status = "rollback_proposed", !.current = seen[a]]
    IN /\ pc[a] = "decide"
       /\ new # copy[a] => rowLock \in {a, NoAdmin}
       /\ row' = [row EXCEPT !.status  = Written(@, copy[a].status, new.status),
                             !.current = Written(@, copy[a].current, new.current)]
       /\ Return(a)
       /\ UNCHANGED <<copy, seen, github, history>>

-----------------------------------------------------------------------------
(* Mutant of Confirm: the row is read without lock=True. *)
ConfirmUnlocked(a) ==
    /\ pc[a] = "idle"
    /\ row.status = "rollback_proposed"
    /\ copy' = [copy EXCEPT ![a] = row]
    /\ Goto(a, "revert")
    /\ UNCHANGED <<row, rowLock, seen, github, history>>

(* confirm_rollback: select ... for update, of a proposed rollback. *)
Confirm(a) ==
    /\ pc[a] = "idle"
    /\ row.status = "rollback_proposed"
    /\ Lock(a)
    /\ copy' = [copy EXCEPT ![a] = row]
    /\ Goto(a, "revert")
    /\ UNCHANGED <<row, seen, github, history>>

(* update_file makes the revert commit, if the file still has the sha.  (A  *)
(* file that has the content to restore already could be reverted for ever;*)
(* the bound stops only that.) *)
Commit(a) == /\ main = copy[a].current
             /\ reverts <= MaxEdits
             /\ main' = Before
             /\ changed' = TRUE
             /\ reverts' = reverts + 1
             /\ UNCHANGED <<merged, branch, edits>>

(* Mutants of Revert: a refused revert is not noticed; a revert overwrites *)
(* whatever is there.                                                      *)
RevertUnchecked(a) ==
    /\ pc[a] = "revert"
    /\ Goto(a, "save")
    /\ Commit(a) \/ UNCHANGED <<github, history>>
    /\ UNCHANGED <<row, rowLock, copy, seen>>
RevertForced(a) ==
    /\ pc[a] = "revert"
    /\ \/ /\ main' = Before /\ changed' = TRUE /\ reverts' = reverts + 1
          /\ UNCHANGED <<merged, branch, edits>>
          /\ Goto(a, "save") /\ UNCHANGED rowLock
       \/ Return(a) /\ UNCHANGED <<github, history>>
    /\ UNCHANGED <<row, copy, seen>>

(* revert_patch: done; done, but the reply is lost; or refused or failed.  *)
Revert(a) ==
    /\ pc[a] = "revert"
    /\ \/ Commit(a) /\ Goto(a, "save") /\ UNCHANGED rowLock
       \/ Commit(a) /\ Return(a)
       \/ Return(a) /\ UNCHANGED <<github, history>>
    /\ UNCHANGED <<row, copy, seen>>

(* The revert is recorded. *)
Save(a) ==
    /\ pc[a] = "save"
    /\ row' = [row EXCEPT !.status = "rolled_back", !.revertKnown = TRUE]
    /\ Return(a)
    /\ UNCHANGED <<copy, seen, github, history>>

(* The process dies or the database refuses: the transaction is undone. *)
Abort(a) ==
    /\ pc[a] # "idle"
    /\ Return(a)
    /\ UNCHANGED <<row, copy, seen, github, history>>

-----------------------------------------------------------------------------
(* GitHub.  A merge puts the patch on whatever the default branch has. *)
Merge == /\ ~merged /\ branch # None
         /\ merged' = TRUE
         /\ IF main = Before THEN main' = branch /\ UNCHANGED changed
                             ELSE main' \in Blob /\ changed' = TRUE
         /\ UNCHANGED <<row, rowLock, pc, copy, seen, branch, edits, reverts>>

(* The branch of a merged pull request is usually deleted. *)
DeleteBranch == /\ merged /\ branch # None
                /\ branch' = None
                /\ UNCHANGED <<row, rowLock, pc, copy, seen, merged, main, history>>

(* Another patch or a manual commit, on the default branch or the PR's,    *)
(* before the merge and after it (before, it stays a change: an empty pull *)
(* request is not merged).                                                 *)
Edit == /\ edits < MaxEdits
        /\ edits' = edits + 1
        /\ \/ /\ main' \in Blob \ {main}
              /\ changed' = (changed \/ merged)
              /\ UNCHANGED branch
           \/ /\ branch # None
              /\ branch' \in Blob \ IF merged THEN {branch} ELSE {branch, Before}
              /\ UNCHANGED <<main, changed>>
        /\ UNCHANGED <<row, rowLock, pc, copy, seen, merged, reverts>>

Step(a) == \/ CheckMerged(a) \/ RecordMerge(a) \/ Refresh(a) \/ ReadCurrent(a) \/ Decide(a)
           \/ Revert(a) \/ Save(a)

Next == \/ Merge \/ DeleteBranch \/ Edit
        \/ \E a \in Admin : Propose(a) \/ Confirm(a) \/ Step(a) \/ Abort(a)

Safe == Init /\ [][Next]_vars

(* A request runs on; the database hands a row to those who wait for it.   *)
Spec == Safe /\ \A a \in Admin : SF_vars(Step(a))
=============================================================================
