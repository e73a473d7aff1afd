------------------------ MODULE RollbackLedgerProps ------------------------
(* What a rollback must guarantee. *)
EXTENDS RollbackLedger

(* The row and its copies are rows; blobs are blobs. *)
TypeOK ==
    /\ row \in Row
    /\ rowLock \in Admin \cup {NoAdmin}
    /\ pc \in [Admin -> {"idle", "merge", "after", "refresh", "read", "decide", "revert", "save"}]
    /\ copy \in [Admin -> Row]
    /\ seen \in [Admin -> Sha]
    /\ merged \in BOOLEAN /\ main \in Blob /\ branch \in Sha
    /\ edits \in Nat /\ changed \in BOOLEAN /\ reverts \in Nat

(* "two admins cannot revert the same patch at the same time"              *)
(* (get_ledger_entry): one request at most is between the check of the     *)
(* status and the record of the revert.                                    *)
OneReverter ==
    \A a, b \in Admin : pc[a] \in {"revert", "save"} /\ pc[b] \in {"revert", "save"} => a = b

(* A proposal is a clean revert: the sha a confirm will replace is the sha *)
(* the patch left behind, whatever other proposals wrote in between.       *)
ProposedIsClean ==
    row.status = "rollback_proposed" => row.current = row.after /\ row.after # None

(* An entry says rolled back only after a revert commit, which it records. *)
RolledBackIsRecorded ==
    row.status = "rolled_back" => reverts > 0 /\ row.revertKnown

(* A revert is made only on top of what the branch of the merged pull      *)
(* request had when a proposal recorded the merge, whoever committed it    *)
(* there: any other content of the default branch is never overwritten.    *)
(* (What people committed to that branch by then is undone with the patch.)*)
RevertsRecordedMerge ==
    [][reverts' # reverts => main = row.after /\ row.mergeKnown]_vars

(* Every call of an admin ends. *)
CallsReturn == \A a \in Admin : pc[a] # "idle" ~> pc[a] = "idle"

(* "a patch can only be reverted once" (test_state_rollback.py): an entry  *)
(* that was rolled back refuses every later proposal and confirmation.     *)
RolledBackIsFinal == [][row.status = "rolled_back" => row'.status = "rolled_back"]_vars

(* "has changed since this patch was applied" (propose_rollback): a revert *)
(* is blocked only when the file was changed after the merge.              *)
BlockedMeansChanged ==
    [][row'.status = "rollback_blocked" /\ row.status # "rollback_blocked" => changed]_vars
=============================================================================
