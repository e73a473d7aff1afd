------------------------ MODULE RollbackLedgerProofs ------------------------
(***************************************************************************)
(* Proofs about the rollback ledger, for any number of requests, blobs and *)
(* commits of other people.                                                *)
(***************************************************************************)
EXTENDS RollbackLedgerProps, TLAPS

LEMMA NewRowIsRow == NewRow \in Row
  BY DEF NewRow, Row, Status, Sha

LEMMA TypeInit == Init => TypeOK
<1> SUFFICES ASSUME Init PROVE TypeOK
  OBVIOUS
<1>1. copy \in [Admin -> Row]
  BY NewRowIsRow DEF Init
<1>2. seen \in [Admin -> Sha] /\ main \in Blob /\ branch \in Sha
  BY LedgerAssumption DEF Init, Sha
<1>3. pc \in [Admin -> {"idle", "merge", "after", "refresh", "read", "decide", "revert", "save"}]
  BY DEF Init
<1> QED
  BY <1>1, <1>2, <1>3, NewRowIsRow DEF Init, TypeOK

(* What a decision may write: a blocked proposal changes the status only,  *)
(* a clean one records the sha that was read, equal to the copy's.         *)
LEMMA DecideWrites ==
  ASSUME TypeOK, NEW a \in Admin, Decide(a)
  PROVE  /\ row' \in Row
         /\ row'.mergeKnown = row.mergeKnown /\ row'.after = row.after
         /\ row'.revertKnown = row.revertKnown
         /\ \/ /\ row'.current = row.current
               /\ row'.status \in {row.status, "rollback_blocked"}
            \/ /\ seen[a] = copy[a].after
               /\ row'.current = IF seen[a] = copy[a].current THEN row.current ELSE seen[a]
               /\ row'.status = IF copy[a].status = "rollback_proposed" THEN row.status
                                ELSE "rollback_proposed"
<1> USE DEF TypeOK
<1>1. CASE seen[a] # copy[a].after
  <2> DEFINE st == Written(row.status, copy[a].status, "rollback_blocked")
  <2>1. row' = [row EXCEPT !.status = st, !.current = row.current]
    BY <1>1 DEF Decide, Written, Row
  <2>2. st \in {row.status, "rollback_blocked"}
    BY DEF Written
  <2> QED
    BY <2>1, <2>2 DEF Row, Status
<1>2. CASE seen[a] = copy[a].after
  <2> DEFINE st  == Written(row.status, copy[a].status, "rollback_proposed")
             sha == Written(row.current, copy[a].current, seen[a])
  <2>1. row' = [row EXCEPT !.status = st, !.current = sha]
    BY <1>2 DEF Decide, Row
  <2>2. /\ st = IF copy[a].status = "rollback_proposed" THEN row.status ELSE "rollback_proposed"
        /\ sha = IF seen[a] = copy[a].current THEN row.current ELSE seen[a]
    BY DEF Written
  <2> HIDE DEF st, sha
  <2>3. st \in Status /\ sha \in Sha
    BY <2>2 DEF Row, Status
  <2> QED
    BY <1>2, <2>1, <2>2, <2>3 DEF Row
<1> QED
  BY <1>1, <1>2

LEMMA TypeStep == TypeOK /\ [Next]_vars => TypeOK'
<1> SUFFICES ASSUME TypeOK, [Next]_vars PROVE TypeOK'
  OBVIOUS
<1> USE LedgerAssumption DEF TypeOK, github, history, Goto, Lock, Release, Return
<1>1. CASE Merge
  BY <1>1 DEF Merge, Sha
<1>2. CASE DeleteBranch \/ Edit
  BY <1>2 DEF DeleteBranch, Edit, Sha
<1>3. ASSUME NEW a \in Admin, Propose(a) \/ Confirm(a) PROVE TypeOK'
  BY <1>3 DEF Propose, Confirm
<1>4. ASSUME NEW a \in Admin, CheckMerged(a) \/ Refresh(a) \/ Abort(a) PROVE TypeOK'
  BY <1>4 DEF CheckMerged, Refresh, Abort
<1>5. ASSUME NEW a \in Admin, RecordMerge(a) PROVE TypeOK'
  <2>1. PICK sha \in Sha : row' = [row EXCEPT !.mergeKnown = TRUE, !.after = sha, !.status = "applied"]
    BY <1>5 DEF RecordMerge, ShaRead, Sha
  <2>2. row' \in Row
    BY <2>1 DEF Row, Status
  <2> QED
    BY <1>5, <2>2 DEF RecordMerge
<1>6. ASSUME NEW a \in Admin, ReadCurrent(a) PROVE TypeOK'
  <2>1. seen' \in [Admin -> Sha]
    BY <1>6 DEF ReadCurrent, ShaRead, Sha
  <2> QED
    BY <1>6, <2>1 DEF ReadCurrent
<1>7. ASSUME NEW a \in Admin, Decide(a) PROVE TypeOK'
  <2>1. row' \in Row
    BY <1>7, DecideWrites
  <2> QED
    BY <1>7, <2>1 DEF Decide
<1>8. ASSUME NEW a \in Admin, Revert(a) PROVE TypeOK'
  <2>1. CASE Commit(a)
    <3>1. /\ main' \in Blob /\ changed' \in BOOLEAN /\ reverts' \in Nat
          /\ UNCHANGED <<merged, branch, edits, row, copy, seen>>
      BY <1>8, <2>1 DEF Revert, Commit
    <3>2. /\ pc' = [pc EXCEPT ![a] = "save"] \/ pc' = [pc EXCEPT ![a] = "idle"]
          /\ rowLock' \in {rowLock, NoAdmin}
      BY <1>8 DEF Revert
    <3> QED
      BY <3>1, <3>2
  <2>2. CASE UNCHANGED <<github, history>>
    BY <1>8, <2>2 DEF Revert
  <2> QED
    BY <1>8, <2>1, <2>2 DEF Revert
<1>9. ASSUME NEW a \in Admin, Save(a) PROVE TypeOK'
  <2>1. row' \in Row
    BY <1>9 DEF Save, Row, Status
  <2> QED
    BY <1>9, <2>1 DEF Save
<1>10. CASE UNCHANGED vars
  BY <1>10 DEF vars
<1> QED
  BY <1>1, <1>2, <1>3, <1>4, <1>5, <1>6, <1>7, <1>8, <1>9, <1>10 DEF Next, Step

(* The row, its copies and the state of GitHub keep their types. *)
THEOREM LedgerTypeCorrect == Safe => []TypeOK
  BY TypeInit, TypeStep, PTL DEF Safe

-----------------------------------------------------------------------------
(* A request that records a merge or a revert holds the row. *)
LockOK == \A a \in Admin : pc[a] \in {"merge", "after", "revert", "save"} => rowLock = a

(* Until the merge is recorded the row is as it was created. *)
FirstOK ==
    /\ ~row.mergeKnown => row.after = None /\ row.current = None /\ row.status = "proposed"
    /\ \A a \in Admin : pc[a] \in {"merge", "after"} => ~row.mergeKnown

(* The sha of the patch and the sha to replace are the same, once known. *)
CurrentOK == row.current # None => row.current = row.after

(* An unlocked copy may be old, but not in the two shas. *)
CopyOK ==
    \A a \in Admin : pc[a] \in {"read", "decide"} =>
        /\ row.mergeKnown /\ copy[a].after = row.after
        /\ copy[a].current # None => row.current = copy[a].current
        /\ pc[a] = "decide" => seen[a] # None
        /\ copy[a].status = "rollback_proposed" => copy[a].current = copy[a].after
                                                   /\ copy[a].after # None

RefreshOK == \A a \in Admin : pc[a] = "refresh" => row.mergeKnown

(* While a revert is under way the row stays as the request read it. *)
RevertOK ==
    \A a \in Admin : pc[a] \in {"revert", "save"} =>
        /\ copy[a] = row /\ row.status = "rollback_proposed"
        /\ pc[a] = "save" => reverts > 0

LedgerInv == /\ TypeOK /\ LockOK /\ FirstOK /\ CurrentOK /\ CopyOK /\ RefreshOK /\ RevertOK
             /\ ProposedIsClean /\ RolledBackIsRecorded

LEMMA LedgerInit == Init => LedgerInv
  BY TypeInit DEF Init, LedgerInv, NewRow, LockOK, FirstOK, CurrentOK, CopyOK, RefreshOK,
     RevertOK, ProposedIsClean, RolledBackIsRecorded

LEMMA LedgerStep == LedgerInv /\ [Next]_vars => LedgerInv'
<1> SUFFICES ASSUME LedgerInv, [Next]_vars PROVE LedgerInv'
  OBVIOUS
<1> TypeOK'
  BY TypeStep DEF LedgerInv
<1> USE LedgerAssumption DEF LedgerInv, TypeOK, Row, LockOK, FirstOK, CurrentOK, CopyOK, RefreshOK,
     RevertOK, ProposedIsClean, RolledBackIsRecorded, github, history, Goto, Lock, Release, Return
<1>1. CASE Merge \/ DeleteBranch \/ Edit
  BY <1>1 DEF Merge, DeleteBranch, Edit
<1>2. ASSUME NEW a \in Admin, Propose(a) PROVE LedgerInv'
  BY <1>2 DEF Propose
<1>3. ASSUME NEW a \in Admin, Confirm(a) PROVE LedgerInv'
  BY <1>3 DEF Confirm
<1>4. ASSUME NEW a \in Admin, CheckMerged(a) PROVE LedgerInv'
  BY <1>4 DEF CheckMerged
<1>5. ASSUME NEW a \in Admin, RecordMerge(a) PROVE LedgerInv'
  BY <1>5 DEF RecordMerge, ShaRead
<1>6. ASSUME NEW a \in Admin, Refresh(a) PROVE LedgerInv'
  BY <1>6 DEF Refresh
<1>7. ASSUME NEW a \in Admin, ReadCurrent(a) PROVE LedgerInv'
  BY <1>7 DEF ReadCurrent, ShaRead
<1>8. ASSUME NEW a \in Admin, Decide(a) PROVE LedgerInv'
  <2>1. /\ pc[a] = "decide" /\ pc' = [pc EXCEPT ![a] = "idle"]
        /\ UNCHANGED <<copy, seen, reverts>>
        /\ rowLock' = IF rowLock = a THEN NoAdmin ELSE rowLock
    BY <1>8 DEF Decide
  <2>2. row' = row \/ rowLock \in {a, NoAdmin}
    BY <1>8 DEF Decide, Written
  <2>3. /\ row'.mergeKnown = row.mergeKnown /\ row'.after = row.after
        /\ row'.revertKnown = row.revertKnown
        /\ row'.status \in {row.status, "rollback_blocked", "rollback_proposed"}
        /\ row'.current = row.current \/ row'.current = row.after
        /\ row'.status = "rollback_proposed" =>
              \/ row'.status = row.status /\ row'.current = row.current
              \/ row'.current = row.after /\ row.after # None
    BY <1>8, <2>1, DecideWrites
  <2>4. \A b \in Admin : pc'[b] = IF b = a THEN "idle" ELSE pc[b]
    BY <2>1
  <2>5. LockOK' /\ FirstOK' /\ RefreshOK'
    BY <2>1, <2>3, <2>4
  <2>6. CurrentOK' /\ ProposedIsClean' /\ RolledBackIsRecorded'
    BY <2>1, <2>3
  <2>7. CopyOK'
    BY <2>1, <2>3, <2>4
  <2>8. RevertOK'
    BY <2>1, <2>2, <2>4
  <2> QED
    BY <2>5, <2>6, <2>7, <2>8
<1>9. ASSUME NEW a \in Admin, Revert(a) PROVE LedgerInv'
  BY <1>9 DEF Revert, Commit
<1>10. ASSUME NEW a \in Admin, Save(a) PROVE LedgerInv'
  BY <1>10 DEF Save
<1>11. ASSUME NEW a \in Admin, Abort(a) PROVE LedgerInv'
  BY <1>11 DEF Abort
<1>12. CASE UNCHANGED vars
  BY <1>12 DEF vars
<1> QED
  BY <1>1, <1>2, <1>3, <1>4, <1>5, <1>6, <1>7, <1>8, <1>9, <1>10, <1>11, <1>12 DEF Next, Step

LEMMA LedgerHolds == Safe => []LedgerInv
  BY LedgerInit, LedgerStep, PTL DEF Safe

-----------------------------------------------------------------------------
(* get_ledger_entry(lock=True): whoever checked the status holds the row   *)
(* until the revert is recorded, so two requests never revert one patch.   *)
THEOREM OneReverterHolds == Safe => []OneReverter
<1>1. LedgerInv => OneReverter
  BY DEF LedgerInv, LockOK, OneReverter
<1> QED
  BY <1>1, LedgerHolds, PTL

(* Proposals that overlap, each with its own copy of the row, never leave  *)
(* a proposal whose sha to replace is not the patch's.                     *)
THEOREM ProposedIsCleanHolds == Safe => []ProposedIsClean
<1>1. LedgerInv => ProposedIsClean
  BY DEF LedgerInv
<1> QED
  BY <1>1, LedgerHolds, PTL

(* An entry is rolled back only after the revert commit it records.        *)
THEOREM RolledBackIsRecordedHolds == Safe => []RolledBackIsRecorded
<1>1. LedgerInv => RolledBackIsRecorded
  BY DEF LedgerInv
<1> QED
  BY <1>1, LedgerHolds, PTL

(* confirm_rollback hands revert_patch the sha that was recorded with the  *)
(* merge, and update_file refuses any other blob of the default branch.    *)
THEOREM RevertsRecordedMergeHolds == Safe => RevertsRecordedMerge
<1>1. LedgerInv /\ [Next]_vars => [reverts' # reverts => main = row.after /\ row.mergeKnown]_vars
  <2> SUFFICES ASSUME LedgerInv, Next, reverts' # reverts
               PROVE  main = row.after /\ row.mergeKnown
    BY DEF vars, history
  <2>1. PICK a \in Admin : Revert(a) /\ Commit(a)
    BY DEF Next, Step, Merge, DeleteBranch, Edit, Propose, Confirm, CheckMerged, RecordMerge,
       Refresh, ReadCurrent, Decide, Revert, Save, Abort, github, history
  <2>2. pc[a] = "revert" /\ main = copy[a].current
    BY <2>1 DEF Revert, Commit
  <2>3. copy[a] = row /\ row.status = "rollback_proposed"
    BY <2>2 DEF LedgerInv, RevertOK
  <2>4. row.current = row.after /\ row.after # None
    BY <2>3 DEF LedgerInv, ProposedIsClean
  <2>5. row.mergeKnown
    BY <2>4 DEF LedgerInv, FirstOK, TypeOK, Row
  <2> QED
    BY <2>2, <2>3, <2>4, <2>5
<1> QED
  BY <1>1, LedgerHolds, PTL DEF Safe, RevertsRecordedMerge
=============================================================================
