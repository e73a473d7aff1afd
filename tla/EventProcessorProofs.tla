------------------------ MODULE EventProcessorProofs ------------------------
(***************************************************************************)
(* Proofs about the event worker, for any number of workers, events,       *)
(* fingerprints and attempts.                                              *)
(***************************************************************************)
EXTENDS EventProcessorProps, FiniteSetTheorems, TLAPS

(* A worker past Find has a job, which is no longer in its batch. *)
JobOK == \A w \in Worker :
            pc[w] \in InTransaction \cup {"analyse"} => job[w] \in Event

TypeInv == TypeOK /\ JobOK

LEMMA ClaimableEvents == ASSUME TypeOK PROVE Claimable \subseteq Event
  BY ConstantsAssumption DEF TypeOK, Claimable, Event

LEMMA TypeInit == Init => TypeInv
  BY ConstantsAssumption DEF Init, TypeInv, TypeOK, JobOK, InTransaction

LEMMA TypeStep == TypeInv /\ [Next]_vars => TypeInv'
<1> SUFFICES ASSUME TypeInv, [Next]_vars PROVE TypeInv'
  OBVIOUS
<1> USE ConstantsAssumption DEF TypeInv, TypeOK, JobOK, InTransaction, table, process
<1>1. CASE \E S \in SUBSET (Event \ received) : Receive(S)
  BY <1>1 DEF Receive
<1>2. ASSUME NEW e \in Event, Lapse(e) PROVE TypeInv'
  BY <1>2 DEF Lapse
<1>3. ASSUME NEW w \in Worker, Claim(w) PROVE TypeInv'
  <2>1. PICK S \in SUBSET Claimable : TakeLease(S) /\ \E replied \in BOOLEAN :
                batch' = [batch EXCEPT ![w] = IF replied THEN S ELSE {}]
    BY <1>3 DEF Claim
  <2>2. /\ lease' \in [Event -> {"never", "held", "lapsed"}]
        /\ attempts' \in [Event -> 0 .. MaxAttempts]
    <3>1. \A e \in S : e \in Event /\ attempts[e] \in 0 .. MaxAttempts /\ attempts[e] < MaxAttempts
      BY <2>1, ClaimableEvents DEF Claimable
    <3>2. \A e \in S : attempts[e] + 1 \in 0 .. MaxAttempts
      BY <3>1
    <3> QED
      BY <2>1, <3>2 DEF TakeLease
  <2>3. batch' \in [Worker -> SUBSET Event]
    BY <2>1, ClaimableEvents
  <2> QED
    BY <1>3, <2>2, <2>3 DEF Claim
<1>4. ASSUME NEW w \in Worker, Find(w) PROVE TypeInv'
  BY <1>4 DEF Find
<1>5. ASSUME NEW w \in Worker, Insert(w) PROVE TypeInv'
  BY <1>5 DEF Insert
<1>6. ASSUME NEW w \in Worker, CountRepeat(w) PROVE TypeInv'
  BY <1>6 DEF CountRepeat
<1>7. ASSUME NEW w \in Worker, Commit(w) PROVE TypeInv'
  BY <1>7, SMTT(30) DEF Commit, Save
<1>8. ASSUME NEW w \in Worker, CommitUnknown(w) PROVE TypeInv'
  BY <1>8 DEF CommitUnknown, Save
<1>9. ASSUME NEW w \in Worker, Fail(w) PROVE TypeInv'
  BY <1>9 DEF Fail, Unlock
<1>10. ASSUME NEW w \in Worker, Analyse(w) PROVE TypeInv'
  BY <1>10 DEF Analyse
<1>11. ASSUME NEW w \in Worker, Crash(w) PROVE TypeInv'
  BY <1>11 DEF Crash, Unlock
<1>12. ASSUME NEW w \in Worker, Restart(w) PROVE TypeInv'
  BY <1>12 DEF Restart
<1>13. CASE UNCHANGED vars
  BY <1>13 DEF vars
<1> QED
  BY <1>1, <1>2, <1>3, <1>4, <1>5, <1>6, <1>7, <1>8, <1>9, <1>10, <1>11, <1>12, <1>13
  DEF Next, Process, Work

(* Every table, process and history variable of the worker keeps its type  *)
(* whatever crashes, races and lapsed leases come.                         *)
THEOREM TypeCorrect == Safe => []TypeOK
<1>1. TypeInv => TypeOK
  BY DEF TypeInv
<1> QED
  BY <1>1, TypeInit, TypeStep, PTL DEF Safe

-----------------------------------------------------------------------------
(* A row is locked by the transaction that wrote it, a transaction that    *)
(* inserted found no row, one that counts found one, and an incident is    *)
(* stored exactly when its analysis was started or lost.                   *)
LockOK  == \A w \in Worker : pc[w] \in {"inserted", "counted"} => rowLock[Fp[job[w]]] = w
NewOK   == \A w \in Worker :
              /\ pc[w] = "inserted" => count[Fp[job[w]]] = 0
              /\ pc[w] \in {"count", "counted"} => count[Fp[job[w]]] # 0
StoredOK == \A f \in Fingerprint : count[f] # 0 <=> analysis[f] # "none"

(* An incident whose analysis is running has exactly one worker running it. *)
Analysing(w, f) == pc[w] = "analyse" /\ Fp[job[w]] = f
RunningOK ==
    \A f \in Fingerprint :
        /\ \A w \in Worker : Analysing(w, f) => analysis[f] = "running"
        /\ analysis[f] = "running" => \E w \in Worker : Analysing(w, f)
        /\ \A v, w \in Worker : Analysing(v, f) /\ Analysing(w, f) => v = w

RowInv == TypeInv /\ LockOK /\ NewOK /\ StoredOK /\ RunningOK

LEMMA RowInit == Init => RowInv
<1> SUFFICES ASSUME Init PROVE RowInv
  OBVIOUS
<1>1. TypeInv
  BY TypeInit
<1> QED
  BY <1>1 DEF Init, RowInv, LockOK, NewOK, StoredOK, RunningOK, Analysing

(* The transaction that saves an event is alone on its incident. *)
LEMMA Saving ==
    ASSUME RowInv, NEW w \in Worker, pc[w] \in {"inserted", "counted"}
    PROVE  /\ job[w] \in Event /\ Fp[job[w]] \in Fingerprint
           /\ \A v \in Worker \ {w} :
                 pc[v] \in {"inserted", "counted"} => Fp[job[v]] # Fp[job[w]]
           /\ pc[w] = "inserted" => analysis[Fp[job[w]]] = "none"
           /\ pc[w] = "inserted" => \A v \in Worker : ~Analysing(v, Fp[job[w]])
           /\ pc[w] = "counted" => analysis[Fp[job[w]]] # "none"
<1>1. job[w] \in Event /\ Fp[job[w]] \in Fingerprint
  BY ConstantsAssumption DEF RowInv, TypeInv, JobOK, InTransaction
<1>2. \A v \in Worker \ {w} : pc[v] \in {"inserted", "counted"} => Fp[job[v]] # Fp[job[w]]
  BY DEF RowInv, LockOK
<1>3. /\ pc[w] = "inserted" => analysis[Fp[job[w]]] = "none"
      /\ pc[w] = "counted" => analysis[Fp[job[w]]] # "none"
  BY <1>1 DEF RowInv, NewOK, StoredOK
<1>4. pc[w] = "inserted" => \A v \in Worker : ~Analysing(v, Fp[job[w]])
  BY <1>1, <1>3 DEF RowInv, RunningOK
<1> QED
  BY <1>1, <1>2, <1>3, <1>4

(* The worker that stored a new incident is the one that analyses it. *)
LEMMA StartsRunning ==
    ASSUME TypeOK, RunningOK, NEW w \in Worker, pc[w] = "inserted", Fp[job[w]] \in Fingerprint,
           \A v \in Worker : ~Analysing(v, Fp[job[w]]),
           analysis' = [analysis EXCEPT ![Fp[job[w]]] = "running"],
           pc' = [pc EXCEPT ![w] = "analyse"], job' = job
    PROVE  RunningOK'
<1>0. PICK f \in Fingerprint : f = Fp[job[w]]
  OBVIOUS
<1>1. \A v \in Worker, g \in Fingerprint : Analysing(v, g)' <=> Analysing(v, g) \/ (v = w /\ g = f)
  BY <1>0 DEF Analysing, TypeOK
<1>2. \A g \in Fingerprint : analysis'[g] = IF g = f THEN "running" ELSE analysis[g]
  BY <1>0 DEF TypeOK
<1>3. ASSUME NEW g \in Fingerprint, g # f
      PROVE  /\ \A v \in Worker : Analysing(v, g)' => analysis'[g] = "running"
             /\ analysis'[g] = "running" => \E v \in Worker : Analysing(v, g)'
             /\ \A v, u \in Worker : Analysing(v, g)' /\ Analysing(u, g)' => v = u
  BY <1>1, <1>2, <1>3 DEF RunningOK
<1>4. (\A v \in Worker : Analysing(v, f)' <=> v = w) /\ analysis'[f] = "running"
  BY <1>0, <1>1, <1>2
<1>5. ASSUME NEW g \in Fingerprint
      PROVE  /\ \A v \in Worker : Analysing(v, g)' => analysis'[g] = "running"
             /\ analysis'[g] = "running" => \E v \in Worker : Analysing(v, g)'
             /\ \A v, u \in Worker : Analysing(v, g)' /\ Analysing(u, g)' => v = u
  <2>1. CASE g = f
    BY <1>4, <2>1
  <2>2. CASE g # f
    BY ONLY <1>3, <1>5, <2>2, SMTT(30)
  <2> QED
    BY <2>1, <2>2
<1> QED
  BY <1>5 DEF RunningOK

LEMMA RowStep == RowInv /\ [Next]_vars => RowInv'
<1> SUFFICES ASSUME RowInv, [Next]_vars PROVE RowInv'
  OBVIOUS
<1> TypeInv'
  BY TypeStep DEF RowInv
<1> USE ConstantsAssumption
    DEF RowInv, TypeInv, TypeOK, JobOK, LockOK, NewOK, StoredOK, RunningOK, Analysing,
        InTransaction, table, process
<1>1. CASE (\E S \in SUBSET (Event \ received) : Receive(S)) \/ \E e \in Event : Lapse(e)
  BY <1>1 DEF Receive, Lapse
<1>2. ASSUME NEW w \in Worker, Claim(w) PROVE RowInv'
  BY <1>2 DEF Claim, TakeLease
<1>3. ASSUME NEW w \in Worker, Find(w) PROVE RowInv'
  BY <1>3 DEF Find
<1>4. ASSUME NEW w \in Worker, Insert(w) PROVE RowInv'
  BY <1>4, SMTT(30) DEF Insert
<1>5. ASSUME NEW w \in Worker, CountRepeat(w) PROVE RowInv'
  BY <1>5 DEF CountRepeat
<1>6. ASSUME NEW w \in Worker, Commit(w) PROVE RowInv'
  <2> pc[w] \in {"inserted", "counted"}
    BY <1>6 DEF Commit
  <2> DEFINE f == Fp[job[w]]
  <2>1. /\ job[w] \in Event /\ f \in Fingerprint
        /\ \A v \in Worker \ {w} : pc[v] \in {"inserted", "counted"} => Fp[job[v]] # f
        /\ pc[w] = "inserted" => analysis[f] = "none"
        /\ pc[w] = "inserted" => \A v \in Worker : ~Analysing(v, f)
        /\ pc[w] = "counted" => analysis[f] # "none"
    BY Saving
  <2>2. LockOK' /\ NewOK'
    <3>1. /\ count' = [count EXCEPT ![f] = @ + 1]
          /\ rowLock' = [rowLock EXCEPT ![f] = NoWorker]
          /\ pc'[w] \in {"analyse", "idle"}
          /\ \A v \in Worker \ {w} : pc'[v] = pc[v] /\ job'[v] = job[v]
      BY <1>6 DEF Commit, Save
    <3>2. LockOK'
      BY <2>1, <3>1
    <3>3. NewOK'
      <4>1. count'[f] # 0 /\ \A g \in Fingerprint \ {f} : count'[g] = count[g]
        BY <2>1, <3>1
      <4>2. \A v \in Worker : Fp[job[v]] # f => count'[Fp[job[v]]] = count[Fp[job[v]]]
        BY <2>1, <3>1
      <4>3. /\ pc'[w] \notin {"inserted", "count", "counted"}
            /\ \A v \in Worker \ {w} : pc'[v] = pc[v] /\ job'[v] = job[v]
        BY ONLY <3>1
      <4>4. ASSUME NEW v \in Worker \ {w}
            PROVE  /\ pc[v] = "inserted" => count'[Fp[job[v]]] = 0
                   /\ pc[v] \in {"count", "counted"} => count'[Fp[job[v]]] # 0
        <5>1. CASE Fp[job[v]] = f
          <6>1. pc[v] # "inserted" /\ count'[Fp[job[v]]] # 0
            BY <2>1, <4>1, <5>1
          <6> QED
            BY <6>1
        <5>2. CASE Fp[job[v]] # f
          BY <4>2, <5>2
        <5> QED
          BY <5>1, <5>2
      <4>5. ASSUME NEW v \in Worker
            PROVE  /\ pc'[v] = "inserted" => count'[Fp[job'[v]]] = 0
                   /\ pc'[v] \in {"count", "counted"} => count'[Fp[job'[v]]] # 0
        <5>1. CASE v = w
          BY ONLY <4>3, <5>1
        <5>2. CASE v # w
          <6>1. pc'[v] = pc[v] /\ job'[v] = job[v]
            BY ONLY <4>3, <5>2
          <6> QED
            BY ONLY <4>4, <5>2, <6>1
        <5> QED
          BY <5>1, <5>2
      <4> QED
        BY ONLY <4>5
    <3> QED
      BY <3>2, <3>3
  <2>3. StoredOK'
    BY <1>6, <2>1 DEF Commit, Save
  <2>4. CASE pc[w] = "inserted"
    <3>1. RunningOK'
      BY <1>6, <2>1, <2>4, StartsRunning DEF Commit
    <3> QED
      BY <2>2, <2>3, <3>1
  <2>5. CASE pc[w] = "counted"
    <3>1. /\ analysis' = analysis
          /\ \A v \in Worker, g \in Fingerprint : Analysing(v, g)' <=> Analysing(v, g)
      BY <1>6, <2>5 DEF Commit
    <3>2. RunningOK'
      BY <3>1
    <3> QED
      BY <2>2, <2>3, <3>2
  <2> QED
    BY <2>4, <2>5
<1>7. ASSUME NEW w \in Worker, CommitUnknown(w) PROVE RowInv'
  <2> pc[w] \in {"inserted", "counted"}
    BY <1>7 DEF CommitUnknown
  <2> DEFINE f == Fp[job[w]]
  <2>1. /\ job[w] \in Event /\ f \in Fingerprint
        /\ \A v \in Worker \ {w} : pc[v] \in {"inserted", "counted"} => Fp[job[v]] # f
        /\ pc[w] = "inserted" => analysis[f] = "none"
        /\ pc[w] = "inserted" => \A v \in Worker : ~Analysing(v, f)
        /\ pc[w] = "counted" => analysis[f] # "none"
    BY Saving
  <2>2. LockOK' /\ NewOK'
    BY <1>7, <2>1 DEF CommitUnknown, Save
  <2>3. StoredOK'
    BY <1>7, <2>1 DEF CommitUnknown, Save
  <2>4. CASE pc[w] = "inserted"
    <3>1. RunningOK'
      BY <1>7, <2>1, <2>4, SMTT(30) DEF CommitUnknown, Save
    <3> QED
      BY <2>2, <2>3, <3>1
  <2>5. CASE pc[w] = "counted"
    <3>1. /\ analysis' = analysis
          /\ \A v \in Worker, g \in Fingerprint : Analysing(v, g)' <=> Analysing(v, g)
      BY <1>7, <2>5 DEF CommitUnknown
    <3>2. RunningOK'
      <4> HIDE DEF Analysing
      <4> QED
        BY <3>1
    <3> QED
      BY <2>2, <2>3, <3>2
  <2> QED
    BY <2>4, <2>5
<1>8. ASSUME NEW w \in Worker, Fail(w) PROVE RowInv'
  BY <1>8 DEF Fail, Unlock
<1>9. ASSUME NEW w \in Worker, Analyse(w) PROVE RowInv'
  <2>1. LockOK' /\ NewOK' /\ StoredOK'
    BY <1>9 DEF Analyse
  <2>2. RunningOK'
    BY <1>9 DEF Analyse
  <2> QED
    BY <2>1, <2>2
<1>10. ASSUME NEW w \in Worker, Crash(w) PROVE RowInv'
  <2>1. /\ count' = count
        /\ rowLock' = [f \in Fingerprint |-> IF rowLock[f] = w THEN NoWorker ELSE rowLock[f]]
        /\ pc' = [pc EXCEPT ![w] = "down"] /\ job' = [job EXCEPT ![w] = NoEvent]
    BY <1>10 DEF Crash, Unlock
  <2>2. pc'[w] = "down" /\ \A v \in Worker \ {w} : pc'[v] = pc[v] /\ job'[v] = job[v]
    BY <2>1
  <2>3. LockOK'
    <3>1. ASSUME NEW v \in Worker \ {w}, pc[v] \in {"inserted", "counted"}
          PROVE  rowLock'[Fp[job[v]]] = v
      BY <2>1, <3>1
    <3> QED
      BY <2>2, <3>1
  <2>4. NewOK'
    BY <2>1, <2>2
  <2>5. CASE pc[w] = "analyse"
    <3>1. PICK f \in Fingerprint : f = Fp[job[w]] /\ Analysing(w, f)
      BY <2>5
    <3>2. analysis' = [analysis EXCEPT ![f] = "lost"] /\ analysis[f] = "running"
      BY <1>10, <2>5, <3>1 DEF Crash
    <3>3. \A v \in Worker, g \in Fingerprint : Analysing(v, g)' <=> Analysing(v, g) /\ g # f
      BY <2>2, <3>1
    <3>4. analysis'[f] = "lost" /\ \A g \in Fingerprint \ {f} : analysis'[g] = analysis[g]
      BY <3>2
    <3>5. StoredOK'
      BY <2>1, <3>2, <3>4
    <3>6. RunningOK'
      <4> HIDE DEF Analysing
      <4> QED
        BY <3>3, <3>4
    <3> QED
      BY <2>3, <2>4, <3>5, <3>6
  <2>6. CASE pc[w] # "analyse"
    <3>1. /\ analysis' = analysis
          /\ \A v \in Worker, g \in Fingerprint : Analysing(v, g)' <=> Analysing(v, g)
      BY <1>10, <2>2, <2>6 DEF Crash
    <3>2. StoredOK'
      BY <2>1, <3>1
    <3>3. RunningOK'
      <4> HIDE DEF Analysing
      <4> QED
        BY <3>1
    <3> QED
      BY <2>3, <2>4, <3>2, <3>3
  <2> QED
    BY <2>5, <2>6
<1>11. ASSUME NEW w \in Worker, Restart(w) PROVE RowInv'
  BY <1>11 DEF Restart
<1>12. CASE UNCHANGED vars
  BY <1>12 DEF vars
<1> QED
  BY <1>1, <1>2, <1>3, <1>4, <1>5, <1>6, <1>7, <1>8, <1>9, <1>10, <1>11, <1>12
  DEF Next, Process, Work

(* One analysis per incident: no race, crash or lapsed lease makes two     *)
(* workers believe they stored the same new incident.                      *)
THEOREM AnalysedOnceHolds == Safe => AnalysedOnce
<1> DEFINE Step == \A f \in Fingerprint : analysis[f] # "none" =>
                     analysis'[f] # "none" /\ (analysis'[f] = "running" => analysis[f] = "running")
<1>1. RowInv /\ [Next]_vars => Step
  <2> SUFFICES ASSUME RowInv, [Next]_vars PROVE Step
    OBVIOUS
  <2>1. CASE UNCHANGED analysis
    BY <2>1
  <2>2. ASSUME NEW w \in Worker, Commit(w) \/ CommitUnknown(w) PROVE Step
    <3>1. /\ pc[w] \in {"inserted", "counted"}
          /\ pc[w] = "counted" => analysis' = analysis
          /\ pc[w] = "inserted" => \E a \in {"running", "lost"} :
                analysis' = [analysis EXCEPT ![Fp[job[w]]] = a]
      BY <2>2 DEF Commit, CommitUnknown
    <3>2. pc[w] = "inserted" => analysis[Fp[job[w]]] = "none"
      BY <3>1, Saving
    <3> QED
      BY <3>1, <3>2 DEF RowInv, TypeInv, TypeOK
  <2>3. ASSUME NEW w \in Worker, Analyse(w) \/ Crash(w) PROVE Step
    BY <2>3 DEF Analyse, Crash, RowInv, TypeInv, TypeOK
  <2> QED
    BY <2>1, <2>2, <2>3 DEF Next, Process, Work, vars, process, table, Receive, Lapse, Claim, Find,
       Insert, CountRepeat, Fail, Restart
<1>2. RowInv /\ [Next]_vars => [Step]_vars
  BY <1>1
<1> QED
  BY RowInit, RowStep, <1>2, PTL DEF Safe, AnalysedOnce

(* A stored incident is accounted for: its analysis ran, failed, was lost  *)
(* with its worker, or is run by exactly one live worker.                  *)
THEOREM AnalysisAccountedHolds == Safe => []AnalysisAccounted
<1>1. RowInv => AnalysisAccounted
  <2> SUFFICES ASSUME RowInv, NEW f \in Fingerprint
               PROVE  /\ count[f] > 0 <=> analysis[f] # "none"
                      /\ LET running == {w \in Worker : pc[w] = "analyse" /\ Fp[job[w]] = f}
                         IN  Cardinality(running) = IF analysis[f] = "running" THEN 1 ELSE 0
    BY DEF AnalysisAccounted
  <2> DEFINE running == {w \in Worker : pc[w] = "analyse" /\ Fp[job[w]] = f}
  <2>1. count[f] > 0 <=> analysis[f] # "none"
    <3>1. count[f] \in Nat /\ (count[f] # 0 <=> analysis[f] # "none")
      BY DEF RowInv, TypeInv, TypeOK, StoredOK
    <3> QED
      BY <3>1
  <2>2. CASE analysis[f] = "running"
    <3>1. PICK w \in Worker : Analysing(w, f)
      BY <2>2 DEF RowInv, RunningOK
    <3>2. running = {w}
      BY <3>1 DEF RowInv, RunningOK, Analysing
    <3>3. Cardinality({w}) = 1
      BY FS_Singleton
    <3> QED
      BY <2>1, <2>2, <3>2, <3>3
  <2>3. CASE analysis[f] # "running"
    <3>1. running = {}
      BY <2>3 DEF RowInv, RunningOK, Analysing
    <3>2. Cardinality({}) = 0
      BY FS_EmptySet
    <3> QED
      BY <2>1, <2>3, <3>1, <3>2
  <2> QED
    BY <2>2, <2>3
<1> QED
  BY <1>1, RowInit, RowStep, PTL DEF Safe

-----------------------------------------------------------------------------
(* What a save does to the processed events of each incident. *)
LEMMA ProcessedFinite ==
    ASSUME NEW f \in Fingerprint
    PROVE  IsFiniteSet(ProcessedOf(f)) /\ Cardinality(ProcessedOf(f)) \in Nat
<1>1. IsFiniteSet(Event)
  BY ConstantsAssumption, FS_Interval DEF Event
<1>2. ProcessedOf(f) \subseteq Event
  BY DEF ProcessedOf
<1> QED
  BY <1>1, <1>2, FS_Subset, FS_CardinalityType

LEMMA SavedProcessed ==
    ASSUME TypeInv, NEW w \in Worker, pc[w] \in InTransaction, Save(w), NEW f \in Fingerprint
    PROVE  IF f = Fp[job[w]] /\ ~processed[job[w]]
           THEN /\ Cardinality(ProcessedOf(f)') = Cardinality(ProcessedOf(f)) + 1
                /\ ProcessedOf(f)' # {}
           ELSE ProcessedOf(f)' = ProcessedOf(f)
<1> DEFINE e == job[w]
<1>1. e \in Event /\ processed \in [Event -> BOOLEAN] /\ processed' = [processed EXCEPT ![e] = TRUE]
  BY DEF TypeInv, TypeOK, JobOK, Save
<1>2. CASE f = Fp[e] /\ ~processed[e]
  <2>1. ProcessedOf(f)' = ProcessedOf(f) \cup {e} /\ e \notin ProcessedOf(f)
    BY <1>1, <1>2 DEF ProcessedOf
  <2> QED
    BY <1>2, <2>1, ProcessedFinite, FS_AddElement
<1>3. CASE ~(f = Fp[e] /\ ~processed[e])
  <2>1. ProcessedOf(f)' = ProcessedOf(f)
    BY <1>1, <1>3 DEF ProcessedOf
  <2> QED
    BY <1>3, <2>1
<1> QED
  BY <1>2, <1>3

(* Only the two commits change what is counted or marked. *)
LEMMA OnlyCommitsSave ==
    ASSUME [Next]_vars
    PROVE  \/ processed' = processed /\ count' = count
           \/ \E w \in Worker : pc[w] \in {"inserted", "counted"} /\ Save(w)
  BY DEF Next, Process, Work, vars, process, table, Receive, Lapse, Claim, Find, Insert, CountRepeat,
         Fail, Restart, Analyse, Crash, Commit, CommitUnknown

CountInv == TypeInv /\ NoOccurrenceLost

LEMMA CountStep == CountInv /\ [Next]_vars => CountInv'
<1> SUFFICES ASSUME CountInv, [Next]_vars PROVE CountInv'
  OBVIOUS
<1>1. TypeInv'
  BY TypeStep DEF CountInv
<1>2. CASE processed' = processed /\ count' = count
  BY <1>1, <1>2 DEF CountInv, NoOccurrenceLost, ProcessedOf
<1>3. ASSUME NEW w \in Worker, pc[w] \in {"inserted", "counted"}, Save(w)
      PROVE  NoOccurrenceLost'
  <2> DEFINE g == Fp[job[w]]
  <2>1. job[w] \in Event /\ g \in Fingerprint
    BY <1>3, ConstantsAssumption DEF CountInv, TypeInv, JobOK, InTransaction
  <2>2. /\ count \in [Fingerprint -> Nat]
        /\ count' = [count EXCEPT ![g] = @ + 1]
        /\ processed' = [processed EXCEPT ![job[w]] = TRUE]
        /\ processed \in [Event -> BOOLEAN]
    BY <1>3 DEF Save, CountInv, TypeInv, TypeOK
  <2> SUFFICES ASSUME NEW f \in Fingerprint
               PROVE  /\ count'[f] >= Cardinality(ProcessedOf(f)')
                      /\ count'[f] > 0 => ProcessedOf(f)' # {}
    BY DEF NoOccurrenceLost
  <2>3. /\ count[f] >= Cardinality(ProcessedOf(f))
        /\ count[f] > 0 => ProcessedOf(f) # {}
        /\ Cardinality(ProcessedOf(f)) \in Nat
    BY ProcessedFinite DEF CountInv, NoOccurrenceLost
  <2>4. IF f = g /\ ~processed[job[w]]
        THEN /\ Cardinality(ProcessedOf(f)') = Cardinality(ProcessedOf(f)) + 1
             /\ ProcessedOf(f)' # {}
        ELSE ProcessedOf(f)' = ProcessedOf(f)
    BY <1>3, SavedProcessed DEF CountInv, InTransaction
  <2>5. CASE f = g /\ ~processed[job[w]]
    BY <2>2, <2>3, <2>4, <2>5
  <2>6. CASE f = g /\ processed[job[w]]
    <3>1. job[w] \in ProcessedOf(f)
      BY <2>1, <2>6 DEF ProcessedOf
    <3> QED
      BY <2>2, <2>3, <2>4, <2>6, <3>1
  <2>7. CASE f # g
    BY <2>2, <2>3, <2>4, <2>7
  <2> QED
    BY <2>5, <2>6, <2>7
<1> QED
  BY <1>1, <1>2, <1>3, OnlyCommitsSave DEF CountInv

LEMMA CountInit == Init => CountInv
<1> SUFFICES ASSUME Init, NEW f \in Fingerprint
             PROVE  /\ count[f] >= Cardinality(ProcessedOf(f))
                    /\ count[f] > 0 => ProcessedOf(f) # {}
  BY TypeInit DEF CountInv, NoOccurrenceLost
<1>1. ProcessedOf(f) = {} /\ count[f] = 0
  BY DEF Init, ProcessedOf
<1> QED
  BY <1>1, FS_EmptySet

(* No occurrence is lost, whatever crashes and lapses come: a processed    *)
(* event was counted.                                                      *)
THEOREM NoOccurrenceLostHolds == Safe => []NoOccurrenceLost
<1>1. CountInv => NoOccurrenceLost
  BY DEF CountInv
<1> QED
  BY <1>1, CountInit, CountStep, PTL DEF Safe

-----------------------------------------------------------------------------
(* While leases outlive their batches, what a worker holds is leased to it *)
(* alone and not processed.                                                *)
HeldOK  == \A w \in Worker : \A e \in Holding(w) : lease[e] = "held" /\ ~processed[e]
AloneOK == \A v, w \in Worker : v # w => Holding(v) \cap Holding(w) = {}
BatchOK == \A w \in Worker : pc[w] \in InTransaction => job[w] \notin batch[w]

HoldInv == TypeInv /\ HeldOK /\ AloneOK /\ BatchOK

LEMMA HoldInit == Init => HoldInv
  BY TypeInit DEF Init, HoldInv, HeldOK, AloneOK, BatchOK, Holding, InTransaction

LEMMA HoldStep == ASSUME ~SlowWorkers PROVE HoldInv /\ [Next]_vars => HoldInv'
<1> SUFFICES ASSUME HoldInv, [Next]_vars PROVE HoldInv'
  OBVIOUS
<1> TypeInv'
  BY TypeStep DEF HoldInv
<1> USE ConstantsAssumption
    DEF HoldInv, TypeInv, TypeOK, JobOK, HeldOK, AloneOK, BatchOK, Holding,
        InTransaction, table, process
<1>1. CASE \E S \in SUBSET (Event \ received) : Receive(S)
  BY <1>1 DEF Receive
<1>2. ASSUME NEW e \in Event, Lapse(e) PROVE HoldInv'
  BY <1>2 DEF Lapse
<1>3. ASSUME NEW w \in Worker, Claim(w) PROVE HoldInv'
  <2>1. PICK S \in SUBSET Claimable : TakeLease(S) /\ \E replied \in BOOLEAN :
                batch' = [batch EXCEPT ![w] = IF replied THEN S ELSE {}]
    BY <1>3 DEF Claim
  <2>2. \A e \in S : e \in Event /\ lease[e] # "held" /\ ~processed[e]
    BY <2>1, ClaimableEvents DEF Claimable
  <2>3. lease' = [e \in Event |-> IF e \in S THEN "held" ELSE lease[e]]
    BY <2>1 DEF TakeLease
  <2>4. Holding(w)' \subseteq S /\ \A v \in Worker \ {w} : Holding(v)' = Holding(v)
    BY <1>3, <2>1 DEF Claim
  <2>5. \A v \in Worker : S \cap Holding(v) = {} /\ Holding(v) \subseteq Event
    BY <2>2
  <2> HIDE DEF Holding
  <2>6. HeldOK' /\ AloneOK'
    BY <1>3, <2>2, <2>3, <2>4, <2>5 DEF Claim
  <2>7. BatchOK'
    BY <1>3, <2>1 DEF Claim
  <2> QED
    BY <2>6, <2>7
<1>4. ASSUME NEW w \in Worker, Find(w) PROVE HoldInv'
  BY <1>4 DEF Find
<1>5. ASSUME NEW w \in Worker, Insert(w) \/ CountRepeat(w) PROVE HoldInv'
  BY <1>5 DEF Insert, CountRepeat
<1>6. ASSUME NEW w \in Worker, Commit(w) \/ CommitUnknown(w) PROVE HoldInv'
  <2>1. /\ pc[w] \in InTransaction /\ pc'[w] \notin InTransaction /\ batch' = batch
        /\ \A v \in Worker \ {w} : pc'[v] = pc[v] /\ job'[v] = job[v]
        /\ processed' = [processed EXCEPT ![job[w]] = TRUE]
        /\ lease' = lease
    BY <1>6 DEF Commit, CommitUnknown, Save
  <2>2. job[w] \in Holding(w) /\ job[w] \notin batch[w]
    BY <2>1
  <2>3. Holding(w)' = batch[w] /\ \A v \in Worker \ {w} : Holding(v)' = Holding(v)
    BY <2>1
  <2>4. \A v \in Worker : Holding(v)' \subseteq Holding(v) /\ job[w] \notin Holding(v)'
    BY <2>2, <2>3
  <2>5. HeldOK' /\ AloneOK'
    <3> HIDE DEF Holding
    <3> QED
      BY <2>1, <2>4
  <2>6. BatchOK'
    BY <2>1
  <2> QED
    BY <2>5, <2>6
<1>7. ASSUME NEW w \in Worker, Fail(w) \/ Analyse(w) \/ Crash(w) \/ Restart(w) PROVE HoldInv'
  <2>1. /\ processed' = processed /\ lease' = lease
        /\ batch'[w] \subseteq batch[w] /\ pc'[w] \notin InTransaction
        /\ \A v \in Worker \ {w} : batch'[v] = batch[v] /\ pc'[v] = pc[v] /\ job'[v] = job[v]
    BY <1>7 DEF Fail, Analyse, Crash, Restart
  <2>2. \A v \in Worker : Holding(v)' \subseteq Holding(v)
    BY <2>1
  <2>3. HeldOK' /\ AloneOK'
    <3> HIDE DEF Holding
    <3> QED
      BY <2>1, <2>2
  <2>4. BatchOK'
    BY <2>1
  <2> QED
    BY <2>3, <2>4
<1>8. CASE UNCHANGED vars
  BY <1>8 DEF vars
<1> QED
  BY <1>1, <1>2, <1>3, <1>4, <1>5, <1>6, <1>7, <1>8 DEF Next, Process, Work

(* While leases outlive their batches, no event is in two workers' hands,  *)
(* and none in a worker's hands once it is processed.                      *)
THEOREM ExclusiveClaimsHold == ASSUME ~SlowWorkers PROVE Safe => []ExclusiveClaims
<1>1. HoldInv => ExclusiveClaims
  BY DEF HoldInv, HeldOK, AloneOK, ExclusiveClaims
<1>2. HoldInv /\ [Next]_vars => HoldInv'
  BY HoldStep
<1> QED
  BY <1>1, <1>2, HoldInit, PTL DEF Safe

TwiceInv == HoldInv /\ NeverCountedTwice

LEMMA TwiceStep == ASSUME ~SlowWorkers PROVE TwiceInv /\ [Next]_vars => TwiceInv'
<1> SUFFICES ASSUME TwiceInv, [Next]_vars PROVE TwiceInv'
  OBVIOUS
<1>1. HoldInv'
  BY HoldStep DEF TwiceInv
<1>2. CASE processed' = processed /\ count' = count
  BY <1>1, <1>2 DEF TwiceInv, NeverCountedTwice, ProcessedOf
<1>3. ASSUME NEW w \in Worker, pc[w] \in {"inserted", "counted"}, Save(w)
      PROVE  NeverCountedTwice'
  <2> DEFINE g == Fp[job[w]]
  <2>1. job[w] \in Event /\ g \in Fingerprint /\ ~processed[job[w]]
    BY <1>3, ConstantsAssumption
    DEF TwiceInv, HoldInv, HeldOK, Holding, TypeInv, JobOK, InTransaction
  <2>2. count \in [Fingerprint -> Nat] /\ count' = [count EXCEPT ![g] = @ + 1]
    BY <1>3 DEF Save, TwiceInv, HoldInv, TypeInv, TypeOK
  <2> SUFFICES ASSUME NEW f \in Fingerprint
               PROVE  count'[f] = Cardinality(ProcessedOf(f)')
    BY DEF NeverCountedTwice
  <2>3. count[f] = Cardinality(ProcessedOf(f))
    BY DEF TwiceInv, NeverCountedTwice
  <2>4. IF f = g /\ ~processed[job[w]]
        THEN /\ Cardinality(ProcessedOf(f)') = Cardinality(ProcessedOf(f)) + 1
             /\ ProcessedOf(f)' # {}
        ELSE ProcessedOf(f)' = ProcessedOf(f)
    BY <1>3, SavedProcessed DEF TwiceInv, HoldInv, InTransaction
  <2> QED
    BY <2>1, <2>2, <2>3, <2>4
<1> QED
  BY <1>1, <1>2, <1>3, OnlyCommitsSave DEF TwiceInv

(* While leases outlive their batches, an event is never counted twice:    *)
(* the count of an incident is the number of its processed events.         *)
THEOREM NeverCountedTwiceHolds == ASSUME ~SlowWorkers PROVE Safe => []NeverCountedTwice
<1>1. Init => NeverCountedTwice
  <2> SUFFICES ASSUME Init, NEW f \in Fingerprint PROVE count[f] = Cardinality(ProcessedOf(f))
    BY DEF NeverCountedTwice
  <2>1. ProcessedOf(f) = {} /\ count[f] = 0
    BY DEF Init, ProcessedOf
  <2> QED
    BY <2>1, FS_EmptySet
<1>2. Init => TwiceInv
  BY <1>1, HoldInit DEF TwiceInv
<1>3. TwiceInv /\ [Next]_vars => TwiceInv'
  BY TwiceStep
<1>4. TwiceInv => NeverCountedTwice
  BY DEF TwiceInv
<1> QED
  BY <1>2, <1>3, <1>4, PTL DEF Safe

-----------------------------------------------------------------------------
(* The worker implements the abstract queue.  An event that was not        *)
(* received is untouched.                                                  *)
UnseenOK == \A e \in Event : e \notin received =>
                /\ ~processed[e] /\ attempts[e] = 0
                /\ \A w \in Worker : e \notin Holding(w)

QueueInv == HoldInv /\ UnseenOK

LEMMA QueueInit == Init => QueueInv
  BY HoldInit, ConstantsAssumption DEF Init, QueueInv, UnseenOK, Holding, InTransaction

(* What the steps do to the hands of the workers. *)
LEMMA HoldingSteps ==
    ASSUME TypeInv, [Next]_vars, NEW v \in Worker, NEW e \in Holding(v)', e \notin Holding(v)
    PROVE  e \in Claimable
<1> USE ConstantsAssumption DEF TypeInv, TypeOK, Holding, InTransaction, table, process
<1>1. CASE UNCHANGED <<pc, batch, job>>
  BY <1>1
<1>2. ASSUME NEW w \in Worker, Claim(w) PROVE e \in Claimable
  BY <1>2 DEF Claim
<1>3. ASSUME NEW w \in Worker, Find(w) PROVE e \in Claimable
  BY <1>3 DEF Find
<1>4. ASSUME NEW w \in Worker, Insert(w) \/ CountRepeat(w) PROVE e \in Claimable
  BY <1>4 DEF Insert, CountRepeat
<1>5. ASSUME NEW w \in Worker, Commit(w) \/ CommitUnknown(w) \/ Fail(w) PROVE e \in Claimable
  BY <1>5 DEF Commit, CommitUnknown, Fail
<1>6. ASSUME NEW w \in Worker, Analyse(w) \/ Crash(w) \/ Restart(w) PROVE e \in Claimable
  BY <1>6 DEF Analyse, Crash, Restart
<1> QED
  BY <1>1, <1>2, <1>3, <1>4, <1>5, <1>6 DEF Next, Process, Work, vars, Receive, Lapse

(* An event nobody could claim keeps its attempts. *)
LEMMA AttemptsSteps ==
    ASSUME TypeInv, [Next]_vars, NEW e \in Event, attempts'[e] # attempts[e]
    PROVE  e \in Claimable /\ processed' = processed /\ received' = received
<1>1. CASE UNCHANGED attempts
  BY <1>1
<1>2. ASSUME NEW w \in Worker, Claim(w)
      PROVE  e \in Claimable /\ processed' = processed /\ received' = received
  BY <1>2 DEF Claim, TakeLease, TypeInv, TypeOK
<1> QED
  BY <1>1, <1>2 DEF Next, Process, Work, vars, table, process, Receive, Lapse, Find, Insert, CountRepeat,
     Commit, CommitUnknown, Fail, Analyse, Crash, Restart

(* What is stored stays stored. *)
LEMMA ReceivedSteps == ASSUME [Next]_vars PROVE received \subseteq received'
<1>1. CASE \E S \in SUBSET (Event \ received) : Receive(S)
  BY <1>1 DEF Receive
<1>2. CASE UNCHANGED received
  BY <1>2
<1> QED
  BY <1>1, <1>2 DEF Next, Process, Work, vars, table, process, Lapse, Claim, Find, Insert, CountRepeat,
     Commit, CommitUnknown, Fail, Analyse, Crash, Restart

LEMMA QueueStep == ASSUME ~SlowWorkers PROVE QueueInv /\ [Next]_vars => QueueInv'
<1> SUFFICES ASSUME QueueInv, [Next]_vars PROVE QueueInv'
  OBVIOUS
<1>1. HoldInv' /\ TypeInv
  BY HoldStep DEF QueueInv, HoldInv
<1> SUFFICES ASSUME NEW e \in Event, e \notin received'
             PROVE  /\ ~processed'[e] /\ attempts'[e] = 0
                    /\ \A w \in Worker : e \notin Holding(w)'
  BY <1>1 DEF QueueInv, UnseenOK
<1>2. e \notin received /\ e \notin Claimable
  BY ReceivedSteps DEF Claimable
<1>3. ~processed[e] /\ attempts[e] = 0 /\ \A w \in Worker : e \notin Holding(w)
  BY <1>2 DEF QueueInv, UnseenOK
<1>4. attempts'[e] = 0 /\ \A w \in Worker : e \notin Holding(w)'
  BY <1>1, <1>2, <1>3, HoldingSteps, AttemptsSteps
<1>5. CASE processed' = processed
  BY <1>3, <1>4, <1>5
<1>6. ASSUME NEW w \in Worker, pc[w] \in {"inserted", "counted"}, Save(w) PROVE ~processed'[e]
  <2>1. e # job[w]
    BY <1>3, <1>6 DEF Holding, InTransaction
  <2> QED
    BY <1>1, <1>3, <1>6, <2>1 DEF Save, TypeInv, TypeOK
<1> QED
  BY <1>3, <1>4, <1>5, <1>6, OnlyCommitsSave

(* A step that neither stores nor saves an event abandons some, or none. *)
LEMMA OnlyAbandons ==
    ASSUME received' = received, processed' = processed, count' = count,
           \A e \in Event : Stage(e) # "waiting" => Stage(e)' = Stage(e)
    PROVE  [Lifecycle!Next]_Lifecycle!vars
<1> DEFINE A == {e \in Event : Stage(e)' # Stage(e)}
<1>1. \A e \in A : Stage(e) = "waiting" /\ Stage(e)' = "abandoned"
  BY DEF Stage
<1>2. [e \in Event |-> Stage(e)]'
        = [e \in Event |-> IF e \in A THEN "abandoned" ELSE [x \in Event |-> Stage(x)][e]]
  <2>1. \A e \in Event : Stage(e)' = IF e \in A THEN "abandoned" ELSE Stage(e)
    BY <1>1
  <2> QED
    BY <2>1
<1>3. CASE A = {}
  <2>1. [e \in Event |-> Stage(e)]' = [e \in Event |-> Stage(e)]
    BY <1>3
  <2> QED
    BY <2>1 DEF Lifecycle!vars
<1>4. CASE A # {}
  <2>1. Lifecycle!Abandon(A)
    BY <1>1, <1>2, <1>4 DEF Lifecycle!Abandon
  <2> QED
    BY <2>1 DEF Lifecycle!Next
<1> QED
  BY <1>3, <1>4

(* In the steps that keep the tables, an event is not waiting because it   *)
(* is unseen, counted or abandoned, and it stays that way.                 *)
LEMMA NotWaitingStays ==
    ASSUME QueueInv, [Next]_vars, received' = received, processed' = processed,
           NEW e \in Event, Stage(e) # "waiting"
    PROVE  Stage(e)' = Stage(e)
<1>1. CASE e \notin received \/ processed[e]
  BY <1>1 DEF Stage
<1>2. CASE e \in received /\ ~processed[e]
  <2>1. Abandoned(e)
    BY <1>2 DEF Stage
  <2>2. e \notin Claimable /\ TypeInv
    BY <2>1, ConstantsAssumption DEF Abandoned, Claimable, QueueInv, HoldInv
  <2>3. Abandoned(e)'
    BY <2>1, <2>2, HoldingSteps, AttemptsSteps DEF Abandoned
  <2> QED
    BY <1>2, <2>1, <2>3 DEF Stage
<1> QED
  BY <1>1, <1>2

(* A save counts an event the abstract queue has waiting. *)
LEMMA SaveCounts ==
    ASSUME ~SlowWorkers, QueueInv, NEW w \in Worker, Commit(w) \/ CommitUnknown(w)
    PROVE  Lifecycle!Count(job[w])
<1>a. PICK e \in Event : e = job[w]
  BY DEF Commit, CommitUnknown, QueueInv, HoldInv, TypeInv, JobOK, InTransaction
<1>1. e \in Event /\ e \in Holding(w) /\ pc[w] \in {"inserted", "counted"}
  BY <1>a DEF Commit, CommitUnknown, QueueInv, HoldInv, TypeInv, JobOK, Holding, InTransaction
<1>2. ~processed[e] /\ e \in received /\ e \notin batch[w]
  BY <1>a, <1>1 DEF QueueInv, HoldInv, HeldOK, UnseenOK, BatchOK, InTransaction
<1>3. /\ processed' = [processed EXCEPT ![e] = TRUE]
      /\ count' = [count EXCEPT ![Fp[e]] = @ + 1]
      /\ UNCHANGED <<received, attempts, batch>>
      /\ pc'[w] \notin InTransaction
      /\ \A v \in Worker \ {w} : pc'[v] = pc[v] /\ job'[v] = job[v]
  BY <1>a, <1>1 DEF Commit, CommitUnknown, Save, InTransaction, QueueInv, HoldInv, TypeInv, TypeOK
<1>4. \A v \in Worker, x \in Event \ {e} : x \in Holding(v)' <=> x \in Holding(v)
  BY <1>a, <1>1, <1>3 DEF Holding, InTransaction
<1>5. \A x \in Event \ {e} : Stage(x)' = Stage(x)
  <2>1. \A x \in Event \ {e} : processed'[x] = processed[x]
    BY <1>3 DEF QueueInv, HoldInv, TypeInv, TypeOK
  <2> QED
    BY <1>3, <1>4, <2>1 DEF Stage, Abandoned
<1>6. Stage(e) = "waiting" /\ Stage(e)' = "counted"
  <2>1. processed'[e]
    BY <1>1, <1>3 DEF QueueInv, HoldInv, TypeInv, TypeOK
  <2>2. ~Abandoned(e)
    BY <1>1 DEF Abandoned
  <2>3. Stage(e) = "waiting"
    BY <1>2, <2>2 DEF Stage
  <2>4. Stage(e)' = "counted"
    BY <1>2, <1>3, <2>1 DEF Stage
  <2> QED
    BY <2>3, <2>4
<1>7. [x \in Event |-> Stage(x)]' = [[x \in Event |-> Stage(x)] EXCEPT ![e] = "counted"]
  BY <1>1, <1>5, <1>6
<1> QED
  BY <1>a, <1>1, <1>3, <1>6, <1>7 DEF Lifecycle!Count

(* The arrival of events is their arrival in the abstract queue. *)
LEMMA ReceiveArrives ==
    ASSUME QueueInv, NEW S \in SUBSET (Event \ received), Receive(S)
    PROVE  Lifecycle!Arrive(S)
<1>1. /\ UNCHANGED <<processed, attempts, count>>
      /\ \A w \in Worker : Holding(w)' = Holding(w)
  BY DEF Receive, process, Holding, InTransaction
<1>2. ASSUME NEW e \in S PROVE Stage(e) = "unseen" /\ Stage(e)' = "waiting"
  <2>1. e \in Event /\ e \notin received /\ e \in received'
    BY DEF Receive
  <2>2. ~processed[e] /\ attempts[e] = 0 /\ MaxAttempts # 0
    BY <2>1, ConstantsAssumption DEF QueueInv, UnseenOK
  <2> QED
    BY <1>1, <2>1, <2>2 DEF Stage, Abandoned
<1>3. ASSUME NEW e \in Event \ S PROVE Stage(e)' = Stage(e)
  <2>1. e \in received' <=> e \in received
    BY DEF Receive
  <2> QED
    BY <1>1, <2>1 DEF Stage, Abandoned
<1>4. [e \in Event |-> Stage(e)]'
        = [e \in Event |-> IF e \in S THEN "waiting" ELSE [x \in Event |-> Stage(x)][e]]
  <2>1. \A e \in Event : Stage(e)' = IF e \in S THEN "waiting" ELSE Stage(e)
    BY <1>2, <1>3
  <2> QED
    BY <2>1
<1>5. S # {} /\ \A e \in S : [x \in Event |-> Stage(x)][e] = "unseen"
  BY <1>2 DEF Receive
<1> QED
  BY <1>1, <1>4, <1>5 DEF Lifecycle!Arrive

(* Seen from outside, a step of the workers counts a waiting event, once,  *)
(* or abandons some, or is none.                                           *)
LEMMA WorkerSteps ==
    ASSUME ~SlowWorkers, QueueInv, Process
    PROVE  \/ \E e \in Event :
                 /\ Stage(e) = "waiting" /\ Stage(e)' = "counted"
                 /\ \A x \in Event \ {e} : Stage(x)' = Stage(x)
                 /\ count' = [count EXCEPT ![Fp[e]] = count[Fp[e]] + 1]
           \/ /\ count' = count
              /\ \A e \in Event : Stage(e)' # Stage(e) =>
                    Stage(e) = "waiting" /\ Stage(e)' = "abandoned"
<1>1. ASSUME NEW w \in Worker, Commit(w) \/ CommitUnknown(w)
      PROVE  \E e \in Event :
                 /\ Stage(e) = "waiting" /\ Stage(e)' = "counted"
                 /\ \A x \in Event \ {e} : Stage(x)' = Stage(x)
                 /\ count' = [count EXCEPT ![Fp[e]] = count[Fp[e]] + 1]
  <2>1. PICK e \in Event : e = job[w]
    BY <1>1 DEF Commit, CommitUnknown, QueueInv, HoldInv, TypeInv, JobOK, InTransaction
  <2>2. /\ [x \in Event |-> Stage(x)][e] = "waiting"
        /\ [x \in Event |-> Stage(x)]' = [[x \in Event |-> Stage(x)] EXCEPT ![e] = "counted"]
        /\ count' = [count EXCEPT ![Fp[e]] = count[Fp[e]] + 1]
    BY <1>1, <2>1, SaveCounts DEF Lifecycle!Count
  <2>3. ASSUME NEW x \in Event PROVE Stage(x)' = IF x = e THEN "counted" ELSE Stage(x)
    <3>1. Stage(x)' = [y \in Event |-> Stage(y)]'[x]
      OBVIOUS
    <3> QED
      BY <2>2, <3>1
  <2> QED
    BY <2>1, <2>2, <2>3
<1>2. CASE received' = received /\ processed' = processed /\ count' = count
  BY <1>2, NotWaitingStays DEF Next, Stage
<1> QED
  BY <1>1, <1>2 DEF Process, Work, vars, process, table, Lapse, Claim, Find, Insert,
     CountRepeat, Fail, Analyse, Crash, Restart

(* While leases outlive their batches, the worker implements the queue of  *)
(* EventLifecycle: whatever races and crashes come, an event waits and is  *)
(* then counted once, or abandoned and counted nowhere, for ever.          *)
THEOREM LifecycleImplemented == ASSUME ~SlowWorkers PROVE Safe => ImplementsLifecycle
<1>1. Init => Lifecycle!Init
  <2> SUFFICES ASSUME Init PROVE Lifecycle!Init
    OBVIOUS
  <2>1. \A e \in Event : Stage(e) = "unseen"
    BY DEF Init, Stage
  <2> QED
    BY <2>1 DEF Init, Lifecycle!Init
<1>2. QueueInv /\ [Next]_vars => QueueInv'
  BY QueueStep
<1>3. QueueInv /\ QueueInv' /\ [Next]_vars => [Lifecycle!Next]_Lifecycle!vars
  <2> SUFFICES ASSUME QueueInv, QueueInv', [Next]_vars
               PROVE  [Lifecycle!Next]_Lifecycle!vars
    OBVIOUS
  <2>1. ASSUME NEW S \in SUBSET (Event \ received), Receive(S)
        PROVE  [Lifecycle!Next]_Lifecycle!vars
    BY <2>1, ReceiveArrives DEF Lifecycle!Next
  <2>2. ASSUME NEW w \in Worker, Commit(w) \/ CommitUnknown(w)
        PROVE  [Lifecycle!Next]_Lifecycle!vars
    <3>1. job[w] \in Event
      BY <2>2 DEF Commit, CommitUnknown, QueueInv, HoldInv, TypeInv, JobOK, InTransaction
    <3>2. Lifecycle!Count(job[w])
      BY <2>2, SaveCounts
    <3> QED
      BY <3>1, <3>2 DEF Lifecycle!Next
  <2>3. CASE received' = received /\ processed' = processed /\ count' = count
    BY <2>3, NotWaitingStays, OnlyAbandons
  <2> QED
    BY <2>1, <2>2, <2>3 DEF Next, Process, Work, vars, process, table, Lapse, Claim, Find, Insert,
       CountRepeat, Fail, Analyse, Crash, Restart
<1> QED
  BY QueueInit, <1>1, <1>2, <1>3, PTL DEF Safe, ImplementsLifecycle, Lifecycle!Safe
=============================================================================
