-------------------------- MODULE PatchPipelineProofs --------------------------
(***************************************************************************)
(* Proofs about the remediation pipeline: for any incidents, answers,      *)
(* projects, policies and settings, what a pull request and a container    *)
(* may be; and, for any program, that the rules of taint find a sink.      *)
(***************************************************************************)
EXTENDS PatchPipelineProps, SequencesExt, FiniteSetsExt, SequenceTheorems,
        WellFoundedInduction, TLAPS

-----------------------------------------------------------------------------
(***************************************************************************)
(* Induction, and the recursions that rest on it: least elements, functions *)
(* that are defined along the naturals, and folds over sequences.  A step  *)
(* of a recursion is a function here, step[i][x], so that a recursion of   *)
(* the modules is one for a value of step.                                 *)
(***************************************************************************)
LEMMA Least ==
  ASSUME NEW T, T \subseteq Nat, T # {}
  PROVE  \E x \in T : \A y \in T : x <= y
<1> DEFINE R == {ss \in Nat \X Nat : ss[1] < ss[2]}
<1>1. IsWellFoundedOn(R, Nat)
  BY NatLessThanWellFounded DEF OpToRel
<1>2. \E x \in T : \A y \in T : <<y, x>> \notin R
  BY <1>1, WFMin
<1>3. PICK x \in T : \A y \in T : <<y, x>> \notin R
  BY <1>2
<1>4. ASSUME NEW y \in T PROVE x <= y
  <2>1. x \in Nat /\ y \in Nat /\ <<y, x>> \notin R
    BY <1>3
  <2>2. ~(y < x)
    BY <2>1
  <2> QED
    BY <2>1, <2>2
<1> QED
  BY <1>3, <1>4

LEMMA Greatest ==
  ASSUME NEW n \in Nat, NEW T, T \subseteq 0..n, T # {}
  PROVE  Max(T) \in T /\ \A y \in T : y <= Max(T)
<1> DEFINE D == {n - x : x \in T}
<1>1. D \subseteq Nat /\ D # {}
  <2>1. \A x \in T : n - x \in Nat
    OBVIOUS
  <2> QED
    BY <2>1
<1>2. PICK d \in D : \A e \in D : d <= e
  <2> HIDE DEF D
  <2> QED
    BY <1>1, Least
<1>3. PICK x \in T : d = n - x
  BY <1>2
<1>4. \A y \in T : x >= y
  <2> TAKE y \in T
  <2>1. n - y \in D
    OBVIOUS
  <2>2. n - x <= n - y /\ x \in 0..n /\ y \in 0..n
    BY <1>2, <1>3, <2>1
  <2> QED
    BY <2>2
<1>5. \E z \in T : \A y \in T : z >= y
  BY <1>4
<1>6. Max(T) \in T /\ \A y \in T : Max(T) >= y
  BY <1>5 DEF Max
<1> QED
  BY <1>6

(* Induction over a set, where the library has it over an operator. *)
LEMMA Induct ==
  ASSUME NEW S, 0 \in S, \A n \in Nat : n \in S => n + 1 \in S
  PROVE  Nat \subseteq S
<1> SUFFICES ASSUME Nat \ S # {} PROVE FALSE
  OBVIOUS
<1>1. PICK x \in Nat \ S : \A y \in Nat \ S : x <= y
  <2> DEFINE T == Nat \ S
  <2>1. T \subseteq Nat /\ T # {}
    OBVIOUS
  <2> HIDE DEF T
  <2>2. \E x \in T : \A y \in T : x <= y
    BY <2>1, Least
  <2> QED
    BY <2>2 DEF T
<1>2. x # 0 /\ x - 1 \in Nat
  BY <1>1
<1>3. x - 1 \in S
  BY <1>1, <1>2
<1> QED
  BY <1>1, <1>2, <1>3

LEMMA InductTo ==
  ASSUME NEW m \in Nat, NEW S, 0 \in S, \A n \in 0..(m - 1) : n \in S => n + 1 \in S
  PROVE  0..m \subseteq S
<1> DEFINE R == {n \in Nat : n <= m => n \in S}
<1>1. 0 \in R
  OBVIOUS
<1>2. \A n \in Nat : n \in R => n + 1 \in R
  OBVIOUS
<1> HIDE DEF R
<1>3. Nat \subseteq R
  BY <1>1, <1>2, Induct
<1> QED
  BY <1>3 DEF R

LEMMA InductFrom ==
  ASSUME NEW a \in Nat, NEW b \in Nat, a <= b,
         NEW S, a \in S, \A n \in a..(b - 1) : n \in S => n + 1 \in S
  PROVE  b \in S
<1> DEFINE R == {n \in Nat : n < a \/ b < n \/ n \in S}
<1>1. 0 \in R
  OBVIOUS
<1>2. \A n \in Nat : n \in R => n + 1 \in R
  <2> SUFFICES ASSUME NEW n \in Nat, n \in R PROVE n + 1 \in R
    OBVIOUS
  <2>1. CASE n + 1 < a \/ b < n + 1
    BY <2>1
  <2>2. CASE n + 1 = a
    BY <2>2
  <2>3. CASE n \in a..(b - 1)
    BY <2>3
  <2> QED
    BY <2>1, <2>2, <2>3
<1> HIDE DEF R
<1>3. Nat \subseteq R
  BY <1>1, <1>2, Induct
<1> QED
  BY <1>3 DEF R

(* A recursion along 0..n has a value. *)
Runs(n, X, base, step, f) ==
    /\ f \in [0..n -> X] /\ f[0] = base
    /\ \A i \in 1..n : f[i] = step[i][f[i - 1]]

LEMMA RecursionExists ==
  ASSUME NEW n \in Nat, NEW X, NEW base \in X, NEW step \in [1..n -> [X -> X]]
  PROVE  \E f : Runs(n, X, base, step, f)
<1> DEFINE Value(m, f) == \A i \in 0..m : f[i] = IF i = 0 THEN base ELSE step[i][f[i - 1]]
           S == {m \in Nat : \E f \in [0..m -> X] : Value(m, f)}
<1>1. 0 \in S
  <2>1. [i \in 0..0 |-> base] \in [0..0 -> X] /\ Value(0, [i \in 0..0 |-> base])
    OBVIOUS
  <2> QED
    BY <2>1
<1>2. ASSUME NEW m \in 0..(n - 1), m \in S PROVE m + 1 \in S
  <2>1. PICK f \in [0..m -> X] : Value(m, f)
    BY <1>2
  <2> DEFINE g == [i \in 0..(m + 1) |-> IF i = m + 1 THEN step[m + 1][f[m]] ELSE f[i]]
  <2>2. step[m + 1][f[m]] \in X
    <3>1. f[m] \in X /\ step[m + 1] \in [X -> X]
      BY <1>2, <2>1
    <3> QED
      BY <3>1
  <2>3. g \in [0..(m + 1) -> X]
    BY <2>1, <2>2
  <2>4. ASSUME NEW i \in 0..(m + 1)
        PROVE  g[i] = IF i = 0 THEN base ELSE step[i][g[i - 1]]
    <3>1. CASE i = m + 1
      BY <3>1
    <3>2. CASE i \in 0..m
      <4>1. g[i] = f[i] /\ (i # 0 => i - 1 \in 0..m /\ g[i - 1] = f[i - 1])
        BY <3>2
      <4> HIDE DEF g
      <4> QED
        BY <2>1, <3>2, <4>1
    <3> QED
      BY <3>1, <3>2
  <2>5. Value(m + 1, g)
    BY <2>4
  <2> HIDE DEF g, Value
  <2> QED
    BY <2>3, <2>5
<1> HIDE DEF S
<1>3. 0..n \subseteq S
  BY <1>1, <1>2, InductTo
<1>4. PICK f \in [0..n -> X] : Value(n, f)
  BY <1>3 DEF S
<1>5. Runs(n, X, base, step, f)
  BY <1>4 DEF Runs
<1> QED
  BY <1>5

(* So has the recursion by which the community modules define a fold. *)
Folds(n, X, base, step, f) ==
    \A s \in SUBSET (1..n) :
        /\ s = {} => f[s] = base
        /\ s # {} /\ f[s \ {Max(s)}] \in X => f[s] = step[Max(s)][f[s \ {Max(s)}]]

LEMMA FoldExists ==
  ASSUME NEW n \in Nat, NEW X, NEW base \in X, NEW step \in [1..n -> [X -> X]]
  PROVE  \E f \in [SUBSET (1..n) -> X] : Folds(n, X, base, step, f)
<1> DEFINE Value(m, f) == \A s \in SUBSET (1..m) :
             f[s] = IF s = {} THEN base ELSE step[Max(s)][f[s \ {Max(s)}]]
           S == {m \in Nat : \E f \in [SUBSET (1..m) -> X] : Value(m, f)}
<1>1. 0 \in S
  <2> DEFINE f == [s \in SUBSET (1..0) |-> base]
  <2>1. \A s \in SUBSET (1..0) : s = {}
    OBVIOUS
  <2>2. f \in [SUBSET (1..0) -> X] /\ Value(0, f)
    BY <2>1
  <2> QED
    BY <2>2
<1>2. ASSUME NEW m \in 0..(n - 1), m \in S PROVE m + 1 \in S
  <2>1. PICK f \in [SUBSET (1..m) -> X] : Value(m, f)
    BY <1>2
  <2> DEFINE last == m + 1
             g == [s \in SUBSET (1..last) |->
                     IF last \in s THEN step[last][f[s \ {last}]] ELSE f[s]]
  <2>2. ASSUME NEW s \in SUBSET (1..last)
        PROVE  /\ s \ {last} \in SUBSET (1..m) /\ (last \notin s => s \in SUBSET (1..m))
               /\ last \in s => Max(s) = last
               /\ s # {} => Max(s) \in s
    <3>1. \A i \in s : i \in 1..last
      OBVIOUS
    <3>2. s \ {last} \in SUBSET (1..m) /\ (last \notin s => s \in SUBSET (1..m))
      BY <3>1
    <3>3. s # {} => Max(s) \in s /\ \A y \in s : y <= Max(s)
      <4>1. s \subseteq 0..last /\ last \in Nat
        OBVIOUS
      <4> QED
        BY <4>1, Greatest
    <3>4. last \in s => Max(s) = last
      <4> SUFFICES ASSUME last \in s PROVE Max(s) = last
        OBVIOUS
      <4>1. Max(s) \in 1..last /\ last <= Max(s)
        BY <3>1, <3>3
      <4> QED
        BY <4>1
    <3> QED
      BY <3>2, <3>3, <3>4
  <2>3. g \in [SUBSET (1..last) -> X]
    <3>1. step[last] \in [X -> X]
      BY <1>2
    <3>2. ASSUME NEW s \in SUBSET (1..last) PROVE (IF last \in s THEN step[last][f[s \ {last}]] ELSE f[s]) \in X
      <4>1. f[s \ {last}] \in X /\ (last \notin s => f[s] \in X)
        BY <2>1, <2>2
      <4> QED
        BY <3>1, <4>1
    <3> QED
      BY <3>2
  <2>4. ASSUME NEW s \in SUBSET (1..last)
        PROVE  g[s] = IF s = {} THEN base ELSE step[Max(s)][g[s \ {Max(s)}]]
    <3>1. CASE last \in s
      <4>1. Max(s) = last /\ s # {} /\ s \ {last} \in SUBSET (1..last) /\ last \notin s \ {last}
        BY <2>2, <3>1
      <4>2. g[s \ {last}] = f[s \ {last}] /\ g[s] = step[last][f[s \ {last}]]
        BY <3>1, <4>1
      <4> QED
        BY <4>1, <4>2
    <3>2. CASE last \notin s
      <4>1. s \in SUBSET (1..m) /\ g[s] = f[s]
        BY <2>2, <3>2
      <4>2. s # {} => s \ {Max(s)} \in SUBSET (1..m) /\ g[s \ {Max(s)}] = f[s \ {Max(s)}]
        BY <3>2, <4>1
      <4>3. f[s] = IF s = {} THEN base ELSE step[Max(s)][f[s \ {Max(s)}]]
        BY <2>1, <4>1
      <4> QED
        BY <4>1, <4>2, <4>3
    <3> QED
      BY <3>1, <3>2
  <2>5. Value(last, g)
    BY <2>4
  <2> HIDE DEF g, Value
  <2> QED
    BY <2>3, <2>5
<1> HIDE DEF S
<1>3. 0..n \subseteq S
  BY <1>1, <1>2, InductTo
<1>4. n \in S
  BY <1>3
<1>5. PICK f \in [SUBSET (1..n) -> X] : Value(n, f)
  BY <1>4 DEF S
<1>6. Folds(n, X, base, step, f)
  BY <1>5 DEF Folds
<1> QED
  BY <1>6

LEMMA MaxOfInterval == ASSUME NEW i \in Nat, i > 0 PROVE Max(1..i) = i /\ 1..i \ {i} = 1..(i - 1)
<1>1. 1..i \subseteq 0..i /\ 1..i # {}
  OBVIOUS
<1>2. Max(1..i) \in 1..i /\ \A y \in 1..i : y <= Max(1..i)
  BY <1>1, Greatest
<1> QED
  BY <1>2

(* A fold goes along its sequence: one step of a recursion for each element. *)
LEMMA FoldRuns ==
  ASSUME NEW n \in Nat, NEW X, NEW base \in X, NEW step \in [1..n -> [X -> X]], NEW iter,
         Folds(n, X, base, step, iter)
  PROVE  \E g : Runs(n, X, base, step, g) /\ g[n] = iter[1..n]
<1> DEFINE g == [i \in 0..n |-> iter[1..i]]
<1>1. g[0] = base
  <2>1. 1..0 \in SUBSET (1..n) /\ 1..0 = {} /\ 0 \in 0..n
    OBVIOUS
  <2> QED
    BY <2>1 DEF Folds
<1>2. ASSUME NEW i \in 1..n, g[i - 1] \in X PROVE g[i] = step[i][g[i - 1]]
  <2>1. i \in 0..n /\ i - 1 \in 0..n /\ i \in Nat /\ i > 0 /\ 1..i \in SUBSET (1..n) /\ 1..i # {}
    OBVIOUS
  <2>2. Max(1..i) = i /\ 1..i \ {i} = 1..(i - 1)
    BY <2>1, MaxOfInterval
  <2>3. g[i] = iter[1..i] /\ g[i - 1] = iter[1..(i - 1)]
    BY <2>1
  <2> QED
    BY <1>2, <2>1, <2>2, <2>3 DEF Folds
<1>3. \A i \in 0..n : g[i] \in X
  <2> DEFINE S == {i \in 0..n : g[i] \in X}
  <2> HIDE DEF g
  <2>1. 0 \in S
    BY <1>1
  <2>2. ASSUME NEW i \in 0..(n - 1), i \in S PROVE i + 1 \in S
    <3>1. i + 1 \in 1..n /\ (i + 1) - 1 = i
      OBVIOUS
    <3>2. g[i + 1] = step[i + 1][g[i]] /\ g[i] \in X
      BY <1>2, <2>2, <3>1
    <3>3. step[i + 1] \in [X -> X]
      BY <3>1
    <3> QED
      BY <3>1, <3>2, <3>3
  <2> HIDE DEF S
  <2>3. 0..n \subseteq S
    BY <2>1, <2>2, InductTo
  <2> QED
    BY <2>3 DEF S
<1>4. g \in [0..n -> X]
  BY <1>3
<1>5. \A i \in 1..n : g[i] = step[i][g[i - 1]]
  <2> HIDE DEF g
  <2> QED
    BY <1>2, <1>3
<1>6. iter[1..n] = g[n]
  OBVIOUS
<1> HIDE DEF g
<1>7. Runs(n, X, base, step, g)
  BY <1>1, <1>4, <1>5 DEF Runs
<1> QED
  BY <1>6, <1>7

-----------------------------------------------------------------------------
(* The rules: what they find is critical or high. *)
Grave == {"critical", "high"}

LEMMA DangerousGrave ==
  Len(DangerousCalls) = 22 /\ \A i \in 1..22 : DangerousCalls[i].severity \in Grave
<1>1. Len(DangerousCalls) = 22
  BY DEF DangerousCalls
<1>2. \A i \in 1..22 : DangerousCalls[i].severity \in Grave
  BY Z3 DEF DangerousCalls, Dangerous, Grave
<1> QED
  BY <1>1, <1>2

LEMMA PrivGrave == ASSUME NEW nodes PROVE \A v \in PrivViolations(nodes) : v.severity \in Grave
<1> DEFINE match(n) == {i \in 1..Len(DangerousCalls) : Matches(n.name, DangerousCalls[i].call)}
           rule(n) == IF match(n) # {} THEN Min(match(n)) ELSE 0
           severity(n) == IF DangerousCalls[rule(n)].call[1] = "subprocess" /\ Shell(n)
                          THEN "critical" ELSE DangerousCalls[rule(n)].severity
<1>1. ASSUME NEW n, rule(n) > 0 PROVE rule(n) \in 1..22
  <2> DEFINE I == match(n)
  <2>1. I \subseteq 1..22
    <3>1. I \subseteq 1..Len(DangerousCalls)
      BY Zenon
    <3> QED
      BY <3>1, DangerousGrave
  <2>2. rule(n) = IF I # {} THEN Min(I) ELSE 0
    OBVIOUS
  <2> HIDE DEF I, rule
  <2>3. I # {}
    BY <1>1, <2>2
  <2>4. \E x \in I : \A y \in I : x <= y
    <3>1. I \subseteq Nat
      BY <2>1
    <3> QED
      BY <3>1, <2>3, Least
  <2> QED
    BY <2>1, <2>2, <2>3, <2>4 DEF Min
<1>2. ASSUME NEW n, rule(n) > 0 PROVE severity(n) \in Grave
  <2>1. DangerousCalls[rule(n)].severity \in Grave
    BY <1>1, <1>2, DangerousGrave
  <2> HIDE DEF rule
  <2> QED
    BY <2>1 DEF Grave
<1>3. PrivViolations(nodes) = {Violation(DangerousCalls[rule(n)].code, severity(n)) :
            n \in {n \in Calls(nodes) : n.name # << >> /\ rule(n) > 0}}
       \cup {Violation("PRIV023", "critical") : n \in {n \in Calls(nodes) :
            n.name \in {<<"os", "chmod">>, <<"chmod">>} /\ Len(n.args) > 1
            /\ n.args[2].kind = "mode" /\ n.args[2].worldWritable}}
  BY DEF PrivViolations, SelectInSeq
<1> HIDE DEF rule, severity
<1> QED
  BY <1>2, <1>3 DEF Violation, Grave

LEMMA SeveritiesGrave == ASSUME NEW patch PROVE Severities(patch) \subseteq Grave
<1>1. \A v \in AuthViolations(patch.added) : v.severity \in Grave
  BY DEF AuthViolations, Violation, Grave
<1>2. \A v \in SecViolations(patch.added) : v.severity \in Grave
  BY DEF SecViolations, Violation, Grave
<1>3. \A v \in TaintViolations(patch.added) : v.severity \in Grave
  BY DEF TaintViolations, Violation, Grave
<1> QED
  BY <1>1, <1>2, <1>3, PrivGrave DEF Severities, Violations

(* What the policy allows has no violation, and is not below a blocked path *)
(* (check). *)
LEMMA AllowedIsClean ==
  ASSUME NEW policy, NEW path, NEW patch, Check(policy, path, patch).decision = "allow"
  PROVE  Severities(patch) = {} /\ ~BlockedPath(policy, path)
<1>1. ~BlockedPath(policy, path) /\ "critical" \notin Severities(patch) /\ "high" \notin Severities(patch)
  BY DEF Check, Verdict
<1> QED
  BY <1>1, SeveritiesGrave DEF Grave

LEMMA DecisionKnown ==
  ASSUME NEW policy, NEW path, NEW patch
  PROVE  Check(policy, path, patch).decision \in {"allow", "review", "block"}
BY DEF Check, Verdict
-----------------------------------------------------------------------------
(* The pipeline: what has been shown of a patch when it is at a stage. *)
Safe == \A f \in IncidentFields : ~Injected(incident[f])
Judged == /\ Severities(result.suggestion.patch) = {}
          /\ ~BlockedPath(LoadedPolicy(setup.policy), result.suggestion.patchFile)
Applied == Appliable(result.suggestion.patchFile, result.suggestion.patch) /\ result.applied
Passed == result.tests = "passed" /\ (launched # {} \/ Config.hostFallback)

Vetted == Safe /\ Judged /\ Applied /\ Passed
Unpublished == published = {} /\ committed = {}

Shown ==
    /\ stage \in {"ask", "redact", "judge", "apply", "tests"} => Safe
    /\ stage \in {"apply", "tests"} => Judged
    /\ stage = "tests" => Applied
    /\ stage \in {"publish", "pull"} => Vetted
    /\ published # {} => stage \in {"record", "returned"} /\ Vetted
    /\ committed # {} => stage \in {"pull", "record", "returned"} /\ Vetted
    /\ committed \subseteq {result.suggestion.patch.target}

Shape ==
    /\ result = [f \in DOMAIN NoResult |-> result[f]]
    /\ result.decision \in {"none", "allow", "review", "block"}
    /\ result.tests \in {"not run", "passed", "failed"}
    /\ result.applied \in BOOLEAN /\ result.pull \in BOOLEAN

(* A run starts from nothing; a call of the model is one of those allowed;  *)
(* a container has the arguments of a configuration within the limits. *)
Within ==
    /\ stage \in Stages /\ attempt \in 0..Retries /\ setup \in Setups \cup {NoSetup}
    /\ fault \in {"none", "files", "log"}
    /\ stage = "ask" => attempt < Retries
    /\ stage = "idle" => attempt = 0 /\ launched = {}
    /\ launched # {} => launched = DockerArgs(Config) /\ LimitViolations(Config) = {}

PipelineInv == Shape /\ Within /\ Shown

LEMMA RetriesPositive == Retries \in Nat /\ Retries >= 1
BY PipelineAssumption DEF Retries

LEMMA ResultFields ==
  /\ DOMAIN NoResult = {"suggestion", "decision", "applied", "tests", "pull", "failure"}
  /\ Shape => DOMAIN result = {"suggestion", "decision", "applied", "tests", "pull", "failure"}
BY DEF NoResult, Shape

LEMMA PipelineInvInit == PipelineInit => PipelineInv
<1> SUFFICES ASSUME PipelineInit PROVE PipelineInv
  OBVIOUS
<1>1. stage = "idle" /\ setup = NoSetup /\ attempt = 0 /\ result = NoResult /\ launched = {}
      /\ published = {} /\ committed = {} /\ fault = "none"
  BY DEF PipelineInit, PipelineAt
<1>2. Shape
  BY <1>1 DEF Shape, NoResult
<1>3. Within
  BY <1>1, RetriesPositive DEF Within, Stages
<1> QED
  BY <1>1, <1>2, <1>3 DEF PipelineInv, Shown

(* The stages before a patch is published, when nothing is launched. *)
LEMMA PipelineKeepsBegin ==
  ASSUME PipelineInv, NEW s \in Setups, NEW report, Begin(s, report)
  PROVE  PipelineInv'
<1> DEFINE injected == \E f \in IncidentFields : Injected(incident'[f])
<1>1. /\ stage = "idle" /\ setup' = s /\ stage' = (IF injected THEN "record" ELSE "ask")
      /\ result' = [result EXCEPT !.failure = IF injected THEN "injection" ELSE "none"]
      /\ UNCHANGED <<attempt, sent, published, launched, entries, committed, fault>>
  BY DEF Begin
<1>2. attempt = 0 /\ launched = {} /\ published = {} /\ committed = {}
  BY <1>1 DEF PipelineInv, Within, Shown
<1>3. Shape'
  BY <1>1, ResultFields DEF PipelineInv, Shape
<1>4. Within'
  BY <1>1, <1>2, RetriesPositive DEF PipelineInv, Within, Stages
<1>5. stage' = "ask" => Safe'
  BY <1>1 DEF Safe
<1> QED
  BY <1>1, <1>2, <1>3, <1>4, <1>5 DEF PipelineInv, Shown

(* The call of the model, with or without an answer. *)
LEMMA PipelineKeepsSuggested ==
  ASSUME PipelineInv, stage = "ask", NEW suggestion, Suggested(suggestion),
         UNCHANGED <<setup, incident, published, launched, committed, fault>>,
         attempt' \in 0..Retries
  PROVE  PipelineInv'
<1>1. stage' = "redact" /\ result' = [result EXCEPT !.suggestion = suggestion]
  BY DEF Suggested
<1>2. Shape'
  BY <1>1, ResultFields DEF PipelineInv, Shape
<1>3. Within'
  BY <1>1 DEF PipelineInv, Within, Stages, Config
<1> QED
  BY <1>1, <1>2, <1>3 DEF PipelineInv, Shown, Safe

LEMMA PipelineKeepsAsking ==
  ASSUME PipelineInv, Unasked \/ Transient \/ Refused \/ \E a \in Answers : Answered(a)
  PROVE  PipelineInv'
<1>1. attempt \in 0..Retries /\ (stage = "ask" => attempt < Retries)
  BY DEF PipelineInv, Within
<1>2. CASE Unasked
  BY <1>1, <1>2, PipelineKeepsSuggested DEF Unasked
<1>3. CASE Transient
  <2>1. /\ stage = "ask" /\ attempt' = attempt + 1 /\ UNCHANGED <<setup, incident, published, launched>>
        /\ UNCHANGED <<committed, fault>>
        /\ IF attempt' < Retries THEN UNCHANGED <<stage, result>> ELSE Suggested(Stub("fallback"))
    BY <1>3 DEF Transient, Asking, Posted
  <2>2. attempt' \in 0..Retries
    BY <1>1, <2>1, RetriesPositive
  <2>3. CASE attempt' < Retries
    <3>1. Within'
      BY <2>1, <2>2, <2>3 DEF PipelineInv, Within, Config
    <3> QED
      BY <2>1, <2>3, <3>1 DEF PipelineInv, Shape, Shown, Safe
  <2> QED
    BY <2>1, <2>2, <2>3, PipelineKeepsSuggested
<1>4. CASE Refused
  BY <1>1, <1>4, PipelineKeepsSuggested DEF Refused, Asking, Posted
<1>5. ASSUME NEW a \in Answers, Answered(a) PROVE PipelineInv'
  BY <1>1, <1>5, PipelineKeepsSuggested DEF Answered, Asking, Posted
<1> QED
  BY <1>2, <1>3, <1>4, <1>5

(* A step that leaves the process, the incident and what ran as they are,   *)
(* on the way to GitHub. *)
LEMMA PipelineKeepsStage ==
  ASSUME PipelineInv, UNCHANGED <<setup, incident, attempt, published, committed>>, Unpublished,
         fault' \in {"none", "files", "log"},
         stage \notin {"idle", "ask"}, stage' \in Stages \ {"idle", "ask"}, Shape',
         launched' = launched \/ (launched' = DockerArgs(Config) /\ LimitViolations(Config) = {}),
         stage' \in {"redact", "judge", "apply", "tests"} => Safe,
         stage' \in {"apply", "tests"} => Judged', stage' = "tests" => Applied',
         stage' \in {"publish", "pull"} => Vetted'
  PROVE  PipelineInv'
<1>1. Within'
  BY DEF PipelineInv, Within, Config
<1> QED
  BY <1>1 DEF PipelineInv, Shown, Safe, Unpublished

LEMMA FaultKnown == PipelineInv => fault \in {"none", "files", "log"}
BY DEF PipelineInv, Within

LEMMA PipelineKeepsRedact == ASSUME PipelineInv, Redact PROVE PipelineInv'
<1>1. /\ stage = "redact" /\ result' = [result EXCEPT !.suggestion = SanitizeSuggestion(@)]
      /\ stage' \in {"record", "judge"}
      /\ UNCHANGED <<setup, incident, attempt, published, launched, committed, fault>>
  BY DEF Redact, marks
<1>2. Shape' /\ Unpublished /\ Safe
  BY <1>1, ResultFields DEF PipelineInv, Shape, Shown, Unpublished
<1> QED
  BY <1>1, <1>2, FaultKnown, PipelineKeepsStage DEF Stages

LEMMA PipelineKeepsJudge == ASSUME PipelineInv, Judge PROVE PipelineInv'
<1> DEFINE decision == Check(LoadedPolicy(setup.policy), result.suggestion.patchFile,
                             result.suggestion.patch).decision
<1>1. /\ stage = "judge" /\ stage' = (IF decision = "allow" THEN "apply" ELSE "record")
      /\ result' = [result EXCEPT !.decision = decision,
                                  !.failure = IF decision = "allow" THEN @ ELSE "policy"]
      /\ UNCHANGED <<setup, incident, attempt, published, launched, committed, fault>>
  BY DEF Judge, marks
<1>2. decision \in {"allow", "review", "block"}
  BY DecisionKnown
<1>3. decision = "allow" => Judged
  BY AllowedIsClean DEF Judged
<1> HIDE DEF decision
<1>4. result'.suggestion = result.suggestion
  BY <1>1, ResultFields DEF PipelineInv
<1>5. Shape' /\ Unpublished /\ Safe
  BY <1>1, <1>2, ResultFields DEF PipelineInv, Shape, Shown, Unpublished
<1>6. stage' = "apply" => Judged'
  BY <1>1, <1>3, <1>4 DEF Judged
<1> QED
  BY <1>1, <1>5, <1>6, FaultKnown, PipelineKeepsStage DEF Stages

LEMMA PipelineKeepsApply == ASSUME PipelineInv, Apply PROVE PipelineInv'
<1> DEFINE fits == Appliable(result.suggestion.patchFile, result.suggestion.patch)
<1>1. /\ stage = "apply" /\ UNCHANGED <<setup, incident, attempt, published, launched, committed>>
      /\ \/ fits /\ result' = [result EXCEPT !.applied = TRUE] /\ stage' = "tests"
         \/ result' = [result EXCEPT !.failure = "apply"] /\ stage' = "record"
         \/ result' = result /\ stage' = "raised"
      /\ fault' = fault \/ fault' = "files"
  BY DEF Apply, ApplyFails, ApplyRuns
<1>2. result'.suggestion = result.suggestion /\ Shape'
  BY <1>1, ResultFields DEF PipelineInv, Shape
<1>3. Unpublished /\ Safe /\ Judged /\ Judged'
  BY <1>1, <1>2 DEF PipelineInv, Shown, Judged, Unpublished
<1>4. stage' = "tests" => Applied'
  <2>1. stage' = "tests" => fits /\ result'.applied
    BY <1>1, ResultFields DEF PipelineInv
  <2> QED
    BY <1>2, <2>1 DEF Applied
<1> QED
  BY <1>1, <1>2, <1>3, <1>4, FaultKnown, PipelineKeepsStage DEF Stages

(* The outcome of the tests: what passed is published. *)
LEMMA TestedOutcome ==
  ASSUME PipelineInv, NEW code \in TestCodes, Tested(code)
  PROVE  /\ Shape' /\ result'.suggestion = result.suggestion /\ stage' \in {"publish", "record"}
         /\ stage' = "publish" => code = 0 /\ result'.tests = "passed" /\ result'.applied = result.applied
<1>1. CASE code = 0
  BY <1>1, ResultFields DEF Tested, PipelineInv, Shape
<1>2. CASE code = -2
  BY <1>2, ResultFields DEF Tested, PipelineInv, Shape
<1>3. CASE code \notin {0, -2}
  BY <1>3, ResultFields DEF Tested, PipelineInv, Shape
<1> QED
  BY <1>1, <1>2, <1>3

LEMMA PipelineKeepsTested ==
  ASSUME PipelineInv, stage = "tests", NEW code \in TestCodes, Tested(code),
         UNCHANGED <<setup, incident, attempt, published, committed, fault>>,
         launched' = launched \/ (launched' = DockerArgs(Config) /\ LimitViolations(Config) = {}),
         code = 0 => launched' # {} \/ Config.hostFallback
  PROVE  PipelineInv'
<1>1. /\ Shape' /\ result'.suggestion = result.suggestion /\ stage' \in {"publish", "record"}
      /\ stage' = "publish" => code = 0 /\ result'.tests = "passed" /\ result'.applied = result.applied
  BY TestedOutcome
<1>2. Unpublished /\ Safe /\ Judged /\ Applied
  BY DEF PipelineInv, Shown, Unpublished
<1>3. stage' = "publish" => Vetted'
  BY <1>1, <1>2 DEF Vetted, Safe, Judged, Applied, Passed, Config
<1> QED
  BY <1>1, <1>2, <1>3, FaultKnown, PipelineKeepsStage DEF Stages

LEMMA PipelineKeepsTests ==
  ASSUME PipelineInv, Unsandboxed \/ RunOnHost \/ RunInContainer \/ LimitsRefused
  PROVE  PipelineInv'
<1>1. CASE Unsandboxed
  <2>1. /\ stage = "tests" /\ result' = [result EXCEPT !.applied = FALSE, !.failure = "sandbox"]
        /\ stage' = "record"
        /\ UNCHANGED <<setup, incident, attempt, published, launched, committed, fault>>
    BY <1>1 DEF Unsandboxed, marks
  <2>2. Shape' /\ Unpublished
    BY <2>1, ResultFields DEF PipelineInv, Shape, Shown, Unpublished
  <2> QED
    BY <2>1, <2>2, FaultKnown, PipelineKeepsStage DEF Stages
<1>2. CASE RunOnHost
  <2>1. stage = "tests" /\ UNCHANGED <<setup, incident, attempt, published, launched, committed, fault>>
    BY <1>2 DEF RunOnHost, marks
  <2>2. PICK code \in TestCodes : Tested(code) /\ (code = 0 => Config.hostFallback)
    BY <1>2 DEF RunOnHost, TestCodes
  <2> QED
    BY <2>1, <2>2, PipelineKeepsTested
<1>3. CASE RunInContainer
  <2>1. /\ stage = "tests" /\ LimitViolations(Config) = {} /\ launched' = DockerArgs(Config)
        /\ UNCHANGED <<setup, incident, attempt, published, committed, fault>>
    BY <1>3 DEF RunInContainer, marks
  <2>2. PICK code \in TestCodes : Tested(code)
    BY <1>3 DEF RunInContainer
  <2>3. DockerArgs(Config) # {}
    BY DEF DockerArgs
  <2> QED
    BY <2>1, <2>2, <2>3, PipelineKeepsTested
<1>4. CASE LimitsRefused
  <2>1. /\ stage = "tests" /\ stage' = "raised"
        /\ UNCHANGED <<setup, incident, attempt, result, published, launched, committed, fault>>
    BY <1>4 DEF LimitsRefused, marks
  <2>2. Shape' /\ Unpublished
    BY <2>1 DEF PipelineInv, Shape, Shown, Unpublished
  <2> QED
    BY <2>1, <2>2, FaultKnown, PipelineKeepsStage DEF Stages
<1> QED
  BY <1>1, <1>2, <1>3, <1>4

(* A patch that has got to GitHub is vetted, and stays so. *)
LEMMA PipelineKeepsPull ==
  ASSUME PipelineInv, CommitPatch \/ OpenPullRequest \/ NoPullRequest
  PROVE  PipelineInv'
<1>1. /\ stage \in {"publish", "pull"} /\ stage' \in {"pull", "record"}
      /\ UNCHANGED <<setup, incident, attempt, launched, fault>>
  BY DEF CommitPatch, OpenPullRequest, NoPullRequest, marks
<1>2. Safe /\ Judged /\ Applied /\ Passed
  BY <1>1 DEF PipelineInv, Shown, Vetted
<1>3. /\ Shape' /\ result'.suggestion = result.suggestion /\ result'.applied = result.applied
      /\ result'.tests = result.tests
  <2>1. CASE OpenPullRequest
    <3>1. PICK outcome \in {"opened", "refused", "broken"} :
             result' = [result EXCEPT !.pull = outcome = "opened",
                                      !.failure = IF outcome = "broken" THEN "pull" ELSE @]
      BY <2>1 DEF OpenPullRequest
    <3> DEFINE opened == outcome = "opened"
    <3>2. opened \in BOOLEAN
      OBVIOUS
    <3>3. result' = [result EXCEPT !.pull = opened, !.failure = IF outcome = "broken" THEN "pull" ELSE @]
      BY <3>1
    <3> HIDE DEF opened
    <3> QED
      BY <3>2, <3>3, ResultFields DEF PipelineInv, Shape
  <2>2. CASE NoPullRequest
    BY <2>2 DEF NoPullRequest, PipelineInv, Shape
  <2>3. CASE CommitPatch
    <3>1. result' = result \/ result' = [result EXCEPT !.failure = "pull"]
      BY <2>3 DEF CommitPatch
    <3> QED
      BY <3>1, ResultFields DEF PipelineInv, Shape
  <2> QED
    BY <2>1, <2>2, <2>3
<1>4. Vetted'
  BY <1>1, <1>2, <1>3 DEF Vetted, Safe, Judged, Applied, Passed, Config
<1>5. Within'
  BY <1>1 DEF PipelineInv, Within, Stages, Config
<1>6. published' # {} => stage' = "record"
  BY DEF CommitPatch, OpenPullRequest, NoPullRequest, marks, PipelineInv, Shown
<1>7. committed' \subseteq {result'.suggestion.patch.target}
  <2>1. committed' = committed \/ committed' = {result.suggestion.patch.target}
    BY DEF CommitPatch, OpenPullRequest, NoPullRequest, marks, Commit
  <2>2. committed \subseteq {result.suggestion.patch.target}
    BY DEF PipelineInv, Shown
  <2> QED
    BY <1>3, <2>1, <2>2
<1> QED
  BY <1>1, <1>3, <1>4, <1>5, <1>6, <1>7 DEF PipelineInv, Shown

LEMMA PipelineKeepsEnd ==
  ASSUME PipelineInv, Record \/ Finish
  PROVE  PipelineInv'
<1>1. CASE Record
  <2>1. /\ stage = "record" /\ stage' = "returned"
        /\ UNCHANGED <<setup, incident, attempt, result, published, launched, committed>>
        /\ fault' = fault \/ fault' = "log"
    BY <1>1 DEF Record
  <2>2. Shape' /\ Within'
    BY <2>1 DEF PipelineInv, Shape, Within, Stages, Config
  <2>3. Vetted => Vetted'
    BY <2>1 DEF Vetted, Safe, Judged, Applied, Passed, Config
  <2> QED
    BY <2>1, <2>2, <2>3 DEF PipelineInv, Shown
<1>2. CASE Finish
  <2>1. PipelineInit'
    BY <1>2 DEF Finish, PipelineInit, PipelineAt
  <2>2. /\ stage' = "idle" /\ setup' = NoSetup /\ attempt' = 0 /\ result' = NoResult /\ launched' = {}
        /\ published' = {} /\ committed' = {} /\ fault' = "none"
    BY <1>2 DEF Finish
  <2>3. Shape'
    BY <2>2 DEF Shape, NoResult
  <2>4. Within'
    BY <2>2, RetriesPositive DEF Within, Stages
  <2> QED
    BY <2>2, <2>3, <2>4 DEF PipelineInv, Shown
<1> QED
  BY <1>1, <1>2

LEMMA PipelineInvStep == PipelineInv /\ [PipelineNext]_pipelineVars => PipelineInv'
<1> SUFFICES ASSUME PipelineInv, [PipelineNext]_pipelineVars PROVE PipelineInv'
  OBVIOUS
<1>1. CASE PipelineStep
  BY <1>1, PipelineKeepsAsking, PipelineKeepsRedact, PipelineKeepsJudge, PipelineKeepsApply,
     PipelineKeepsTests, PipelineKeepsPull, PipelineKeepsEnd DEF PipelineStep
<1>2. CASE Finish
  BY <1>2, PipelineKeepsEnd
<1>3. ASSUME NEW s \in Setups, NEW r \in Reports, Begin(s, r) PROVE PipelineInv'
  BY <1>3, PipelineKeepsBegin
<1>4. CASE UNCHANGED pipelineVars
  <2>1. Vetted' = Vetted /\ Safe' = Safe /\ Judged' = Judged /\ Applied' = Applied
    BY <1>4 DEF pipelineVars, Vetted, Safe, Judged, Applied, Passed, Config
  <2>2. Shape' /\ Within'
    BY <1>4 DEF pipelineVars, marks, PipelineInv, Shape, Within, Config
  <2>3. UNCHANGED <<stage, result, published, committed>>
    BY <1>4 DEF pipelineVars, marks
  <2> QED
    BY <2>1, <2>2, <2>3 DEF PipelineInv, Shown
<1> QED
  BY <1>1, <1>2, <1>3, <1>4 DEF PipelineNext

(* Within the limits the arguments confine the container (to_docker_args). *)
LEMMA ConfinedArguments ==
  ASSUME PipelineInv, launched # {}
  PROVE  ContainerConfined
<1> DEFINE config == Config
<1>1. launched = DockerArgs(config) /\ LimitViolations(config) = {}
  BY DEF PipelineInv, Within
<1>2. config.tmpfsMb \in Int
  <2>1. setup \in Setups \cup {NoSetup}
    BY DEF PipelineInv, Within
  <2>2. SandboxDefaults.tmpfsMb = 64 /\ "tmpfsMb" \in DOMAIN SandboxDefaults
    BY DEF SandboxDefaults
  <2>3. config.tmpfsMb = IF "tmpfsMb" \in DOMAIN setup.sandbox THEN setup.sandbox.tmpfsMb
                         ELSE SandboxDefaults.tmpfsMb
    BY <2>2 DEF Config, SandboxConfig, WithDefaults
  <2>4. CASE setup \in Setups
    BY <2>2, <2>3, <2>4, PipelineAssumption
  <2>5. CASE setup = NoSetup
    BY <2>2, <2>3, <2>5 DEF NoSetup
  <2> QED
    BY <2>1, <2>4, <2>5
<1> HIDE DEF config
<1>3. \A v : v \notin LimitViolations(config)
  BY <1>1
<1>4. config.memoryMb \in 64..1024 /\ config.centiCpus \in 1..200
  <2>1. "memory" \notin LimitViolations(config) /\ "cpus" \notin LimitViolations(config)
    BY <1>3
  <2> QED
    BY ONLY <2>1 DEF LimitViolations
<1>5. config.network = "none" /\ config.readOnlyRoot /\ config.user # "root"
  <2>1. "network" \notin LimitViolations(config) /\ "root" \notin LimitViolations(config)
        /\ "user" \notin LimitViolations(config)
    BY <1>3
  <2> QED
    BY ONLY <2>1, ZenonT(60) DEF LimitViolations
<1>6. "no-new-privileges" \in config.securityOpt /\ "ALL" \in config.dropCapabilities
  <2>1. "privileges" \notin LimitViolations(config) /\ "capabilities" \notin LimitViolations(config)
    BY <1>3
  <2>2. "no-new-privileges" \in config.securityOpt
    BY ONLY <2>1 DEF LimitViolations
  <2>3. "ALL" \in config.dropCapabilities
    BY ONLY <2>1 DEF LimitViolations
  <2> QED
    BY ONLY <2>2, <2>3
<1>7. config.tmpfsMb <= 256
  <2>1. "tmpfs" \notin LimitViolations(config)
    BY <1>3
  <2>2. ~(config.tmpfsMb > 256)
    BY ONLY <2>1 DEF LimitViolations
  <2> QED
    BY <1>2, <2>2
<1>8. \A a \in launched :
        \/ a \in {<<"--network", config.network>>, <<"--memory", config.memoryMb>>,
                 <<"--cpus", config.centiCpus>>, <<"--user", config.user>>}
        \/ a = <<"--read-only", "">> \/ a = <<"--tmpfs", config.tmpfsMb>>
        \/ \E o \in config.securityOpt : a = <<"--security-opt", o>>
        \/ \E c \in config.dropCapabilities : a = <<"--cap-drop", c>>
  BY <1>1 DEF DockerArgs
<1>14. ASSUME NEW a \in launched
       PROVE  /\ a[1] = "--network" => a = <<"--network", config.network>>
              /\ a[1] = "--tmpfs" => a = <<"--tmpfs", config.tmpfsMb>>
  <2>1. CASE a = <<"--network", config.network>>
    BY <2>1
  <2>2. CASE a = <<"--tmpfs", config.tmpfsMb>>
    BY <2>2
  <2>3. ASSUME NEW key \in {"--memory", "--cpus", "--user", "--read-only", "--security-opt", "--cap-drop"},
               NEW value, a = <<key, value>>
        PROVE  a[1] # "--network" /\ a[1] # "--tmpfs"
    BY <2>3
  <2>4. \/ a = <<"--network", config.network>> \/ a = <<"--tmpfs", config.tmpfsMb>>
        \/ \E key \in {"--memory", "--cpus", "--user", "--read-only", "--security-opt", "--cap-drop"} :
              \E value : a = <<key, value>>
    BY <1>8
  <2> QED
    BY ONLY <2>1, <2>2, <2>3, <2>4
<1>9. {a \in launched : a[1] = "--network"} = {<<"--network", "none">>}
  <2>1. <<"--network", "none">> \in launched
    BY <1>1, <1>5 DEF DockerArgs
  <2>2. ASSUME NEW a \in launched, a[1] = "--network" PROVE a = <<"--network", "none">>
    BY <1>5, <1>14, <2>2
  <2> QED
    BY <2>1, <2>2
<1>10. <<"--memory", config.memoryMb>> \in launched /\ <<"--cpus", config.centiCpus>> \in launched
  BY <1>1 DEF DockerArgs
<1>11. /\ <<"--read-only", "">> \in launched /\ <<"--security-opt", "no-new-privileges">> \in launched
       /\ <<"--cap-drop", "ALL">> \in launched
  BY <1>1, <1>5, <1>6 DEF DockerArgs
<1>12. <<"--user", "root">> \notin launched
  BY <1>5, <1>8
<1>13. ASSUME NEW a \in launched, a[1] = "--tmpfs" PROVE a[2] <= 256
  <2>1. a = <<"--tmpfs", config.tmpfsMb>>
    BY <1>13, <1>14
  <2> QED
    BY <1>7, <2>1
<1> QED
  BY <1>4, <1>9, <1>10, <1>11, <1>12, <1>13, ZenonT(40) DEF ContainerConfined

LEMMA PipelineInvTells == PipelineInv => PipelineTypeOK /\ PullWasVetted /\ ContainerConfined
<1>1. PipelineInv => PipelineTypeOK /\ PullWasVetted
  <2>1. PipelineInv => PipelineTypeOK
    BY DEF PipelineInv, Shape, Within, Shown, PipelineTypeOK
  <2>2. ASSUME PipelineInv, published # {} \/ committed # {}
        PROVE  Vetted /\ committed \subseteq {result.suggestion.patch.target}
    BY <2>2 DEF PipelineInv, Shown
  <2>3. PipelineInv => PullWasVetted
    BY <2>2, ZenonT(40) DEF PullWasVetted, Vetted, Safe, Judged, Applied, Passed
  <2> QED
    BY <2>1, <2>3
<1>2. PipelineInv => ContainerConfined
  BY ConfinedArguments DEF ContainerConfined
<1> QED
  BY <1>1, <1>2

(* Whatever is installed and configured, whatever the model says, and       *)
(* whatever fails: only a vetted patch goes to GitHub (run). *)
THEOREM PullWasVettedHolds == PipelineSpec => [](PipelineTypeOK /\ PullWasVetted)
<1> QED
  BY PipelineInvInit, PipelineInvStep, PipelineInvTells, PTL DEF PipelineSpec

(* Whatever sandbox.yml says: a container is within the limits              *)
(* (RunInContainer, to_docker_args). *)
THEOREM ContainerConfinedHolds == PipelineSpec => []ContainerConfined
<1> QED
  BY PipelineInvInit, PipelineInvStep, PipelineInvTells, PTL DEF PipelineSpec

LEMMA SinkHasViolation ==
  ASSUME NEW nodes, NEW i \in DOMAIN nodes,
         nodes[i].node = "call", Sink(nodes[i].name), NEW e \in ToSet(nodes[i].args),
         \/ e.kind = "name" /\ LastTainted(nodes, i, e.name)
         \/ e.kind = "format" /\ \E x \in e.names : LastTainted(nodes, i, <<x>>)
  PROVE  TaintViolations(nodes) # {}
<1> DEFINE tainted == UNION {Taints(nodes[j]) : j \in 1..(i - 1)}
           args == IF nodes[i].node = "call" /\ Sink(nodes[i].name) THEN ToSet(nodes[i].args) ELSE {}
           named == {Violation("TAINT001", "high") : x \in {x \in args : x.kind = "name" /\ x.name \in tainted}}
           formatted == {Violation("TAINT002", "critical") : x \in {x \in args :
                            x.kind = "format" /\ \E y \in x.names : <<y>> \in tainted}}
<1>1. e \in args
  OBVIOUS
<1>2. \A name : LastTainted(nodes, i, name) => name \in tainted
  BY DEF LastTainted
<1> HIDE DEF args, tainted
<1>3. named # {} \/ formatted # {}
  BY <1>1, <1>2
<1>4. named \cup formatted \subseteq TaintViolations(nodes)
  BY DEF TaintViolations, args, tainted
<1> QED
  BY <1>3, <1>4

LEMMA TaintIsSound == TaintSound
BY SinkHasViolation DEF TaintSound

(* For every program: a sink that gets a name whose last assignment took it *)
(* from outside has a violation (_TaintRules). *)
THEOREM TaintSoundHolds == PipelineSpec => []TaintSound
<1> QED
  BY TaintIsSound, PTL

-----------------------------------------------------------------------------
(***************************************************************************)
(* The sections of an answer.                                              *)
(***************************************************************************)
Lines == Seq(STRING)
Outputs == UNION {[K -> Lines] : K \in SUBSET SectionKeys}
Reader == [output : Outputs, key : SectionKeys \cup {""}, lines : Lines]

LEMMA StripTyped == ASSUME NEW lines \in Lines PROVE Strip(lines) \in Lines
<1> DEFINE kept == {i \in DOMAIN lines : lines[i] # " "}
<1>1. CASE kept = {}
  <2>1. Strip(lines) = << >>
    BY <1>1 DEF Strip
  <2> QED
    BY <2>1 DEF Lines
<1>2. CASE kept # {}
  <2> DEFINE a == CHOOSE i \in kept : \A j \in kept : i <= j
             b == CHOOSE i \in kept : \A j \in kept : j <= i
  <2>1. Len(lines) \in Nat /\ kept \subseteq 1..Len(lines) /\ kept \subseteq 0..Len(lines)
    <3>1. lines \in Seq(STRING)
      BY DEF Lines
    <3>2. DOMAIN lines = 1..Len(lines) /\ Len(lines) \in Nat
      BY <3>1
    <3>3. kept \subseteq DOMAIN lines
      OBVIOUS
    <3> HIDE DEF kept
    <3> QED
      BY <3>2, <3>3
  <2>2. \E i \in kept : \A j \in kept : i <= j
    <3> HIDE DEF kept
    <3>1. kept \subseteq Nat
      BY <2>1
    <3> QED
      BY <1>2, <3>1, Least
  <2>3. a \in 1..Len(lines)
    <3> HIDE DEF kept
    <3> QED
      BY <2>1, <2>2
  <2>4. b \in 1..Len(lines)
    <3> HIDE DEF kept
    <3>1. Max(kept) \in kept /\ \A j \in kept : Max(kept) >= j
      BY <1>2, <2>1, Greatest
    <3>2. \E i \in kept : \A j \in kept : j <= i
      BY <2>1, <3>1
    <3> QED
      BY <2>1, <3>2
  <2>5. Strip(lines) = SubSeq(lines, a, b)
    BY <1>2 DEF Strip
  <2> HIDE DEF a, b, kept
  <2>6. SubSeq(lines, a, b) \in Seq(STRING)
    <3>1. lines \in Seq(STRING)
      BY DEF Lines
    <3>2. \A i \in a..b : lines[i] \in STRING
      BY <2>1, <2>3, <2>4, <3>1
    <3> QED
      BY <2>1, <2>3, <2>4, <3>1, <3>2
  <2> QED
    BY <2>5, <2>6 DEF Lines
<1> QED
  BY <1>1, <1>2

LEMMA SectionSaved ==
  ASSUME NEW s \in Reader
  PROVE  /\ SaveSection(s) \in Outputs
         /\ s.key = "" => SaveSection(s) = s.output
         /\ s.key # "" => /\ DOMAIN SaveSection(s) = DOMAIN s.output \cup {s.key}
                          /\ SaveSection(s)[s.key] = Strip(s.lines)
                          /\ \A key \in DOMAIN s.output \ {s.key} : SaveSection(s)[key] = s.output[key]
<1>1. PICK K \in SUBSET SectionKeys : s.output \in [K -> Lines]
  BY DEF Reader, Outputs
<1>2. s.key \in SectionKeys \cup {""} /\ s.lines \in Lines
  BY DEF Reader
<1>3. CASE s.key = ""
  BY <1>1, <1>3 DEF SaveSection, Outputs
<1>4. CASE s.key # ""
  <2>1. SaveSection(s) = [key \in DOMAIN s.output \cup {s.key} |->
                            IF key = s.key THEN Strip(s.lines) ELSE s.output[key]]
    BY <1>4 DEF SaveSection
  <2>2. DOMAIN s.output \cup {s.key} \in SUBSET SectionKeys
    BY <1>1, <1>2, <1>4
  <2>3. Strip(s.lines) \in Lines
    BY <1>2, StripTyped
  <2>4. SaveSection(s) \in [DOMAIN s.output \cup {s.key} -> Lines]
    BY <1>1, <2>1, <2>3
  <2> QED
    BY <1>4, <2>1, <2>2, <2>4 DEF Outputs
<1> QED
  BY <1>3, <1>4

LEMMA ReaderFormed ==
  ASSUME NEW o \in Outputs, NEW k \in SectionKeys \cup {""}, NEW l \in Lines
  PROVE  [output |-> o, key |-> k, lines |-> l] \in Reader
BY DEF Reader

LEMMA LineRead ==
  ASSUME NEW s \in Reader, NEW line \in STRING
  PROVE  /\ ReadLine(s, line) \in Reader
         /\ line \in SectionKeys => /\ ReadLine(s, line).output = SaveSection(s)
                                    /\ ReadLine(s, line).key = line /\ ReadLine(s, line).lines = << >>
         /\ line \notin SectionKeys => /\ ReadLine(s, line).output = s.output /\ ReadLine(s, line).key = s.key
                                       /\ s.key # "" => ReadLine(s, line).lines = Append(s.lines, line)
<1>1. CASE line \in SectionKeys
  <2>1. ReadLine(s, line) = [output |-> SaveSection(s), key |-> line, lines |-> << >>]
    BY <1>1 DEF ReadLine
  <2>2. << >> \in Lines
    BY DEF Lines
  <2>3. SaveSection(s) \in Outputs
    BY SectionSaved
  <2>4. line \in SectionKeys \cup {""}
    BY <1>1
  <2>5. ReadLine(s, line) \in Reader
    <3>1. [output |-> SaveSection(s), key |-> line, lines |-> << >>] \in Reader
      BY ONLY <2>2, <2>3, <2>4, ReaderFormed
    <3> QED
      BY <2>1, <3>1
  <2>6. /\ ReadLine(s, line).output = SaveSection(s) /\ ReadLine(s, line).key = line
        /\ ReadLine(s, line).lines = << >>
    BY ONLY <2>1
  <2> QED
    BY <1>1, <2>5, <2>6
<1>2. CASE line \notin SectionKeys /\ s.key # ""
  <2>1. ReadLine(s, line) = [s EXCEPT !.lines = Append(s.lines, line)]
    BY <1>2 DEF ReadLine
  <2>2. Append(s.lines, line) \in Lines
    <3>1. s.lines \in Seq(STRING)
      BY DEF Lines, Reader
    <3> QED
      BY <3>1 DEF Lines
  <2> QED
    BY <1>2, <2>1, <2>2 DEF Reader
<1>3. CASE line \notin SectionKeys /\ s.key = ""
  BY <1>3 DEF ReadLine
<1> QED
  BY <1>1, <1>2, <1>3

NoSections == [output |-> << >>, key |-> "", lines |-> << >>]

LEMMA NoSectionsRead == NoSections \in Reader
<1>1. << >> \in Lines
  BY DEF Lines
<1>2. << >> \in [{} -> Lines]
  OBVIOUS
<1>3. << >> \in Outputs
  BY <1>2 DEF Outputs
<1> QED
  BY <1>1, <1>3 DEF NoSections, Reader

(* An answer is read line by line. *)
LEMMA ReaderFold ==
  ASSUME NEW lines \in Seq(STRING)
  PROVE  \E f \in [0..Len(lines) -> Reader] :
            /\ f[0] = NoSections /\ \A i \in 1..Len(lines) : f[i] = ReadLine(f[i - 1], lines[i])
            /\ FoldLeft(ReadLine, NoSections, lines) = f[Len(lines)]
<1> DEFINE n == Len(lines)
           X == Reader
           none == NoSections
           Fold(iter) == [s \in SUBSET (1..n) |->
                            IF s = {} THEN none ELSE ReadLine(iter[s \ {Max(s)}], lines[Max(s)])]
           step == [i \in 1..n |-> [x \in X |-> ReadLine(x, lines[i])]]
<1>1. n \in Nat /\ none \in X /\ DOMAIN lines = 1..n
  <2> HIDE DEF n
  <2>1. NoSections \in Reader
    BY NoSectionsRead
  <2>2. Len(lines) \in Nat /\ DOMAIN lines = 1..Len(lines)
    OBVIOUS
  <2>3. n = Len(lines)
    BY DEF n
  <2> QED
    BY <2>1, <2>2, <2>3
<1>2. step \in [1..n -> [X -> X]]
  <2>1. \A i \in 1..n : lines[i] \in STRING
    BY <1>1
  <2>2. \A i \in 1..n : \A x \in X : ReadLine(x, lines[i]) \in X
    BY <2>1, LineRead
  <2> HIDE DEF n, X
  <2> QED
    BY <2>2
<1> DEFINE iter == CHOOSE iter : iter = Fold(iter)
<1>3. FoldLeft(ReadLine, NoSections, lines) = iter[1..n]
  BY <1>1 DEF FoldLeft, MapThenFoldSet
<1>4. \A s \in SUBSET (1..n) : s # {} => Max(s) \in 1..n /\ s \ {Max(s)} \in SUBSET (1..n)
  <2> HIDE DEF n
  <2> SUFFICES ASSUME NEW s \in SUBSET (1..n), s # {} PROVE Max(s) \in 1..n
    OBVIOUS
  <2>1. s \subseteq 0..n
    BY <1>1
  <2> QED
    BY <1>1, <2>1, Greatest
<1>5. \E f : f = Fold(f)
  <2>1. PICK f \in [SUBSET (1..n) -> X] : Folds(n, X, none, step, f)
    <3> HIDE DEF n, X, step, none
    <3> QED
      BY <1>1, <1>2, FoldExists
  <2>2. ASSUME NEW s \in SUBSET (1..n)
        PROVE  f[s] = IF s = {} THEN none ELSE ReadLine(f[s \ {Max(s)}], lines[Max(s)])
    <3> HIDE DEF X, none, n
    <3>1. s # {} => Max(s) \in 1..n /\ f[s \ {Max(s)}] \in X
      BY <1>4, <2>1
    <3>2. s # {} => step[Max(s)][f[s \ {Max(s)}]] = ReadLine(f[s \ {Max(s)}], lines[Max(s)])
      BY <3>1
    <3> HIDE DEF step
    <3> QED
      BY <2>1, <3>1, <3>2 DEF Folds
  <2> HIDE DEF step, n, X, none
  <2>3. f = Fold(f)
    BY <2>1, <2>2
  <2> QED
    BY <2>3
<1>6. iter = Fold(iter)
  <2> HIDE DEF Fold
  <2> QED
    BY <1>5
<1> HIDE DEF iter
<1>7. Folds(n, X, none, step, iter)
  <2> SUFFICES ASSUME NEW s \in SUBSET (1..n)
               PROVE  /\ s = {} => iter[s] = none
                      /\ s # {} /\ iter[s \ {Max(s)}] \in X => iter[s] = step[Max(s)][iter[s \ {Max(s)}]]
    BY DEF Folds
  <2> HIDE DEF X, none, n
  <2>1. iter[s] = IF s = {} THEN none ELSE ReadLine(iter[s \ {Max(s)}], lines[Max(s)])
    BY <1>6
  <2>2. s # {} /\ iter[s \ {Max(s)}] \in X =>
           step[Max(s)][iter[s \ {Max(s)}]] = ReadLine(iter[s \ {Max(s)}], lines[Max(s)])
    BY <1>4
  <2> HIDE DEF step
  <2> QED
    BY <2>1, <2>2
<1>8. PICK g : Runs(n, X, none, step, g) /\ g[n] = iter[1..n]
  <2> HIDE DEF n, X, step, none
  <2> QED
    BY <1>1, <1>2, <1>7, FoldRuns, SMTT(30)
<1>9. g \in [0..n -> X] /\ g[0] = none /\ \A i \in 1..n : g[i] = step[i][g[i - 1]]
  BY <1>8 DEF Runs
<1>10. \A i \in 1..n : g[i] = ReadLine(g[i - 1], lines[i])
  <2> SUFFICES ASSUME NEW i \in 1..n PROVE g[i] = ReadLine(g[i - 1], lines[i])
    OBVIOUS
  <2> HIDE DEF n, X, none
  <2>1. i - 1 \in 0..n /\ g[i - 1] \in X
    BY <1>1, <1>9
  <2>2. step[i][g[i - 1]] = ReadLine(g[i - 1], lines[i])
    BY <2>1
  <2> HIDE DEF step
  <2> QED
    BY <1>9, <2>2
<1> HIDE DEF X, n, step, Fold
<1>11. g \in [0..n -> X] /\ g[0] = none /\ (\A i \in 1..n : g[i] = ReadLine(g[i - 1], lines[i]))
       /\ FoldLeft(ReadLine, NoSections, lines) = g[n]
  BY <1>3, <1>8, <1>9, <1>10
<1> QED
  BY <1>11 DEF X, n, none

(* What stands in the output after the first m lines. *)
Sectioned(lines, output, m) ==
    /\ DOMAIN output = {lines[j] : j \in 1..m} \cap SectionKeys
    /\ \A key \in DOMAIN output : \E h \in 1..m : \E e \in h..m :
          /\ lines[h] = key /\ \A j \in (h + 1)..m : lines[j] # key
          /\ \A j \in (h + 1)..e : lines[j] \notin SectionKeys
          /\ e = m \/ lines[e + 1] \in SectionKeys
          /\ output[key] = Strip(SubSeq(lines, h + 1, e))

(* What the reader holds after the first k lines: the open section and the *)
(* ones before it.                                                         *)
HasRead(lines, s, k) ==
    /\ s.key = "" => DOMAIN s.output = {} /\ \A j \in 1..k : lines[j] \notin SectionKeys
    /\ s.key # "" => \E h \in 1..k :
          /\ lines[h] = s.key /\ \A j \in (h + 1)..k : lines[j] \notin SectionKeys
          /\ s.lines = SubSeq(lines, h + 1, k)
          /\ Sectioned(lines, s.output, h - 1)

LEMMA SectionedWhenSaved ==
  ASSUME NEW lines \in Seq(STRING), NEW k \in 0..Len(lines), NEW s \in Reader, HasRead(lines, s, k)
  PROVE  Sectioned(lines, SaveSection(s), k)
<1>1. CASE s.key = ""
  <2>1. SaveSection(s) = s.output /\ DOMAIN s.output = {} /\ \A j \in 1..k : lines[j] \notin SectionKeys
    BY <1>1, SectionSaved DEF HasRead
  <2> QED
    BY <2>1 DEF Sectioned
<1>2. CASE s.key # ""
  <2>1. PICK h \in 1..k :
             /\ lines[h] = s.key /\ \A j \in (h + 1)..k : lines[j] \notin SectionKeys
             /\ s.lines = SubSeq(lines, h + 1, k)
             /\ Sectioned(lines, s.output, h - 1)
    BY <1>2 DEF HasRead
  <2> DEFINE out == SaveSection(s)
  <2>2. /\ DOMAIN out = DOMAIN s.output \cup {s.key} /\ out[s.key] = Strip(s.lines)
        /\ \A key \in DOMAIN s.output \ {s.key} : out[key] = s.output[key]
    BY <1>2, SectionSaved
  <2>3. s.key \in SectionKeys
    BY <1>2 DEF Reader
  <2> HIDE DEF out
  <2>4. k \in Nat /\ h \in Nat
    OBVIOUS
  <2>5. DOMAIN out = {lines[j] : j \in 1..k} \cap SectionKeys
    <3>1. DOMAIN s.output = {lines[j] : j \in 1..(h - 1)} \cap SectionKeys
      BY <2>1 DEF Sectioned
    <3>2. 1..k = 1..(h - 1) \cup {h} \cup (h + 1)..k
      BY <2>4, h \in 1..k
    <3>3. \A x \in SectionKeys : (\E j \in 1..k : lines[j] = x) <=> ((\E j \in 1..(h - 1) : lines[j] = x) \/ x = s.key)
      BY <2>1, <3>2
    <3> QED
      BY <2>2, <2>3, <3>1, <3>3
  <2>6. ASSUME NEW key \in DOMAIN out
        PROVE  \E a \in 1..k : \E e \in a..k :
                  /\ lines[a] = key /\ \A j \in (a + 1)..k : lines[j] # key
                  /\ \A j \in (a + 1)..e : lines[j] \notin SectionKeys
                  /\ e = k \/ lines[e + 1] \in SectionKeys
                  /\ out[key] = Strip(SubSeq(lines, a + 1, e))
    <3>1. CASE key = s.key
      <4>1. h \in 1..k /\ k \in h..k
        BY <2>4
      <4>2. \A j \in (h + 1)..k : lines[j] # key
        BY <2>1, <2>3, <3>1
      <4> QED
        BY <2>1, <2>2, <3>1, <4>1, <4>2
    <3>2. CASE key # s.key
      <4>1. key \in DOMAIN s.output /\ out[key] = s.output[key]
        BY <2>2, <3>2
      <4>2. PICK a \in 1..(h - 1) : \E e \in a..(h - 1) :
                  /\ lines[a] = key /\ \A j \in (a + 1)..(h - 1) : lines[j] # key
                  /\ \A j \in (a + 1)..e : lines[j] \notin SectionKeys
                  /\ e = h - 1 \/ lines[e + 1] \in SectionKeys
                  /\ s.output[key] = Strip(SubSeq(lines, a + 1, e))
        BY <2>1, <4>1 DEF Sectioned
      <4>3. PICK e \in a..(h - 1) :
                  /\ lines[a] = key /\ \A j \in (a + 1)..(h - 1) : lines[j] # key
                  /\ \A j \in (a + 1)..e : lines[j] \notin SectionKeys
                  /\ e = h - 1 \/ lines[e + 1] \in SectionKeys
                  /\ s.output[key] = Strip(SubSeq(lines, a + 1, e))
        BY <4>2
      <4>4. a \in 1..k /\ e \in a..k
        BY <2>4
      <4>5. key \in SectionKeys
        BY <2>5
      <4>6. ASSUME NEW j \in (a + 1)..k PROVE lines[j] # key
        <5>1. j \in (a + 1)..(h - 1) \/ j = h \/ j \in (h + 1)..k
          BY <2>4
        <5> QED
          BY <2>1, <3>2, <4>3, <4>5, <5>1
      <4>7. e = k \/ lines[e + 1] \in SectionKeys
        <5>1. CASE e = h - 1
          <6>1. e + 1 = h
            BY <2>4, <5>1
          <6> QED
            BY <2>1, <2>3, <6>1
        <5> QED
          BY <4>3, <5>1
      <4> QED
        BY <4>1, <4>3, <4>4, <4>6, <4>7
    <3> QED
      BY <3>1, <3>2
  <2> QED
    BY <2>5, <2>6 DEF Sectioned, out
<1> QED
  BY <1>1, <1>2

LEMMA ReadOn ==
  ASSUME NEW lines \in Seq(STRING), NEW k \in 0..(Len(lines) - 1), NEW s \in Reader, HasRead(lines, s, k)
  PROVE  HasRead(lines, ReadLine(s, lines[k + 1]), k + 1)
<1> DEFINE line == lines[k + 1]
           t == ReadLine(s, line)
<1>1. k \in Nat /\ k + 1 \in 1..Len(lines) /\ k \in 0..Len(lines) /\ (k + 1) - 1 = k
  OBVIOUS
<1>2. line \in STRING
  BY <1>1
<1> HIDE DEF line
<1>3. CASE line \in SectionKeys
  <2>1. t.output = SaveSection(s) /\ t.key = line /\ t.lines = << >>
    BY <1>2, <1>3, LineRead
  <2>2. Sectioned(lines, SaveSection(s), k)
    BY <1>1, SectionedWhenSaved
  <2>3. line # ""
    BY <1>3 DEF SectionKeys
  <2>4. SubSeq(lines, (k + 1) + 1, k + 1) = << >>
    BY <1>1
  <2>5. \A j \in ((k + 1) + 1)..(k + 1) : lines[j] \notin SectionKeys
    BY <1>1
  <2>6. k + 1 \in 1..(k + 1) /\ lines[k + 1] = t.key
    BY <1>1, <2>1 DEF line
  <2> HIDE DEF t
  <2> QED
    BY <1>1, <2>1, <2>2, <2>3, <2>4, <2>5, <2>6 DEF HasRead, line, t
<1>4. CASE line \notin SectionKeys
  <2>1. /\ t.output = s.output /\ t.key = s.key
        /\ s.key # "" => t.lines = Append(s.lines, line)
    BY <1>2, <1>4, LineRead
  <2>2. CASE s.key = ""
    <3>1. DOMAIN s.output = {} /\ \A j \in 1..k : lines[j] \notin SectionKeys
      BY <2>2 DEF HasRead
    <3>2. \A j \in 1..(k + 1) : lines[j] \notin SectionKeys
      <4>1. \A j \in 1..(k + 1) : j \in 1..k \/ j = k + 1
        BY <1>1
      <4> QED
        BY <1>4, <3>1, <4>1 DEF line
    <3> HIDE DEF t
    <3> QED
      BY <2>1, <2>2, <3>1, <3>2 DEF HasRead, t, line
  <2>3. CASE s.key # ""
    <3>1. PICK h \in 1..k :
               /\ lines[h] = s.key /\ \A j \in (h + 1)..k : lines[j] \notin SectionKeys
               /\ s.lines = SubSeq(lines, h + 1, k)
               /\ Sectioned(lines, s.output, h - 1)
      BY <2>3 DEF HasRead
    <3>2. h \in 1..(k + 1)
      BY <1>1
    <3>3. \A j \in (h + 1)..(k + 1) : lines[j] \notin SectionKeys
      <4>1. \A j \in (h + 1)..(k + 1) : j \in (h + 1)..k \/ j = k + 1
        BY <1>1
      <4> QED
        BY <1>4, <3>1, <4>1 DEF line
    <3>4. SubSeq(lines, h + 1, k + 1) = Append(SubSeq(lines, h + 1, k), lines[k + 1])
      <4>1. \A j \in (h + 1)..(k + 1) : lines[j] \in STRING
        BY <1>1
      <4> QED
        BY <1>1, <4>1
    <3>5. t.lines = SubSeq(lines, h + 1, k + 1)
      BY <2>1, <2>3, <3>1, <3>4 DEF line
    <3> HIDE DEF t
    <3> QED
      BY <2>1, <2>3, <3>1, <3>2, <3>3, <3>5 DEF HasRead, t, line
  <2> QED
    BY <2>2, <2>3
<1> QED
  BY <1>3, <1>4

LEMMA SectionsExtracted ==
  ASSUME NEW lines \in Seq(STRING)
  PROVE  Sectioned(lines, ExtractSections(lines), Len(lines)) /\ ExtractSections(lines) \in Outputs
<1>1. PICK f \in [0..Len(lines) -> Reader] :
         /\ f[0] = NoSections /\ \A i \in 1..Len(lines) : f[i] = ReadLine(f[i - 1], lines[i])
         /\ FoldLeft(ReadLine, NoSections, lines) = f[Len(lines)]
  BY ReaderFold
<1> DEFINE S == {k \in 0..Len(lines) : HasRead(lines, f[k], k)}
<1>2. Len(lines) \in Nat
  OBVIOUS
<1>3. 0 \in S
  <2>1. NoSections.key = "" /\ DOMAIN NoSections.output = {}
    BY DEF NoSections
  <2>2. \A j \in 1..0 : lines[j] \notin SectionKeys
    OBVIOUS
  <2>3. HasRead(lines, NoSections, 0)
    BY ONLY <2>1, <2>2 DEF HasRead
  <2> QED
    BY <1>1, <1>2, <2>3
<1>4. ASSUME NEW k \in 0..(Len(lines) - 1), k \in S PROVE k + 1 \in S
  <2>1. f[k] \in Reader /\ k + 1 \in 1..Len(lines) /\ (k + 1) - 1 = k
    BY <1>1, <1>2, <1>4
  <2>2. HasRead(lines, ReadLine(f[k], lines[k + 1]), k + 1)
    BY <1>4, <2>1, ReadOn
  <2>3. f[k + 1] = ReadLine(f[k], lines[k + 1])
    BY <1>1, <2>1
  <2> QED
    BY <1>2, <2>1, <2>2, <2>3
<1>5. 0..Len(lines) \subseteq S
  <2> HIDE DEF S
  <2> QED
    BY <1>2, <1>3, <1>4, InductTo
<1>6. HasRead(lines, f[Len(lines)], Len(lines)) /\ f[Len(lines)] \in Reader
  BY <1>1, <1>2, <1>5
<1>7. ExtractSections(lines) = SaveSection(f[Len(lines)])
  BY <1>1 DEF ExtractSections, NoSections
<1>8. Len(lines) \in 0..Len(lines)
  BY <1>2
<1> QED
  BY <1>6, <1>7, <1>8, SectionedWhenSaved, SectionSaved

LEMMA SectionsRight ==
  ASSUME NEW lines \in Seq(STRING)
  PROVE  ExtractSections(lines) = [key \in ToSet(lines) \cap SectionKeys |-> Section(lines, key)]
<1> DEFINE out == ExtractSections(lines)
           n == Len(lines)
<1>1. n \in Nat /\ DOMAIN lines = 1..n
  OBVIOUS
<1>2. Sectioned(lines, out, n) /\ out \in Outputs
  BY SectionsExtracted
<1> HIDE DEF out, n
<1>3. DOMAIN out = ToSet(lines) \cap SectionKeys
  <2>1. ToSet(lines) = {lines[j] : j \in 1..n}
    BY <1>1 DEF ToSet
  <2> QED
    BY <1>2, <2>1 DEF Sectioned
<1>4. ASSUME NEW key \in DOMAIN out PROVE out[key] = Section(lines, key)
  <2>1. PICK h \in 1..n : \E e \in h..n :
             /\ lines[h] = key /\ \A j \in (h + 1)..n : lines[j] # key
             /\ \A j \in (h + 1)..e : lines[j] \notin SectionKeys
             /\ e = n \/ lines[e + 1] \in SectionKeys
             /\ out[key] = Strip(SubSeq(lines, h + 1, e))
    BY <1>2 DEF Sectioned
  <2>2. PICK e \in h..n :
             /\ lines[h] = key /\ \A j \in (h + 1)..n : lines[j] # key
             /\ \A j \in (h + 1)..e : lines[j] \notin SectionKeys
             /\ e = n \/ lines[e + 1] \in SectionKeys
             /\ out[key] = Strip(SubSeq(lines, h + 1, e))
    BY <2>1
  <2> DEFINE header == CHOOSE i \in DOMAIN lines :
                          lines[i] = key /\ \A j \in (i + 1)..Len(lines) : lines[j] # key
             Ends(x) == (\A j \in (header + 1)..x : lines[j] \notin SectionKeys)
                        /\ (x = Len(lines) \/ lines[x + 1] \in SectionKeys)
             end == CHOOSE x \in header..Len(lines) : Ends(x)
  <2>3. header \in DOMAIN lines /\ lines[header] = key /\ \A j \in (header + 1)..Len(lines) : lines[j] # key
    <3>1. \E i \in DOMAIN lines : lines[i] = key /\ \A j \in (i + 1)..Len(lines) : lines[j] # key
      BY <1>1, <2>2 DEF n
    <3> QED
      BY <3>1
  <2> HIDE DEF header
  <2>4. header = h
    <3>1. header \in 1..n /\ (\A j \in (header + 1)..n : lines[j] # key)
      BY <1>1, <2>3 DEF n
    <3>2. ~(h < header) /\ ~(header < h)
      BY <1>1, <2>2, <2>3, <3>1
    <3> QED
      BY <1>1, <3>1, <3>2
  <2>5. end \in header..Len(lines) /\ Ends(end)
    <3>1. e \in header..Len(lines) /\ Ends(e)
      BY <2>2, <2>4 DEF n
    <3> HIDE DEF Ends
    <3> QED
      BY <3>1
  <2> HIDE DEF end
  <2>6. end = e
    <3>1. end \in h..n /\ (\A j \in (h + 1)..end : lines[j] \notin SectionKeys) /\ (end = n \/ lines[end + 1] \in SectionKeys)
      BY <2>4, <2>5 DEF n
    <3>2. ~(end < e)
      <4> SUFFICES ASSUME end < e PROVE FALSE
        OBVIOUS
      <4>1. end # n /\ end + 1 \in (h + 1)..e
        BY <1>1, <3>1
      <4> QED
        BY <2>2, <3>1, <4>1
    <3>3. ~(e < end)
      <4> SUFFICES ASSUME e < end PROVE FALSE
        OBVIOUS
      <4>1. e # n /\ e + 1 \in (h + 1)..end
        BY <1>1, <3>1
      <4> QED
        BY <2>2, <3>1, <4>1
    <3> QED
      BY <1>1, <3>1, <3>2, <3>3
  <2>7. Section(lines, key) = Strip(SubSeq(lines, header + 1, end))
    BY DEF Section, header, end, Ends
  <2> QED
    BY <2>2, <2>4, <2>6, <2>7
<1>5. out = [key \in DOMAIN out |-> out[key]]
  BY <1>2 DEF Outputs
<1> QED
  BY <1>3, <1>4, <1>5 DEF out

LEMMA TheSections == SectionsAsWritten
BY TextAssumption, SectionsRight DEF SectionsAsWritten

(* Each section of an answer is what stands between its last header and    *)
(* the next header, whatever the answer (_extract_sections).               *)
THEOREM SectionsAsWrittenHolds == PipelineSpec => []SectionsAsWritten
<1> QED
  BY TheSections, PTL

-----------------------------------------------------------------------------
(***************************************************************************)
(* Texts put together of pieces.                                           *)
(***************************************************************************)

LEMMA Regrouped ==
  ASSUME NEW T, NEW x \in Seq(T), NEW y \in Seq(T), NEW z \in Seq(T)
  PROVE  (x \o y) \o z = x \o (y \o z)
BY ConcatAssociative

(* A sequence of pieces is flattened from its first to its last. *)
Flattens(seqs, T, g) ==
    /\ g \in [0..Len(seqs) -> Seq(T)] /\ g[0] = << >>
    /\ \A i \in 1..Len(seqs) : g[i] = g[i - 1] \o seqs[i]
    /\ FlattenSeq(seqs) = g[Len(seqs)]

LEMMA FlattenRuns ==
  ASSUME NEW T, NEW seqs \in Seq(Seq(T))
  PROVE  \E g : Flattens(seqs, T, g)
<1> DEFINE n == Len(seqs)
           X == Seq(T)
           step == [i \in 1..n |-> [x \in X |-> x \o seqs[i]]]
<1>1. n \in Nat /\ DOMAIN seqs = 1..n /\ \A i \in 1..n : seqs[i] \in Seq(T)
  OBVIOUS
<1>2. step \in [1..n -> [X -> X]]
  <2>1. \A i \in 1..n : \A x \in X : x \o seqs[i] \in X
    <3> HIDE DEF n
    <3> SUFFICES ASSUME NEW i \in 1..n, NEW x \in Seq(T) PROVE x \o seqs[i] \in Seq(T)
      OBVIOUS
    <3>1. seqs[i] \in Seq(T)
      BY <1>1
    <3> QED
      BY <3>1
  <2> HIDE DEF n, X
  <2> QED
    BY <2>1
<1>3. << >> \in X
  OBVIOUS
<1>4. PICK g : Runs(n, X, << >>, step, g)
  <2> HIDE DEF n, X, step
  <2> QED
    BY <1>1, <1>2, <1>3, RecursionExists
<1>5. /\ g \in [0..n -> Seq(T)] /\ g[0] = << >>
      /\ \A i \in 1..n : g[i] = g[i - 1] \o seqs[i]
  <2>1. g \in [0..n -> X] /\ g[0] = << >> /\ \A i \in 1..n : g[i] = step[i][g[i - 1]]
    BY <1>4 DEF Runs
  <2>2. ASSUME NEW i \in 1..n PROVE step[i][g[i - 1]] = g[i - 1] \o seqs[i]
    <3> HIDE DEF n, X
    <3>1. g[i - 1] \in X
      BY <1>1, <2>1
    <3> QED
      BY <3>1
  <2> QED
    BY <2>1, <2>2
<1> HIDE DEF n, step, X
<1>6. FlattenSeq(seqs) = g[n]
  <2>1. CASE n = 0
    BY <1>5, <2>1 DEF FlattenSeq, n
  <2>2. CASE n # 0
    <3> DEFINE F(f) == [i \in 1..n |-> IF i = 1 THEN seqs[i] ELSE f[i - 1] \o seqs[i]]
               flatten == CHOOSE f : f = F(f)
    <3>1. FlattenSeq(seqs) = flatten[n]
      BY <2>2 DEF FlattenSeq, n
    <3>2. \E f : f = F(f)
      <4> DEFINE h == [i \in 1..n |-> g[i]]
      <4>1. ASSUME NEW i \in 1..n PROVE h[i] = F(h)[i]
        <5>1. CASE i = 1
          <6>1. g[1] = g[0] \o seqs[1] /\ seqs[1] \in Seq(T)
            <7>1. 1 \in 1..n /\ 1 - 1 = 0
              BY <5>1
            <7> QED
              BY <1>1, <1>5, <7>1
          <6>2. << >> \o seqs[1] = seqs[1]
            BY <6>1, ConcatEmptySeq
          <6>3. g[1] = seqs[1]
            BY <1>5, <6>1, <6>2
          <6> QED
            BY <5>1, <6>3
        <5>2. CASE i # 1
          <6>1. i - 1 \in 1..n
            BY <1>1, <5>2
          <6>2. g[i] = g[i - 1] \o seqs[i] /\ h[i - 1] = g[i - 1] /\ h[i] = g[i]
            BY <1>5, <6>1
          <6> HIDE DEF h
          <6> QED
            BY <5>2, <6>2
        <5> QED
          BY <5>1, <5>2
      <4>2. h = F(h)
        BY <4>1
      <4> QED
        BY <4>2
    <3>3. flatten = F(flatten)
      <4> HIDE DEF F
      <4> QED
        BY <3>2
    <3> HIDE DEF flatten
    <3>4. \A i \in 1..n : flatten[i] = IF i = 1 THEN seqs[i] ELSE flatten[i - 1] \o seqs[i]
      BY <3>3
    <3> DEFINE S == {k \in 0..n : k = 0 \/ flatten[k] = g[k]}
    <3>5. 0 \in S
      BY <1>1
    <3>6. ASSUME NEW k \in 0..(n - 1), k \in S PROVE k + 1 \in S
      <4>1. k + 1 \in 1..n /\ (k + 1) - 1 = k /\ k + 1 \in 0..n
        BY <1>1
      <4>2. g[k + 1] = g[k] \o seqs[k + 1] /\ seqs[k + 1] \in Seq(T)
        BY <1>1, <1>5, <4>1
      <4>3. CASE k = 0
        <5>1. k + 1 = 1
          BY <4>3
        <5>2. << >> \o seqs[1] = seqs[1]
          BY <4>2, <5>1, ConcatEmptySeq
        <5>3. flatten[1] = seqs[1] /\ g[1] = seqs[1]
          BY <1>5, <3>4, <4>1, <4>2, <4>3, <5>1, <5>2
        <5> QED
          BY <4>1, <5>1, <5>3
      <4>4. CASE k # 0
        <5>1. k + 1 # 1
          BY <4>4
        <5>2. flatten[k + 1] = flatten[(k + 1) - 1] \o seqs[k + 1]
          BY <3>4, <4>1, <5>1
        <5>3. flatten[k + 1] = g[k + 1]
          BY <3>6, <4>1, <4>2, <4>4, <5>2
        <5> QED
          BY <4>1, <5>3
      <4> QED
        BY <4>3, <4>4
    <3> HIDE DEF S
    <3>7. 0..n \subseteq S
      BY <1>1, <3>5, <3>6, InductTo
    <3> QED
      BY <1>1, <2>2, <3>1, <3>7 DEF S
  <2> QED
    BY <2>1, <2>2
<1> QED
  BY <1>5, <1>6 DEF Flattens, n

(* PiecesTyped from a + 1 to b that are the symbols of a text there, *)
(* or that are empty: what they add to what is put together. *)
Kept(T, seqs, g, text, a, b) ==
    /\ seqs \in Seq(Seq(T)) /\ Flattens(seqs, T, g)
    /\ text \in Seq(T) /\ Len(text) = Len(seqs)
    /\ a \in 0..Len(seqs) /\ b \in a..Len(seqs)
    /\ \A i \in (a + 1)..b : seqs[i] = <<text[i]>>

Longer(g, text, a, b) == g[b] = g[a] \o SubSeq(text, a + 1, b)

LEMMA StretchKept ==
  ASSUME NEW T, NEW seqs, NEW g, NEW text, NEW a, NEW b, Kept(T, seqs, g, text, a, b)
  PROVE  Longer(g, text, a, b)
<1>0. /\ seqs \in Seq(Seq(T)) /\ Flattens(seqs, T, g)
      /\ text \in Seq(T) /\ Len(text) = Len(seqs)
      /\ a \in 0..Len(seqs) /\ b \in a..Len(seqs)
      /\ \A i \in (a + 1)..b : seqs[i] = <<text[i]>>
  BY Zenon DEF Kept
<1> USE <1>0
<1> DEFINE n == Len(seqs)
           S == {k \in a..b : g[k] = g[a] \o SubSeq(text, a + 1, k)}
<1>1. n \in Nat /\ a \in 0..n /\ b \in a..n /\ Len(text) = n /\ a \in Nat /\ b \in Nat /\ a <= b
  OBVIOUS
<1>2. /\ g \in [0..n -> Seq(T)]
      /\ \A i \in 1..n : g[i] = g[i - 1] \o seqs[i]
  BY DEF Flattens
<1> HIDE DEF n
<1>3. g[a] \in Seq(T)
  BY <1>1, <1>2
<1>4. a \in S
  <2>1. SubSeq(text, a + 1, a) = << >>
    BY <1>1
  <2>2. g[a] \o << >> = g[a]
    BY <1>3, ConcatEmptySeq
  <2>3. g[a] = g[a] \o SubSeq(text, a + 1, a)
    BY ONLY <2>1, <2>2, Zenon
  <2>4. a \in a..b
    BY <1>1
  <2> QED
    BY <2>3, <2>4
<1>5. ASSUME NEW k \in a..(b - 1), k \in S PROVE k + 1 \in S
  <2>1. k + 1 \in (a + 1)..b /\ k + 1 \in 1..n /\ (k + 1) - 1 = k /\ k + 1 \in a..b /\ k \in Nat
    BY <1>1
  <2>2. g[k + 1] = g[k] \o <<text[k + 1]>>
    BY <1>2, <2>1
  <2>3. g[k] = g[a] \o SubSeq(text, a + 1, k)
    BY <1>5
  <2> DEFINE kept == SubSeq(text, a + 1, k)
             last == <<text[k + 1]>>
  <2>4. kept \in Seq(T) /\ last \in Seq(T)
    <3>1. text[k + 1] \in T
      BY <1>1, <2>1
    <3>2. \A i \in (a + 1)..k : text[i] \in T
      BY <1>1, <2>1
    <3> QED
      BY <1>1, <2>1, <3>1, <3>2
  <2>5. kept \o last = SubSeq(text, a + 1, k + 1)
    <3>1. a + 1 \in 1..Len(text) /\ k + 1 \in (a + 1)..Len(text)
      BY <1>1, <2>1
    <3>2. SubSeq(text, a + 1, k + 1) = SubSeq(text, a + 1, (k + 1) - 1) \o <<text[k + 1]>>
      BY ONLY <3>1, <1>0, SubSeqRecursiveSecond, Zenon
    <3> QED
      BY <2>1, <3>2
  <2> HIDE DEF kept, last
  <2>6. (g[a] \o kept) \o last = g[a] \o (kept \o last)
    <3> DEFINE x == g[a]
    <3>1. x \in Seq(T)
      BY <1>3
    <3> HIDE DEF x
    <3>2. (x \o kept) \o last = x \o (kept \o last)
      BY ONLY <2>4, <3>1, Regrouped
    <3> QED
      BY <3>2 DEF x
  <2>7. g[k + 1] = g[a] \o SubSeq(text, a + 1, k + 1)
    BY <2>2, <2>3, <2>5, <2>6 DEF kept, last
  <2> QED
    BY <2>1, <2>7
<1> HIDE DEF S
<1>6. b \in S
  BY <1>1, <1>4, <1>5, InductFrom
<1> QED
  BY ONLY <1>6, Zenon DEF S, Longer

Dropped(T, seqs, g, a, b) ==
    /\ seqs \in Seq(Seq(T)) /\ Flattens(seqs, T, g)
    /\ a \in 0..Len(seqs) /\ b \in a..Len(seqs)
    /\ \A i \in (a + 1)..b : seqs[i] = << >>

LEMMA StretchDropped ==
  ASSUME NEW T, NEW seqs, NEW g, NEW a, NEW b, Dropped(T, seqs, g, a, b)
  PROVE  g[b] = g[a]
<1>0. /\ seqs \in Seq(Seq(T)) /\ Flattens(seqs, T, g)
      /\ a \in 0..Len(seqs) /\ b \in a..Len(seqs)
      /\ \A i \in (a + 1)..b : seqs[i] = << >>
  BY Zenon DEF Dropped
<1> USE <1>0
<1> DEFINE n == Len(seqs)
           S == {k \in a..b : g[k] = g[a]}
<1>1. n \in Nat /\ a \in 0..n /\ b \in a..n /\ a \in Nat /\ b \in Nat /\ a <= b
  OBVIOUS
<1>2. /\ g \in [0..n -> Seq(T)]
      /\ \A i \in 1..n : g[i] = g[i - 1] \o seqs[i]
  BY DEF Flattens
<1> HIDE DEF n
<1>3. g[a] \in Seq(T)
  BY <1>1, <1>2
<1>4. a \in S
  BY <1>1
<1>5. ASSUME NEW k \in a..(b - 1), k \in S PROVE k + 1 \in S
  <2>1. k + 1 \in (a + 1)..b /\ k + 1 \in 1..n /\ (k + 1) - 1 = k /\ k + 1 \in a..b
    BY <1>1
  <2>2. g[k + 1] = g[k] \o << >>
    BY <1>2, <2>1
  <2>3. g[a] \o << >> = g[a]
    BY <1>3, ConcatEmptySeq
  <2>4. g[k + 1] = g[a]
    BY <1>5, <2>2, <2>3
  <2> QED
    BY <2>1, <2>4
<1> HIDE DEF S
<1>6. b \in S
  BY <1>1, <1>4, <1>5, InductFrom
<1> QED
  BY <1>6 DEF S

-----------------------------------------------------------------------------
(***************************************************************************)
(* The redaction of a text.                                                *)
(***************************************************************************)
Hit == [start : Nat \ {0}, end : Nat]

(* Hits within a text of which no two share a symbol. *)
Apart(hits) == \A s, r \in hits : s = r \/ s.end < r.start \/ r.end < s.start
InText(text, hits) == \A s \in hits : s.start \in 1..Len(text) /\ s.end \in s.start..Len(text)

LEMMA MinOfTwo == ASSUME NEW a \in Nat, NEW b \in Nat PROVE Min({a, b}) = IF a <= b THEN a ELSE b
<1> DEFINE S == {a, b}
           m == IF a <= b THEN a ELSE b
<1>1. \E x \in S : \A y \in S : x <= y
  BY m \in S
<1>2. Min(S) \in S /\ \A y \in S : Min(S) <= y
  <2> HIDE DEF S
  <2> QED
    BY <1>1 DEF Min
<1> QED
  BY <1>2

LEMMA SliceTyped ==
  ASSUME NEW T, NEW x \in Seq(T), NEW a \in Nat, NEW b \in 0..Len(x)
  PROVE  SubSeq(x, a + 1, b) \in Seq(T)
<1>1. \A i \in (a + 1)..b : x[i] \in T
  OBVIOUS
<1>2. a + 1 \in Int /\ b \in Int
  OBVIOUS
<1> QED
  BY <1>1, <1>2, SubSeqProperties

(* The symbols of a text, of the labels in it, and of what a diff adds, and *)
(* the one that stands for other text. *)
Symbol == STRING \cup {"[", "label", "]", "+", "word"}

LEMMA LabelTyped == Label \in Seq(Symbol) /\ Seq(STRING) \subseteq Seq(Symbol)
<1>1. <<"[", "label", "]">> \in Seq({"[", "label", "]"})
  OBVIOUS
<1>2. ASSUME NEW S, NEW T, S \subseteq T PROVE Seq(S) \subseteq Seq(T)
  BY <1>2
<1>3. Seq({"[", "label", "]"}) \subseteq Seq(Symbol) /\ Seq(STRING) \subseteq Seq(Symbol)
  BY <1>2 DEF Symbol
<1> QED
  BY <1>1, <1>3 DEF Label

LEMMA ReplaceTyped ==
  ASSUME NEW x \in Seq(Symbol), NEW s \in Hit
  PROVE  Replace(x, s) \in Seq(Symbol)
<1> DEFINE a == Min({s.start - 1, Len(x)})
<1>1. s.start - 1 \in Nat /\ s.end \in Nat /\ Len(x) \in Nat
  BY DEF Hit
<1>2. a \in 0..Len(x)
  BY <1>1, MinOfTwo
<1> HIDE DEF a
<1>3. SubSeq(x, 1, a) \in Seq(Symbol)
  BY <1>2, SliceTyped, 0 + 1 = 1, 0 \in Nat
<1>4. SubSeq(x, s.end + 1, Len(x)) \in Seq(Symbol)
  BY <1>1, SliceTyped
<1>5. SubSeq(x, 1, a) \o Label \in Seq(Symbol)
  BY <1>3, LabelTyped
<1>6. (SubSeq(x, 1, a) \o Label) \o SubSeq(x, s.end + 1, Len(x)) \in Seq(Symbol)
  <2> DEFINE l == SubSeq(x, 1, a) \o Label
             r == SubSeq(x, s.end + 1, Len(x))
  <2>1. l \in Seq(Symbol) /\ r \in Seq(Symbol)
    BY <1>4, <1>5
  <2> HIDE DEF l, r
  <2>2. l \o r \in Seq(Symbol)
    BY <2>1
  <2> QED
    BY <2>2 DEF l, r
<1> QED
  BY ONLY <1>6, Zenon DEF Replace, a

LEMMA RedactTyped ==
  ASSUME NEW x \in Seq(Symbol), NEW hits \in SUBSET Hit, NEW i
  PROVE  RedactAt(x, hits, i) \in Seq(Symbol)
<1>1. CASE \E s \in hits : s.start = i
  <2> DEFINE s == CHOOSE s \in hits : s.start = i
  <2>1. s \in Hit
    BY <1>1
  <2>2. RedactAt(x, hits, i) = Replace(x, s)
    BY <1>1 DEF RedactAt
  <2> HIDE DEF s
  <2> QED
    BY <2>1, <2>2, ReplaceTyped
<1>2. CASE ~\E s \in hits : s.start = i
  BY <1>2 DEF RedactAt
<1> QED
  BY <1>1, <1>2

(* The hits are replaced at one position after the other. *)
LEMMA SubstituteFold ==
  ASSUME NEW text \in Seq(Symbol), NEW hits \in SUBSET Hit, NEW positions \in Seq(Nat)
  PROVE  \E f \in [0..Len(positions) -> Seq(Symbol)] :
            /\ f[0] = text /\ \A i \in 1..Len(positions) : f[i] = RedactAt(f[i - 1], hits, positions[i])
            /\ FoldLeft(LAMBDA t, i : RedactAt(t, hits, i), text, positions) = f[Len(positions)]
<1> DEFINE n == Len(positions)
           X == Seq(Symbol)
           none == text
           Fold(iter) == [s \in SUBSET (1..n) |->
                            IF s = {} THEN none ELSE RedactAt(iter[s \ {Max(s)}], hits, positions[Max(s)])]
           step == [i \in 1..n |-> [x \in X |-> RedactAt(x, hits, positions[i])]]
<1>1. n \in Nat /\ none \in X /\ DOMAIN positions = 1..n
  <2> HIDE DEF n
  <2>1. Len(positions) \in Nat /\ DOMAIN positions = 1..Len(positions)
    OBVIOUS
  <2> QED
    BY <2>1 DEF n
<1>2. step \in [1..n -> [X -> X]]
  <2>1. \A i \in 1..n : \A x \in X : RedactAt(x, hits, positions[i]) \in X
    BY RedactTyped
  <2> HIDE DEF n, X
  <2> QED
    BY <2>1
<1> DEFINE iter == CHOOSE iter : iter = Fold(iter)
<1>3. FoldLeft(LAMBDA t, i : RedactAt(t, hits, i), text, positions) = iter[1..n]
  BY <1>1 DEF FoldLeft, MapThenFoldSet
<1>4. \A s \in SUBSET (1..n) : s # {} => Max(s) \in 1..n /\ s \ {Max(s)} \in SUBSET (1..n)
  <2> HIDE DEF n
  <2> SUFFICES ASSUME NEW s \in SUBSET (1..n), s # {} PROVE Max(s) \in 1..n
    OBVIOUS
  <2>1. s \subseteq 0..n
    BY <1>1
  <2> QED
    BY <1>1, <2>1, Greatest
<1>5. \E f : f = Fold(f)
  <2>1. PICK f \in [SUBSET (1..n) -> X] : Folds(n, X, none, step, f)
    <3> HIDE DEF n, X, step, none
    <3> QED
      BY <1>1, <1>2, FoldExists
  <2>2. ASSUME NEW s \in SUBSET (1..n)
        PROVE  f[s] = IF s = {} THEN none ELSE RedactAt(f[s \ {Max(s)}], hits, positions[Max(s)])
    <3> HIDE DEF X, none, n
    <3>1. s # {} => Max(s) \in 1..n /\ f[s \ {Max(s)}] \in X
      BY <1>4, <2>1
    <3>2. s # {} => step[Max(s)][f[s \ {Max(s)}]] = RedactAt(f[s \ {Max(s)}], hits, positions[Max(s)])
      BY <3>1
    <3> HIDE DEF step
    <3> QED
      BY <2>1, <3>1, <3>2 DEF Folds
  <2> HIDE DEF step, n, X, none
  <2>3. f = Fold(f)
    BY <2>1, <2>2
  <2> QED
    BY <2>3
<1>6. iter = Fold(iter)
  <2> HIDE DEF Fold
  <2> QED
    BY <1>5
<1> HIDE DEF iter
<1>7. Folds(n, X, none, step, iter)
  <2> SUFFICES ASSUME NEW s \in SUBSET (1..n)
               PROVE  /\ s = {} => iter[s] = none
                      /\ s # {} /\ iter[s \ {Max(s)}] \in X => iter[s] = step[Max(s)][iter[s \ {Max(s)}]]
    BY DEF Folds
  <2> HIDE DEF X, none, n
  <2>1. iter[s] = IF s = {} THEN none ELSE RedactAt(iter[s \ {Max(s)}], hits, positions[Max(s)])
    BY <1>6
  <2>2. s # {} /\ iter[s \ {Max(s)}] \in X =>
           step[Max(s)][iter[s \ {Max(s)}]] = RedactAt(iter[s \ {Max(s)}], hits, positions[Max(s)])
    BY <1>4
  <2> HIDE DEF step
  <2> QED
    BY <2>1, <2>2
<1>8. PICK g : Runs(n, X, none, step, g) /\ g[n] = iter[1..n]
  <2> HIDE DEF n, X, step, none
  <2> QED
    BY <1>1, <1>2, <1>7, FoldRuns, SMTT(30)
<1>9. g \in [0..n -> X] /\ g[0] = none /\ \A i \in 1..n : g[i] = step[i][g[i - 1]]
  BY <1>8 DEF Runs
<1>10. \A i \in 1..n : g[i] = RedactAt(g[i - 1], hits, positions[i])
  <2> SUFFICES ASSUME NEW i \in 1..n PROVE g[i] = RedactAt(g[i - 1], hits, positions[i])
    OBVIOUS
  <2> HIDE DEF n, X, none
  <2>1. i - 1 \in 0..n /\ g[i - 1] \in X
    BY <1>1, <1>9
  <2>2. step[i][g[i - 1]] = RedactAt(g[i - 1], hits, positions[i])
    BY <2>1
  <2> HIDE DEF step
  <2> QED
    BY <1>9, <2>2
<1> HIDE DEF X, n, step, Fold
<1>11. g \in [0..n -> X] /\ g[0] = none /\ (\A i \in 1..n : g[i] = RedactAt(g[i - 1], hits, positions[i]))
       /\ FoldLeft(LAMBDA t, i : RedactAt(t, hits, i), text, positions) = g[n]
  BY <1>3, <1>8, <1>9, <1>10
<1> QED
  BY <1>11 DEF X, n, none

(* A text in two halves. *)
LEMMA Halves ==
  ASSUME NEW T, NEW u \in Seq(T), NEW v \in Seq(T)
  PROVE  /\ SubSeq(u \o v, 1, Len(u)) = u
         /\ SubSeq(u \o v, Len(u) + 1, Len(u \o v)) = v
         /\ Len(u \o v) = Len(u) + Len(v)
<1>1. Len(u \o v) = Len(u) + Len(v) /\ Len(u) \in Nat /\ Len(v) \in Nat /\ u \o v \in Seq(T)
  BY ConcatProperties
<1>2. SubSeq(u \o v, 1, Len(u)) = u
  <2>1. CASE u = << >>
    <3>1. Len(u) = 0
      BY <2>1
    <3> QED
      BY <2>1, <3>1, SubSeqEmpty
  <2>2. CASE u # << >>
    <3>1. 1 \in 1..Len(u) /\ Len(u) \in 1..Len(u)
      BY <2>2, <1>1
    <3>2. SubSeq(u \o v, 1, Len(u)) = SubSeq(u, 1, Len(u))
      BY <3>1, SubSeqOfConcat1
    <3> QED
      BY <3>2, SubSeqFull
  <2> QED
    BY <2>1, <2>2
<1>3. SubSeq(u \o v, Len(u) + 1, Len(u) + Len(v)) = v
  <2>1. CASE v = << >>
    <3>1. Len(v) = 0
      BY <2>1
    <3> QED
      BY <1>1, <2>1, <3>1, SubSeqEmpty
  <2>2. CASE v # << >>
    <3>1. Len(u) + 1 \in (Len(u) + 1)..(Len(u) + Len(v)) /\ Len(u) + Len(v) \in (Len(u) + 1)..(Len(u) + Len(v))
      BY <2>2, <1>1
    <3>2. SubSeq(u \o v, Len(u) + 1, Len(u) + Len(v)) = SubSeq(v, (Len(u) + 1) - Len(u), (Len(u) + Len(v)) - Len(u))
      BY <3>1, SubSeqOfConcat2
    <3>3. (Len(u) + 1) - Len(u) = 1 /\ (Len(u) + Len(v)) - Len(u) = Len(v)
      BY <1>1
    <3> QED
      BY <3>2, <3>3, SubSeqFull
  <2> QED
    BY <2>1, <2>2
<1> QED
  BY <1>1, <1>2, <1>3

LEMMA TextsRegrouped ==
  ASSUME NEW x \in Seq(Symbol), NEW y \in Seq(Symbol), NEW z \in Seq(Symbol)
  PROVE  (x \o y) \o z = x \o (y \o z) /\ y \o z \in Seq(Symbol)
BY Regrouped

LEMMA OneSymbol ==
  ASSUME NEW text \in Seq(Symbol), NEW p \in 1..Len(text)
  PROVE  SubSeq(text, p, p) = <<text[p]>> /\ <<text[p]>> \in Seq(Symbol)
<1>1. text[p] \in Symbol /\ p \in 1..Len(text) /\ p \in p..Len(text)
  OBVIOUS
<1>2. SubSeq(text, p, p) = SubSeq(text, p, p - 1) \o <<text[p]>>
  BY <1>1, SubSeqRecursiveSecond
<1>3. SubSeq(text, p, p - 1) = << >>
  OBVIOUS
<1>4. <<text[p]>> \in Seq(Symbol)
  BY <1>1
<1>5. << >> \o <<text[p]>> = <<text[p]>>
  BY <1>4, ConcatEmptySeq
<1> QED
  BY ONLY <1>2, <1>3, <1>4, <1>5, Zenon

(* A text that starts with the first e symbols of another. *)
Starts(x, text, e, w) ==
    text \in Seq(Symbol) /\ w \in Seq(Symbol) /\ e \in 0..Len(text) /\ x = SubSeq(text, 1, e) \o w

(* What follows the first a symbols of such a text. *)
EndsWith(x, text, a, e, w) == SubSeq(x, a + 1, Len(x)) = SubSeq(text, a + 1, e) \o w

LEMMA TextCut ==
  ASSUME NEW text, NEW e, NEW w, NEW x, Starts(x, text, e, w), NEW a \in 0..e
  PROVE  /\ Starts(x, text, a, SubSeq(text, a + 1, e) \o w)
         /\ SubSeq(x, 1, a) = SubSeq(text, 1, a)
         /\ SubSeq(x, a + 1, Len(x)) = SubSeq(text, a + 1, e) \o w
         /\ Len(x) \in Nat /\ Len(x) >= e /\ x \in Seq(Symbol)
         /\ EndsWith(x, text, a, e, w)
<1> DEFINE h == SubSeq(text, 1, e)
           u == SubSeq(text, 1, a)
           m == SubSeq(text, a + 1, e)
           r == m \o w
<1>1. text \in Seq(Symbol) /\ w \in Seq(Symbol) /\ e \in 0..Len(text) /\ x = h \o w
  BY DEF Starts
<1>2. Len(text) \in Nat /\ a \in Nat /\ e \in Nat /\ a <= e /\ a \in 0..Len(text)
  BY <1>1
<1>3. h \in Seq(Symbol) /\ u \in Seq(Symbol) /\ m \in Seq(Symbol)
  <2>1. 0 \in Nat /\ 0 + 1 = 1
    OBVIOUS
  <2> QED
    BY <1>1, <1>2, <2>1, SliceTyped
<1>4. Len(u) = a /\ Len(h) = e
  BY <1>1, <1>2
<1>5. u \o m = h
  <2>1. 1 \in 1..(Len(text) + 1) /\ a \in (1 - 1)..Len(text) /\ e \in a..Len(text)
    BY <1>1, <1>2
  <2> QED
    BY <1>1, <2>1, ConcatAdjacentSubSeq
<1> HIDE DEF u, m, h
<1>6. x = u \o r /\ r \in Seq(Symbol)
  <2>1. (u \o m) \o w = u \o (m \o w) /\ m \o w \in Seq(Symbol)
    BY <1>1, <1>3, TextsRegrouped, SMTT(30)
  <2> QED
    BY <1>1, <1>5, <2>1, Zenon
<1>7. Len(x) = e + Len(w) /\ x \in Seq(Symbol) /\ Len(w) \in Nat
  <2>1. Len(h \o w) = Len(h) + Len(w) /\ h \o w \in Seq(Symbol)
    BY <1>1, <1>3, ConcatProperties
  <2> QED
    BY <1>1, <1>4, <2>1
<1> HIDE DEF r
<1>8. SubSeq(u \o r, 1, Len(u)) = u /\ SubSeq(u \o r, Len(u) + 1, Len(u \o r)) = r
  BY <1>3, <1>6, Halves
<1>9. SubSeq(x, 1, a) = u /\ SubSeq(x, a + 1, Len(x)) = r
  BY <1>4, <1>6, <1>8
<1>10. Len(x) \in Nat /\ Len(x) >= e
  BY <1>2, <1>7
<1>11. Starts(x, text, a, r)
  BY <1>1, <1>2, <1>6 DEF Starts, u
<1>12. EndsWith(x, text, a, e, w)
  BY ONLY <1>9, Zenon DEF EndsWith, m, r
<1> QED
  BY <1>7, <1>9, <1>10, <1>11, <1>12 DEF u, m, r

LEMMA TextRest ==
  ASSUME NEW text, NEW e, NEW w, NEW x, Starts(x, text, e, w)
  PROVE  SubSeq(x, e + 1, Len(x)) = w
<1> DEFINE h == SubSeq(text, 1, e)
<1>1. text \in Seq(Symbol) /\ w \in Seq(Symbol) /\ e \in 0..Len(text) /\ x = h \o w
  BY DEF Starts
<1>2. Len(h) = e
  BY <1>1
<1>3. h \in Seq(Symbol)
  <2>1. 0 \in Nat /\ 0 + 1 = 1
    OBVIOUS
  <2> QED
    BY <1>1, <2>1, SliceTyped
<1> HIDE DEF h
<1>4. SubSeq(h \o w, Len(h) + 1, Len(h \o w)) = w
  BY <1>1, <1>3, Halves
<1> QED
  BY <1>1, <1>2, <1>4

(* Where the rewritten end of a text begins when the hits that start after *)
(* position p are replaced: a hit over p and p + 1 is still to come. *)
Begins(hits, p, cut) ==
    \/ cut = p + 1 /\ \A s \in hits : ~(s.start <= p /\ p < s.end)
    \/ \E s \in hits : s.start <= p /\ p < s.end /\ cut = s.end + 1

LEMMA BeginsAfter ==
  ASSUME NEW hits \in SUBSET Hit, Apart(hits), NEW p \in Nat, NEW cut, Begins(hits, p, cut),
         NEW s \in hits, s.start <= p, p <= s.end
  PROVE  cut = s.end + 1
<1>1. /\ s.start \in Nat /\ s.end \in Nat
      /\ \A r \in hits : r.start \in Nat /\ r.end \in Nat
  BY DEF Hit
<1>2. CASE s.end = p
  <2>1. ASSUME NEW r \in hits, r.start <= p, p < r.end PROVE FALSE
    <3>1. r # s
      BY <1>2, <2>1
    <3>2. r.end < s.start \/ s.end < r.start
      BY <3>1 DEF Apart
    <3> QED
      BY <1>1, <1>2, <2>1, <3>2
  <2> QED
    BY <1>2, <2>1 DEF Begins
<1>3. CASE s.end # p
  <2>1. p < s.end
    BY <1>1, <1>3
  <2>2. PICK r \in hits : r.start <= p /\ p < r.end /\ cut = r.end + 1
    BY <2>1 DEF Begins
  <2>3. ~(r.end < s.start) /\ ~(s.end < r.start)
    BY <1>1, <2>1, <2>2
  <2>4. r = s
    BY <2>3 DEF Apart
  <2> QED
    BY <2>2, <2>4
<1> QED
  BY <1>2, <1>3

LEMMA BeginsHere ==
  ASSUME NEW hits \in SUBSET Hit, NEW p \in Nat \ {0},
         \A s \in hits : s.start < p => s.end < p
  PROVE  Begins(hits, p - 1, p)
<1>1. \A r \in hits : r.start \in Nat /\ r.end \in Nat
  BY DEF Hit
<1>2. \A s \in hits : ~(s.start <= p - 1 /\ p - 1 < s.end)
  BY <1>1
<1> QED
  BY <1>2 DEF Begins

(* What becomes of the symbol at a position. *)
Piece(text, hits, i) ==
    IF \E s \in hits : s.start = i THEN Label
    ELSE IF \E s \in hits : i \in s.start..s.end THEN << >>
    ELSE <<text[i]>>

LEMMA PiecesTyped ==
  ASSUME NEW text \in Seq(Symbol), NEW hits
  PROVE  /\ [i \in DOMAIN text |-> Piece(text, hits, i)] \in Seq(Seq(Symbol))
         /\ Len([i \in DOMAIN text |-> Piece(text, hits, i)]) = Len(text)
         /\ \A i \in 1..Len(text) : Piece(text, hits, i) \in Seq(Symbol)
<1>1. \A i \in 1..Len(text) : Piece(text, hits, i) \in Seq(Symbol)
  <2> SUFFICES ASSUME NEW i \in 1..Len(text) PROVE Piece(text, hits, i) \in Seq(Symbol)
    OBVIOUS
  <2>1. <<text[i]>> \in Seq(Symbol)
    <3>1. text[i] \in Symbol
      OBVIOUS
    <3> QED
      BY <3>1
  <2>2. << >> \in Seq(Symbol)
    OBVIOUS
  <2> QED
    BY <2>1, <2>2, LabelTyped DEF Piece
<1>2. DOMAIN text = 1..Len(text) /\ Len(text) \in Nat
  OBVIOUS
<1>3. [i \in 1..Len(text) |-> Piece(text, hits, i)] \in [1..Len(text) -> Seq(Symbol)]
  BY <1>1
<1> DEFINE n == Len(text)
           P == [i \in 1..n |-> Piece(text, hits, i)]
           X == Seq(Symbol)
<1>4. P \in Seq(X) /\ Len(P) = n
  <2>1. P \in [1..n -> X] /\ n \in Nat
    BY <1>2, <1>3
  <2> HIDE DEF P, X, n
  <2> QED
    BY <2>1
<1> QED
  BY <1>1, <1>2, <1>4

(* The state of a text when the hits after position p are replaced. *)
Rewrites(text, hits, g, p, x) ==
    \E cut \in (p + 1)..(Len(text) + 1) : \E w \in Seq(Symbol) :
        /\ Begins(hits, p, cut)
        /\ x = SubSeq(text, 1, cut - 1) \o w
        /\ g[p] \o w = g[Len(text)]

LEMMA RewriteOn ==
  ASSUME NEW text \in Seq(Symbol), NEW hits \in SUBSET Hit, Apart(hits), InText(text, hits),
         NEW g \in [0..Len(text) -> Seq(Symbol)],
         \A i \in 1..Len(text) : g[i] = g[i - 1] \o Piece(text, hits, i),
         NEW p \in 1..Len(text), NEW x, Rewrites(text, hits, g, p, x)
  PROVE  Rewrites(text, hits, g, p - 1, RedactAt(x, hits, p))
<1> DEFINE n == Len(text)
           piece == Piece(text, hits, p)
<1>1. /\ n \in Nat /\ p \in 1..n /\ p - 1 \in 0..n /\ p \in Nat \ {0} /\ (p - 1) + 1 = p
      /\ \A r \in hits : r.start \in Nat \ {0} /\ r.end \in Nat /\ r.start \in 1..n /\ r.end \in r.start..n
  BY DEF Hit, InText
<1>2. PICK cut \in (p + 1)..(n + 1) : \E w \in Seq(Symbol) :
        Begins(hits, p, cut) /\ x = SubSeq(text, 1, cut - 1) \o w /\ g[p] \o w = g[n]
  BY DEF Rewrites
<1>3. PICK w \in Seq(Symbol) :
        Begins(hits, p, cut) /\ x = SubSeq(text, 1, cut - 1) \o w /\ g[p] \o w = g[n]
  BY <1>2
<1>4. piece \in Seq(Symbol) /\ g[p - 1] \in Seq(Symbol) /\ g[p] = g[p - 1] \o piece
  BY <1>1, PiecesTyped
<1> HIDE DEF n
<1>5. cut \in Nat /\ cut - 1 \in 0..n /\ p <= cut - 1
  BY <1>1
<1>6. g[p - 1] \o (piece \o w) = g[n] /\ piece \o w \in Seq(Symbol)
  <2> DEFINE h == g[p - 1]
  <2> HIDE DEF h, piece
  <2>1. h \in Seq(Symbol) /\ piece \in Seq(Symbol) /\ w \in Seq(Symbol)
    BY <1>4 DEF h
  <2>2. (h \o piece) \o w = h \o (piece \o w)
    BY ONLY <2>1, TextsRegrouped, ZenonT(40)
  <2>3. piece \o w \in Seq(Symbol)
    BY <2>1
  <2>4. g[p] = h \o piece
    BY <1>4 DEF h
  <2> QED
    BY <1>3, <2>2, <2>3, <2>4 DEF h
<1>7. CASE \E s \in hits : s.start = p
  <2> DEFINE s == CHOOSE s \in hits : s.start = p
  <2>1. s \in hits /\ s.start = p
    BY <1>7
  <2>2. RedactAt(x, hits, p) = Replace(x, s) /\ piece = Label
    BY <1>7 DEF RedactAt, Piece
  <2> HIDE DEF s, piece
  <2>3. cut = s.end + 1
    <3>1. s.start <= p /\ p <= s.end /\ p \in Nat
      BY <1>1, <2>1
    <3> QED
      BY <1>3, <2>1, <3>1, BeginsAfter
  <2>4. ASSUME NEW r \in hits, r.start < p PROVE r.end < p
    <3>1. r # s
      BY <1>1, <2>1, <2>4
    <3>2. r.end < s.start \/ s.end < r.start
      BY <2>1, <3>1 DEF Apart
    <3> QED
      BY <1>1, <2>1, <2>4, <3>2
  <2>5. Begins(hits, p - 1, p)
    BY <1>1, <2>4, BeginsHere
  <2>6. /\ SubSeq(x, 1, p - 1) = SubSeq(text, 1, p - 1)
        /\ SubSeq(x, s.end + 1, Len(x)) = w
        /\ Len(x) >= p - 1 /\ Len(x) \in Nat
    <3> DEFINE a == p - 1
    <3>1. a \in 0..s.end /\ s.end \in 0..s.end /\ cut - 1 = s.end /\ s.end \in 0..n
      <4>1. s.end \in p..n /\ p \in 1..n /\ n \in Nat
        BY <1>1, <2>1
      <4> QED
        BY <2>3, <4>1
    <3>2. Starts(x, text, s.end, w)
      BY <1>3, <3>1 DEF Starts, n
    <3> HIDE DEF a
    <3>4. SubSeq(x, 1, a) = SubSeq(text, 1, a) /\ Len(x) \in Nat /\ Len(x) >= s.end
      BY ONLY <3>1, <3>2, TextCut
    <3>5. SubSeq(x, s.end + 1, Len(x)) = w
      BY ONLY <3>2, TextRest
    <3>6. Len(x) >= p - 1
      BY <1>1, <3>1, <3>4 DEF a
    <3> QED
      BY <3>4, <3>5, <3>6 DEF a
  <2>7. Min({s.start - 1, Len(x)}) = p - 1
    <3> DEFINE a == p - 1
    <3>1. a \in Nat /\ Len(x) \in Nat /\ a <= Len(x) /\ s.start - 1 = a
      BY <1>1, <2>1, <2>6
    <3> HIDE DEF a
    <3>2. Min({a, Len(x)}) = a
      BY <3>1, MinOfTwo
    <3> QED
      BY <3>1, <3>2 DEF a
  <2>8. Replace(x, s) = SubSeq(text, 1, p - 1) \o (Label \o w)
    <3>1. Replace(x, s) = (SubSeq(text, 1, p - 1) \o Label) \o w
      BY <2>6, <2>7 DEF Replace
    <3>2. SubSeq(text, 1, p - 1) \in Seq(Symbol)
      BY <1>1, SliceTyped, p - 1 \in 0..Len(text), 0 + 1 = 1 DEF n
    <3> DEFINE u == SubSeq(text, 1, p - 1)
               l == Label
    <3>3. u \in Seq(Symbol) /\ l \in Seq(Symbol) /\ Replace(x, s) = (u \o l) \o w
      BY <3>1, <3>2, LabelTyped
    <3> HIDE DEF u, l
    <3>4. (u \o l) \o w = u \o (l \o w)
      BY ONLY <3>3, TextsRegrouped, ZenonT(40)
    <3> QED
      BY <3>3, <3>4 DEF u, l
  <2>9. p \in ((p - 1) + 1)..(n + 1)
    BY <1>1
  <2> QED
    BY <1>6, <2>2, <2>5, <2>8, <2>9 DEF Rewrites, n
<1>8. CASE (~\E s \in hits : s.start = p) /\ \E s \in hits : p \in s.start..s.end
  <2>1. PICK s \in hits : p \in s.start..s.end
    BY <1>8
  <2>2. RedactAt(x, hits, p) = x /\ piece = << >>
    BY <1>8 DEF RedactAt, Piece
  <2> HIDE DEF piece
  <2>3. cut = s.end + 1 /\ s.start <= p - 1 /\ p - 1 < s.end
    <3>1. s.start <= p /\ p <= s.end /\ p \in Nat
      BY <1>1, <2>1
    <3>2. cut = s.end + 1
      BY <1>3, <3>1, BeginsAfter
    <3>3. s.start # p /\ cut \in (p + 1)..(n + 1) /\ s.start \in Nat /\ s.end \in Nat
      BY <1>1, <1>8
    <3>4. s.start # p /\ cut # p + 1 => p < s.end
      BY <3>1, <3>2, <3>3
    <3> QED
      BY <3>1, <3>2, <3>3
  <2>4. Begins(hits, p - 1, cut)
    BY <2>3 DEF Begins
  <2>5. g[p - 1] \o w = g[n]
    <3>1. << >> \o w = w
      BY ConcatEmptySeq
    <3> QED
      BY <1>6, <2>2, <3>1
  <2>6. cut \in ((p - 1) + 1)..(n + 1)
    BY <1>1
  <2> QED
    BY <1>3, <2>2, <2>4, <2>5, <2>6 DEF Rewrites, n
<1>9. CASE ~\E s \in hits : p \in s.start..s.end
  <2>1. ~\E s \in hits : s.start = p
    <3> SUFFICES ASSUME NEW s \in hits, s.start = p PROVE FALSE
      OBVIOUS
    <3>1. p \in s.start..s.end
      BY <1>1
    <3> QED
      BY <1>9, <3>1
  <2>2. RedactAt(x, hits, p) = x /\ piece = <<text[p]>>
    BY <1>9, <2>1 DEF RedactAt, Piece
  <2> HIDE DEF piece
  <2>3. cut = p + 1
    BY <1>1, <1>3, <1>9, SMTT(30) DEF Begins
  <2>4. Begins(hits, p - 1, p)
    <3>1. \A r \in hits : r.start < p => r.end < p
      BY <1>1, <1>9
    <3> QED
      BY <1>1, <3>1, BeginsHere
  <2>5. x = SubSeq(text, 1, p - 1) \o (<<text[p]>> \o w)
    <3> DEFINE a == p - 1
    <3>1. Starts(x, text, p, w) /\ a \in 0..p
      <4>1. cut - 1 = p /\ p \in 0..n
        BY <1>1, <2>3
      <4> QED
        BY <1>1, <1>3, <4>1 DEF Starts, n
    <3>2. a + 1 = p /\ a = p - 1
      BY <1>1
    <3> HIDE DEF a
    <3>3. Starts(x, text, a, SubSeq(text, a + 1, p) \o w)
      BY ONLY <3>1, TextCut
    <3>4. SubSeq(text, p, p) = <<text[p]>>
      BY <1>1, OneSymbol
    <3> QED
      BY ONLY <3>2, <3>3, <3>4, Zenon DEF Starts
  <2>6. p \in ((p - 1) + 1)..(n + 1)
    BY <1>1
  <2> QED
    BY <1>6, <2>2, <2>4, <2>5, <2>6 DEF Rewrites, n
<1> QED
  BY <1>7, <1>8, <1>9

LEMMA SubstituteExact ==
  ASSUME NEW text \in Seq(Symbol), NEW hits \in SUBSET Hit, Apart(hits), InText(text, hits)
  PROVE  Substitute(text, hits) = Redacted(text, hits)
<1> DEFINE n == Len(text)
           P == [i \in DOMAIN text |-> Piece(text, hits, i)]
           positions == Reverse([i \in DOMAIN text |-> i])
<1>1. n \in Nat /\ DOMAIN text = 1..n
  OBVIOUS
<1>2. positions \in Seq(Nat) /\ Len(positions) = n /\ \A i \in 1..n : positions[i] = n + 1 - i
  <2> DEFINE q == [i \in 1..n |-> i]
  <2>1. q \in Seq(Nat) /\ Len(q) = n /\ \A i \in 1..n : q[i] = i
    <3>1. q \in [1..n -> Nat]
      BY <1>1
    <3> HIDE DEF n
    <3>2. q \in Seq(Nat)
      BY <1>1, <3>1
    <3>3. Len(q) = n
      BY <1>1, <3>1, <3>2
    <3> QED
      BY <3>2, <3>3
  <2>2. positions = Reverse(q)
    BY <1>1
  <2> HIDE DEF n, q, positions
  <2>3. positions = [i \in 1..n |-> q[n - i + 1]]
    BY <2>1, <2>2 DEF Reverse
  <2>4. \A i \in 1..n : q[n - i + 1] = n + 1 - i /\ n + 1 - i \in Nat
    <3> SUFFICES ASSUME NEW i \in 1..n PROVE q[n - i + 1] = n + 1 - i /\ n + 1 - i \in Nat
      OBVIOUS
    <3>1. n - i + 1 \in 1..n /\ n - i + 1 = n + 1 - i
      BY <1>1
    <3> QED
      BY <2>1, <3>1
  <2>5. positions \in [1..n -> Nat]
    BY <2>3, <2>4
  <2>6. positions \in Seq(Nat)
    BY <1>1, <2>5
  <2>7. Len(positions) = n
    BY <1>1, <2>5, <2>6
  <2> QED
    BY <2>3, <2>4, <2>6, <2>7
<1>3. P \in Seq(Seq(Symbol)) /\ Len(P) = n /\ \A i \in 1..n : P[i] = Piece(text, hits, i)
  <2>1. P \in Seq(Seq(Symbol)) /\ Len(P) = n
    BY PiecesTyped
  <2> QED
    BY <1>1, <2>1
<1> HIDE DEF P, positions
<1>4. PICK g : Flattens(P, Symbol, g)
  BY <1>3, FlattenRuns
<1>5. /\ g \in [0..n -> Seq(Symbol)] /\ g[0] = << >>
      /\ \A i \in 1..n : g[i] = g[i - 1] \o Piece(text, hits, i)
      /\ FlattenSeq(P) = g[n]
  BY <1>3, <1>4 DEF Flattens
<1>6. PICK f \in [0..n -> Seq(Symbol)] :
         /\ f[0] = text /\ \A i \in 1..n : f[i] = RedactAt(f[i - 1], hits, positions[i])
         /\ FoldLeft(LAMBDA t, i : RedactAt(t, hits, i), text, positions) = f[n]
  <2>1. \E f \in [0..Len(positions) -> Seq(Symbol)] :
         /\ f[0] = text /\ \A i \in 1..Len(positions) : f[i] = RedactAt(f[i - 1], hits, positions[i])
         /\ FoldLeft(LAMBDA t, i : RedactAt(t, hits, i), text, positions) = f[Len(positions)]
    BY <1>2, SubstituteFold, ZenonT(40)
  <2> QED
    BY <1>2, <2>1
<1> DEFINE S == {k \in 0..n : Rewrites(text, hits, g, n - k, f[k])}
<1>7. 0 \in S
  <2>1. Begins(hits, n, n + 1)
    <3>1. \A s \in hits : s.start \in Nat /\ s.end \in Nat /\ s.end <= n
      BY <1>1 DEF Hit, InText
    <3>2. \A s \in hits : ~(s.start <= n /\ n < s.end)
      BY <1>1, <3>1
    <3> QED
      BY <3>2 DEF Begins
  <2>2. SubSeq(text, 1, (n + 1) - 1) = text /\ (n + 1) - 1 = n
    BY <1>1, SubSeqFull
  <2>3. text \o << >> = text /\ g[n] \o << >> = g[n]
    BY <1>1, <1>5, ConcatEmptySeq
  <2>4. n + 1 \in (n + 1)..(n + 1) /\ << >> \in Seq(Symbol) /\ n - 0 = n /\ 0 \in 0..n
    BY <1>1
  <2>5. Rewrites(text, hits, g, n, text)
    BY <2>1, <2>2, <2>3, <2>4 DEF Rewrites
  <2> QED
    BY <1>6, <2>4, <2>5
<1> HIDE DEF n
<1>8. ASSUME NEW k \in 0..(n - 1), k \in S PROVE k + 1 \in S
  <2> DEFINE p == n - k
  <2>1. p \in 1..n /\ k + 1 \in 1..n /\ (k + 1) - 1 = k /\ p - 1 = n - (k + 1) /\ positions[k + 1] = p /\ k + 1 \in 0..n
    <3>1. k + 1 \in 1..n /\ n + 1 - (k + 1) = p
      BY <1>1
    <3> QED
      BY <1>1, <1>2, <3>1
  <2>2. Rewrites(text, hits, g, p, f[k])
    BY <1>8
  <2>3. f[k + 1] = RedactAt(f[k], hits, p)
    BY <1>6, <2>1
  <2> HIDE DEF p
  <2>4. Rewrites(text, hits, g, p - 1, RedactAt(f[k], hits, p))
    BY <1>5, <2>1, <2>2, RewriteOn DEF n
  <2> QED
    BY <2>1, <2>3, <2>4
<1>9. 0..n \subseteq S
  <2> HIDE DEF S
  <2> QED
    BY <1>1, <1>7, <1>8, InductTo
<1>10. Rewrites(text, hits, g, 0, f[n])
  <2>1. n \in 0..n /\ n - n = 0
    BY <1>1
  <2> QED
    BY <1>9, <2>1
<1>11. f[n] = g[n]
  <2>1. PICK cut \in (0 + 1)..(n + 1) : \E w \in Seq(Symbol) :
           Begins(hits, 0, cut) /\ f[n] = SubSeq(text, 1, cut - 1) \o w /\ g[0] \o w = g[n]
    BY <1>10 DEF Rewrites, n
  <2>2. PICK w \in Seq(Symbol) :
           Begins(hits, 0, cut) /\ f[n] = SubSeq(text, 1, cut - 1) \o w /\ g[0] \o w = g[n]
    BY <2>1
  <2>3. cut = 1
    BY <2>2 DEF Begins, Hit
  <2>4. SubSeq(text, 1, cut - 1) = << >>
    BY <2>3
  <2>5. << >> \o w = w
    BY ConcatEmptySeq
  <2> QED
    BY <1>5, <2>2, <2>4, <2>5
<1>12. Redacted(text, hits) = FlattenSeq(P)
  BY Zenon DEF Redacted, P, Piece
<1>13. Substitute(text, hits) = f[n]
  BY <1>6 DEF Substitute, positions
<1> QED
  BY <1>5, <1>11, <1>12, <1>13

(* The spans of a text that are not empty. *)
Spanned(text) == {s \in [start : 1..Len(text), end : 1..Len(text)] : s.start <= s.end}

LEMMA FinditerFit ==
  ASSUME NEW text \in Seq(Symbol), NEW pattern \in Seq(STRING) \ {<< >>}
  PROVE  /\ Finditer(pattern, text) \in SUBSET Spanned(text) /\ Apart(Finditer(pattern, text))
         /\ \A s \in Finditer(pattern, text) : MatchesAt(pattern, text, s.start)
         /\ \A i \in 1..Len(text) : MatchesAt(pattern, text, i) =>
               \E j \in 1..i : /\ i < j + Len(pattern) /\ MatchesAt(pattern, text, j)
                              /\ Span(j, j + Len(pattern) - 1) \in Finditer(pattern, text)
<1> DEFINE n == Len(text)
           l == Len(pattern)
           Next(S, i) == IF MatchesAt(pattern, text, i) /\ \A j \in S : j + l <= i THEN S \cup {i} ELSE S
           F(f) == [i \in 0..n |-> IF i = 0 THEN {} ELSE Next(f[i - 1], i)]
           starts == CHOOSE f : f = F(f)
           X == SUBSET (1..n)
           step == [i \in 1..n |-> [S \in X |-> Next(S, i)]]
<1>1. n \in Nat /\ l \in Nat \ {0}
  OBVIOUS
<1>2. Finditer(pattern, text) = {Span(i, i + l - 1) : i \in starts[n]}
  BY DEF Finditer
<1>3. step \in [1..n -> [X -> X]] /\ {} \in X
  <2>1. \A i \in 1..n : \A S \in X : Next(S, i) \in X
    OBVIOUS
  <2> HIDE DEF n, X, Next
  <2>2. step \in [1..n -> [X -> X]]
    BY <2>1
  <2> QED
    BY <2>2 DEF X
<1>4. PICK g : Runs(n, X, {}, step, g)
  <2> HIDE DEF n, X, step
  <2> QED
    BY <1>1, <1>3, RecursionExists
<1>5. g \in [0..n -> X] /\ g[0] = {} /\ \A i \in 1..n : g[i] = Next(g[i - 1], i)
  <2>1. g \in [0..n -> X] /\ g[0] = {} /\ \A i \in 1..n : g[i] = step[i][g[i - 1]]
    BY <1>4 DEF Runs
  <2> HIDE DEF n, X, Next
  <2>2. \A i \in 1..n : i - 1 \in 0..n
    BY <1>1
  <2>3. \A i \in 1..n : step[i][g[i - 1]] = Next(g[i - 1], i)
    BY <2>1, <2>2
  <2> QED
    BY <2>1, <2>3
<1> HIDE DEF n, l, X, step, Next
<1>6. \E f : f = F(f)
  <2> DEFINE h == [i \in 0..n |-> IF i = 0 THEN {} ELSE Next(g[i - 1], i)]
  <2>1. g = h
    BY <1>1, <1>5
  <2> QED
    BY <2>1
<1>7. starts = F(starts)
  <2> HIDE DEF F
  <2> QED
    BY <1>6
<1> HIDE DEF starts
<1>8. starts[0] = {} /\ \A i \in 1..n : starts[i] = Next(starts[i - 1], i)
  <2>1. \A i \in 0..n : starts[i] = IF i = 0 THEN {} ELSE Next(starts[i - 1], i)
    BY <1>7
  <2> HIDE DEF F
  <2>2. 0 \in 0..n /\ \A i \in 1..n : i \in 0..n /\ i # 0
    BY <1>1
  <2> QED
    BY <2>1, <2>2
<1> HIDE DEF F
<1> DEFINE Q == {k \in 0..n : /\ starts[k] \subseteq 1..k
                              /\ \A a \in starts[k] : a + l - 1 <= n
                              /\ \A a, b \in starts[k] : a < b => a + l <= b
                              /\ \A a \in starts[k] : MatchesAt(pattern, text, a)
                              /\ \A j \in 1..k : MatchesAt(pattern, text, j) =>
                                    \E a \in starts[k] : a <= j /\ j < a + l}
<1>9. 0 \in Q
  BY <1>1, <1>8
<1>10. ASSUME NEW k \in 0..(n - 1), k \in Q PROVE k + 1 \in Q
  <2>1. k + 1 \in 1..n /\ (k + 1) - 1 = k /\ k + 1 \in 0..n /\ k \in Nat
    BY <1>1
  <2>2. starts[k + 1] = Next(starts[k], k + 1)
    BY <1>8, <2>1
  <2>3. starts[k] \subseteq 1..k /\ starts[k] \subseteq 1..(k + 1)
    BY <1>10, <2>1
  <2>4. /\ \A a \in starts[k + 1] : MatchesAt(pattern, text, a)
        /\ \A j \in 1..(k + 1) : MatchesAt(pattern, text, j) => \E a \in starts[k + 1] : a <= j /\ j < a + l
    <3>1. \A j \in 1..(k + 1) : j = k + 1 \/ j \in 1..k
      BY <2>1
    <3>2. CASE starts[k + 1] = starts[k] \cup {k + 1} /\ MatchesAt(pattern, text, k + 1)
      <4>1. \A a \in starts[k + 1] : MatchesAt(pattern, text, a)
        BY <1>10, <3>2
      <4>2. ASSUME NEW j \in 1..(k + 1), MatchesAt(pattern, text, j)
            PROVE  \E a \in starts[k + 1] : a <= j /\ j < a + l
        <5>1. CASE j = k + 1
          <6>1. j \in starts[k + 1]
            BY <3>2, <5>1
          <6>2. j <= j /\ j < j + l
            <7>1. j \in Nat /\ l \in Nat \ {0}
              BY <1>1, <2>1, <5>1
            <7> QED
              BY ONLY <7>1
          <6> QED
            BY ONLY <6>1, <6>2
        <5>2. CASE j \in 1..k
          BY <1>10, <3>2, <4>2, <5>2
        <5> QED
          BY <3>1, <5>1, <5>2
      <4> QED
        BY <4>1, <4>2
    <3>3. CASE starts[k + 1] = starts[k] /\ ~(MatchesAt(pattern, text, k + 1) /\ \A j \in starts[k] : j + l <= k + 1)
      <4>1. ASSUME NEW j \in 1..(k + 1), MatchesAt(pattern, text, j)
            PROVE  \E a \in starts[k + 1] : a <= j /\ j < a + l
        <5>1. CASE j = k + 1
          <6>1. PICK a \in starts[k] : ~(a + l <= k + 1)
            BY <3>3, <4>1, <5>1
          <6>2. a \in 1..k
            BY <2>3
          <6>3. a <= j /\ j < a + l
            BY <1>1, <2>1, <5>1, <6>1, <6>2
          <6> QED
            BY <3>3, <6>1, <6>3
        <5>2. CASE j \in 1..k
          BY <1>10, <3>3, <4>1, <5>2
        <5> QED
          BY <3>1, <5>1, <5>2
      <4> QED
        BY <1>10, <3>3, <4>1
    <3> QED
      BY <2>2, <3>2, <3>3 DEF Next
  <2>5. CASE starts[k + 1] = starts[k]
    BY <1>10, <2>1, <2>3, <2>5, <2>4
  <2>6. CASE /\ starts[k + 1] = starts[k] \cup {k + 1} /\ MatchesAt(pattern, text, k + 1)
             /\ \A j \in starts[k] : j + l <= k + 1
    <3>1. (k + 1) + l - 1 <= n
      BY <2>6 DEF MatchesAt, n, l
    <3>2. starts[k + 1] \subseteq 1..(k + 1)
      BY <2>1, <2>3, <2>6
    <3>3. \A a \in starts[k + 1] : a + l - 1 <= n
      BY <1>10, <2>6, <3>1
    <3>4. ASSUME NEW a \in starts[k + 1], NEW b \in starts[k + 1], a < b PROVE a + l <= b
      <4>1. CASE b = k + 1
        <5>1. a \in starts[k]
          BY <2>1, <2>6, <3>4, <4>1
        <5> QED
          BY <2>6, <4>1, <5>1
      <4>2. CASE b \in starts[k]
        <5>1. a \in starts[k]
          BY <2>1, <2>3, <2>6, <3>4, <4>2
        <5> QED
          BY <1>10, <3>4, <4>2, <5>1
      <4> QED
        BY <2>6, <4>1, <4>2
    <3> QED
      BY <2>1, <2>4, <3>2, <3>3, <3>4
  <2> QED
    BY <2>2, <2>5, <2>6 DEF Next
<1>11. 0..n \subseteq Q
  <2> HIDE DEF Q
  <2> QED
    BY <1>1, <1>9, <1>10, InductTo
<1>12. /\ starts[n] \subseteq 1..n
       /\ \A a \in starts[n] : a + l - 1 <= n
       /\ \A a, b \in starts[n] : a < b => a + l <= b
  BY <1>1, <1>11
<1>13. /\ \A a \in starts[n] : MatchesAt(pattern, text, a)
       /\ \A j \in 1..n : MatchesAt(pattern, text, j) => \E a \in starts[n] : a <= j /\ j < a + l
  BY <1>1, <1>11
<1>14. Finditer(pattern, text) \in SUBSET Spanned(text)
  <2> SUFFICES ASSUME NEW s \in Finditer(pattern, text) PROVE s \in Spanned(text)
    OBVIOUS
  <2>1. PICK i \in starts[n] : s = Span(i, i + l - 1)
    BY <1>2
  <2>2. i \in 1..n /\ i + l - 1 \in 1..n /\ i <= i + l - 1
    BY <1>1, <1>12
  <2> QED
    BY <2>1, <2>2 DEF Spanned, Span, n
<1>15. Apart(Finditer(pattern, text))
  <2> SUFFICES ASSUME NEW s \in Finditer(pattern, text), NEW r \in Finditer(pattern, text)
               PROVE  s = r \/ s.end < r.start \/ r.end < s.start
    BY DEF Apart
  <2>1. PICK i \in starts[n] : s = Span(i, i + l - 1)
    BY <1>2
  <2>2. PICK j \in starts[n] : r = Span(j, j + l - 1)
    BY <1>2
  <2>3. i \in Nat /\ j \in Nat
    BY <1>12
  <2>4. s.start = i /\ s.end = i + l - 1 /\ r.start = j /\ r.end = j + l - 1
    BY <2>1, <2>2 DEF Span
  <2>5. CASE i = j
    BY <2>1, <2>2, <2>5
  <2>6. CASE i < j
    BY <1>1, <1>12, <2>3, <2>4, <2>6
  <2>7. CASE j < i
    BY <1>1, <1>12, <2>3, <2>4, <2>7
  <2> QED
    BY <2>3, <2>5, <2>6, <2>7
<1>16. \A s \in Finditer(pattern, text) : MatchesAt(pattern, text, s.start)
  BY <1>2, <1>13 DEF Span
<1>17. ASSUME NEW i \in 1..n, MatchesAt(pattern, text, i)
       PROVE  \E j \in 1..i : /\ i < j + l /\ MatchesAt(pattern, text, j)
                             /\ Span(j, j + l - 1) \in Finditer(pattern, text)
  <2>1. PICK a \in starts[n] : a <= i /\ i < a + l
    BY <1>17, <1>13
  <2>2. a \in 1..i /\ MatchesAt(pattern, text, a)
    BY <1>1, <1>12, <1>13, <2>1
  <2>3. Span(a, a + l - 1) \in Finditer(pattern, text)
    BY <1>2
  <2> QED
    BY <2>1, <2>2, <2>3
<1> QED
  BY <1>14, <1>15, <1>16, <1>17 DEF n, l

(* The hits when one more pattern is searched for. *)
FoundToo(hits, p, text) == hits \cup {s \in Finditer(p, text) : ~Overlaps(s, hits)}

(* The patterns are searched for one after the other. *)
LEMMA NamedFold ==
  ASSUME NEW text \in Seq(Symbol), NEW patterns \in Seq(Seq(STRING) \ {<< >>})
  PROVE  \E f \in [0..Len(patterns) -> SUBSET Spanned(text)] :
            /\ f[0] = {} /\ \A i \in 1..Len(patterns) : f[i] = FoundToo(f[i - 1], patterns[i], text)
            /\ FoldLeft(LAMBDA hits, p : FoundToo(hits, p, text), {}, patterns) = f[Len(patterns)]
<1> DEFINE n == Len(patterns)
           X == SUBSET Spanned(text)
           none == {}
           Fold(iter) == [s \in SUBSET (1..n) |->
                            IF s = {} THEN none ELSE FoundToo(iter[s \ {Max(s)}], patterns[Max(s)], text)]
           step == [i \in 1..n |-> [x \in X |-> FoundToo(x, patterns[i], text)]]
<1>1. n \in Nat /\ none \in X /\ DOMAIN patterns = 1..n
  <2> HIDE DEF n
  <2>1. Len(patterns) \in Nat /\ DOMAIN patterns = 1..Len(patterns)
    OBVIOUS
  <2> QED
    BY <2>1 DEF n
<1>2. step \in [1..n -> [X -> X]]
  <2>1. \A i \in 1..n : patterns[i] \in Seq(STRING) \ {<< >>}
    OBVIOUS
  <2>2. \A i \in 1..n : \A x \in X : FoundToo(x, patterns[i], text) \in X
    BY <2>1, FinditerFit DEF FoundToo
  <2> HIDE DEF n, X
  <2> QED
    BY <2>2
<1> DEFINE iter == CHOOSE iter : iter = Fold(iter)
<1>3. FoldLeft(LAMBDA hits, p : FoundToo(hits, p, text), {}, patterns) = iter[1..n]
  BY <1>1 DEF FoldLeft, MapThenFoldSet
<1>4. \A s \in SUBSET (1..n) : s # {} => Max(s) \in 1..n /\ s \ {Max(s)} \in SUBSET (1..n)
  <2> HIDE DEF n
  <2> SUFFICES ASSUME NEW s \in SUBSET (1..n), s # {} PROVE Max(s) \in 1..n
    OBVIOUS
  <2>1. s \subseteq 0..n
    BY <1>1
  <2> QED
    BY <1>1, <2>1, Greatest
<1>5. \E f : f = Fold(f)
  <2>1. PICK f \in [SUBSET (1..n) -> X] : Folds(n, X, none, step, f)
    <3> HIDE DEF n, X, step, none
    <3> QED
      BY <1>1, <1>2, FoldExists
  <2>2. ASSUME NEW s \in SUBSET (1..n)
        PROVE  f[s] = IF s = {} THEN none ELSE FoundToo(f[s \ {Max(s)}], patterns[Max(s)], text)
    <3> HIDE DEF X, none, n
    <3>1. s # {} => Max(s) \in 1..n /\ f[s \ {Max(s)}] \in X
      BY <1>4, <2>1
    <3>2. s # {} => step[Max(s)][f[s \ {Max(s)}]] = FoundToo(f[s \ {Max(s)}], patterns[Max(s)], text)
      BY <3>1
    <3> HIDE DEF step
    <3> QED
      BY <2>1, <3>1, <3>2 DEF Folds
  <2> HIDE DEF step, n, X, none
  <2>3. f = Fold(f)
    BY <2>1, <2>2
  <2> QED
    BY <2>3
<1>6. iter = Fold(iter)
  <2> HIDE DEF Fold
  <2> QED
    BY <1>5
<1> HIDE DEF iter
<1>7. Folds(n, X, none, step, iter)
  <2> SUFFICES ASSUME NEW s \in SUBSET (1..n)
               PROVE  /\ s = {} => iter[s] = none
                      /\ s # {} /\ iter[s \ {Max(s)}] \in X => iter[s] = step[Max(s)][iter[s \ {Max(s)}]]
    BY DEF Folds
  <2> HIDE DEF X, none, n
  <2>1. iter[s] = IF s = {} THEN none ELSE FoundToo(iter[s \ {Max(s)}], patterns[Max(s)], text)
    BY <1>6
  <2>2. s # {} /\ iter[s \ {Max(s)}] \in X =>
           step[Max(s)][iter[s \ {Max(s)}]] = FoundToo(iter[s \ {Max(s)}], patterns[Max(s)], text)
    BY <1>4
  <2> HIDE DEF step
  <2> QED
    BY <2>1, <2>2
<1>8. PICK g : Runs(n, X, none, step, g) /\ g[n] = iter[1..n]
  <2> HIDE DEF n, X, step, none
  <2> QED
    BY <1>1, <1>2, <1>7, FoldRuns, SMTT(30)
<1>9. g \in [0..n -> X] /\ g[0] = none /\ \A i \in 1..n : g[i] = step[i][g[i - 1]]
  BY <1>8 DEF Runs
<1>10. \A i \in 1..n : g[i] = FoundToo(g[i - 1], patterns[i], text)
  <2> SUFFICES ASSUME NEW i \in 1..n PROVE g[i] = FoundToo(g[i - 1], patterns[i], text)
    OBVIOUS
  <2> HIDE DEF n, X, none
  <2>1. i - 1 \in 0..n /\ g[i - 1] \in X
    BY <1>1, <1>9
  <2>2. step[i][g[i - 1]] = FoundToo(g[i - 1], patterns[i], text)
    BY <2>1
  <2> HIDE DEF step
  <2> QED
    BY <1>9, <2>2
<1> HIDE DEF X, n, step, Fold
<1>11. g \in [0..n -> X] /\ g[0] = none /\ (\A i \in 1..n : g[i] = FoundToo(g[i - 1], patterns[i], text))
       /\ FoldLeft(LAMBDA hits, p : FoundToo(hits, p, text), {}, patterns) = g[n]
  BY <1>3, <1>8, <1>9, <1>10
<1> QED
  BY <1>11 DEF X, n, none

LEMMA ApartWith ==
  ASSUME NEW text, NEW hits \in SUBSET Spanned(text), Apart(hits),
         NEW more \in SUBSET Spanned(text), Apart(more)
  PROVE  Apart(hits \cup {s \in more : ~Overlaps(s, hits)})
<1> SUFFICES ASSUME NEW s \in hits \cup {s \in more : ~Overlaps(s, hits)},
                    NEW r \in hits \cup {r \in more : ~Overlaps(r, hits)}
             PROVE  s = r \/ s.end < r.start \/ r.end < s.start
  BY DEF Apart
<1>1. s.start \in Int /\ s.end \in Int /\ r.start \in Int /\ r.end \in Int
  BY DEF Spanned
<1>2. CASE s \in hits /\ r \in hits
  BY <1>2 DEF Apart
<1>3. CASE s \in more /\ r \in more
  BY <1>3 DEF Apart
<1>4. CASE s \in hits /\ ~Overlaps(r, hits)
  BY <1>1, <1>4 DEF Overlaps
<1>5. CASE r \in hits /\ ~Overlaps(s, hits)
  BY <1>1, <1>5 DEF Overlaps
<1> QED
  BY <1>2, <1>3, <1>4, <1>5

LEMMA NamedHitsFit ==
  ASSUME NEW text \in Seq(Symbol)
  PROVE  /\ NamedHits(text) \in SUBSET Spanned(text) /\ Apart(NamedHits(text))
         /\ \A i \in DOMAIN Patterns : \A s \in Finditer(Patterns[i], text) : Overlaps(s, NamedHits(text))
<1> DEFINE n == Len(Patterns)
<1>1. Patterns \in Seq(Seq(STRING) \ {<< >>}) /\ n \in Nat /\ DOMAIN Patterns = 1..n
      /\ \A i \in 1..n : Patterns[i] \in Seq(STRING) \ {<< >>}
  <2>1. Patterns \in Seq(Seq(STRING) \ {<< >>})
    BY TextAssumption
  <2> QED
    BY <2>1
<1>2. PICK f \in [0..n -> SUBSET Spanned(text)] :
        /\ f[0] = {} /\ \A i \in 1..n : f[i] = FoundToo(f[i - 1], Patterns[i], text)
        /\ FoldLeft(LAMBDA hits, p : FoundToo(hits, p, text), {}, Patterns) = f[n]
  BY <1>1, NamedFold
<1> HIDE DEF n
<1> DEFINE Q == {k \in 0..n : /\ Apart(f[k])
                              /\ \A i \in 1..k : \A s \in Finditer(Patterns[i], text) : Overlaps(s, f[k])}
<1>3. 0 \in Q
  <2>1. Apart({})
    BY DEF Apart
  <2>2. \A i \in 1..0 : \A s \in Finditer(Patterns[i], text) : Overlaps(s, f[0])
    <3>1. \A i \in 1..0 : FALSE
      OBVIOUS
    <3> QED
      BY <3>1
  <2>3. f[0] = {}
    BY <1>2, Zenon
  <2>4. 0 \in 0..n
    BY <1>1
  <2> QED
    BY <2>1, <2>2, <2>3, <2>4
<1>4. ASSUME NEW k \in 0..(n - 1), k \in Q PROVE k + 1 \in Q
  <2> DEFINE H == f[k]
             M == Finditer(Patterns[k + 1], text)
  <2>1. k + 1 \in 1..n /\ (k + 1) - 1 = k /\ k + 1 \in 0..n /\ k \in 0..n
    BY <1>1
  <2>2. f[k + 1] = FoundToo(H, Patterns[k + 1], text) /\ H \in SUBSET Spanned(text)
    BY <1>2, <2>1
  <2>3. M \in SUBSET Spanned(text) /\ Apart(M)
    BY <1>1, <2>1, FinditerFit
  <2>4. f[k + 1] = H \cup {s \in M : ~Overlaps(s, H)}
    BY <2>2 DEF FoundToo
  <2>5. Apart(H)
    BY <1>4
  <2> HIDE DEF H, M
  <2>6. Apart(f[k + 1])
    BY <2>2, <2>3, <2>4, <2>5, ApartWith
  <2>7. ASSUME NEW i \in 1..(k + 1), NEW s \in Finditer(Patterns[i], text) PROVE Overlaps(s, f[k + 1])
    <3>1. CASE Overlaps(s, H)
      BY <2>4, <3>1 DEF Overlaps
    <3>2. CASE ~Overlaps(s, H)
      <4>1. i = k + 1
        <5>1. i \in 1..k => Overlaps(s, H)
          BY <1>4 DEF H
        <5> QED
          BY <2>1, <3>2, <5>1
      <4>2. s \in M
        BY <4>1 DEF M
      <4>3. s \in f[k + 1] /\ s.start <= s.end
        BY <2>3, <2>4, <3>2, <4>2 DEF Spanned
      <4> QED
        BY <4>3 DEF Overlaps
    <3> QED
      BY <3>1, <3>2
  <2> QED
    BY <2>1, <2>6, <2>7
<1>5. 0..n \subseteq Q
  <2> HIDE DEF Q
  <2> QED
    BY <1>1, <1>3, <1>4, InductTo
<1>6. NamedHits(text) = f[n]
  BY <1>2 DEF NamedHits, FoundToo
<1>7. n \in 0..n
  BY <1>1
<1> QED
  BY <1>1, <1>2, <1>5, <1>6, <1>7

LEMMA WordsFit ==
  ASSUME NEW text \in Seq(Symbol)
  PROVE  Words(text) \in SUBSET Spanned(text) /\ Apart(Words(text))
<1>1. Words(text) \in SUBSET Spanned(text)
  BY DEF Words, Spanned, Span
<1>2. ASSUME NEW s \in Words(text), NEW r \in Words(text), s.start <= r.end, r.start <= s.end
      PROVE  s.start <= r.start /\ r.end <= s.end
  <2>1. /\ s.start \in 1..Len(text) /\ s.end \in 1..Len(text) /\ r.start \in 1..Len(text) /\ r.end \in 1..Len(text)
        /\ s.start <= s.end /\ r.start <= r.end
    BY <1>1 DEF Spanned
  <2>2. /\ \A k \in r.start..r.end : text[k] \in TokenSymbols
        /\ s.start = 1 \/ text[s.start - 1] \notin TokenSymbols
        /\ s.end = Len(text) \/ text[s.end + 1] \notin TokenSymbols
    BY DEF Words
  <2>3. ~(r.start < s.start)
    <3> SUFFICES ASSUME r.start < s.start PROVE FALSE
      OBVIOUS
    <3>1. s.start - 1 \in r.start..r.end /\ s.start # 1
      BY <1>2, <2>1
    <3> QED
      BY <2>2, <3>1
  <2>4. ~(s.end < r.end)
    <3> SUFFICES ASSUME s.end < r.end PROVE FALSE
      OBVIOUS
    <3>1. s.end + 1 \in r.start..r.end /\ s.end # Len(text)
      BY <1>2, <2>1
    <3> QED
      BY <2>2, <3>1
  <2> QED
    BY <2>1, <2>3, <2>4
<1>3. ASSUME NEW s \in Words(text), NEW r \in Words(text) PROVE s = r \/ s.end < r.start \/ r.end < s.start
  <2>1. /\ s \in [start : 1..Len(text), end : 1..Len(text)] /\ r \in [start : 1..Len(text), end : 1..Len(text)]
    BY <1>1 DEF Spanned
  <2>2. SUFFICES ASSUME s.start <= r.end, r.start <= s.end PROVE s = r
    BY <2>1
  <2>3. s.start <= r.start /\ r.end <= s.end /\ r.start <= s.start /\ s.end <= r.end
    BY <1>2, <2>2
  <2>4. s.start = r.start /\ s.end = r.end
    BY <2>1, <2>3
  <2> QED
    BY <2>1, <2>4
<1> QED
  BY <1>1, <1>3 DEF Apart

LEMMA HitsFit ==
  ASSUME NEW text \in Seq(Symbol)
  PROVE  /\ Hits(text) \in SUBSET Spanned(text) /\ Apart(Hits(text))
         /\ \A i \in DOMAIN Patterns : \A s \in Finditer(Patterns[i], text) : Overlaps(s, Hits(text))
<1> DEFINE named == NamedHits(text)
           more == {s \in Words(text) : \E k \in s.start..s.end : text[k] \in RandomSymbols}
<1>1. named \in SUBSET Spanned(text) /\ Apart(named)
      /\ \A i \in DOMAIN Patterns : \A s \in Finditer(Patterns[i], text) : Overlaps(s, named)
  BY NamedHitsFit
<1>2. more \in SUBSET Spanned(text) /\ Apart(more)
  BY WordsFit DEF Apart
<1>3. Hits(text) = named \cup {s \in more : ~Overlaps(s, named)}
  BY DEF Hits, EntropyHits
<1> HIDE DEF named, more
<1>4. Apart(Hits(text))
  BY <1>1, <1>2, <1>3, ApartWith
<1>5. \A s : Overlaps(s, named) => Overlaps(s, Hits(text))
  BY <1>3 DEF Overlaps
<1> QED
  BY <1>1, <1>2, <1>3, <1>4, <1>5

LEMMA TheRedaction == RedactedExactly
<1> SUFFICES ASSUME NEW text \in Texts
             PROVE  LET hits == Hits(text)
                    IN /\ Sanitize(text) = Redacted(text, hits)
                       /\ \A s, r \in hits : s = r \/ s.end < r.start \/ r.end < s.start
                       /\ \A i \in DOMAIN Patterns : \A s \in Finditer(Patterns[i], text) : Overlaps(s, hits)
  BY DEF RedactedExactly
<1> DEFINE hits == Hits(text)
<1>1. text \in Seq(STRING)
  BY TextAssumption
<1>3. text \in Seq(Symbol)
  BY <1>1, LabelTyped
<1>2. /\ hits \in SUBSET Spanned(text) /\ Apart(hits)
      /\ \A i \in DOMAIN Patterns : \A s \in Finditer(Patterns[i], text) : Overlaps(s, hits)
  BY <1>3, HitsFit
<1> HIDE DEF hits
<1>4. hits \in SUBSET Hit /\ InText(text, hits)
  <2>1. Len(text) \in Nat
    BY <1>1
  <2> QED
    BY <1>2, <2>1 DEF Spanned, Hit, InText
<1>5. Sanitize(text) = Redacted(text, hits)
  BY <1>2, <1>3, <1>4, SubstituteExact DEF Sanitize, hits
<1> QED
  BY <1>2, <1>5 DEF Apart, hits

-----------------------------------------------------------------------------
(***************************************************************************)
(* What is left of a text holds no secret.  Each symbol of a redacted text *)
(* has an origin: the place it had, which is in no hit, or 0 when it is of *)
(* a label.  Symbols side by side that are of no label were side by side.  *)
(***************************************************************************)
InHit(hits, i) == \E s \in hits : s.start <= i /\ i <= s.end

Origin(text, hits, k, y, o) ==
    /\ Len(o) = Len(y)
    /\ \A q \in 1..Len(o) : o[q] = 0 => y[q] \in {"[", "label", "]"}
    /\ \A q \in 1..Len(o) : o[q] # 0 => o[q] \in 1..k /\ y[q] = text[o[q]] /\ ~InHit(hits, o[q])
    /\ \A q \in 1..(Len(o) - 1) : o[q] # 0 /\ o[q + 1] # 0 => o[q + 1] = o[q] + 1
    /\ Len(o) > 0 => o[Len(o)] \in {0, k}
    /\ InHit(hits, k) => Len(o) > 0 /\ o[Len(o)] = 0

(* Two texts, one after the other. *)
LEMMA Joined ==
  ASSUME NEW T, NEW x \in Seq(T), NEW v \in Seq(T)
  PROVE  /\ x \o v \in Seq(T) /\ Len(x \o v) = Len(x) + Len(v)
         /\ \A q \in 1..Len(x) : (x \o v)[q] = x[q]
         /\ \A q \in 1..Len(v) : (x \o v)[Len(x) + q] = v[q]
<1> DEFINE z == x \o v
<1>1. /\ z \in Seq(T) /\ Len(z) = Len(x) + Len(v) /\ Len(x) \in Nat /\ Len(v) \in Nat
      /\ \A i \in 1..(Len(x) + Len(v)) : z[i] = IF i <= Len(x) THEN x[i] ELSE v[i - Len(x)]
  BY ConcatProperties
<1> HIDE DEF z
<1>2. ASSUME NEW q \in 1..Len(x) PROVE z[q] = x[q]
  <2>1. q \in 1..(Len(x) + Len(v)) /\ q <= Len(x)
    BY <1>1
  <2> QED
    BY <1>1, <2>1
<1>3. ASSUME NEW q \in 1..Len(v) PROVE z[Len(x) + q] = v[q]
  <2>1. Len(x) + q \in 1..(Len(x) + Len(v)) /\ ~(Len(x) + q <= Len(x)) /\ (Len(x) + q) - Len(x) = q
    BY <1>1
  <2> QED
    BY <1>1, <2>1
<1> QED
  BY <1>1, <1>2, <1>3 DEF z

LEMMA OriginOn ==
  ASSUME NEW text \in Seq(Symbol), NEW hits \in SUBSET Hit, NEW k \in 0..(Len(text) - 1),
         NEW y \in Seq(Symbol), NEW o \in Seq(Nat), Origin(text, hits, k, y, o)
  PROVE  \E p \in Seq(Nat) : Origin(text, hits, k + 1, y \o Piece(text, hits, k + 1), p)
<1> DEFINE piece == Piece(text, hits, k + 1)
<1>1. /\ Len(o) \in Nat /\ Len(o) = Len(y) /\ k \in Nat /\ k + 1 \in 1..Len(text)
      /\ \A q \in 1..Len(o) : o[q] \in Nat
      /\ \A r \in hits : r.start \in Nat \ {0} /\ r.end \in Nat
  BY DEF Origin, Hit
<1>2. CASE \E s \in hits : s.start = k + 1
  <2>1. piece = <<"[", "label", "]">>
    BY <1>2 DEF Piece, Label
  <2> DEFINE z == y \o <<"[", "label", "]">>
             p == o \o <<0, 0, 0>>
  <2>2. /\ p \in Seq(Nat) /\ Len(p) = Len(o) + 3 /\ Len(z) = Len(o) + 3
        /\ \A q \in 1..Len(o) : p[q] = o[q] /\ z[q] = y[q]
        /\ p[Len(o) + 1] = 0 /\ p[Len(o) + 2] = 0 /\ p[Len(o) + 3] = 0
        /\ z[Len(o) + 1] = "[" /\ z[Len(o) + 2] = "label" /\ z[Len(o) + 3] = "]"
    <3> DEFINE u == <<0, 0, 0>>
               v == <<"[", "label", "]">>
    <3>1. u \in Seq(Nat) /\ Len(u) = 3 /\ u[1] = 0 /\ u[2] = 0 /\ u[3] = 0
      OBVIOUS
    <3>2. v \in Seq(Symbol) /\ Len(v) = 3 /\ v[1] = "[" /\ v[2] = "label" /\ v[3] = "]"
      BY LabelTyped DEF Label
    <3>3. 1 \in 1..3 /\ 2 \in 1..3 /\ 3 \in 1..3 /\ Len(o) = Len(y)
      BY <1>1
    <3> HIDE DEF u, v
    <3>4. /\ p \in Seq(Nat) /\ Len(p) = Len(o) + 3 /\ \A q \in 1..Len(o) : p[q] = o[q]
          /\ \A q \in 1..3 : p[Len(o) + q] = u[q]
      BY <3>1, Joined DEF u
    <3>5. /\ Len(z) = Len(y) + 3 /\ \A q \in 1..Len(y) : z[q] = y[q]
          /\ \A q \in 1..3 : z[Len(y) + q] = v[q]
      BY <3>2, Joined DEF v
    <3> HIDE DEF p, z
    <3> QED
      BY <3>1, <3>2, <3>3, <3>4, <3>5
  <2> HIDE DEF p, z
  <2>3. \A q \in 1..Len(p) : q \in 1..Len(o) \/ q \in {Len(o) + 1, Len(o) + 2, Len(o) + 3}
    BY <1>1, <2>2
  <2>4. \A q \in 1..Len(p) : p[q] = 0 => z[q] \in {"[", "label", "]"}
    BY <2>2, <2>3 DEF Origin
  <2>5. \A q \in 1..Len(p) : p[q] # 0 => p[q] \in 1..(k + 1) /\ z[q] = text[p[q]] /\ ~InHit(hits, p[q])
    <3> SUFFICES ASSUME NEW q \in 1..Len(p), p[q] # 0
                 PROVE  p[q] \in 1..(k + 1) /\ z[q] = text[p[q]] /\ ~InHit(hits, p[q])
      OBVIOUS
    <3>1. q \in 1..Len(o)
      BY <2>2, <2>3
    <3>2. o[q] \in 1..k /\ y[q] = text[o[q]] /\ ~InHit(hits, o[q])
      BY <2>2, <3>1 DEF Origin
    <3>3. p[q] = o[q] /\ z[q] = y[q]
      BY <2>2, <3>1
    <3>4. 1..k \subseteq 1..(k + 1)
      BY <1>1
    <3> QED
      BY ONLY <3>2, <3>3, <3>4
  <2>6. \A q \in 1..(Len(p) - 1) : p[q] # 0 /\ p[q + 1] # 0 => p[q + 1] = p[q] + 1
    <3> SUFFICES ASSUME NEW q \in 1..(Len(p) - 1), p[q] # 0, p[q + 1] # 0 PROVE p[q + 1] = p[q] + 1
      OBVIOUS
    <3>1. q + 1 \in 1..Len(p) /\ q \in Nat
      BY <1>1, <2>2
    <3>2. q + 1 \in 1..Len(o)
      BY <2>2, <2>3, <3>1
    <3>3. q \in 1..(Len(o) - 1) /\ q \in 1..Len(o)
      BY <1>1, <3>1, <3>2
    <3> QED
      BY <2>2, <3>2, <3>3 DEF Origin
  <2>7. Origin(text, hits, k + 1, z, p)
    BY <1>1, <2>2, <2>4, <2>5, <2>6 DEF Origin
  <2> QED
    BY <2>1, <2>2, <2>7 DEF z
<1>3. CASE (~\E s \in hits : s.start = k + 1) /\ \E s \in hits : k + 1 \in s.start..s.end
  <2>1. piece = << >>
    BY <1>3 DEF Piece
  <2>2. y \o << >> = y
    BY ConcatEmptySeq
  <2>3. PICK s \in hits : s.start <= k + 1 /\ k + 1 <= s.end /\ s.start # k + 1
    BY <1>3
  <2>4. s.start <= k /\ k <= s.end
    BY <1>1, <2>3
  <2>5. InHit(hits, k)
    BY <2>4 DEF InHit
  <2>6. Origin(text, hits, k + 1, y, o)
    <3>1. Len(o) > 0 /\ o[Len(o)] = 0
      BY <2>5 DEF Origin
    <3>2. \A q \in 1..Len(o) : o[q] \in 1..k => o[q] \in 1..(k + 1)
      BY <1>1
    <3> QED
      BY <3>1, <3>2 DEF Origin
  <2> QED
    BY <2>1, <2>2, <2>6
<1>4. CASE (~\E s \in hits : s.start = k + 1) /\ ~\E s \in hits : k + 1 \in s.start..s.end
  <2>1. ~InHit(hits, k + 1)
    BY <1>1, <1>4 DEF InHit
  <2>2. piece = <<text[k + 1]>>
    BY <1>4 DEF Piece
  <2> DEFINE z == y \o <<text[k + 1]>>
             p == o \o <<k + 1>>
  <2>3. text[k + 1] \in Symbol
    BY <1>1
  <2>4. /\ p \in Seq(Nat) /\ Len(p) = Len(o) + 1 /\ Len(z) = Len(o) + 1
        /\ \A q \in 1..Len(o) : p[q] = o[q] /\ z[q] = y[q]
        /\ p[Len(o) + 1] = k + 1 /\ z[Len(o) + 1] = text[k + 1]
    <3> DEFINE u == <<k + 1>>
               v == <<text[k + 1]>>
    <3>1. u \in Seq(Nat) /\ Len(u) = 1 /\ u[1] = k + 1
      BY <1>1
    <3>2. v \in Seq(Symbol) /\ Len(v) = 1 /\ v[1] = text[k + 1]
      BY <2>3
    <3>3. 1 \in 1..1 /\ Len(o) = Len(y)
      BY <1>1
    <3> HIDE DEF u, v
    <3>4. /\ p \in Seq(Nat) /\ Len(p) = Len(o) + 1 /\ \A q \in 1..Len(o) : p[q] = o[q]
          /\ \A q \in 1..1 : p[Len(o) + q] = u[q]
      BY <3>1, Joined DEF u
    <3>5. /\ Len(z) = Len(y) + 1 /\ \A q \in 1..Len(y) : z[q] = y[q]
          /\ \A q \in 1..1 : z[Len(y) + q] = v[q]
      BY <3>2, Joined DEF v
    <3> HIDE DEF p, z
    <3> QED
      BY <3>1, <3>2, <3>3, <3>4, <3>5
  <2> HIDE DEF p, z
  <2>5. \A q \in 1..Len(p) : q \in 1..Len(o) \/ q = Len(o) + 1
    BY <1>1, <2>4
  <2>6. \A q \in 1..Len(p) : p[q] = 0 => z[q] \in {"[", "label", "]"}
    <3> SUFFICES ASSUME NEW q \in 1..Len(p), p[q] = 0 PROVE z[q] \in {"[", "label", "]"}
      OBVIOUS
    <3>1. q \in 1..Len(o)
      BY <1>1, <2>4, <2>5
    <3>2. o[q] = 0 /\ z[q] = y[q]
      BY <2>4, <3>1
    <3> QED
      BY <3>1, <3>2 DEF Origin
  <2>7. \A q \in 1..Len(p) : p[q] # 0 => p[q] \in 1..(k + 1) /\ z[q] = text[p[q]] /\ ~InHit(hits, p[q])
    <3> SUFFICES ASSUME NEW q \in 1..Len(p), p[q] # 0
                 PROVE  p[q] \in 1..(k + 1) /\ z[q] = text[p[q]] /\ ~InHit(hits, p[q])
      OBVIOUS
    <3>1. CASE q \in 1..Len(o)
      <4>1. o[q] \in 1..k /\ y[q] = text[o[q]] /\ ~InHit(hits, o[q])
        BY <2>4, <3>1 DEF Origin
      <4>2. p[q] = o[q] /\ z[q] = y[q]
        BY <2>4, <3>1
      <4>3. 1..k \subseteq 1..(k + 1)
        BY <1>1
      <4> QED
        BY ONLY <4>1, <4>2, <4>3
    <3>2. CASE q = Len(o) + 1
      BY <1>1, <2>1, <2>4, <3>2
    <3> QED
      BY <2>5, <3>1, <3>2
  <2>8. \A q \in 1..(Len(p) - 1) : p[q] # 0 /\ p[q + 1] # 0 => p[q + 1] = p[q] + 1
    <3> SUFFICES ASSUME NEW q \in 1..(Len(p) - 1), p[q] # 0, p[q + 1] # 0 PROVE p[q + 1] = p[q] + 1
      OBVIOUS
    <3>1. q + 1 \in 1..Len(p) /\ q \in 1..Len(o)
      BY <1>1, <2>4
    <3>2. CASE q + 1 \in 1..Len(o)
      <4>1. q \in 1..(Len(o) - 1)
        BY <1>1, <3>1, <3>2
      <4> QED
        BY <2>4, <3>1, <3>2, <4>1 DEF Origin
    <3>3. CASE q + 1 = Len(o) + 1
      <4>1. q = Len(o) /\ Len(o) > 0
        BY <1>1, <3>1, <3>3
      <4>2. o[Len(o)] \in {0, k} /\ p[q] = o[Len(o)] /\ p[q + 1] = k + 1
        BY <2>4, <3>1, <3>3, <4>1 DEF Origin
      <4> QED
        BY <4>2
    <3> QED
      BY <2>5, <3>1, <3>2, <3>3
  <2>9. Len(p) > 0 /\ p[Len(p)] \in {0, k + 1}
    BY <1>1, <2>4
  <2>10. Len(p) = Len(z)
    BY <2>4
  <2>11. Origin(text, hits, k + 1, z, p)
    BY <2>1, <2>6, <2>7, <2>8, <2>9, <2>10 DEF Origin
  <2> QED
    BY <2>2, <2>4, <2>11 DEF z
<1> QED
  BY <1>2, <1>3, <1>4

(* A redacted text, as a whole. *)
LEMMA RedactedOrigin ==
  ASSUME NEW text \in Seq(Symbol), NEW hits \in SUBSET Hit
  PROVE  Redacted(text, hits) \in Seq(Symbol)
         /\ \E o \in Seq(Nat) : Origin(text, hits, Len(text), Redacted(text, hits), o)
<1> DEFINE n == Len(text)
           P == [i \in DOMAIN text |-> Piece(text, hits, i)]
<1>1. /\ P \in Seq(Seq(Symbol)) /\ Len(P) = n /\ n \in Nat
      /\ \A i \in 1..n : P[i] = Piece(text, hits, i)
  <2>1. DOMAIN text = 1..n /\ n \in Nat
    OBVIOUS
  <2> QED
    BY <2>1, PiecesTyped
<1>2. PICK g : Flattens(P, Symbol, g)
  <2> HIDE DEF P
  <2> QED
    BY <1>1, FlattenRuns
<1>3. /\ g \in [0..n -> Seq(Symbol)] /\ g[0] = << >> /\ FlattenSeq(P) = g[n]
      /\ \A i \in 1..n : g[i] = g[i - 1] \o Piece(text, hits, i)
  <2> HIDE DEF P, n
  <2> QED
    BY <1>1, <1>2 DEF Flattens
<1>4. Redacted(text, hits) = FlattenSeq(P)
  BY Zenon DEF Redacted, P, Piece
<1> HIDE DEF P, n
<1> DEFINE S == {k \in 0..n : \E o \in Seq(Nat) : Origin(text, hits, k, g[k], o)}
<1>5. 0 \in S
  <2>1. ~InHit(hits, 0)
    BY DEF InHit, Hit
  <2>2. << >> \in Seq(Nat) /\ Len(<< >>) = 0
    OBVIOUS
  <2>3. Origin(text, hits, 0, << >>, << >>)
    BY <2>1, <2>2 DEF Origin
  <2> QED
    BY <1>1, <1>3, <2>2, <2>3
<1>6. ASSUME NEW k \in 0..(n - 1), k \in S PROVE k + 1 \in S
  <2>1. k + 1 \in 1..n /\ (k + 1) - 1 = k /\ k \in 0..n /\ k + 1 \in 0..n
    BY <1>1
  <2>2. PICK o \in Seq(Nat) : Origin(text, hits, k, g[k], o)
    BY <1>6
  <2>3. g[k] \in Seq(Symbol) /\ g[k + 1] = g[k] \o Piece(text, hits, k + 1)
    BY <1>3, <2>1
  <2>4. k \in 0..(Len(text) - 1)
    BY DEF n
  <2> DEFINE y == g[k]
  <2>5. y \in Seq(Symbol) /\ Origin(text, hits, k, y, o)
    BY <2>2, <2>3
  <2> HIDE DEF y
  <2>6. \E p \in Seq(Nat) : Origin(text, hits, k + 1, y \o Piece(text, hits, k + 1), p)
    BY <2>2, <2>4, <2>5, OriginOn
  <2> QED
    BY <2>1, <2>3, <2>6 DEF y
<1>7. 0..n \subseteq S
  <2> HIDE DEF S
  <2> QED
    BY <1>1, <1>5, <1>6, InductTo
<1>8. n \in S /\ g[n] \in Seq(Symbol)
  BY <1>1, <1>3, <1>7
<1> QED
  BY <1>3, <1>4, <1>8 DEF n

(* A match of a pattern, symbol by symbol. *)
LEMMA MatchMeans ==
  ASSUME NEW text \in Seq(Symbol), NEW p \in Seq(STRING) \ {<< >>}, NEW i \in Nat \ {0}
  PROVE  MatchesAt(p, text, i) <=>
            i + Len(p) - 1 <= Len(text) /\ \A m \in 1..Len(p) : text[i + m - 1] = p[m]
<1> DEFINE l == Len(p)
           u == SubSeq(text, i, i + l - 1)
<1>1. l \in Nat \ {0} /\ DOMAIN p = 1..l
  OBVIOUS
<1>2. ASSUME i + l - 1 <= Len(text)
      PROVE  u = p <=> \A m \in 1..l : text[i + m - 1] = p[m]
  <2>1. /\ Len(u) = l /\ u \in Seq(Symbol) /\ \A m \in 1..l : u[m] = text[i + m - 1]
    <3>1. \A m \in i..(i + l - 1) : text[m] \in Symbol
      BY <1>1, <1>2
    <3> HIDE DEF l
    <3>2. i + l - 1 \in Int /\ i \in Int /\ i <= i + l - 1
      BY <1>1
    <3>3. u \in Seq(Symbol) /\ Len(u) = l
      BY <1>1, <3>1, <3>2, SubSeqProperties
    <3>4. \A m \in 1..l : u[m] = text[i + m - 1]
      BY <1>1, <3>1, <3>2, SubSeqProperties
    <3> QED
      BY <3>3, <3>4
  <2> HIDE DEF u
  <2>2. (\A m \in 1..l : u[m] = p[m]) <=> u = p
    <3>1. p \in Seq(STRING) /\ Len(p) = Len(u)
      BY <2>1
    <3>2. u = [m \in 1..l |-> u[m]] /\ p = [m \in 1..l |-> p[m]]
      BY <1>1, <2>1
    <3> QED
      BY <3>2
  <2> QED
    BY <2>1, <2>2
<1> QED
  BY <1>2 DEF MatchesAt

(* A pattern of which no two matches overlap is found wherever it matches. *)
LEMMA FoundWhole ==
  ASSUME NEW text \in Seq(Symbol), NEW p \in Seq(STRING) \ {<< >>}, NEW i \in 1..Len(text),
         MatchesAt(p, text, i), ~Tangled(p, text)
  PROVE  Span(i, i + Len(p) - 1) \in Finditer(p, text)
<1>1. PICK j \in 1..i : /\ i < j + Len(p) /\ MatchesAt(p, text, j)
                        /\ Span(j, j + Len(p) - 1) \in Finditer(p, text)
  BY FinditerFit
<1>2. i \in DOMAIN text /\ j \in DOMAIN text
  BY <1>1
<1>3. j = i
  BY <1>1, <1>2 DEF Tangled
<1> QED
  BY <1>1, <1>3

(* A text holds a secret if and only if the pattern matches in it. *)
LEMMA SecretMatches ==
  ASSUME NEW text \in Seq(Symbol), NEW p \in Seq(STRING) \ {<< >>}
  PROVE  HoldsSecret(p, text) <=> \E a \in 1..Len(text) : MatchesAt(p, text, a)
<1>1. /\ \A s \in Finditer(p, text) : s.start \in 1..Len(text) /\ MatchesAt(p, text, s.start)
      /\ \A a \in 1..Len(text) : MatchesAt(p, text, a) => Finditer(p, text) # {}
  BY FinditerFit DEF Spanned
<1> QED
  BY <1>1 DEF HoldsSecret

(* A match in what is left of a text, with no symbol of a label, is a match *)
(* in the text that no hit meets. *)
LEMMA MatchHasOrigin ==
  ASSUME NEW text \in Seq(Symbol), NEW hits \in SUBSET Hit, NEW y \in Seq(Symbol), NEW o \in Seq(Nat),
         Origin(text, hits, Len(text), y, o),
         NEW p \in Seq(STRING) \ {<< >>}, \A m \in 1..Len(p) : p[m] \notin {"[", "label", "]"},
         NEW i \in 1..Len(y), MatchesAt(p, y, i)
  PROVE  \E a \in 1..Len(text) : /\ MatchesAt(p, text, a)
                                 /\ \A b \in a..(a + Len(p) - 1) : ~InHit(hits, b)
<1> DEFINE l == Len(p)
           n == Len(text)
<1>1. l \in Nat \ {0} /\ n \in Nat /\ i \in Nat \ {0} /\ Len(y) \in Nat /\ Len(o) = Len(y)
      /\ \A q \in 1..Len(o) : o[q] \in Nat
  BY DEF Origin
<1>2. i + l - 1 <= Len(y) /\ \A m \in 1..l : y[i + m - 1] = p[m]
  BY <1>1, MatchMeans
<1> HIDE DEF l, n
<1>3. ASSUME NEW m \in 1..l
      PROVE  /\ i + m - 1 \in 1..Len(o) /\ o[i + m - 1] \in 1..n
             /\ text[o[i + m - 1]] = p[m] /\ ~InHit(hits, o[i + m - 1])
  <2>1. i + m - 1 \in 1..Len(o)
    BY <1>1, <1>2
  <2>2. y[i + m - 1] \notin {"[", "label", "]"}
    BY <1>2 DEF l
  <2>3. o[i + m - 1] # 0
    BY <2>1, <2>2 DEF Origin
  <2>4. y[i + m - 1] = text[o[i + m - 1]] /\ o[i + m - 1] \in 1..n /\ ~InHit(hits, o[i + m - 1])
    BY <2>1, <2>3 DEF Origin, n
  <2> QED
    BY <1>2, <2>1, <2>4
<1> DEFINE a == o[i]
           S == {k \in 0..(l - 1) : o[i + k] = a + k}
<1>4. a \in 1..n
  <2>1. 1 \in 1..l /\ i + 1 - 1 = i
    BY <1>1
  <2> QED
    BY <1>3, <2>1
<1>5. 0 \in S
  BY <1>1, <1>4
<1>6. ASSUME NEW k \in 0..((l - 1) - 1), k \in S PROVE k + 1 \in S
  <2>1. k + 1 \in 1..l /\ (k + 1) + 1 \in 1..l /\ i + (k + 1) - 1 = i + k /\ i + ((k + 1) + 1) - 1 = i + k + 1
        /\ k + 1 \in 0..(l - 1)
    BY <1>1
  <2>2. /\ i + k \in 1..Len(o) /\ o[i + k] \in 1..n
        /\ i + k + 1 \in 1..Len(o) /\ o[i + k + 1] \in 1..n
    BY <1>3, <2>1
  <2>3. i + k \in 1..(Len(o) - 1) /\ o[i + k] # 0 /\ o[(i + k) + 1] # 0
    BY <1>1, <2>2
  <2>4. o[(i + k) + 1] = o[i + k] + 1
    BY <2>3 DEF Origin
  <2>5. o[i + k] = a + k
    BY <1>6
  <2>6. o[i + (k + 1)] = a + (k + 1)
    <3> HIDE DEF a
    <3>1. i + (k + 1) = (i + k) + 1 /\ (a + k) + 1 = a + (k + 1)
      BY <1>1, <1>4, <2>1
    <3>2. o[i + (k + 1)] = o[i + k] + 1
      BY <2>4, <3>1, Zenon
    <3> QED
      BY ONLY <2>5, <3>1, <3>2
  <2> QED
    BY <2>1, <2>6
<1>7. 0..(l - 1) \subseteq S
  <2> HIDE DEF S
  <2>1. l - 1 \in Nat
    BY <1>1
  <2> QED
    BY <1>5, <1>6, <2>1, InductTo
<1>8. ASSUME NEW m \in 1..l PROVE o[i + m - 1] = a + m - 1
  <2>1. m - 1 \in 0..(l - 1) /\ i + (m - 1) = i + m - 1 /\ a + (m - 1) = a + m - 1
    BY <1>1, <1>4
  <2>2. m - 1 \in S
    BY <1>7, <2>1
  <2> QED
    BY <2>1, <2>2
<1> HIDE DEF a, S
<1>9. a + l - 1 <= n
  <2>1. l \in 1..l
    BY <1>1
  <2>2. o[i + l - 1] \in 1..n /\ o[i + l - 1] = a + l - 1
    BY <1>3, <1>8, <2>1
  <2> QED
    BY <2>2
<1>10. \A m \in 1..l : text[a + m - 1] = p[m]
  BY <1>3, <1>8
<1>11. MatchesAt(p, text, a)
  <2>1. a \in Nat \ {0}
    BY <1>4
  <2> QED
    BY <1>9, <1>10, <2>1, MatchMeans DEF l, n
<1>12. ASSUME NEW b \in a..(a + l - 1) PROVE ~InHit(hits, b)
  <2>1. b - a + 1 \in 1..l /\ a + (b - a + 1) - 1 = b
    BY <1>1, <1>4
  <2> QED
    BY <1>3, <1>8, <2>1
<1> QED
  BY <1>4, <1>11, <1>12 DEF l, n

LEMMA PatternTyped ==
  ASSUME NEW p \in ToSet(Patterns)
  PROVE  /\ p \in Seq(STRING) \ {<< >>}
         /\ \E i \in DOMAIN Patterns : p = Patterns[i]
         /\ Bare(p) => \A m \in 1..Len(p) : p[m] \notin {"[", "label", "]"}
<1>1. PICK i \in DOMAIN Patterns : p = Patterns[i]
  BY DEF ToSet
<1>2. p \in Seq(STRING) \ {<< >>}
  <2>1. Patterns \in Seq(Seq(STRING) \ {<< >>})
    BY TextAssumption
  <2> QED
    BY <1>1, <2>1
<1>3. ToSet(Label) = {"[", "label", "]"}
  BY DEF Label, ToSet
<1>4. \A m \in 1..Len(p) : p[m] \in ToSet(p)
  BY <1>2 DEF ToSet
<1> QED
  BY <1>1, <1>2, <1>3, <1>4 DEF Bare

(* A text is clean when what a bare pattern finds in it is what is left of *)
(* a text, among those that came in, in which two of its matches overlap. *)
CleanOf(x, texts) ==
    /\ x \in Seq(Symbol)
    /\ \A p \in ToSet(Patterns) :
          Bare(p) /\ HoldsSecret(p, x) => \E t \in texts : Tangled(p, t)

LEMMA CleanOfMore ==
  ASSUME NEW x, NEW texts, NEW more, texts \subseteq more, CleanOf(x, texts)
  PROVE  CleanOf(x, more)
BY DEF CleanOf

LEMMA SanitizedIsClean ==
  ASSUME NEW text \in Seq(Symbol)
  PROVE  CleanOf(Sanitize(text), {text})
<1> DEFINE hits == Hits(text)
           y == Sanitize(text)
<1>1. /\ hits \in SUBSET Spanned(text) /\ Apart(hits)
      /\ \A i \in DOMAIN Patterns : \A s \in Finditer(Patterns[i], text) : Overlaps(s, hits)
  BY HitsFit
<1> HIDE DEF hits
<1>2. hits \in SUBSET Hit /\ InText(text, hits)
  <2>1. Len(text) \in Nat
    OBVIOUS
  <2> QED
    BY <1>1, <2>1 DEF Spanned, Hit, InText
<1>3. y = Redacted(text, hits)
  BY <1>1, <1>2, SubstituteExact DEF Sanitize, hits
<1> HIDE DEF y
<1>4. y \in Seq(Symbol)
  BY <1>2, <1>3, RedactedOrigin
<1>5. PICK o \in Seq(Nat) : Origin(text, hits, Len(text), y, o)
  BY <1>2, <1>3, RedactedOrigin
<1>6. ASSUME NEW p \in ToSet(Patterns), Bare(p), HoldsSecret(p, y) PROVE Tangled(p, text)
  <2> SUFFICES ASSUME ~Tangled(p, text) PROVE FALSE
    OBVIOUS
  <2>1. /\ p \in Seq(STRING) \ {<< >>} /\ \A m \in 1..Len(p) : p[m] \notin {"[", "label", "]"}
        /\ \E i \in DOMAIN Patterns : p = Patterns[i]
    BY <1>6, PatternTyped
  <2>2. PICK q \in 1..Len(y) : MatchesAt(p, y, q)
    BY <1>4, <1>6, <2>1, SecretMatches
  <2>3. \A s \in Finditer(p, text) : Overlaps(s, hits)
    BY <1>1, <2>1
  <2>4. PICK a \in 1..Len(text) : MatchesAt(p, text, a) /\ \A b \in a..(a + Len(p) - 1) : ~InHit(hits, b)
    BY <1>2, <1>4, <1>5, <2>1, <2>2, MatchHasOrigin
  <2>5. Span(a, a + Len(p) - 1) \in Finditer(p, text)
    BY <2>1, <2>4, FoundWhole
  <2>6. Overlaps(Span(a, a + Len(p) - 1), hits)
    BY <2>3, <2>5
  <2>7. PICK s \in hits : s.start <= a + Len(p) - 1 /\ a <= s.end
    BY <2>6 DEF Overlaps, Span
  <2>8. s.start \in Nat /\ s.end \in Nat /\ s.start <= s.end /\ a \in Nat /\ Len(p) \in Nat \ {0}
    BY <1>1, <2>1 DEF Spanned
  <2>9. CASE s.start <= a
    <3>1. a \in a..(a + Len(p) - 1)
      BY <2>8
    <3>2. ~InHit(hits, a)
      BY <2>4, <3>1
    <3> QED
      BY <2>7, <2>9, <3>2 DEF InHit
  <2>10. CASE a < s.start
    <3>1. s.start \in a..(a + Len(p) - 1)
      BY <2>7, <2>8, <2>10
    <3>2. ~InHit(hits, s.start)
      BY <2>4, <3>1
    <3> QED
      BY <2>8, <3>2 DEF InHit
  <2> QED
    BY <2>8, <2>9, <2>10
<1> QED
  BY <1>4, <1>6 DEF y, CleanOf

(* A text that differs from a clean one only by symbols of labels is clean. *)
LEMMA LabelsAddNoSecret ==
  ASSUME NEW text \in Seq(Symbol), NEW y \in Seq(Symbol),
         \A q \in 1..Len(y) : y[q] \in {"[", "label", "]"} \/ (q \in 1..Len(text) /\ y[q] = text[q]),
         NEW p \in ToSet(Patterns), Bare(p), HoldsSecret(p, y)
  PROVE  HoldsSecret(p, text)
<1>1. p \in Seq(STRING) \ {<< >>} /\ \A m \in 1..Len(p) : p[m] \notin {"[", "label", "]"}
  BY PatternTyped
<1>2. PICK a \in 1..Len(y) : MatchesAt(p, y, a)
  BY <1>1, SecretMatches
<1>3. Len(p) \in Nat \ {0} /\ a \in Nat \ {0} /\ Len(y) \in Nat /\ Len(text) \in Nat
  BY <1>1
<1>4. a + Len(p) - 1 <= Len(y) /\ \A m \in 1..Len(p) : y[a + m - 1] = p[m]
  BY <1>2, <1>1, <1>3, MatchMeans
<1>5. ASSUME NEW m \in 1..Len(p) PROVE a + m - 1 \in 1..Len(text) /\ text[a + m - 1] = p[m]
  <2>1. a + m - 1 \in 1..Len(y)
    BY <1>3, <1>4
  <2>2. y[a + m - 1] = p[m] /\ p[m] \notin {"[", "label", "]"}
    BY <1>1, <1>4
  <2> QED
    BY <2>1, <2>2
<1>6. a + Len(p) - 1 <= Len(text) /\ a \in 1..Len(text)
  <2>1. 1 \in 1..Len(p) /\ Len(p) \in 1..Len(p) /\ a + 1 - 1 = a
    BY <1>3
  <2>2. a + Len(p) - 1 \in 1..Len(text)
    BY <1>5, <2>1
  <2>3. a + 1 - 1 \in 1..Len(text)
    BY <1>5, <2>1
  <2> QED
    BY <1>3, <2>1, <2>2, <2>3
<1>7. MatchesAt(p, text, a)
  BY <1>1, <1>3, <1>5, <1>6, MatchMeans
<1> QED
  BY <1>1, <1>6, <1>7, SecretMatches

(* What the prompt leaves out or puts in makes no secret. *)
LEMMA PromptIsClean ==
  ASSUME NEW text, NEW texts, CleanOf(text, texts)
  PROVE  CleanOf(ForPrompt(text), texts)
<1> DEFINE y == ForPrompt(text)
           cleaned == [i \in DOMAIN text |-> IF text[i] \in PromptPhrases THEN "label" ELSE text[i]]
           start == SubSeq(cleaned, 1, MaxChars)
<1>1. text \in Seq(Symbol)
  BY DEF CleanOf
<1>2. /\ cleaned \in Seq(Symbol) /\ Len(cleaned) = Len(text) /\ Len(text) \in Nat
      /\ \A i \in 1..Len(text) : cleaned[i] \in {"label", text[i]}
  <2>1. DOMAIN text = 1..Len(text) /\ Len(text) \in Nat /\ \A i \in 1..Len(text) : text[i] \in Symbol
    BY <1>1
  <2>2. "label" \in Symbol
    BY DEF Symbol
  <2>3. cleaned \in [1..Len(text) -> Symbol]
    BY <2>1, <2>2
  <2>4. \A i \in 1..Len(text) : cleaned[i] \in {"label", text[i]}
    BY <2>1
  <2> HIDE DEF cleaned
  <2>5. cleaned \in Seq(Symbol)
    BY <2>1, <2>3
  <2>6. Len(cleaned) = Len(text)
    BY <2>1, <2>3, <2>5
  <2> QED
    BY <2>1, <2>4, <2>5, <2>6
<1>3. y = IF Flood(text) THEN Label
          ELSE IF Len(cleaned) > MaxChars THEN Append(start, "label") ELSE cleaned
  BY DEF ForPrompt
<1> HIDE DEF cleaned, y
<1>4. /\ y \in Seq(Symbol)
      /\ \A q \in 1..Len(y) : y[q] \in {"[", "label", "]"} \/ (q \in 1..Len(text) /\ y[q] = text[q])
  <2>1. CASE Flood(text)
    <3>1. y = <<"[", "label", "]">> /\ Len(<<"[", "label", "]">>) = 3
      BY <1>3, <2>1 DEF Label
    <3>2. \A q \in 1..3 : <<"[", "label", "]">>[q] \in {"[", "label", "]"}
      OBVIOUS
    <3> QED
      BY <1>3, <2>1, <3>1, <3>2, LabelTyped
  <2>2. CASE ~Flood(text) /\ Len(cleaned) > MaxChars
    <3>1. y = Append(start, "label")
      BY <1>3, <2>2
    <3>2. MaxChars \in Nat /\ MaxChars < Len(cleaned)
      BY <1>2, <2>2, PipelineAssumption
    <3>3. /\ start \in Seq(Symbol) /\ Len(start) = MaxChars
          /\ \A q \in 1..MaxChars : start[q] = cleaned[q]
      <4>1. \A q \in 1..MaxChars : cleaned[q] \in Symbol
        BY <1>2, <3>2
      <4>2. 1 \in Int /\ MaxChars \in Int
        BY <3>2
      <4>3. start \in Seq(Symbol)
        BY <4>1, <4>2, SubSeqProperties
      <4>4. Len(start) = MaxChars /\ \A q \in 1..MaxChars : start[q] = cleaned[q]
        BY <1>2, <3>2
      <4> QED
        BY <4>3, <4>4
    <3> HIDE DEF start
    <3>4. "label" \in Symbol
      BY DEF Symbol
    <3>5. /\ y \in Seq(Symbol) /\ Len(y) = MaxChars + 1 /\ y[MaxChars + 1] = "label"
          /\ \A q \in 1..MaxChars : y[q] = start[q]
      BY <3>1, <3>2, <3>3, <3>4
    <3>6. ASSUME NEW q \in 1..Len(y)
          PROVE  y[q] \in {"[", "label", "]"} \/ (q \in 1..Len(text) /\ y[q] = text[q])
      <4>1. CASE q = MaxChars + 1
        BY <3>5, <4>1
      <4>2. CASE q \in 1..MaxChars
        BY <1>2, <3>2, <3>3, <3>5, <4>2
      <4>3. q = MaxChars + 1 \/ q \in 1..MaxChars
        BY <3>2, <3>5
      <4> QED
        BY <4>1, <4>2, <4>3
    <3> QED
      BY <3>5, <3>6
  <2>3. CASE ~Flood(text) /\ ~(Len(cleaned) > MaxChars)
    BY <1>2, <1>3, <2>3
  <2> QED
    BY <2>1, <2>2, <2>3
<1>5. \A p \in ToSet(Patterns) : Bare(p) /\ HoldsSecret(p, y) => HoldsSecret(p, text)
  BY <1>4, <1>1, LabelsAddNoSecret
<1> QED
  BY <1>4, <1>5 DEF y, CleanOf

-----------------------------------------------------------------------------
(* No secret leaves the process but those that the redaction may leave.  The *)
(* texts of the incident are clean from the first stage on; a suggestion is *)
(* texts that came in until Redact, and its texts are clean after it. *)
Clean(x) == CleanOf(x, raw)

Worded(s) ==
    /\ s = Suggestion(s.source, s.summary, s.patchFile, s.patch, s.risks, s.guidance)
    /\ "text" \in DOMAIN s.patch
    /\ {s.summary, s.patch.text, s.guidance} \subseteq Seq(Symbol)

CameIn(s) == {s.summary, s.patch.text, s.guidance} \subseteq raw

SecretsInv ==
    /\ \A f \in IncidentFields : Clean(incident[f])
    /\ stage = "redact" => Worded(result.suggestion) /\ CameIn(result.suggestion)
    /\ stage \in {"judge", "apply", "tests", "publish", "pull"} => \A x \in PullTexts : Clean(x)
    /\ \A x \in sent \cup published : Clean(x)

LEMMA NothingIsClean == ASSUME NEW texts PROVE CleanOf(<< >>, texts)
<1>1. << >> \in Seq(Symbol) /\ ~\E a \in 1..Len(<< >>) : TRUE
  OBVIOUS
<1>2. \A p \in ToSet(Patterns) : ~HoldsSecret(p, << >>)
  BY <1>1, PatternTyped, SecretMatches
<1> QED
  BY <1>1, <1>2 DEF CleanOf

LEMMA CleanStays == ASSUME NEW x, raw \subseteq raw', Clean(x) PROVE CleanOf(x, raw')
BY CleanOfMore DEF Clean

LEMMA IncidentHas == IncidentFields = {"trigger", "stacktrace", "context"}
BY DEF IncidentFields, NoIncident

LEMMA WordsTyped == << >> \in Seq(Symbol) /\ <<"word">> \in Seq(Symbol)
<1>1. "word" \in Symbol
  BY DEF Symbol
<1> QED
  BY <1>1

LEMMA StubWorded == ASSUME NEW source PROVE Worded(Stub(source))
BY WordsTyped DEF Worded, Stub, Suggestion, Prose

LEMMA SectionsWorded ==
  ASSUME NEW s \in Outputs
  PROVE  Worded(FromSections(s))
<1> DEFINE section(key, default) == IF key \in DOMAIN s THEN s[key] ELSE default
<1>1. \A key : key \in DOMAIN s => s[key] \in Seq(STRING)
  BY DEF Outputs, Lines
<1>2. Seq(STRING) \subseteq Seq(Symbol)
  BY LabelTyped
<1>3. \A key : \A default \in Seq(Symbol) : section(key, default) \in Seq(Symbol)
  BY <1>1, <1>2
<1>4. FromSections(s) = Suggestion("provider", section("SUMMARY", <<"word">>), << >>,
                          Prose(section("PROPOSED_PATCH", << >>)),
                          section("RISKS", <<"word">>), section("TEST_GUIDANCE", << >>))
  BY DEF FromSections
<1> HIDE DEF section
<1>5. /\ section("SUMMARY", <<"word">>) \in Seq(Symbol) /\ section("PROPOSED_PATCH", << >>) \in Seq(Symbol)
      /\ section("TEST_GUIDANCE", << >>) \in Seq(Symbol)
  BY <1>3, WordsTyped
<1> QED
  BY <1>4, <1>5 DEF Worded, Suggestion, Prose

LEMMA AnswerWorded == ASSUME NEW a \in Answers PROVE Worded(ParseOutput(a))
<1>1. CASE a.json # NoSuggestion
  <2> DEFINE s == a.json
  <2>1. s \in {b.json : b \in Answers} \ {NoSuggestion}
    BY <1>1
  <2>2. /\ s = Suggestion(s.source, s.summary, s.patchFile, s.patch, s.risks, s.guidance)
        /\ "text" \in DOMAIN s.patch
        /\ {s.summary, s.patch.text, s.risks, s.guidance} \subseteq Seq(STRING)
    BY <2>1, PipelineAssumption
  <2>3. ParseOutput(a) = s
    BY <1>1 DEF ParseOutput
  <2> HIDE DEF s
  <2> QED
    BY <2>2, <2>3, LabelTyped DEF Worded
<1>2. CASE a.json = NoSuggestion
  <2>1. ExtractSections(a.lines) \in Outputs
    BY PipelineAssumption, SectionsExtracted
  <2>2. Worded(FromSections(ExtractSections(a.lines)))
    BY <2>1, SectionsWorded
  <2>3. Worded(Unparsed)
    BY WordsTyped DEF Worded, Unparsed, Suggestion, NoPatch, Prose
  <2>4. ParseOutput(a) \in {FromSections(ExtractSections(a.lines)), Unparsed}
    BY <1>2 DEF ParseOutput
  <2> QED
    BY <2>2, <2>3, <2>4
<1> QED
  BY <1>1, <1>2

LEMMA SuggestionCleaned ==
  ASSUME NEW s, Worded(s), CameIn(s)
  PROVE  LET c == SanitizeSuggestion(s)
         IN Clean(c.summary) /\ Clean(c.patch.text) /\ Clean(c.guidance)
<1>1. {"summary", "patch", "guidance", "risks"} \subseteq DOMAIN s
  BY DEF Worded, Suggestion
<1>2. RedactPatch(s.patch).text = Sanitize(s.patch.text)
  BY DEF RedactPatch, Worded
<1>3. /\ SanitizeSuggestion(s).summary = Sanitize(s.summary)
      /\ SanitizeSuggestion(s).patch = RedactPatch(s.patch)
      /\ SanitizeSuggestion(s).guidance = Sanitize(s.guidance)
  BY <1>1 DEF SanitizeSuggestion
<1>4. ASSUME NEW x \in {s.summary, s.patch.text, s.guidance} PROVE Clean(Sanitize(x))
  <2>1. x \in Seq(Symbol) /\ {x} \subseteq raw
    BY DEF Worded, CameIn
  <2>2. CleanOf(Sanitize(x), {x})
    BY <2>1, SanitizedIsClean
  <2> QED
    BY <2>1, <2>2, CleanOfMore DEF Clean
<1> QED
  BY <1>2, <1>3, <1>4

(* Before it begins a run has sent nothing. *)
IdleSends == stage = "idle" => sent = {} /\ published = {}

LEMMA IdleSendsInit == PipelineInit => IdleSends
BY DEF PipelineInit, PipelineAt, IdleSends

LEMMA IdleSendsStep ==
  ASSUME IdleSends, PipelineInv, [PipelineNext]_pipelineVars
  PROVE  IdleSends'
<1>1. CASE UNCHANGED pipelineVars
  BY <1>1 DEF pipelineVars, IdleSends
<1>2. CASE Finish
  BY <1>2 DEF Finish, IdleSends
<1>3. CASE PipelineStep
  <2>1. stage # "idle" /\ stage' # "idle"
    BY <1>3 DEF PipelineStep, Unasked, Transient, Refused, Answered, Asking, Suggested, Redact,
       Judge, Apply, ApplyFails, ApplyRuns, Unsandboxed, RunOnHost, RunInContainer, LimitsRefused,
       Tested, CommitPatch, OpenPullRequest, NoPullRequest, Record
  <2> QED
    BY <2>1 DEF IdleSends
<1>4. ASSUME NEW s \in Setups, NEW r \in Reports, Begin(s, r) PROVE IdleSends'
  BY <1>4 DEF Begin, IdleSends
<1> QED
  BY <1>1, <1>2, <1>3, <1>4 DEF PipelineNext

LEMMA SecretsInvInit == PipelineInit => SecretsInv
<1> SUFFICES ASSUME PipelineInit PROVE SecretsInv
  OBVIOUS
<1>1. stage = "idle" /\ incident = NoIncident /\ sent = {} /\ published = {}
  BY DEF PipelineInit, PipelineAt
<1> QED
  BY <1>1, NothingIsClean DEF SecretsInv, Clean, IncidentFields, NoIncident

(* The process has sent nothing before it begins. *)
LEMMA BeginKeepsSecrets ==
  ASSUME IdleSends, SecretsInv, NEW s \in Setups, NEW report \in Reports, Begin(s, report)
  PROVE  SecretsInv'
<1>1. /\ incident' = SanitizeIncident(report) /\ stage' \in {"record", "ask"}
      /\ sent' = {} /\ published' = {} /\ raw' = {report[f] : f \in IncidentFields}
  BY DEF Begin, IdleSends
<1>2. ASSUME NEW f \in IncidentFields PROVE Clean(incident[f])'
  <2>1. report[f] \in Seq(Symbol)
    BY PipelineAssumption, IncidentHas, LabelTyped
  <2>2. CleanOf(Sanitize(report[f]), {report[f]}) /\ {report[f]} \subseteq raw'
    BY <1>1, <2>1, SanitizedIsClean
  <2>3. incident'[f] = Sanitize(report[f])
    BY <1>1 DEF SanitizeIncident
  <2> QED
    BY <2>2, <2>3, CleanOfMore DEF Clean
<1> QED
  BY <1>1, <1>2 DEF SecretsInv

(* The call of the model, with or without an answer. *)
LEMMA AskingKeepsSecrets ==
  ASSUME PipelineInv, SecretsInv,
         Unasked \/ Transient \/ Refused \/ \E a \in Answers : Answered(a)
  PROVE  SecretsInv'
<1>1. stage = "ask" /\ UNCHANGED <<incident, published>>
  BY DEF Unasked, Transient, Refused, Answered, Asking, Posted
<1>2. \/ stage' = "ask" /\ raw' = raw
      \/ /\ stage' = "redact"
         /\ \E s : /\ Worded(s) /\ result' = [result EXCEPT !.suggestion = s]
                   /\ raw' = raw \cup {s.summary, s.patch.text, s.risks, s.guidance}
  BY <1>1, StubWorded, AnswerWorded, Zenon DEF Unasked, Transient, Refused, Answered, Suggested
<1>3. stage' = "redact" => Worded(result'.suggestion) /\ CameIn(result.suggestion)'
  BY <1>2, ResultFields DEF PipelineInv, CameIn
<1>4. raw \subseteq raw'
  BY <1>2
<1>5. ASSUME NEW x \in sent' \cup published' PROVE CleanOf(x, raw')
  <2>1. sent' = sent \/ sent' = {ForPrompt(incident[f]) : f \in IncidentFields}
    BY DEF Unasked, Transient, Refused, Answered, Posted
  <2>2. \A f \in IncidentFields : Clean(ForPrompt(incident[f]))
    BY PromptIsClean DEF SecretsInv, Clean
  <2>3. Clean(x)
    BY <1>1, <2>1, <2>2 DEF SecretsInv
  <2> QED
    BY <1>4, <2>3, CleanStays
<1>6. ASSUME NEW f \in IncidentFields PROVE CleanOf(incident'[f], raw')
  BY <1>1, <1>4, CleanStays DEF SecretsInv
<1> QED
  BY <1>2, <1>3, <1>5, <1>6 DEF SecretsInv, Clean

LEMMA RedactKeepsSecrets ==
  ASSUME PipelineInv, SecretsInv, Redact
  PROVE  SecretsInv'
<1>1. /\ stage = "redact" /\ result' = [result EXCEPT !.suggestion = SanitizeSuggestion(@)]
      /\ stage' \in {"record", "judge"} /\ UNCHANGED <<incident, sent, published, raw>>
  BY DEF Redact, marks
<1>2. result'.suggestion = SanitizeSuggestion(result.suggestion)
  BY <1>1, ResultFields DEF PipelineInv
<1>3. Clean(incident.trigger)
  BY IncidentHas DEF SecretsInv
<1>4. \A x \in PullTexts' : Clean(x)
  <2>1. Worded(result.suggestion) /\ CameIn(result.suggestion)
    BY <1>1 DEF SecretsInv
  <2> DEFINE c == SanitizeSuggestion(result.suggestion)
  <2>2. Clean(c.summary) /\ Clean(c.patch.text) /\ Clean(c.guidance)
    BY <2>1, SuggestionCleaned
  <2>3. PullTexts' = {incident.trigger, c.summary, c.patch.text, c.guidance}
    BY <1>1, <1>2 DEF PullTexts
  <2> HIDE DEF c
  <2> QED
    BY <1>3, <2>2, <2>3
<1> QED
  BY <1>1, <1>4 DEF SecretsInv, Clean

(* The stages after that change no text. *)
LEMMA StageKeepsSecrets ==
  ASSUME SecretsInv, stage \in {"judge", "apply", "tests", "publish", "pull"}, stage' # "redact",
         UNCHANGED <<incident, sent, raw>>, result'.suggestion = result.suggestion,
         published' = published \/ published' = PullTexts
  PROVE  SecretsInv'
<1>1. PullTexts' = PullTexts /\ \A x \in PullTexts : Clean(x)
  BY DEF SecretsInv, PullTexts
<1>2. \A x \in sent' \cup published' : Clean(x)
  BY <1>1 DEF SecretsInv
<1> QED
  BY <1>1, <1>2 DEF SecretsInv, Clean

LEMMA SecretsInvStep ==
  ASSUME IdleSends, PipelineInv, SecretsInv, [PipelineNext]_pipelineVars
  PROVE  SecretsInv'
<1>1. CASE UNCHANGED pipelineVars
  BY <1>1 DEF pipelineVars, marks, SecretsInv, Clean, CameIn, PullTexts
<1>2. CASE Unasked \/ Transient \/ Refused \/ \E a \in Answers : Answered(a)
  BY <1>2, AskingKeepsSecrets
<1>3. CASE Redact
  BY <1>3, RedactKeepsSecrets
<1>4. CASE Judge \/ Apply \/ Unsandboxed \/ RunOnHost \/ RunInContainer \/ LimitsRefused
           \/ CommitPatch \/ OpenPullRequest \/ NoPullRequest
  <2>1. /\ stage \in {"judge", "apply", "tests", "publish", "pull"}
        /\ UNCHANGED <<incident, sent, raw>>
    BY <1>4 DEF Judge, Apply, Unsandboxed, RunOnHost, RunInContainer, LimitsRefused,
                CommitPatch, OpenPullRequest, NoPullRequest, marks
  <2>2. published' = published \/ published' = PullTexts
    BY <1>4 DEF Judge, Apply, Unsandboxed, RunOnHost, RunInContainer, LimitsRefused,
                CommitPatch, OpenPullRequest, NoPullRequest
  <2>3. stage' # "redact" /\ result'.suggestion = result.suggestion
    <3>1. DOMAIN result = {"suggestion", "decision", "applied", "tests", "pull", "failure"}
      BY ResultFields DEF PipelineInv
    <3>2. \A code \in {0, 1, -1, -2} :
             Tested(code) => stage' # "redact" /\ result'.suggestion = result.suggestion
      BY <3>1 DEF Tested
    <3>3. CASE Judge
      BY <3>1, <3>3 DEF Judge
    <3>4. CASE Apply
      BY <3>1, <3>4 DEF Apply, ApplyFails, ApplyRuns
    <3>5. CASE RunOnHost \/ RunInContainer
      BY <3>2, <3>5 DEF RunOnHost, RunInContainer, TestCodes
    <3>6. CASE Unsandboxed \/ LimitsRefused \/ NoPullRequest
      BY <3>1, <3>6 DEF Unsandboxed, LimitsRefused, NoPullRequest
    <3>7. CASE CommitPatch
      BY <3>1, <3>7 DEF CommitPatch
    <3>8. CASE OpenPullRequest
      BY <3>1, <3>8 DEF OpenPullRequest
    <3> QED
      BY <1>4, <3>3, <3>4, <3>5, <3>6, <3>7, <3>8
  <2> QED
    BY <2>1, <2>2, <2>3, StageKeepsSecrets
<1>5. CASE Record
  BY <1>5 DEF Record, SecretsInv, Clean
<1>6. CASE Finish
  <2>1. stage' = "idle" /\ incident' = NoIncident /\ sent' = {} /\ published' = {}
    BY <1>6 DEF Finish
  <2> QED
    BY <2>1, NothingIsClean DEF SecretsInv, Clean, IncidentFields, NoIncident
<1>7. ASSUME NEW s \in Setups, NEW r \in Reports, Begin(s, r) PROVE SecretsInv'
  BY <1>7, BeginKeepsSecrets
<1> QED
  BY <1>1, <1>2, <1>3, <1>4, <1>5, <1>6, <1>7 DEF PipelineNext, PipelineStep

LEMMA SecretsTold == SecretsInv => SecretsKept
BY DEF SecretsInv, SecretsKept, Clean, CleanOf

(* Of a pattern that no label meets, and of which no two matches overlap in *)
(* a text that came in, no match goes to the model or to GitHub in a run of *)
(* the pipeline: whatever the incident, the answer, its kind, and however   *)
(* often the model is asked, and although the prompt is cut and filled with *)
(* labels after the redaction (pipeline.py, _sanitize_incident,             *)
(* _sanitize_suggestion). *)
THEOREM SecretsKeptHolds == PipelineSpec => []SecretsKept
<1>1. PipelineInit => PipelineInv /\ IdleSends /\ SecretsInv
  BY PipelineInvInit, IdleSendsInit, SecretsInvInit
<1>2. PipelineInv /\ IdleSends /\ SecretsInv /\ [PipelineNext]_pipelineVars
        => (PipelineInv /\ IdleSends /\ SecretsInv)'
  BY PipelineInvStep, IdleSendsStep, SecretsInvStep
<1> QED
  BY <1>1, <1>2, SecretsTold, PTL DEF PipelineSpec

-----------------------------------------------------------------------------
(***************************************************************************)
(* The application of a diff.                                              *)
(***************************************************************************)
LineHunk == [start : Nat \ {0}, length : Nat, new : Seq(Symbol)]

LEMMA BoundWithin ==
  ASSUME NEW i \in Nat, NEW n \in Nat
  PROVE  SliceBound(i, n) = IF i <= n THEN i ELSE n
<1>1. CASE i <= n
  BY <1>1 DEF SliceBound
<1>2. CASE ~(i <= n)
  BY <1>2 DEF SliceBound
<1> QED
  BY <1>1, <1>2

LEMMA HunkTyped ==
  ASSUME NEW x \in Seq(Symbol), NEW h \in LineHunk
  PROVE  ReplaceHunk(x, h) \in Seq(Symbol)
<1> DEFINE n == Len(x)
           lo == SliceBound(h.start - 1, n)
           to == SliceBound(h.start - 1 + h.length, n)
           hi == IF to < lo THEN lo ELSE to
<1>1. n \in Nat /\ h.start - 1 \in Nat /\ h.start - 1 + h.length \in Nat /\ h.new \in Seq(Symbol)
  BY DEF LineHunk
<1> HIDE DEF n
<1>2. lo \in 0..n /\ to \in 0..n
  BY <1>1, BoundWithin
<1> HIDE DEF lo, to
<1>3. hi \in 0..n
  BY <1>2
<1>4. ReplaceHunk(x, h) = SubSeq(x, 1, lo) \o h.new \o SubSeq(x, hi + 1, n)
  BY DEF ReplaceHunk, n, lo, to
<1> HIDE DEF hi
<1> DEFINE a == SubSeq(x, 1, lo)
           b == h.new
           c == SubSeq(x, hi + 1, n)
<1>5. a \in Seq(Symbol)
  BY <1>2, SliceTyped, 0 + 1 = 1, 0 \in Nat DEF n
<1>6. c \in Seq(Symbol)
  <2>1. hi \in Nat /\ n \in 0..Len(x)
    BY <1>1, <1>3 DEF n
  <2> QED
    BY <2>1, SliceTyped
<1>7. b \in Seq(Symbol)
  BY <1>1
<1> HIDE DEF a, b, c
<1>8. a \o b \in Seq(Symbol)
  BY <1>5, <1>7, TextsRegrouped
<1>9. (a \o b) \o c \in Seq(Symbol)
  BY <1>6, <1>8, TextsRegrouped
<1> QED
  BY <1>4, <1>9 DEF a, b, c

(* The hunks change a file one after the other. *)
LEMMA HunksFold ==
  ASSUME NEW lines \in Seq(Symbol), NEW hunks \in Seq(LineHunk)
  PROVE  \E f \in [0..Len(hunks) -> Seq(Symbol)] :
            /\ f[0] = lines /\ \A i \in 1..Len(hunks) : f[i] = ReplaceHunk(f[i - 1], hunks[i])
            /\ FoldLeft(ReplaceHunk, lines, hunks) = f[Len(hunks)]
<1> DEFINE n == Len(hunks)
           X == Seq(Symbol)
           none == lines
           Fold(iter) == [s \in SUBSET (1..n) |->
                            IF s = {} THEN none ELSE ReplaceHunk(iter[s \ {Max(s)}], hunks[Max(s)])]
           step == [i \in 1..n |-> [x \in X |-> ReplaceHunk(x, hunks[i])]]
<1>1. n \in Nat /\ none \in X /\ DOMAIN hunks = 1..n
  <2> HIDE DEF n
  <2>1. Len(hunks) \in Nat /\ DOMAIN hunks = 1..Len(hunks)
    OBVIOUS
  <2> QED
    BY <2>1 DEF n
<1>2. step \in [1..n -> [X -> X]]
  <2>1. \A i \in 1..n : hunks[i] \in LineHunk
    OBVIOUS
  <2>2. \A i \in 1..n : \A x \in X : ReplaceHunk(x, hunks[i]) \in X
    BY <2>1, HunkTyped
  <2> HIDE DEF n, X
  <2> QED
    BY <2>2
<1> DEFINE iter == CHOOSE iter : iter = Fold(iter)
<1>3. FoldLeft(ReplaceHunk, lines, hunks) = iter[1..n]
  BY <1>1 DEF FoldLeft, MapThenFoldSet
<1>4. \A s \in SUBSET (1..n) : s # {} => Max(s) \in 1..n /\ s \ {Max(s)} \in SUBSET (1..n)
  <2> HIDE DEF n
  <2> SUFFICES ASSUME NEW s \in SUBSET (1..n), s # {} PROVE Max(s) \in 1..n
    OBVIOUS
  <2>1. s \subseteq 0..n
    BY <1>1
  <2> QED
    BY <1>1, <2>1, Greatest
<1>5. \E f : f = Fold(f)
  <2>1. PICK f \in [SUBSET (1..n) -> X] : Folds(n, X, none, step, f)
    <3> HIDE DEF n, X, step, none
    <3> QED
      BY <1>1, <1>2, FoldExists
  <2>2. ASSUME NEW s \in SUBSET (1..n)
        PROVE  f[s] = IF s = {} THEN none ELSE ReplaceHunk(f[s \ {Max(s)}], hunks[Max(s)])
    <3> HIDE DEF X, none, n
    <3>1. s # {} => Max(s) \in 1..n /\ f[s \ {Max(s)}] \in X
      BY <1>4, <2>1
    <3>2. s # {} => step[Max(s)][f[s \ {Max(s)}]] = ReplaceHunk(f[s \ {Max(s)}], hunks[Max(s)])
      BY <3>1
    <3> HIDE DEF step
    <3> QED
      BY <2>1, <3>1, <3>2 DEF Folds
  <2> HIDE DEF step, n, X, none
  <2>3. f = Fold(f)
    BY <2>1, <2>2
  <2> QED
    BY <2>3
<1>6. iter = Fold(iter)
  <2> HIDE DEF Fold
  <2> QED
    BY <1>5
<1> HIDE DEF iter
<1>7. Folds(n, X, none, step, iter)
  <2> SUFFICES ASSUME NEW s \in SUBSET (1..n)
               PROVE  /\ s = {} => iter[s] = none
                      /\ s # {} /\ iter[s \ {Max(s)}] \in X => iter[s] = step[Max(s)][iter[s \ {Max(s)}]]
    BY DEF Folds
  <2> HIDE DEF X, none, n
  <2>1. iter[s] = IF s = {} THEN none ELSE ReplaceHunk(iter[s \ {Max(s)}], hunks[Max(s)])
    BY <1>6
  <2>2. s # {} /\ iter[s \ {Max(s)}] \in X =>
           step[Max(s)][iter[s \ {Max(s)}]] = ReplaceHunk(iter[s \ {Max(s)}], hunks[Max(s)])
    BY <1>4
  <2> HIDE DEF step
  <2> QED
    BY <2>1, <2>2
<1>8. PICK g : Runs(n, X, none, step, g) /\ g[n] = iter[1..n]
  <2> HIDE DEF n, X, step, none
  <2> QED
    BY <1>1, <1>2, <1>7, FoldRuns, SMTT(30)
<1>9. g \in [0..n -> X] /\ g[0] = none /\ \A i \in 1..n : g[i] = step[i][g[i - 1]]
  BY <1>8 DEF Runs
<1>10. \A i \in 1..n : g[i] = ReplaceHunk(g[i - 1], hunks[i])
  <2> SUFFICES ASSUME NEW i \in 1..n PROVE g[i] = ReplaceHunk(g[i - 1], hunks[i])
    OBVIOUS
  <2> HIDE DEF n, X, none
  <2>1. i - 1 \in 0..n /\ g[i - 1] \in X
    BY <1>1, <1>9
  <2>2. step[i][g[i - 1]] = ReplaceHunk(g[i - 1], hunks[i])
    BY <2>1
  <2> HIDE DEF step
  <2> QED
    BY <1>9, <2>2
<1> HIDE DEF X, n, step, Fold
<1>11. g \in [0..n -> X] /\ g[0] = none /\ (\A i \in 1..n : g[i] = ReplaceHunk(g[i - 1], hunks[i]))
       /\ FoldLeft(ReplaceHunk, lines, hunks) = g[n]
  BY <1>3, <1>8, <1>9, <1>10
<1> QED
  BY <1>11 DEF X, n, none

LEMMA Backwards ==
  ASSUME NEW X, NEW s \in Seq(X)
  PROVE  /\ Reverse(s) \in Seq(X) /\ Len(Reverse(s)) = Len(s)
         /\ \A i \in 1..Len(s) : Reverse(s)[i] = s[Len(s) - i + 1]
<1> DEFINE n == Len(s)
           r == [i \in 1..n |-> s[n - i + 1]]
<1>1. n \in Nat /\ \A i \in 1..n : s[i] \in X
  OBVIOUS
<1>2. Reverse(s) = r
  BY DEF Reverse
<1>3. \A i \in 1..n : n - i + 1 \in 1..n
  BY <1>1
<1> HIDE DEF n
<1>4. r \in [1..n -> X]
  BY <1>1, <1>3
<1> HIDE DEF r
<1>5. r \in Seq(X) /\ Len(r) = n
  BY <1>1, <1>4
<1> QED
  BY <1>2, <1>5 DEF r, n

LEMMA HunksTyped ==
  ASSUME NEW x \in Seq(Symbol), NEW hunks \in Seq(LineHunk)
  PROVE  ApplyHunks(x, hunks) \in Seq(Symbol)
<1>1. Reverse(hunks) \in Seq(LineHunk)
  BY Backwards
<1> DEFINE r == Reverse(hunks)
<1> HIDE DEF r
<1>2. PICK f \in [0..Len(r) -> Seq(Symbol)] : FoldLeft(ReplaceHunk, x, r) = f[Len(r)]
  BY <1>1, HunksFold DEF r
<1>3. Len(r) \in 0..Len(r)
  BY <1>1 DEF r
<1> QED
  BY <1>2, <1>3 DEF ApplyHunks, r

(* The files of a diff change a file one after the other. *)
LEMMA FilesFold ==
  ASSUME NEW lines \in Seq(Symbol), NEW files \in Seq(Seq(LineHunk))
  PROVE  \E f \in [0..Len(files) -> Seq(Symbol)] :
            /\ f[0] = lines /\ \A i \in 1..Len(files) : f[i] = ApplyHunks(f[i - 1], files[i])
            /\ FoldLeft(ApplyHunks, lines, files) = f[Len(files)]
<1> DEFINE n == Len(files)
           X == Seq(Symbol)
           none == lines
           Fold(iter) == [s \in SUBSET (1..n) |->
                            IF s = {} THEN none ELSE ApplyHunks(iter[s \ {Max(s)}], files[Max(s)])]
           step == [i \in 1..n |-> [x \in X |-> ApplyHunks(x, files[i])]]
<1>1. n \in Nat /\ none \in X /\ DOMAIN files = 1..n
  <2> HIDE DEF n
  <2>1. Len(files) \in Nat /\ DOMAIN files = 1..Len(files)
    OBVIOUS
  <2> QED
    BY <2>1 DEF n
<1>2. step \in [1..n -> [X -> X]]
  <2>1. \A i \in 1..n : files[i] \in Seq(LineHunk)
    OBVIOUS
  <2>2. \A i \in 1..n : \A x \in X : ApplyHunks(x, files[i]) \in X
    BY <2>1, HunksTyped
  <2> HIDE DEF n, X
  <2> QED
    BY <2>2
<1> DEFINE iter == CHOOSE iter : iter = Fold(iter)
<1>3. FoldLeft(ApplyHunks, lines, files) = iter[1..n]
  BY <1>1 DEF FoldLeft, MapThenFoldSet
<1>4. \A s \in SUBSET (1..n) : s # {} => Max(s) \in 1..n /\ s \ {Max(s)} \in SUBSET (1..n)
  <2> HIDE DEF n
  <2> SUFFICES ASSUME NEW s \in SUBSET (1..n), s # {} PROVE Max(s) \in 1..n
    OBVIOUS
  <2>1. s \subseteq 0..n
    BY <1>1
  <2> QED
    BY <1>1, <2>1, Greatest
<1>5. \E f : f = Fold(f)
  <2>1. PICK f \in [SUBSET (1..n) -> X] : Folds(n, X, none, step, f)
    <3> HIDE DEF n, X, step, none
    <3> QED
      BY <1>1, <1>2, FoldExists
  <2>2. ASSUME NEW s \in SUBSET (1..n)
        PROVE  f[s] = IF s = {} THEN none ELSE ApplyHunks(f[s \ {Max(s)}], files[Max(s)])
    <3> HIDE DEF X, none, n
    <3>1. s # {} => Max(s) \in 1..n /\ f[s \ {Max(s)}] \in X
      BY <1>4, <2>1
    <3>2. s # {} => step[Max(s)][f[s \ {Max(s)}]] = ApplyHunks(f[s \ {Max(s)}], files[Max(s)])
      BY <3>1
    <3> HIDE DEF step
    <3> QED
      BY <2>1, <3>1, <3>2 DEF Folds
  <2> HIDE DEF step, n, X, none
  <2>3. f = Fold(f)
    BY <2>1, <2>2
  <2> QED
    BY <2>3
<1>6. iter = Fold(iter)
  <2> HIDE DEF Fold
  <2> QED
    BY <1>5
<1> HIDE DEF iter
<1>7. Folds(n, X, none, step, iter)
  <2> SUFFICES ASSUME NEW s \in SUBSET (1..n)
               PROVE  /\ s = {} => iter[s] = none
                      /\ s # {} /\ iter[s \ {Max(s)}] \in X => iter[s] = step[Max(s)][iter[s \ {Max(s)}]]
    BY DEF Folds
  <2> HIDE DEF X, none, n
  <2>1. iter[s] = IF s = {} THEN none ELSE ApplyHunks(iter[s \ {Max(s)}], files[Max(s)])
    BY <1>6
  <2>2. s # {} /\ iter[s \ {Max(s)}] \in X =>
           step[Max(s)][iter[s \ {Max(s)}]] = ApplyHunks(iter[s \ {Max(s)}], files[Max(s)])
    BY <1>4
  <2> HIDE DEF step
  <2> QED
    BY <2>1, <2>2
<1>8. PICK g : Runs(n, X, none, step, g) /\ g[n] = iter[1..n]
  <2> HIDE DEF n, X, step, none
  <2> QED
    BY <1>1, <1>2, <1>7, FoldRuns, SMTT(30)
<1>9. g \in [0..n -> X] /\ g[0] = none /\ \A i \in 1..n : g[i] = step[i][g[i - 1]]
  BY <1>8 DEF Runs
<1>10. \A i \in 1..n : g[i] = ApplyHunks(g[i - 1], files[i])
  <2> SUFFICES ASSUME NEW i \in 1..n PROVE g[i] = ApplyHunks(g[i - 1], files[i])
    OBVIOUS
  <2> HIDE DEF n, X, none
  <2>1. i - 1 \in 0..n /\ g[i - 1] \in X
    BY <1>1, <1>9
  <2>2. step[i][g[i - 1]] = ApplyHunks(g[i - 1], files[i])
    BY <2>1
  <2> HIDE DEF step
  <2> QED
    BY <1>9, <2>2
<1> HIDE DEF X, n, step, Fold
<1>11. g \in [0..n -> X] /\ g[0] = none /\ (\A i \in 1..n : g[i] = ApplyHunks(g[i - 1], files[i]))
       /\ FoldLeft(ApplyHunks, lines, files) = g[n]
  BY <1>3, <1>8, <1>9, <1>10
<1> QED
  BY <1>11 DEF X, n, none

LEMMA OneFile ==
  ASSUME NEW lines \in Seq(Symbol), NEW hunks \in Seq(LineHunk)
  PROVE  ApplyPatch(lines, <<hunks>>) = ApplyHunks(lines, hunks)
<1> DEFINE X == Seq(LineHunk)
           files == <<hunks>>
<1>1. files \in Seq(X) /\ Len(files) = 1 /\ files[1] = hunks
  <2> HIDE DEF X
  <2>1. hunks \in X
    BY DEF X
  <2> QED
    BY <2>1
<1> HIDE DEF files
<1>2. PICK f \in [0..Len(files) -> Seq(Symbol)] :
        /\ f[0] = lines /\ \A i \in 1..Len(files) : f[i] = ApplyHunks(f[i - 1], files[i])
        /\ FoldLeft(ApplyHunks, lines, files) = f[Len(files)]
  BY <1>1, FilesFold
<1>3. f[1] = ApplyHunks(f[0], files[1])
  <2>1. 1 \in 1..Len(files) /\ 1 - 1 = 0
    BY <1>1
  <2> QED
    BY <1>2, <2>1
<1>4. ApplyPatch(lines, files) = f[1]
  BY <1>1, <1>2 DEF ApplyPatch
<1> QED
  BY <1>1, <1>2, <1>3, <1>4 DEF files

(* The ranges of hunks, in the order of the file they are for. *)
Ranges(old, m, d) ==
    /\ d \in [1..m -> Spans(old)]
    /\ \A i, j \in 1..m : i < j => d[i].start + d[i].length <= d[j].start

(* What becomes of the line at a position. *)
LineAfter(old, m, d, new, i) ==
    IF \E k \in 1..m : d[k].start = i THEN new[CHOOSE k \in 1..m : d[k].start = i]
    ELSE IF \E k \in 1..m : i \in d[k].start..(d[k].start + d[k].length - 1) THEN << >>
    ELSE <<old[i]>>

LEMMA SpanTyped ==
  ASSUME NEW old \in Seq(Symbol), NEW m \in Nat, NEW d, Ranges(old, m, d), NEW k \in 1..m
  PROVE  /\ d[k].start \in 1..Len(old) /\ d[k].length \in 1..Len(old)
         /\ d[k].start + d[k].length <= Len(old) + 1
         /\ \A j \in 1..m : /\ j < k => d[j].start + d[j].length <= d[k].start
                            /\ k < j => d[k].start + d[k].length <= d[j].start
<1>1. d[k] \in Spans(old)
  BY DEF Ranges
<1>2. d[k] \in [start : DOMAIN old, length : 1..Len(old)] /\ d[k].start + d[k].length <= Len(old) + 1
  BY <1>1 DEF Spans
<1>3. DOMAIN old = 1..Len(old)
  OBVIOUS
<1> QED
  BY <1>2, <1>3 DEF Ranges

(* The lines from the start of a hunk on, up to the next one. *)
Upto(old, m, d, k, e) ==
    e \in Nat /\ e <= Len(old) /\ \A j \in 1..m : k < j => e < d[j].start

LinesFrom(old, m, d, new, k, e) ==
    /\ LineAfter(old, m, d, new, d[k].start) = new[k]
    /\ \A i \in (d[k].start + 1)..(d[k].start + d[k].length - 1) : LineAfter(old, m, d, new, i) = << >>
    /\ \A i \in (d[k].start + d[k].length)..e : LineAfter(old, m, d, new, i) = <<old[i]>>

LEMMA LinesOf ==
  ASSUME NEW old \in Seq(Symbol), NEW m \in Nat, NEW d, Ranges(old, m, d), NEW new, NEW k \in 1..m,
         NEW e, Upto(old, m, d, k, e)
  PROVE  LinesFrom(old, m, d, new, k, e)
<1>0. e \in Nat /\ e <= Len(old) /\ \A j \in 1..m : k < j => e < d[j].start
  BY DEF Upto
<1> USE <1>0
<1> DEFINE s == d[k].start
           t == d[k].start + d[k].length
           u == d[k].start + d[k].length - 1
<1>1. s \in Nat /\ t \in Nat /\ s < t /\ u = t - 1 /\ u \in Nat
  <2>1. d[k].start \in 1..Len(old) /\ d[k].length \in 1..Len(old)
    BY SpanTyped
  <2> DEFINE p == d[k].start
             q == d[k].length
  <2>2. p \in Nat /\ q \in Nat \ {0}
    BY <2>1
  <2> HIDE DEF p, q
  <2>3. p \in Nat /\ p + q \in Nat /\ p < p + q /\ p + q - 1 = (p + q) - 1 /\ p + q - 1 \in Nat
    BY <2>2
  <2> QED
    BY ONLY <2>3, Zenon DEF p, q, s, t, u
<1>2. \A j \in 1..m : d[j].start \in Nat /\ d[j].length \in Nat \ {0}
  <2> SUFFICES ASSUME NEW j \in 1..m PROVE d[j].start \in Nat /\ d[j].length \in Nat \ {0}
    OBVIOUS
  <2>1. d[j].start \in 1..Len(old) /\ d[j].length \in 1..Len(old)
    BY SpanTyped
  <2> QED
    BY <2>1
<1>3. \A j \in 1..m : (j < k => d[j].start + d[j].length <= s) /\ (k < j => t <= d[j].start)
  BY SpanTyped
<1>4. \A j \in 1..m : j = k \/ j < k \/ k < j
  OBVIOUS
<1>5. \A j \in 1..m : j < k => d[j].start < s
  <2> SUFFICES ASSUME NEW j \in 1..m, j < k PROVE d[j].start < s
    OBVIOUS
  <2> DEFINE p == d[j].start
             q == d[j].length
  <2>1. p \in Nat /\ q \in Nat \ {0} /\ p + q <= s /\ s \in Nat
    BY <1>1, <1>2, <1>3
  <2> HIDE DEF p, q, s
  <2>2. p < s
    BY <2>1
  <2> QED
    BY ONLY <2>2, Zenon DEF p
<1> HIDE DEF s, t, u
<1>6. LineAfter(old, m, d, new, s) = new[k]
  <2> DEFINE c == CHOOSE j \in 1..m : d[j].start = s
  <2>1. c \in 1..m /\ d[c].start = s
    BY DEF s
  <2> HIDE DEF c
  <2>2. c = k
    <3>1. c < k \/ k < c \/ c = k
      BY <1>4, <2>1
    <3>2. ~(c < k) /\ ~(k < c)
      BY <1>1, <1>3, <1>5, <2>1
    <3> QED
      BY <3>1, <3>2
  <2>3. LineAfter(old, m, d, new, s) = new[c]
    BY Zenon DEF LineAfter, s, c
  <2> QED
    BY <2>2, <2>3
<1>7. ASSUME NEW i \in (s + 1)..u PROVE LineAfter(old, m, d, new, i) = << >>
  <2>1. i \in d[k].start..(d[k].start + d[k].length - 1)
    <3>1. i \in s..u
      BY <1>1
    <3> QED
      BY ONLY <3>1, Zenon DEF s, u
  <2>2. \A j \in 1..m : d[j].start # i
    <3> SUFFICES ASSUME NEW j \in 1..m PROVE d[j].start # i
      OBVIOUS
    <3>1. i \in Nat /\ s < i /\ i < t
      BY <1>1
    <3> QED
      BY <1>1, <1>2, <1>3, <1>4, <1>5, <3>1, SMTT(30) DEF s
  <2> QED
    BY <2>1, <2>2 DEF LineAfter
<1>8. ASSUME NEW i \in t..e PROVE LineAfter(old, m, d, new, i) = <<old[i]>>
  <2>1. i \in Nat /\ t <= i /\ i <= e
    BY <1>1
  <2>2. \A j \in 1..m : i \notin d[j].start..(d[j].start + d[j].length - 1)
    <3> SUFFICES ASSUME NEW j \in 1..m PROVE i \notin d[j].start..(d[j].start + d[j].length - 1)
      OBVIOUS
    <3>1. CASE j = k
      <4>1. i \notin s..u
        BY <1>1, <2>1
      <4> QED
        BY ONLY <3>1, <4>1, Zenon DEF s, u
    <3>2. CASE j < k
      BY <1>1, <1>2, <1>3, <2>1, <3>2, SMTT(30)
    <3>3. CASE k < j
      BY <1>2, <2>1, <3>3
    <3> QED
      BY <1>4, <3>1, <3>2, <3>3
  <2>3. \A j \in 1..m : d[j].start # i
    <3> SUFFICES ASSUME NEW j \in 1..m, d[j].start = i PROVE FALSE
      OBVIOUS
    <3>1. i \in d[j].start..(d[j].start + d[j].length - 1)
      BY <1>2, <2>1
    <3> QED
      BY <2>2, <3>1
  <2> QED
    BY <2>2, <2>3 DEF LineAfter
<1>9. /\ \A i \in (s + 1)..u : LineAfter(old, m, d, new, i) = << >>
      /\ \A i \in t..e : LineAfter(old, m, d, new, i) = <<old[i]>>
  BY ONLY <1>7, <1>8, Zenon
<1> QED
  BY ONLY <1>6, <1>9, Zenon DEF s, t, u, LinesFrom

LEMMA LinesBefore ==
  ASSUME NEW old \in Seq(Symbol), NEW m \in Nat, NEW d, Ranges(old, m, d), NEW new,
         NEW e \in Nat, \A j \in 1..m : e < d[j].start
  PROVE  \A i \in 1..e : LineAfter(old, m, d, new, i) = <<old[i]>>
<1> SUFFICES ASSUME NEW i \in 1..e PROVE LineAfter(old, m, d, new, i) = <<old[i]>>
  OBVIOUS
<1>1. \A j \in 1..m : d[j].start \in Nat /\ d[j].length \in Nat /\ i < d[j].start
  BY SpanTyped
<1>2. \A j \in 1..m : i \notin d[j].start..(d[j].start + d[j].length - 1) /\ d[j].start # i
  BY <1>1
<1> QED
  BY <1>2 DEF LineAfter

LEMMA LinesTyped ==
  ASSUME NEW old \in Seq(Symbol), NEW m \in Nat, NEW d, NEW new \in [1..m -> Seq(Symbol)]
  PROVE  /\ [i \in DOMAIN old |-> LineAfter(old, m, d, new, i)] \in Seq(Seq(Symbol))
         /\ Len([i \in DOMAIN old |-> LineAfter(old, m, d, new, i)]) = Len(old)
<1>1. ASSUME NEW i \in 1..Len(old) PROVE LineAfter(old, m, d, new, i) \in Seq(Symbol)
  <2>1. <<old[i]>> \in Seq(Symbol)
    BY OneSymbol
  <2>2. << >> \in Seq(Symbol)
    OBVIOUS
  <2>3. (\E k \in 1..m : d[k].start = i) => new[CHOOSE k \in 1..m : d[k].start = i] \in Seq(Symbol)
    OBVIOUS
  <2> QED
    BY <2>1, <2>2, <2>3 DEF LineAfter
<1>2. DOMAIN old = 1..Len(old) /\ Len(old) \in Nat
  OBVIOUS
<1> DEFINE n == Len(old)
           P == [i \in 1..n |-> LineAfter(old, m, d, new, i)]
           X == Seq(Symbol)
<1>3. P \in [1..n -> X] /\ n \in Nat
  BY <1>1, <1>2
<1>4. P \in Seq(X) /\ Len(P) = n
  <2> HIDE DEF P, X, n
  <2> QED
    BY <1>3
<1> QED
  BY <1>2, <1>4

(* The state of a file when the hunks after the k-th have been applied. *)
Edge(old, m, d, k) == IF k = m THEN Len(old) ELSE d[k + 1].start - 1

Changed(old, m, d, g, k, x) ==
    \E w \in Seq(Symbol) :
        /\ Starts(x, old, Edge(old, m, d, k), w)
        /\ g[Edge(old, m, d, k)] \o w = g[Len(old)]

LEMMA EdgeAfter ==
  ASSUME NEW old \in Seq(Symbol), NEW m \in Nat, NEW d, Ranges(old, m, d), NEW k \in 0..m
  PROVE  /\ Edge(old, m, d, k) \in 0..Len(old)
         /\ \A j \in 1..m : k < j => Edge(old, m, d, k) < d[j].start
         /\ k # 0 => d[k].start + d[k].length - 1 <= Edge(old, m, d, k)
<1>1. CASE k = m
  <2>1. Edge(old, m, d, k) = Len(old) /\ Len(old) \in Nat
    BY <1>1 DEF Edge
  <2>2. k # 0 => d[k].start + d[k].length - 1 <= Len(old)
    BY <2>1, SpanTyped
  <2> QED
    BY <1>1, <2>1, <2>2
<1>2. CASE k # m
  <2>1. k + 1 \in 1..m /\ Edge(old, m, d, k) = d[k + 1].start - 1
    BY <1>2 DEF Edge
  <2>2. d[k + 1].start \in 1..Len(old) /\ \A j \in 1..m : /\ j < k + 1 => d[j].start + d[j].length <= d[k + 1].start
                                                          /\ k + 1 < j => d[k + 1].start + d[k + 1].length <= d[j].start
    BY <2>1, SpanTyped
  <2>3. \A j \in 1..m : d[j].start \in Nat /\ d[j].length \in Nat
    BY SpanTyped
  <2>4. \A j \in 1..m : k < j => d[k + 1].start - 1 < d[j].start
    <3> SUFFICES ASSUME NEW j \in 1..m, k < j PROVE d[k + 1].start - 1 < d[j].start
      OBVIOUS
    <3>1. j = k + 1 \/ k + 1 < j
      OBVIOUS
    <3> QED
      BY <2>1, <2>2, <2>3, <3>1, SMTT(30)
  <2>5. k # 0 => d[k].start + d[k].length - 1 <= d[k + 1].start - 1
    <3> SUFFICES ASSUME k # 0 PROVE d[k].start + d[k].length - 1 <= d[k + 1].start - 1
      OBVIOUS
    <3>1. k \in 1..m /\ k < k + 1
      OBVIOUS
    <3>2. d[k].start + d[k].length <= d[k + 1].start
      BY <2>2, <3>1
    <3>3. d[k].start \in Nat /\ d[k].length \in Nat /\ d[k + 1].start \in Nat
      BY <2>1, <2>3, <3>1
    <3> DEFINE p == d[k].start
               q == d[k].length
               r == d[k + 1].start
    <3>4. p \in Nat /\ q \in Nat /\ r \in Nat /\ p + q <= r
      BY <3>2, <3>3
    <3> HIDE DEF p, q, r
    <3>5. p + q - 1 <= r - 1
      BY <3>4
    <3> QED
      BY ONLY <3>5, Zenon DEF p, q, r
  <2> QED
    BY <2>1, <2>2, <2>4, <2>5
<1> QED
  BY <1>1, <1>2

LEMMA HunkOn ==
  ASSUME NEW old \in Seq(Symbol), NEW m \in Nat, NEW d, Ranges(old, m, d),
         NEW new \in [1..m -> Seq(Symbol)],
         NEW seqs \in Seq(Seq(Symbol)), NEW g, Flattens(seqs, Symbol, g), Len(seqs) = Len(old),
         \A i \in 1..Len(old) : seqs[i] = LineAfter(old, m, d, new, i),
         NEW k \in 1..m, NEW x, Changed(old, m, d, g, k, x)
  PROVE  Changed(old, m, d, g, k - 1, ReplaceHunk(x, Hunk(d[k].start, d[k].length, new[k])))
<1> DEFINE n == Len(old)
           e == Edge(old, m, d, k)
           a == d[k].start - 1
           b == d[k].start + d[k].length - 1
           mid == SubSeq(old, b + 1, e)
           put == new[k]
<1>1. /\ n \in Nat /\ a \in Nat /\ b \in Nat /\ e \in 0..n /\ a + 1 <= b /\ b <= e /\ e \in Nat
      /\ d[k].start = a + 1 /\ d[k].start + d[k].length = b + 1 /\ a + 1 \in 1..n
      /\ d[k].start - 1 + d[k].length = b
  <2>1. e \in 0..n /\ b <= e
    <3>1. k \in 0..m /\ k # 0
      OBVIOUS
    <3> QED
      BY <3>1, EdgeAfter
  <2>2. d[k].start \in 1..n /\ d[k].length \in 1..n
    BY SpanTyped
  <2>3. n \in Nat
    OBVIOUS
  <2> DEFINE p == d[k].start
             q == d[k].length
  <2>4. p \in 1..n /\ q \in 1..n /\ n \in Nat /\ e \in 0..n /\ p + q - 1 <= e
    BY <2>1, <2>2, <2>3
  <2> HIDE DEF n, e, p, q
  <2>5. /\ p - 1 \in Nat /\ p + q - 1 \in Nat /\ (p - 1) + 1 <= p + q - 1 /\ e \in Nat
        /\ p = (p - 1) + 1 /\ p + q = (p + q - 1) + 1 /\ (p - 1) + 1 \in 1..n /\ p - 1 + q = p + q - 1
    BY <2>4
  <2> QED
    BY ONLY <2>4, <2>5, Zenon DEF p, q, a, b
<1>2. \A j \in 1..m : k < j => e < d[j].start
  <2>1. k \in 0..m
    OBVIOUS
  <2> QED
    BY <2>1, EdgeAfter
<1>3. /\ LineAfter(old, m, d, new, d[k].start) = put
      /\ \A i \in (d[k].start + 1)..(d[k].start + d[k].length - 1) : LineAfter(old, m, d, new, i) = << >>
      /\ \A i \in (d[k].start + d[k].length)..e : LineAfter(old, m, d, new, i) = <<old[i]>>
  <2>1. e \in Nat /\ e <= Len(old)
    BY <1>1
  <2> HIDE DEF e
  <2>2. /\ LineAfter(old, m, d, new, d[k].start) = new[k]
        /\ \A i \in (d[k].start + 1)..(d[k].start + d[k].length - 1) : LineAfter(old, m, d, new, i) = << >>
        /\ \A i \in (d[k].start + d[k].length)..e : LineAfter(old, m, d, new, i) = <<old[i]>>
    <3>1. Upto(old, m, d, k, e)
      BY <1>2, <2>1 DEF Upto
    <3>2. LinesFrom(old, m, d, new, k, e)
      BY <3>1, LinesOf
    <3> QED
      BY ONLY <3>2, Zenon DEF LinesFrom
  <2> QED
    BY <2>2
<1>4. PICK w \in Seq(Symbol) : Starts(x, old, e, w) /\ g[e] \o w = g[n]
  BY DEF Changed
<1>5. put \in Seq(Symbol)
  OBVIOUS
<1> HIDE DEF n, e, a, b, mid, put
<1>17. /\ \A i \in (a + 1 + 1)..b : LineAfter(old, m, d, new, i) = << >>
       /\ \A i \in (b + 1)..e : LineAfter(old, m, d, new, i) = <<old[i]>>
  <2>1. d[k].start + d[k].length - 1 = b
    BY DEF b
  <2> QED
    BY <1>1, <1>3, <2>1
<1>6. g \in [0..n -> Seq(Symbol)] /\ \A i \in 1..n : g[i] = g[i - 1] \o seqs[i]
  BY DEF Flattens, n
<1>7. g[a] \in Seq(Symbol) /\ g[a + 1] = g[a] \o put
  <2>1. a \in 0..n /\ (a + 1) - 1 = a
    BY <1>1
  <2>2. seqs[a + 1] = put
    BY <1>1, <1>3 DEF n
  <2> QED
    BY <1>1, <1>6, <2>1, <2>2
<1>8. g[b] = g[a + 1]
  <2>1. a + 1 \in 0..Len(seqs) /\ b \in (a + 1)..Len(seqs)
    BY <1>1, SMTT(30) DEF n
  <2>2. \A i \in (a + 1 + 1)..b : seqs[i] = << >>
    <3> SUFFICES ASSUME NEW i \in (a + 1 + 1)..b PROVE seqs[i] = << >>
      OBVIOUS
    <3>1. i \in 1..n
      BY <1>1
    <3> QED
      BY <1>17, <3>1 DEF n
  <2>3. Dropped(Symbol, seqs, g, a + 1, b)
    BY <2>1, <2>2 DEF Dropped
  <2> QED
    BY ONLY <2>3, StretchDropped
<1>9. g[e] = g[b] \o mid
  <2>1. b \in 0..Len(seqs) /\ e \in b..Len(seqs)
    BY <1>1 DEF n
  <2>2. \A i \in (b + 1)..e : seqs[i] = <<old[i]>>
    <3> SUFFICES ASSUME NEW i \in (b + 1)..e PROVE seqs[i] = <<old[i]>>
      OBVIOUS
    <3>1. i \in 1..n
      BY <1>1
    <3> QED
      BY <1>17, <3>1 DEF n
  <2>3. g[e] = g[b] \o SubSeq(old, b + 1, e)
    <3>1. Kept(Symbol, seqs, g, old, b, e)
      BY <2>1, <2>2 DEF Kept
    <3>2. Longer(g, old, b, e)
      BY ONLY <3>1, StretchKept, Zenon
    <3> QED
      BY ONLY <3>2, Zenon DEF Longer
  <2> QED
    BY <2>3 DEF mid
<1>10. /\ SubSeq(x, 1, a) = SubSeq(old, 1, a) /\ SubSeq(x, b + 1, Len(x)) = mid \o w
       /\ Len(x) \in Nat /\ Len(x) >= e
  <2>1. a \in 0..e /\ b \in 0..e
    BY <1>1
  <2>0. Starts(x, old, e, w)
    BY <1>4
  <2>2. SubSeq(x, 1, a) = SubSeq(old, 1, a) /\ Len(x) \in Nat /\ Len(x) >= e
    <3>1. a \in 0..e
      BY <2>1
    <3> QED
      BY ONLY <2>0, <3>1, TextCut
  <2>3. SubSeq(x, b + 1, Len(x)) = SubSeq(old, b + 1, e) \o w
    <3>1. b \in 0..e
      BY <2>1
    <3>2. EndsWith(x, old, b, e, w)
      BY ONLY <2>0, <3>1, TextCut, Zenon
    <3> QED
      BY ONLY <3>2, Zenon DEF EndsWith
  <2> QED
    BY <2>2, <2>3 DEF mid
<1> DEFINE h == Hunk(d[k].start, d[k].length, put)
           left == SubSeq(old, 1, a)
<1>11. ReplaceHunk(x, h) = left \o put \o (mid \o w)
  <2>1. h.start - 1 = a /\ h.start - 1 + h.length = b /\ h.new = put
    BY <1>1 DEF Hunk
  <2>2. SliceBound(a, Len(x)) = a /\ SliceBound(b, Len(x)) = b /\ ~(b < a)
    BY <1>1, <1>10, BoundWithin
  <2> HIDE DEF h
  <2>3. ReplaceHunk(x, h) = SubSeq(x, 1, a) \o put \o SubSeq(x, b + 1, Len(x))
    BY <2>1, <2>2 DEF ReplaceHunk
  <2> QED
    BY <1>10, <2>3
<1>12. left \in Seq(Symbol) /\ mid \in Seq(Symbol)
  <2>1. 0 \in Nat /\ 0 + 1 = 1 /\ a \in 0..Len(old) /\ e \in 0..Len(old)
    BY <1>1 DEF n
  <2> QED
    BY <1>1, <2>1, SliceTyped DEF mid
<1> HIDE DEF h, left
<1>13. mid \o w \in Seq(Symbol) /\ (left \o put) \o (mid \o w) = left \o (put \o (mid \o w))
       /\ put \o (mid \o w) \in Seq(Symbol)
  <2> DEFINE r == mid \o w
  <2>1. r \in Seq(Symbol)
    BY <1>12, TextsRegrouped
  <2> HIDE DEF r
  <2>2. (left \o put) \o r = left \o (put \o r) /\ put \o r \in Seq(Symbol)
    <3>1. left \in Seq(Symbol)
      BY <1>12
    <3> QED
      BY ONLY <1>5, <2>1, <3>1, TextsRegrouped
  <2> QED
    BY <2>1, <2>2 DEF r
<1>14. g[a] \o (put \o (mid \o w)) = g[n]
  <2> DEFINE z == g[a]
             r == mid \o w
             y == z \o put
  <2>1. z \in Seq(Symbol) /\ r \in Seq(Symbol)
    BY <1>7, <1>13
  <2>2. g[e] = y \o mid
    BY <1>7, <1>8, <1>9
  <2> HIDE DEF z
  <2>0. z \in Seq(Symbol)
    BY <2>1
  <2>7. r \in Seq(Symbol)
    BY <2>1
  <2>3. y \in Seq(Symbol)
    BY ONLY <1>5, <2>0, TextsRegrouped
  <2> HIDE DEF y
  <2>4. (y \o mid) \o w = y \o (mid \o w)
    <3>1. mid \in Seq(Symbol) /\ w \in Seq(Symbol)
      BY <1>12
    <3> QED
      BY ONLY <2>3, <3>1, TextsRegrouped
  <2> HIDE DEF r
  <2>5. (z \o put) \o r = z \o (put \o r)
    BY ONLY <1>5, <2>0, <2>7, TextsRegrouped, ZenonT(40)
  <2>6. g[n] = y \o r
    BY <1>4, <2>2, <2>4 DEF r
  <2> QED
    BY <2>5, <2>6 DEF r, y, z
<1>15. Edge(old, m, d, k - 1) = a
  <2>1. k - 1 # m /\ (k - 1) + 1 = k
    OBVIOUS
  <2> QED
    BY <2>1 DEF Edge, a
<1>16. Starts(ReplaceHunk(x, h), old, a, put \o (mid \o w))
  <2>1. a \in 0..Len(old)
    BY <1>1 DEF n
  <2> QED
    BY <1>11, <1>13, <2>1 DEF Starts, left
<1> QED
  BY <1>13, <1>14, <1>15, <1>16 DEF Changed, n, h, put

LEMMA HunksExact ==
  ASSUME NEW old \in Seq(Symbol), NEW m \in Nat, NEW d, Ranges(old, m, d),
         NEW new \in [1..m -> Seq(Symbol)]
  PROVE  ApplyHunks(old, [k \in 1..m |-> Hunk(d[k].start, d[k].length, new[k])])
           = FlattenSeq([i \in DOMAIN old |-> LineAfter(old, m, d, new, i)])
<1> DEFINE n == Len(old)
           P == [i \in DOMAIN old |-> LineAfter(old, m, d, new, i)]
           hunks == [k \in 1..m |-> Hunk(d[k].start, d[k].length, new[k])]
           back == Reverse(hunks)
<1>1. n \in Nat /\ DOMAIN old = 1..n
  OBVIOUS
<1>2. P \in Seq(Seq(Symbol)) /\ Len(P) = n /\ \A i \in 1..n : P[i] = LineAfter(old, m, d, new, i)
  <2>1. P \in Seq(Seq(Symbol)) /\ Len(P) = n
    BY LinesTyped
  <2> QED
    BY <1>1, <2>1
<1>3. hunks \in Seq(LineHunk) /\ Len(hunks) = m
  <2>1. ASSUME NEW k \in 1..m PROVE Hunk(d[k].start, d[k].length, new[k]) \in LineHunk
    <3>1. d[k].start \in 1..n /\ d[k].length \in 1..n /\ new[k] \in Seq(Symbol)
      BY SpanTyped
    <3>2. d[k].start \in Nat \ {0} /\ d[k].length \in Nat
      BY <1>1, <3>1
    <3> QED
      BY <3>1, <3>2 DEF Hunk, LineHunk
  <2>2. hunks \in [1..m -> LineHunk]
    BY <2>1
  <2> HIDE DEF hunks
  <2> QED
    BY <2>2
<1>4. /\ back \in Seq(LineHunk) /\ Len(back) = m
      /\ \A i \in 1..m : back[i] = hunks[m - i + 1]
  <2> HIDE DEF hunks
  <2> QED
    BY <1>3, Backwards
<1> HIDE DEF P, n, back
<1>5. PICK g : Flattens(P, Symbol, g)
  BY <1>2, FlattenRuns
<1>6. g[0] = << >> /\ FlattenSeq(P) = g[n] /\ g \in [0..n -> Seq(Symbol)]
  BY <1>2, <1>5 DEF Flattens
<1>7. PICK f \in [0..m -> Seq(Symbol)] :
        /\ f[0] = old /\ \A i \in 1..m : f[i] = ReplaceHunk(f[i - 1], back[i])
        /\ FoldLeft(ReplaceHunk, old, back) = f[m]
  <2>1. \E f \in [0..Len(back) -> Seq(Symbol)] :
        /\ f[0] = old /\ \A i \in 1..Len(back) : f[i] = ReplaceHunk(f[i - 1], back[i])
        /\ FoldLeft(ReplaceHunk, old, back) = f[Len(back)]
    BY <1>4, HunksFold
  <2> QED
    BY <1>4, <2>1
<1> DEFINE S == {j \in 0..m : Changed(old, m, d, g, m - j, f[j])}
<1>8. 0 \in S
  <2>1. Edge(old, m, d, m) = n
    BY DEF Edge, n
  <2>2. SubSeq(old, 1, n) = old /\ n \in 0..Len(old) /\ << >> \in Seq(Symbol)
    BY <1>1, SubSeqFull DEF n
  <2>3. old \o << >> = old
    BY ConcatEmptySeq
  <2>4. g[n] \o << >> = g[n]
    BY <1>1, <1>6, ConcatEmptySeq
  <2>5. Starts(old, old, n, << >>)
    BY <2>2, <2>3 DEF Starts
  <2>6. Changed(old, m, d, g, m, old)
    BY <2>1, <2>2, <2>4, <2>5 DEF Changed, n
  <2>7. m - 0 = m /\ 0 \in 0..m
    OBVIOUS
  <2> QED
    BY <1>7, <2>6, <2>7
<1>9. ASSUME NEW j \in 0..(m - 1), j \in S PROVE j + 1 \in S
  <2> DEFINE k == m - j
  <2>1. k \in 1..m /\ j + 1 \in 1..m /\ (j + 1) - 1 = j /\ m - (j + 1) + 1 = k /\ k - 1 = m - (j + 1) /\ j + 1 \in 0..m
    OBVIOUS
  <2>2. Changed(old, m, d, g, k, f[j])
    BY <1>9
  <2> HIDE DEF k
  <2>3. back[j + 1] = Hunk(d[k].start, d[k].length, new[k])
    BY <1>4, <2>1
  <2>4. Changed(old, m, d, g, k - 1, ReplaceHunk(f[j], Hunk(d[k].start, d[k].length, new[k])))
    BY <1>2, <1>5, <2>1, <2>2, HunkOn DEF n
  <2>5. f[j + 1] = ReplaceHunk(f[j], back[j + 1])
    BY <1>7, <2>1
  <2> QED
    BY <2>1, <2>3, <2>4, <2>5
<1>10. 0..m \subseteq S
  <2> HIDE DEF S
  <2> QED
    BY <1>8, <1>9, InductTo
<1>11. Changed(old, m, d, g, 0, f[m])
  <2>1. m \in 0..m /\ m - m = 0
    OBVIOUS
  <2> QED
    BY <1>10, <2>1
<1>12. f[m] = g[n]
  <2> DEFINE e == Edge(old, m, d, 0)
  <2>1. e \in 0..n /\ e \in Nat /\ \A j \in 1..m : e < d[j].start
    <3>1. 0 \in 0..m
      OBVIOUS
    <3>2. e \in 0..Len(old) /\ \A j \in 1..m : 0 < j => e < d[j].start
      BY <3>1, EdgeAfter
    <3> QED
      BY <3>2 DEF n
  <2>2. PICK w \in Seq(Symbol) : Starts(f[m], old, e, w) /\ g[e] \o w = g[n]
    BY <1>11 DEF Changed, n
  <2> HIDE DEF e
  <2>3. \A i \in 1..e : LineAfter(old, m, d, new, i) = <<old[i]>>
    BY <2>1, LinesBefore
  <2>4. \A i \in (0 + 1)..e : P[i] = <<old[i]>>
    BY <1>1, <1>2, <2>1, <2>3
  <2>5. g[e] = g[0] \o SubSeq(old, 0 + 1, e)
    <3>1. 0 \in 0..Len(P) /\ e \in 0..Len(P) /\ Len(old) = Len(P)
      BY <1>1, <1>2, <2>1 DEF n
    <3> QED
      <4>1. Kept(Symbol, P, g, old, 0, e)
        BY <1>2, <1>5, <2>4, <3>1 DEF Kept
      <4>2. Longer(g, old, 0, e)
        BY ONLY <4>1, StretchKept, Zenon
      <4> QED
        BY ONLY <4>2, Zenon DEF Longer
  <2>6. SubSeq(old, 1, e) \in Seq(Symbol)
    BY <2>1, SliceTyped, 0 + 1 = 1, 0 \in Nat DEF n
  <2>7. << >> \o SubSeq(old, 1, e) = SubSeq(old, 1, e)
    BY <2>6, ConcatEmptySeq
  <2>8. g[e] = SubSeq(old, 1, e)
    BY <1>6, <2>5, <2>7, 0 + 1 = 1
  <2> QED
    BY <2>2, <2>8 DEF Starts
<1>13. ApplyHunks(old, hunks) = f[m]
  BY <1>7 DEF ApplyHunks, back
<1> QED
  BY <1>6, <1>12, <1>13 DEF P

LEMMA TheDiffs == PatchReproduces
<1> SUFFICES ASSUME NEW old \in Olds, NEW d \in Diffs(old),
                    NEW new \in [DOMAIN d -> {<< >>, <<"+">>, <<"+", "+">>}]
             PROVE  ApplyPatch(old, <<[k \in DOMAIN d |-> Hunk(d[k].start, d[k].length, new[k])]>>)
                      = Rewritten(old, d, new)
  BY Zenon DEF PatchReproduces
<1>1. old \in Seq(STRING)
  BY TextAssumption
<1>2. old \in Seq(Symbol)
  BY <1>1, LabelTyped
<1>3. PICK m \in 0..Len(old) : d \in [1..m -> Spans(old)]
  BY DEF Diffs
<1>4. m \in Nat /\ DOMAIN d = 1..m
  BY <1>1, <1>3
<1>5. Ranges(old, m, d)
  BY <1>3, <1>4 DEF Diffs, Ranges
<1>6. new \in [1..m -> Seq(Symbol)]
  <2>1. "+" \in Symbol
    BY DEF Symbol
  <2>2. << >> \in Seq(Symbol) /\ <<"+">> \in Seq(Symbol) /\ <<"+", "+">> \in Seq(Symbol)
    BY <2>1
  <2> QED
    BY <1>4, <2>2
<1> DEFINE hunks == [k \in 1..m |-> Hunk(d[k].start, d[k].length, new[k])]
<1>7. hunks \in Seq(LineHunk)
  <2>1. ASSUME NEW k \in 1..m PROVE Hunk(d[k].start, d[k].length, new[k]) \in LineHunk
    <3>1. d[k].start \in 1..Len(old) /\ d[k].length \in 1..Len(old) /\ new[k] \in Seq(Symbol)
      BY <1>2, <1>4, <1>5, <1>6, SpanTyped
    <3>2. d[k].start \in Nat \ {0} /\ d[k].length \in Nat
      BY <3>1
    <3> QED
      BY <3>1, <3>2 DEF Hunk, LineHunk
  <2>2. hunks \in [1..m -> LineHunk]
    BY <2>1
  <2> HIDE DEF hunks
  <2> QED
    BY <1>4, <2>2
<1>8. ApplyHunks(old, hunks) = FlattenSeq([i \in DOMAIN old |-> LineAfter(old, m, d, new, i)])
  BY <1>2, <1>4, <1>5, <1>6, HunksExact
<1>9. Rewritten(old, d, new) = FlattenSeq([i \in DOMAIN old |-> LineAfter(old, m, d, new, i)])
  BY <1>4, Zenon DEF Rewritten, LineAfter
<1> HIDE DEF hunks
<1>10. ApplyPatch(old, <<hunks>>) = Rewritten(old, d, new)
  BY <1>2, <1>7, <1>8, <1>9, OneFile
<1> QED
  BY <1>4, <1>10 DEF hunks

(* The text the model is sent has a label for each hit and every other     *)
(* symbol as it was, whatever the patterns and however many hits a text    *)
(* has, as the replacement of a hit moves none that is still to be         *)
(* replaced; and each match of a pattern meets a hit                       *)
(* (secret_sanitizer.py, _sanitize).                                       *)
THEOREM RedactedExactlyHolds == PipelineSpec => []RedactedExactly
<1> QED
  BY TheRedaction, PTL

(* A diff whose hunks are in the order of the file replaces the lines each *)
(* hunk is for and no other, for a file and ranges of any length           *)
(* (_apply_patch).                                                         *)
THEOREM PatchReproducesHolds == PipelineSpec => []PatchReproduces
<1> QED
  BY TheDiffs, PTL
=============================================================================
