----------------------------- MODULE PatchPipeline -----------------------------
(***************************************************************************)
(* One run after another of the remediation pipeline                       *)
(* (src/src/services/pipeline.py): redact the incident, look for injected  *)
(* prompts, ask the model, redact its answer, judge the patch, apply it,   *)
(* run the tests in a container, open a pull request, record the outcome.  *)
(*                                                                         *)
(* A step is a stage; each attempt of the call to the model is a step of   *)
(* its own.  The model, Docker, the tests and GitHub are external and      *)
(* answer as they like.  The setup of the process (what is installed and   *)
(* configured) is chosen for each run.  A patch has the path that the      *)
(* header of its diff names ("target"), next to the file for which the     *)
(* answer says it is.                                                      *)
(***************************************************************************)
EXTENDS Integers, PatchPolicy, Redaction, LlmAnswers

CONSTANTS Setups,        \* provider, docker, sandboxed, github, dryRun, policy, sandbox
          Reports,       \* incidents, by their three texts
          Answers,       \* what the model may say
          Project,       \* the files of the project, by path
          Binary,        \* those of them that are not UTF-8
          MaxRetries,    \* llm_max_retries
          PromptPhrases, \* what sanitize_for_prompt replaces
          MaxChars       \* where it cuts a text

ASSUME PipelineAssumption ==
    /\ MaxRetries \in Int /\ MaxChars \in Nat /\ Binary \subseteq DOMAIN Project
    /\ \A s \in Setups : "tmpfsMb" \in DOMAIN s.sandbox => s.sandbox.tmpfsMb \in Int
    /\ \A r \in Reports : {r.trigger, r.stacktrace, r.context} \subseteq Seq(STRING)
    /\ \A a \in Answers : a.lines \in Seq(STRING)
    /\ \A s \in {a.json : a \in Answers} \ {NoSuggestion} :
          /\ s = Suggestion(s.source, s.summary, s.patchFile, s.patch, s.risks, s.guidance)
          /\ "text" \in DOMAIN s.patch
          /\ {s.summary, s.patch.text, s.risks, s.guidance} \subseteq Seq(STRING)

NoSetup == [provider |-> FALSE, docker |-> FALSE, sandboxed |-> FALSE, github |-> FALSE,
            dryRun |-> FALSE, policy |-> PolicyDefaults, sandbox |-> SandboxDefaults]

VARIABLES stage,
          setup,     \* of the process that runs the pipeline
          incident,  \* as the stages after the first see it
          attempt,   \* calls of the model so far
          result,    \* PipelineResult
          sent,      \* texts that went to the model
          committed, \* paths of the files that a commit on GitHub changed
          published, \* texts that went to GitHub
          launched,  \* arguments of the container, {} when none ran
          entries,   \* outcomes recorded in the audit log during the run
          raw,       \* history: the texts as they came in, from the log and the model
          fault      \* history: what failed where no error is handled, or unheard

(* What most stages leave alone. *)
marks == <<committed, raw, fault>>
pipelineVars ==
    <<stage, setup, incident, attempt, result, sent, published, launched, entries, marks>>

NoIncident == [trigger |-> << >>, stacktrace |-> << >>, context |-> << >>]
IncidentFields == DOMAIN NoIncident

NoResult == [suggestion |-> Stub("stub"), decision |-> "none", applied |-> FALSE,
             tests |-> "not run", pull |-> FALSE, failure |-> "none"]

PipelineAt(first) ==
    /\ stage = first /\ setup = NoSetup /\ incident = NoIncident /\ attempt = 0
    /\ result = NoResult /\ sent = {} /\ published = {} /\ launched = {} /\ entries = << >>
    /\ committed = {} /\ raw = {} /\ fault = "none"

PipelineInit == PipelineAt("idle")

-----------------------------------------------------------------------------
(* How a parsed diff changes a file (_apply_patch of                       *)
(* src/src/services/patch_runner.py).  A file is the sequence of its       *)
(* lines; a hunk has the start and length of its source range, as the diff *)
(* counts them, and the lines it leaves: its context and what it adds.     *)
Hunk(start, length, new) == [start |-> start, length |-> length, new |-> new]

(* The bounds of lines[a:b] = new, for b >= a: a negative bound counts     *)
(* from the end, and no bound is beyond either end. *)
SliceBound(i, n) == CASE i >= 0 /\ i <= n -> i
                      [] i > n            -> n
                      [] i < 0 /\ i >= -n -> n + i
                      [] i < -n           -> 0

ReplaceHunk(lines, h) ==
    LET n  == Len(lines)
        lo == SliceBound(h.start - 1, n)
        to == SliceBound(h.start - 1 + h.length, n)
        hi == IF to < lo THEN lo ELSE to
    IN SubSeq(lines, 1, lo) \o h.new \o SubSeq(lines, hi + 1, n)

(* Mutant of ApplyHunks: from the first hunk to the last, with the line     *)
(* numbers of the file before. *)
ApplyHunksForward(lines, hunks) == FoldLeft(ReplaceHunk, lines, hunks)

ApplyHunks(lines, hunks) == FoldLeft(ReplaceHunk, lines, Reverse(hunks))

(* All files that a diff names are taken for the one file. *)
ApplyPatch(original, files) == FoldLeft(ApplyHunks, original, files)

-----------------------------------------------------------------------------
SanitizeIncident(report) == [f \in IncidentFields |-> Sanitize(report[f])]

(* A literal that is redacted reads "[REDACTED:...]", which the rules take  *)
(* for a parameter of a query and so for no credential. *)
RedactExpr(e) == IF e.kind = "text" /\ e.text.secret THEN [e EXCEPT !.text.query = TRUE] ELSE e

RedactNode(n) ==
    CASE n.node = "call"    -> [n EXCEPT !.args = [i \in DOMAIN @ |-> RedactExpr(@[i])],
                                         !.keywords = [i \in DOMAIN @ |->
                                             [@[i] EXCEPT !.value = RedactExpr(@)]]]
      [] n.node = "assign"  -> [n EXCEPT !.value = RedactExpr(@)]
      [] n.node = "compare" -> [n EXCEPT !.comparators = [i \in DOMAIN @ |-> RedactExpr(@[i])]]
      [] n.node = "def"     -> n

RedactPatch(p) == [p EXCEPT !.text = Sanitize(@), !.added = [i \in DOMAIN @ |-> RedactNode(@[i])]]

(* Mutant of SanitizeSuggestion: the guidance for tests is left as it is. *)
SanitizeSuggestionPartly(s) ==
    [s EXCEPT !.summary = Sanitize(@), !.patch = RedactPatch(@), !.risks = Sanitize(@)]

SanitizeSuggestion(s) ==
    [s EXCEPT !.summary = Sanitize(@), !.patch = RedactPatch(@),
              !.risks = Sanitize(@), !.guidance = Sanitize(@)]

(* sanitize_for_prompt: floods are replaced, phrases cut out, long texts    *)
(* cut off. *)
Flood(text) ==
    /\ Len(text) >= 8
    /\ \E s \in ToSet(text) : 5 * Cardinality({i \in DOMAIN text : text[i] = s}) > 2 * Len(text)

ForPrompt(text) ==
    LET cleaned == [i \in DOMAIN text |-> IF text[i] \in PromptPhrases THEN "label" ELSE text[i]]
    IN IF Flood(text) THEN Label
       ELSE IF Len(cleaned) > MaxChars THEN Append(SubSeq(cleaned, 1, MaxChars), "label")
       ELSE cleaned

-----------------------------------------------------------------------------
(* run(), up to the search for injected prompts. *)
Begin(s, report) ==
    LET clean    == SanitizeIncident(report)
        injected == \E f \in IncidentFields : Injected(clean[f])
    IN /\ stage = "idle"
       /\ setup' = s /\ incident' = clean
       /\ raw' = {report[f] : f \in IncidentFields}
       /\ result' = [result EXCEPT !.failure = IF injected THEN "injection" ELSE "none"]
       /\ stage' = IF injected THEN "record" ELSE "ask"
       /\ UNCHANGED <<attempt, sent, published, launched, entries, committed, fault>>

Suggested(s) ==
    /\ result' = [result EXCEPT !.suggestion = s]
    /\ raw' = raw \cup {s.summary, s.patch.text, s.risks, s.guidance}
    /\ stage' = "redact"

(* The limiter of suggest_fix refuses, or no provider is configured. *)
Unasked ==
    /\ stage = "ask" /\ attempt = 0
    /\ \/ Suggested(Stub("fallback"))
       \/ ~setup.provider /\ Suggested(Stub("stub"))
    /\ UNCHANGED <<setup, incident, attempt, sent, published, launched, entries, committed, fault>>

Asking == stage = "ask" /\ setup.provider

(* Each attempt sends the prompt. *)
Posted ==
    /\ sent' = {ForPrompt(incident[f]) : f \in IncidentFields}
    /\ UNCHANGED <<setup, incident, published, launched, entries, committed, fault>>

(* A successful response. *)
Answered(answer) ==
    Asking /\ UNCHANGED attempt /\ Suggested(ParseOutput(answer)) /\ Posted

Retries == IF MaxRetries > 1 THEN MaxRetries ELSE 1

(* A timeout, a broken connection, 429, 500, 502, 503, 504: again, or the   *)
(* last error, for which suggest_fix has a fallback. *)
Transient ==
    /\ Asking /\ attempt' = attempt + 1
    /\ IF attempt' < Retries THEN UNCHANGED <<stage, result, raw>> ELSE Suggested(Stub("fallback"))
    /\ Posted

(* Any other error, or a response that is no answer. *)
Refused == Asking /\ UNCHANGED attempt /\ Suggested(Stub("fallback")) /\ Posted

(* Stage 1.5: a suggestion without a patch for a file ends the run. *)
Redact ==
    /\ stage = "redact"
    /\ result' = [result EXCEPT !.suggestion = SanitizeSuggestion(@)]
    /\ stage' = IF result.suggestion.patch.text = << >> \/ result.suggestion.patchFile = << >>
                THEN "record" ELSE "judge"
    /\ UNCHANGED <<setup, incident, attempt, sent, published, launched, entries, marks>>

(* Mutant of Judge: a patch to be reviewed goes on. *)
JudgeReviewed ==
    /\ stage = "judge"
    /\ \E decision \in {Check(LoadedPolicy(setup.policy), result.suggestion.patchFile,
                              result.suggestion.patch).decision} :
          /\ result' = [result EXCEPT !.decision = decision,
                                      !.failure = IF decision # "block" THEN @ ELSE "policy"]
          /\ stage' = IF decision # "block" THEN "apply" ELSE "record"
    /\ UNCHANGED <<setup, incident, attempt, sent, published, launched, entries, marks>>

(* Stage 2b: what the policy does not allow ends it too. *)
Judge ==
    /\ stage = "judge"
    /\ \E decision \in {Check(LoadedPolicy(setup.policy), result.suggestion.patchFile,
                              result.suggestion.patch).decision} :
          /\ result' = [result EXCEPT !.decision = decision,
                                      !.failure = IF decision = "allow" THEN @ ELSE "policy"]
          /\ stage' = IF decision = "allow" THEN "apply" ELSE "record"
    /\ UNCHANGED <<setup, incident, attempt, sent, published, launched, entries, marks>>

Patched(path, patch) == ApplyPatch(Project[path], patch.files)

Appliable(path, patch) ==
    path \in DOMAIN Project /\ patch.valid /\ Patched(path, patch) # Project[path]

(* The file is missing, or cannot be read or written (an OSError), or the   *)
(* patch does not fit or changes nothing. *)
ApplyFails(next) ==
    result' = [result EXCEPT !.failure = "apply"] /\ stage' = next /\ UNCHANGED fault

(* The patch is applied to a copy of the file it is said to be for; or the  *)
(* run ends with an error that nothing catches: the file is not UTF-8, the  *)
(* workspace or its directories cannot be made. *)
ApplyRuns(path, patch) ==
    \/ /\ path \notin Binary /\ Appliable(path, patch)
       /\ result' = [result EXCEPT !.applied = TRUE] /\ stage' = "tests" /\ UNCHANGED fault
    \/ path \in Binary /\ stage' = "raised" /\ UNCHANGED <<result, fault>>
    \/ stage' = "raised" /\ fault' = "files" /\ UNCHANGED result


(* Stage 2. *)
Apply ==
    /\ stage = "apply"
    /\ ApplyFails("record") \/ ApplyRuns(result.suggestion.patchFile, result.suggestion.patch)
    /\ UNCHANGED <<setup, incident, attempt, sent, published, launched, entries, committed, raw>>

-----------------------------------------------------------------------------
(* The outcome of run_tests, by its return code. *)
Tested(code) ==
    CASE code = 0  -> result' = [result EXCEPT !.tests = "passed"] /\ stage' = "publish"
      [] code = -2 -> /\ result' = [result EXCEPT !.tests = "failed", !.applied = FALSE,
                                                  !.failure = "sandbox"]
                      /\ stage' = "record"
      [] OTHER     -> /\ result' = [result EXCEPT !.tests = "failed", !.failure = "tests"]
                      /\ stage' = "record"

(* pytest, a time limit (-1), a signal (-2 is an interrupt too). *)
TestCodes == {0, 1, -1, -2}

Config == SandboxConfig(setup.sandbox)

(* The sandbox could not be set up when the pipeline was made. *)
Unsandboxed ==
    /\ stage = "tests" /\ ~setup.sandboxed
    /\ result' = [result EXCEPT !.applied = FALSE, !.failure = "sandbox"]
    /\ stage' = "record"
    /\ UNCHANGED <<setup, incident, attempt, sent, published, launched, entries, marks>>

(* Docker is not installed: the host, if the configuration says so. *)
RunOnHost ==
    /\ stage = "tests" /\ setup.sandboxed /\ ~setup.docker
    /\ IF Config.hostFallback THEN \E code \in TestCodes : Tested(code) ELSE Tested(-2)
    /\ UNCHANGED <<setup, incident, attempt, sent, published, launched, entries, marks>>

(* Mutant of RunInContainer: the limits are not enforced. *)
RunInContainerUnlimited ==
    /\ stage = "tests" /\ setup.sandboxed /\ setup.docker
    /\ launched' = DockerArgs(Config)
    /\ \E code \in TestCodes : Tested(code)
    /\ UNCHANGED <<setup, incident, attempt, sent, published, entries, marks>>

RunInContainer ==
    /\ stage = "tests" /\ setup.sandboxed /\ setup.docker /\ LimitViolations(Config) = {}
    /\ launched' = DockerArgs(Config)
    /\ \E code \in TestCodes : Tested(code)
    /\ UNCHANGED <<setup, incident, attempt, sent, published, entries, marks>>

(* enforce() raises, and nothing in the pipeline catches it. *)
LimitsRefused ==
    /\ stage = "tests" /\ setup.sandboxed /\ setup.docker /\ LimitViolations(Config) # {}
    /\ stage' = "raised"
    /\ UNCHANGED <<setup, incident, attempt, result, sent, published, launched, entries, marks>>

-----------------------------------------------------------------------------
(* What the body of the pull request and the commit are made of. *)
PullTexts == {incident.trigger, result.suggestion.summary, result.suggestion.patch.text,
              result.suggestion.guidance}

ToGitHub == ~setup.dryRun /\ setup.github

(* _commit_patch takes a diff of exactly one file and changes the file that *)
(* its header names, which nothing compares with the file that was judged.  *)
Committable(patch) == patch.valid /\ Len(patch.files) = 1

Commit(patch) == Committable(patch) /\ committed' = {patch.target}

(* Stage 4, the first calls of open_patch_pr: the branch cannot be made;    *)
(* the file is changed on it, or left (GitHub has another file, none, or    *)
(* refuses); or a call breaks, and GitHub may have done it. *)
CommitPatch ==
    /\ stage = "publish" /\ ToGitHub
    /\ \/ stage' = "record" /\ UNCHANGED <<result, committed>>
       \/ /\ Commit(result.suggestion.patch) \/ UNCHANGED committed
          /\ stage' = "pull" /\ UNCHANGED result
       \/ /\ Commit(result.suggestion.patch) \/ UNCHANGED committed
          /\ stage' = "record" /\ result' = [result EXCEPT !.failure = "pull"]
    /\ UNCHANGED <<setup, incident, attempt, sent, published, launched, entries, raw, fault>>

(* Its last call: the pull request is opened, with a commit or without, or  *)
(* GitHub refuses it, or the call breaks. *)
OpenPullRequest ==
    /\ stage = "pull"
    /\ published' = PullTexts
    /\ \E outcome \in {"opened", "refused", "broken"} :
          result' = [result EXCEPT !.pull = outcome = "opened",
                                   !.failure = IF outcome = "broken" THEN "pull" ELSE @]
    /\ stage' = "record"
    /\ UNCHANGED <<setup, incident, attempt, sent, launched, entries, marks>>

NoPullRequest ==
    /\ stage = "publish" /\ ~ToGitHub
    /\ stage' = "record"
    /\ UNCHANGED <<setup, incident, attempt, result, sent, published, launched, entries, marks>>

(* _record_audit; an error of the audit log is logged, and no more. *)
Record ==
    /\ stage = "record"
    /\ \/ entries' = Append(entries, result) /\ UNCHANGED fault
       \/ fault' = "log" /\ UNCHANGED entries
    /\ stage' = "returned"
    /\ UNCHANGED <<setup, incident, attempt, result, sent, published, launched, committed, raw>>

(* The caller has the result, or the error; the next run starts anew. *)
Finish ==
    /\ stage \in {"returned", "raised"}
    /\ stage' = "idle" /\ setup' = NoSetup /\ incident' = NoIncident /\ attempt' = 0
    /\ result' = NoResult /\ sent' = {} /\ published' = {} /\ launched' = {} /\ entries' = << >>
    /\ committed' = {} /\ raw' = {} /\ fault' = "none"

(* The steps that the pipeline takes by itself. *)
PipelineStep ==
    \/ Unasked \/ Transient \/ Refused \/ \E a \in Answers : Answered(a)
    \/ Redact \/ Judge \/ Apply \/ Unsandboxed \/ RunOnHost \/ RunInContainer \/ LimitsRefused
    \/ CommitPatch \/ OpenPullRequest \/ NoPullRequest \/ Record

PipelineNext == PipelineStep \/ Finish \/ \E s \in Setups, r \in Reports : Begin(s, r)

PipelineSpec == PipelineInit /\ [][PipelineNext]_pipelineVars /\ WF_pipelineVars(PipelineStep)
=============================================================================
