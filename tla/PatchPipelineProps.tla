--------------------------- MODULE PatchPipelineProps ---------------------------
(* What the remediation pipeline must guarantee. *)
EXTENDS PatchPipeline

CONSTANTS Texts,    \* texts on which the redaction is checked
          Programs, \* sequences of nodes on which the rules of taint are checked
          Scripts,  \* sequences of lines on which the parser of sections is checked
          Olds      \* files to which diffs are applied

ASSUME TextAssumption ==
    /\ Texts \subseteq Seq(STRING) /\ Scripts \subseteq Seq(STRING) /\ Olds \subseteq Seq(STRING)
    /\ Patterns \in Seq(Seq(STRING) \ {<< >>})

Stages == {"idle", "ask", "redact", "judge", "apply", "tests", "publish", "pull",
           "record", "returned", "raised"}

PipelineTypeOK ==
    /\ stage \in Stages
    /\ attempt \in 0..Retries
    /\ result.decision \in {"none", "allow", "review", "block"}
    /\ result.tests \in {"not run", "passed", "failed"}
    /\ result.applied \in BOOLEAN /\ result.pull \in BOOLEAN
    /\ fault \in {"none", "files", "log"}
    /\ published # {} => stage \in {"record", "returned"}
    /\ committed # {} => stage \in {"pull", "record", "returned"}

-----------------------------------------------------------------------------
(* Whatever the model says and whatever fails: a text or a commit goes to  *)
(* GitHub only for a patch in which no rule finds a violation, that the    *)
(* answer says is for a file the policy leaves to the pipeline, that       *)
(* changes that file, and after the project's tests passed, run on the     *)
(* project as it is, in the container or on a host that is configured for  *)
(* it.  The file committed is the one that the header of the diff names:   *)
(* the policy judges only the other name, so a blocked path is committed   *)
(* only where the two differ.                                              *)
PullWasVetted ==
    published # {} \/ committed # {} =>
        LET patch  == result.suggestion.patch
            path   == result.suggestion.patchFile
            policy == LoadedPolicy(setup.policy)
        IN /\ Severities(patch) = {} /\ ~BlockedPath(policy, path)
           /\ Appliable(path, patch) /\ result.applied
           /\ result.tests = "passed"
           /\ launched # {} \/ Config.hostFallback
           /\ ~\E f \in IncidentFields : Injected(incident[f])
           /\ committed \subseteq {patch.target}
           /\ \A file \in committed : BlockedPath(policy, file) => file # path

(* In a run of the pipeline no text of the prompt, the pull request or the *)
(* commit message holds what a pattern of secrets matches.  Two kinds of   *)
(* match may be left: of a pattern that could match into a label, and of   *)
(* one of which two matches overlap in a text as it came in.  (The server  *)
(* analyses incidents without the pipeline, and redacts nothing there.)    *)
HoldsSecret(p, text) == Finditer(p, text) # {}
Bare(p) == ToSet(p) \cap ToSet(Label) = {}
Tangled(p, text) ==
    \E i, j \in DOMAIN text :
        i < j /\ j < i + Len(p) /\ MatchesAt(p, text, i) /\ MatchesAt(p, text, j)

SecretsKept ==
    \A text \in sent \cup published : \A p \in ToSet(Patterns) :
        Bare(p) /\ HoldsSecret(p, text) => \E t \in raw : Tangled(p, t)

(* A container runs only inside the limits, and they reach its command     *)
(* line: no network, memory, processor, temporary files, a read-only root, *)
(* no capabilities, no new privileges.  Of its user only the name "root"   *)
(* is refused: a user "0" is not.                                          *)
ContainerConfined ==
    launched # {} =>
        /\ {a \in launched : a[1] = "--network"} = {<<"--network", "none">>}
        /\ \E m \in 64..1024 : <<"--memory", m>> \in launched
        /\ \E c \in 1..200 : <<"--cpus", c>> \in launched
        /\ {<<"--read-only", "">>, <<"--security-opt", "no-new-privileges">>,
            <<"--cap-drop", "ALL">>} \subseteq launched
        /\ <<"--user", "root">> \notin launched
        /\ \A a \in launched : a[1] = "--tmpfs" => a[2] <= 256


-----------------------------------------------------------------------------
(* The text between the hits is kept, each hit is replaced by one label,   *)
(* and every match of a pattern meets a hit (SecretSanitizer._sanitize).   *)
Redacted(text, hits) ==
    FlattenSeq([i \in DOMAIN text |->
        IF \E s \in hits : s.start = i THEN Label
        ELSE IF \E s \in hits : i \in s.start..s.end THEN << >>
        ELSE <<text[i]>>])

RedactedExactly ==
    stage = "idle" => \A text \in Texts :
        LET hits == Hits(text)
        IN /\ Sanitize(text) = Redacted(text, hits)
           /\ \A s, r \in hits : s = r \/ s.end < r.start \/ r.end < s.start
           /\ \A i \in DOMAIN Patterns : \A s \in Finditer(Patterns[i], text) : Overlaps(s, hits)

(* A sink that gets a name whose last assignment took it from outside has  *)
(* a violation (_TaintRules). *)
LastTainted(nodes, i, name) ==
    \E j \in 1..(i - 1) :
        /\ name \in Taints(nodes[j])
        /\ \A k \in (j + 1)..(i - 1) :
              ~(nodes[k].node = "assign" /\ name \in ToSet(nodes[k].targets))

TaintSound ==
    stage = "idle" => \A nodes \in Programs : \A i \in DOMAIN nodes :
        /\ nodes[i].node = "call" /\ Sink(nodes[i].name)
        /\ \E e \in ToSet(nodes[i].args) :
              \/ e.kind = "name" /\ LastTainted(nodes, i, e.name)
              \/ e.kind = "format" /\ \E x \in e.names : LastTainted(nodes, i, <<x>>)
        => TaintViolations(nodes) # {}

(* Each section is what stands between its last header and the next one    *)
(* (_extract_sections). *)
Section(lines, key) ==
    LET header == CHOOSE i \in DOMAIN lines :
                     lines[i] = key /\ \A j \in (i + 1)..Len(lines) : lines[j] # key
        end == CHOOSE e \in header..Len(lines) :
                  /\ \A j \in (header + 1)..e : lines[j] \notin SectionKeys
                  /\ e = Len(lines) \/ lines[e + 1] \in SectionKeys
    IN Strip(SubSeq(lines, header + 1, end))

SectionsAsWritten ==
    stage = "idle" => \A lines \in Scripts :
        ExtractSections(lines) =
            [key \in ToSet(lines) \cap SectionKeys |-> Section(lines, key)]

(* Applying the hunks of a diff, each for some lines of the file, replaces *)
(* these lines and no other, however many lines the hunks before add or    *)
(* remove (_apply_patch). *)
Spans(old) == {s \in [start : DOMAIN old, length : 1..Len(old)] : s.start + s.length <= Len(old) + 1}

(* The ranges of the hunks, in the order of the file. *)
Diffs(old) ==
    {d \in UNION {[1..m -> Spans(old)] : m \in 0..Len(old)} :
        \A i, j \in DOMAIN d : i < j => d[i].start + d[i].length <= d[j].start}

Rewritten(old, d, new) ==
    FlattenSeq([i \in DOMAIN old |->
        IF \E k \in DOMAIN d : d[k].start = i THEN new[CHOOSE k \in DOMAIN d : d[k].start = i]
        ELSE IF \E k \in DOMAIN d : i \in d[k].start..(d[k].start + d[k].length - 1) THEN << >>
        ELSE <<old[i]>>])

PatchReproduces ==
    stage = "idle" => \A old \in Olds : \A d \in Diffs(old) :
        \A new \in [DOMAIN d -> {<< >>, <<"+">>, <<"+", "+">>}] :
            LET hunks == [k \in DOMAIN d |-> Hunk(d[k].start, d[k].length, new[k])]
            IN ApplyPatch(old, <<hunks>>) = Rewritten(old, d, new)
=============================================================================
