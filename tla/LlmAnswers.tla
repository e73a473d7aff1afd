------------------------------ MODULE LlmAnswers ------------------------------
(***************************************************************************)
(* What becomes of the answer of a language model                          *)
(* (_parse_llm_output of src/src/integrations/llm_client.py).              *)
(*                                                                         *)
(* An answer is the sequence of its lines and, in "json", what json.loads  *)
(* and the schema make of it: a suggestion, or NoSuggestion.  A line is a  *)
(* symbol; a header of a section is its key, a blank line is " ".          *)
(***************************************************************************)
EXTENDS Naturals, SequencesExt

CONSTANT NoSuggestion

SectionKeys == {"SUMMARY", "CODE_FIX", "CONFIG_CHANGE", "CONFIDENCE", "RISKS",
                "PROPOSED_PATCH", "TEST_GUIDANCE"}

(* str.strip *)
Strip(lines) ==
    LET kept == {i \in DOMAIN lines : lines[i] # " "}
    IN IF kept = {} THEN << >>
       ELSE SubSeq(lines, CHOOSE i \in kept : \A j \in kept : i <= j,
                          CHOOSE i \in kept : \A j \in kept : j <= i)

SaveSection(s) ==
    IF s.key = "" THEN s.output
    ELSE [key \in DOMAIN s.output \cup {s.key} |->
            IF key = s.key THEN Strip(s.lines) ELSE s.output[key]]

ReadLine(s, line) ==
    IF line \in SectionKeys THEN [output |-> SaveSection(s), key |-> line, lines |-> << >>]
    ELSE IF s.key # "" THEN [s EXCEPT !.lines = Append(@, line)]
    ELSE s

(* Mutant of ExtractSections: the section that is open at the end is lost. *)
ExtractSectionsUnsaved(lines) ==
    FoldLeft(ReadLine, [output |-> << >>, key |-> "", lines |-> << >>], lines).output

(* _extract_sections *)
ExtractSections(lines) ==
    SaveSection(FoldLeft(ReadLine, [output |-> << >>, key |-> "", lines |-> << >>], lines))

-----------------------------------------------------------------------------
(* A patch of which only the text matters: it is no diff, of no file. *)
Prose(text) == [text |-> text, header |-> "none", parses |-> FALSE, added |-> << >>,
                words |-> {}, lines |-> Len(text), valid |-> FALSE, files |-> << >>,
                target |-> << >>]

Suggestion(source, summary, patchFile, patch, risks, guidance) ==
    [source |-> source, summary |-> summary, patchFile |-> patchFile, patch |-> patch,
     risks |-> risks, guidance |-> guidance]

NoPatch == Prose(<< >>)

FromSections(s) ==
    LET section(key, default) == IF key \in DOMAIN s THEN s[key] ELSE default
    IN Suggestion("provider", section("SUMMARY", <<"word">>), << >>,
                  Prose(section("PROPOSED_PATCH", << >>)),
                  section("RISKS", <<"word">>), section("TEST_GUIDANCE", << >>))

Unparsed == Suggestion("fallback", <<"word">>, << >>, NoPatch, <<"word">>, << >>)

(* StubLLMClient: a patch in prose, for no file. *)
Stub(source) == Suggestion(source, <<"word">>, << >>, Prose(<<"word">>), <<"word">>, <<"word">>)

(* JSON, else sections, else a warning. *)
ParseOutput(answer) ==
    LET sections == ExtractSections(answer.lines)
    IN IF answer.json # NoSuggestion THEN answer.json
       ELSE IF DOMAIN sections # {} THEN FromSections(sections)
       ELSE Unparsed
=============================================================================
