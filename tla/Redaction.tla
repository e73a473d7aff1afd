------------------------------- MODULE Redaction -------------------------------
(***************************************************************************)
(* What texts go through before and after a language model sees them: the  *)
(* redaction of secrets (src/src/services/secret_sanitizer.py) and the     *)
(* search for injected prompts (prompt_injection_detector.py).             *)
(*                                                                         *)
(* A text is a sequence of symbols: what the patterns are made of,         *)
(* brackets, " " for space, "word" for any other text.  A pattern is a     *)
(* sequence of symbols too.                                                *)
(***************************************************************************)
EXTENDS Naturals, SequencesExt

CONSTANTS Patterns,   \* BUILT_IN_PATTERNS, in their order
          TokenSymbols,  \* what words of [A-Za-z0-9+/=_-] are made of
          RandomSymbols, \* those that give a word the entropy of a secret
          Phrases     \* symbols that a pattern of the detector matches

Span(start, end) == [start |-> start, end |-> end]   \* both ends included
Overlaps(s, spans) == \E r \in spans : r.start <= s.end /\ s.start <= r.end

MatchesAt(pattern, text, i) ==
    /\ i + Len(pattern) - 1 <= Len(text)
    /\ SubSeq(text, i, i + Len(pattern) - 1) = pattern

(* finditer: from the left, each match after the end of the one before. *)
Finditer(pattern, text) ==
    LET starts[i \in 0..Len(text)] ==
            IF i = 0 THEN {}
            ELSE IF MatchesAt(pattern, text, i)
                    /\ \A j \in starts[i - 1] : j + Len(pattern) <= i
                 THEN starts[i - 1] \cup {i} ELSE starts[i - 1]
    IN {Span(i, i + Len(pattern) - 1) : i \in starts[Len(text)]}

(* Pass 1: a match that overlaps one found before is left alone, wholly. *)
NamedHits(text) ==
    FoldLeft(LAMBDA hits, p : hits \cup {s \in Finditer(p, text) : ~Overlaps(s, hits)},
             {}, Patterns)

(* Pass 2: longest words, of which the random ones are taken for secrets. *)
Words(text) ==
    {s \in {Span(i, j) : i, j \in DOMAIN text} :
        /\ s.start <= s.end
        /\ \A k \in s.start..s.end : text[k] \in TokenSymbols
        /\ s.start = 1 \/ text[s.start - 1] \notin TokenSymbols
        /\ s.end = Len(text) \/ text[s.end + 1] \notin TokenSymbols}

EntropyHits(text, hits) ==
    {s \in Words(text) : /\ ~Overlaps(s, hits)
                         /\ \E k \in s.start..s.end : text[k] \in RandomSymbols}

Hits(text) == LET named == NamedHits(text) IN named \cup EntropyHits(text, named)

(* "[REDACTED:...]" *)
Label == <<"[", "label", "]">>

(* text[:start] + label + text[end:], of which a slice ends with the text. *)
Replace(text, s) ==
    SubSeq(text, 1, Min({s.start - 1, Len(text)})) \o Label \o SubSeq(text, s.end + 1, Len(text))

(* The hit that starts at a position, if one does, is replaced. *)
RedactAt(text, hits, i) ==
    IF \E s \in hits : s.start = i THEN Replace(text, CHOOSE s \in hits : s.start = i) ELSE text

(* Mutant of Substitute: from left to right, with the offsets of the text  *)
(* before. *)
SubstituteForward(text, hits) ==
    FoldLeft(LAMBDA t, i : RedactAt(t, hits, i), text, [i \in DOMAIN text |-> i])

(* From right to left, so that the offsets of the hits to come stay valid. *)
Substitute(text, hits) ==
    FoldLeft(LAMBDA t, i : RedactAt(t, hits, i), text, Reverse([i \in DOMAIN text |-> i]))

Sanitize(text) == Substitute(text, Hits(text))

-----------------------------------------------------------------------------
(* scan(): phrases, the format of templates, words too long to be words.   *)
Template(text) ==
    \E open \in {"[", "{"} :
        LET close == IF open = "[" THEN "]" ELSE "}"
        IN \E i, j \in DOMAIN text :
              i + 1 < j /\ MatchesAt(<<open, open>>, text, i) /\ MatchesAt(<<close, close>>, text, j)

Injected(text) == ToSet(text) \cap Phrases # {} \/ Template(text)
=============================================================================
