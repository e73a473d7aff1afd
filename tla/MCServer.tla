-------------------------------- MODULE MCServer --------------------------------
(***************************************************************************)
(* The texts, patches, answers, setups, outcomes and pieces of log on      *)
(* which TLC runs the parts of the server.                                 *)
(***************************************************************************)
EXTENDS Server, TLC

(* Two that overlap each other, one that overlaps itself, one into a label. *)
MCPatterns == << <<"g", "h">>, <<"h", "k">>, <<"p">>, <<"k", "k">>, <<"]", "z">> >>
MCSymbols == {"g", "h", "k", "p", "z", "["}
MCTexts == UNION {[1..n -> MCSymbols] : n \in 0..4}

(* A token; patterns that overlap; a token in brackets, of which the label  *)
(* makes a template; a phrase; one that only the prompt leaves out;   *)
(* a flood; a long text. *)
MCReport(trigger, stacktrace) ==
    [trigger |-> trigger, stacktrace |-> stacktrace, context |-> << >>]
MCReports ==
    {MCReport(<<"word">>, <<"word", "g", "h", "k">>),
     MCReport(<<"p", "word">>, <<"h", "k", "k", "k", "g", "h">>),
     MCReport(<<"[", "p", "]">>, << >>),
     MCReport(<<"word", "ignore">>, << >>),
     MCReport(<<"###", "word">>, [i \in 1..9 |-> "word"]),
     MCReport(<<"word">>, <<"a", "b", "c", "d", "e", "f", "g", "h", "z">>)}

-----------------------------------------------------------------------------
Text == [long |-> TRUE, placeholder |-> FALSE, query |-> FALSE, special |-> TRUE,
         algorithm |-> "other", secret |-> FALSE]
Literal == [kind |-> "text", text |-> Text]
Name(x) == [kind |-> "name", name |-> <<x>>]
Call(name, args, keywords) == [node |-> "call", name |-> name, args |-> args, keywords |-> keywords]
Assign(x, value) == [node |-> "assign", targets |-> <<<<x>>>>, value |-> value]
From(name) == [kind |-> "call", name |-> name]
Format(x) == [kind |-> "format", names |-> {x}]

Plain  == Call(<<"log", "info">>, <<Name("x")>>, << >>)
Input  == Assign("x", From(<<"request", "args", "get">>))
Safe   == Assign("x", From(<<"make", "id">>))
Copy   == [node |-> "assign", targets |-> <<<<"y">>, <<"x">>>>, value |-> From(<<"input">>)]
Reads  == Call(<<"open">>, <<Name("x")>>, << >>)
Runs   == Call(<<"db", "run">>, <<Format("x")>>, << >>)
MCPrograms == UNION {[1..n -> {Plain, Input, Safe, Copy, Reads, Runs}] : n \in 0..3}

MCOld == <<"a", "b", "c">>
MCPatch == [text |-> <<"word">>, header |-> "early", parses |-> TRUE, added |-> <<Plain>>,
            words |-> {}, lines |-> 9, valid |-> TRUE, target |-> <<"src", "/", "app">>,
            files |-> << <<Hunk(1, 1, <<"a", "+">>), Hunk(3, 1, << >>)>> >>]
MCPath  == <<"src", "/", "app">>
MCInfra == <<"infra", "/", "app">>
MCIcon  == <<"src", "-tauri/", "icon">>   \* below "src/", for the policy
MCProject == [path \in {MCPath, MCInfra, MCIcon, <<"tests", "/", "app">>} |-> MCOld]
MCBinary == {MCIcon}

MCPatches ==
    {MCPatch,
     [MCPatch EXCEPT !.text = <<"g", "h", "k">>, !.added = <<Assign("token", [Literal EXCEPT !.text.secret = TRUE])>>],
     [MCPatch EXCEPT !.added = <<Assign("token", Literal)>>],
     [MCPatch EXCEPT !.added = <<Input, Runs>>],
     [MCPatch EXCEPT !.added = <<Call(<<"os", "system">>, <<Literal>>, << >>)>>],
     [MCPatch EXCEPT !.added = <<Call(<<"hashlib", "md5">>, << >>, << >>)>>],
     [MCPatch EXCEPT !.added = <<Call(<<"eval">>, << >>, << >>)>>, !.header = "late"],
     [MCPatch EXCEPT !.added = <<[node |-> "compare", comparators |-> <<Literal>>]>>],
     [MCPatch EXCEPT !.added = <<[node |-> "def", protected |-> TRUE, decorators |-> << >>]>>],
     [MCPatch EXCEPT !.lines = 121], [MCPatch EXCEPT !.words = {"eval("}],
     [MCPatch EXCEPT !.words = {"auth"}], [MCPatch EXCEPT !.valid = FALSE],
     [MCPatch EXCEPT !.files = << <<Hunk(2, 1, <<"b">>)>> >>],
     [MCPatch EXCEPT !.files = << <<Hunk(2, 1, << >>)>>, << >> >>],
     [MCPatch EXCEPT !.target = MCInfra]}

MCAnswer(path, patch) ==
    [json |-> Suggestion("provider", <<"word">>, path, patch, <<"word">>, <<"p">>), lines |-> << >>]
MCAnswers ==
    {MCAnswer(MCPath, p) : p \in MCPatches}
    \cup {MCAnswer(path, MCPatch) : path \in {MCInfra, MCIcon, <<"etc">>, <<"src", "/", "core">>,
                                           <<"tests", "/", "none">>}}
    \cup {[json |-> NoSuggestion, lines |-> <<"SUMMARY", "p", "PROPOSED_PATCH", "g", "h">>],
          [json |-> NoSuggestion, lines |-> <<"word">>]}

MCScripts == UNION {[1..n -> {"SUMMARY", "RISKS", "word", " "}] : n \in 0..4}
MCOlds == {SubSeq(<<"a", "b", "c", "d">>, 1, n) : n \in 0..4}

-----------------------------------------------------------------------------
(* sentinai-policy.yml, in small; and no file at all. *)
MCPolicy ==
    [blocked |-> {<<"infra", "/">>},
     allowed |-> {<<"src", "/">>, <<"tests", "/">>, <<"infra", "/">>},
     forbidden |-> {"eval("},
     tiers |-> [high   |-> [patterns |-> {"auth"}, block |-> TRUE, review |-> FALSE],
                medium |-> [patterns |-> {"core"}, block |-> FALSE, review |-> TRUE],
                low    |-> [patterns |-> {"tests"}, block |-> FALSE, review |-> FALSE]]]
NoFile == << >>

MCSetup == [NoSetup EXCEPT !.provider = TRUE, !.docker = TRUE, !.sandboxed = TRUE,
                           !.github = TRUE, !.policy = MCPolicy, !.sandbox = NoFile]
MCSetups ==
    {MCSetup,
     [MCSetup EXCEPT !.provider = FALSE, !.policy = NoFile],
     [MCSetup EXCEPT !.policy = NoFile], [MCSetup EXCEPT !.github = FALSE],
     [MCSetup EXCEPT !.dryRun = TRUE], [MCSetup EXCEPT !.sandboxed = FALSE],
     [MCSetup EXCEPT !.docker = FALSE],
     [MCSetup EXCEPT !.docker = FALSE, !.sandbox = [hostFallback |-> TRUE]],
     [MCSetup EXCEPT !.sandbox = [network |-> "bridge"]],
     [MCSetup EXCEPT !.sandbox = [memoryMb |-> 1024, centiCpus |-> 200, timeout |-> 45]],
     [MCSetup EXCEPT !.sandbox = [tmpfs |-> FALSE]],
     [MCSetup EXCEPT !.sandbox = [memoryMb |-> 1025]],
     [MCSetup EXCEPT !.sandbox = [user |-> "root"]], [MCSetup EXCEPT !.sandbox = [user |-> "0"]],
     [MCSetup EXCEPT !.sandbox = [readOnlyRoot |-> FALSE]],
     [MCSetup EXCEPT !.sandbox = [dropCapabilities |-> {}]]}

-----------------------------------------------------------------------------
MCOutcome == [timestamp |-> 0, incident |-> "i", patch |-> "none", reason |-> "none",
              decision |-> "allow", applied |-> TRUE, pull |-> FALSE, review |-> FALSE]
MCOutcomes == {MCOutcome, [MCOutcome EXCEPT !.decision = "block", !.reason = "policy", !.applied = FALSE]}

MCPieces ==
    {<<"er">>, <<"ror">>, <<"nl">>, <<"indent", "text", "nl">>, <<"text", "nl">>, <<"exc", "nl">>}

MCLegacy == << [name |-> "old", url |-> "u1", enabled |-> TRUE],
               [name |-> "ops", url |-> "u2", enabled |-> TRUE] >>
MCAdditions == {[name |-> "ops", url |-> "u1", enabled |-> TRUE]}
MCUpdates == {[url |-> "mask", enabled |-> FALSE], [name |-> "new", url |-> "u3"]}
=============================================================================
