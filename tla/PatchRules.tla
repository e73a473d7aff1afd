------------------------------ MODULE PatchRules ------------------------------
(***************************************************************************)
(* The semantic validator of patches                                       *)
(* (src/src/services/patch_semantic_validator.py): four sets of rules over *)
(* the syntax tree of the added lines.                                     *)
(*                                                                         *)
(* A program is the sequence of its nodes in the order in which            *)
(* ast.NodeVisitor meets them, a dotted name the sequence of its           *)
(* identifiers ("" for what is not a name), a text what the rules ask of   *)
(* it.  Identifiers are compared whole where the code compares prefixes    *)
(* and suffixes of strings.                                                *)
(***************************************************************************)
EXTENDS Naturals, SequencesExt

Violation(code, severity) == [code |-> code, severity |-> severity]

Calls(nodes) == {n \in ToSet(nodes) : n.node = "call"}
Keywords(nodes) == UNION {ToSet(n.keywords) : n \in Calls(nodes)}

(* A text may be a credential: long, no placeholder, no query, and with a *)
(* character that is not a letter. *)
LooksLikeCredential(text) ==
    text.long /\ ~text.placeholder /\ ~text.query /\ text.special

Credential(expr) == expr.kind = "text" /\ LooksLikeCredential(expr.text)

-----------------------------------------------------------------------------
BypassKeywords == {"skip_auth", "bypass_auth", "disable_auth", "no_auth",
                   "unauthenticated", "anonymous"}
AuthDecorators == {"login_required", "permission_required", "require_http_methods",
                   "IsAuthenticated", "IsAdminUser", "jwt_required",
                   "verify_jwt_in_request", "check_auth", "authenticate",
                   "authorize", "require_role"}

(* AUTH: checks that are passed by, and credentials in the source.  The    *)
(* names of decorators play no part: one of any name is enough.            *)
AuthViolations(nodes) ==
    {Violation("AUTH001", "critical") : k \in {k \in Keywords(nodes) :
        k.arg \in BypassKeywords /\ k.value.kind \in {"true", "text"}}}
    \cup {Violation("AUTH002", "critical") : n \in {n \in Calls(nodes) :
        \E e \in ToSet(n.args) : Credential(e)}}
    \cup {Violation("AUTH003", "high") : n \in {n \in ToSet(nodes) :
        n.node = "compare" /\ \E e \in ToSet(n.comparators) : Credential(e)}}
    \cup {Violation("AUTH004", "high") : n \in {n \in ToSet(nodes) :
        n.node = "def" /\ n.protected
        /\ ToSet(n.decorators) \cap {<<d>> : d \in AuthDecorators} = {}
        /\ n.decorators = << >>}}

-----------------------------------------------------------------------------
Dangerous(call, severity, code) ==
    [call |-> call, severity |-> severity, code |-> code]

DangerousCalls == <<
    Dangerous(<<"subprocess", "call">>, "critical", "PRIV001"),
    Dangerous(<<"subprocess", "run">>, "high", "PRIV002"),
    Dangerous(<<"subprocess", "Popen">>, "high", "PRIV003"),
    Dangerous(<<"subprocess", "check_output">>, "high", "PRIV004"),
    Dangerous(<<"os", "system">>, "critical", "PRIV005"),
    Dangerous(<<"os", "popen">>, "critical", "PRIV006"),
    Dangerous(<<"os", "execv">>, "critical", "PRIV007"),
    Dangerous(<<"os", "execve">>, "critical", "PRIV008"),
    Dangerous(<<"os", "chmod">>, "high", "PRIV009"),
    Dangerous(<<"os", "chown">>, "high", "PRIV010"),
    Dangerous(<<"os", "setuid">>, "critical", "PRIV011"),
    Dangerous(<<"os", "setgid">>, "critical", "PRIV012"),
    Dangerous(<<"eval">>, "critical", "PRIV013"),
    Dangerous(<<"exec">>, "critical", "PRIV014"),
    Dangerous(<<"compile">>, "high", "PRIV015"),
    Dangerous(<<"__import__">>, "high", "PRIV016"),
    Dangerous(<<"importlib", "import_module">>, "high", "PRIV017"),
    Dangerous(<<"pickle", "loads">>, "critical", "PRIV018"),
    Dangerous(<<"pickle", "load">>, "critical", "PRIV019"),
    Dangerous(<<"marshal", "loads">>, "critical", "PRIV020"),
    Dangerous(<<"yaml", "load">>, "critical", "PRIV021"),
    Dangerous(<<"tempfile", "mktemp">>, "high", "PRIV022") >>

(* The exact name, the bare function, or the function as an attribute of  *)
(* something that starts like the module. *)
Matches(name, call) ==
    \/ name = call
    \/ name = <<Last(call)>>
    \/ /\ Len(name) > 1 /\ Last(name) = Last(call)
       /\ Len(call) = 1 \/ Head(name) = Head(call)

Shell(n) == \E k \in ToSet(n.keywords) : k.arg = "shell" /\ k.value.kind = "true"

(* PRIV: the first entry of the table that matches, and modes that let     *)
(* everybody write. *)
PrivViolations(nodes) ==
    LET rule(n) == SelectInSeq(DangerousCalls, LAMBDA d : Matches(n.name, d.call))
        severity(n) == IF DangerousCalls[rule(n)].call[1] = "subprocess" /\ Shell(n)
                       THEN "critical" ELSE DangerousCalls[rule(n)].severity
    IN {Violation(DangerousCalls[rule(n)].code, severity(n)) :
            n \in {n \in Calls(nodes) : n.name # << >> /\ rule(n) > 0}}
       \cup {Violation("PRIV023", "critical") : n \in {n \in Calls(nodes) :
            n.name \in {<<"os", "chmod">>, <<"chmod">>} /\ Len(n.args) > 1
            /\ n.args[2].kind = "mode" /\ n.args[2].worldWritable}}

-----------------------------------------------------------------------------
WeakAlgorithms == {"md5", "sha1", "des", "rc4", "rc2"}
SecretNames == {"password", "passwd", "pwd", "secret", "secret_key", "api_key", "apikey",
                "token", "auth_token", "access_token", "private_key", "signing_key"}
RandomCalls == {"random", "randint", "choice", "randrange", "uniform"}
RequestCalls == {"get", "post", "put", "delete", "request", "session"}

(* SEC: weak hashes, random numbers, unverified certificates, secrets in   *)
(* the source. *)
SecViolations(nodes) ==
    {Violation("SEC001", "high") : n \in {n \in Calls(nodes) :
        /\ "hashlib" \in ToSet(n.name) \/ n.name \in {<<"md5">>, <<"sha1">>}
        /\ \/ Last(n.name) \in WeakAlgorithms
           \/ \E e \in ToSet(n.args) : e.kind = "text" /\ e.text.algorithm \in WeakAlgorithms}}
    \cup {Violation("SEC002", "high") : n \in {n \in Calls(nodes) :
        \E c \in RandomCalls : n.name = <<"random", c>>}}
    \cup {Violation("SEC003", "critical") : n \in {n \in Calls(nodes) :
        /\ \E c \in RequestCalls : n.name = <<"requests", c>>
        /\ \E k \in ToSet(n.keywords) : k.arg = "verify" /\ k.value.kind = "false"}}
    \cup {Violation("SEC004", "critical") : n \in {n \in ToSet(nodes) :
        /\ n.node = "assign" /\ Credential(n.value)
        /\ \E t \in ToSet(n.targets) : ToSet(t) \cap SecretNames # {}}}
    \cup {Violation("SEC005", "critical") : k \in {k \in Keywords(nodes) :
        k.arg \in SecretNames /\ Credential(k.value)}}

-----------------------------------------------------------------------------
(* The ends of the names that carry, or must not be given, untrusted data. *)
SourceEnds == {"get", "json", "get_json", "data", "Body", "Query", "Path", "Header",
               "Cookie", "input", "getenv", "argv"}
BareSinks == {"execute", "render_template_string", "Template", "Markup", "eval", "exec",
              "open", "Path", "redirect"}
SinkEnds == BareSinks \cup {"system", "call", "run", "Popen", "check_output", "popen"}

Sink(name) == \/ Len(name) = 1 /\ name[1] \in BareSinks
              \/ Len(name) > 1 /\ Last(name) \in SinkEnds

(* The names that a node makes untrusted; nothing makes them trusted again. *)
Taints(n) ==
    IF n.node = "assign" /\ n.value.kind = "call" /\ n.value.name # << >>
       /\ Last(n.value.name) \in SourceEnds
    THEN ToSet(n.targets) \ {<< >>} ELSE {}

(* Mutant of TaintViolations: only the assignment just before counts. *)
TaintViolationsAdjacent(nodes) ==
    {Violation("TAINT001", "high") : i \in {i \in 2..Len(nodes) :
        nodes[i].node = "call" /\ Sink(nodes[i].name)
        /\ \E e \in ToSet(nodes[i].args) : e.kind = "name" /\ e.name \in Taints(nodes[i - 1])}}

(* TAINT: one pass; a call is judged by the assignments met before it. *)
TaintViolations(nodes) ==
    UNION {LET tainted == UNION {Taints(nodes[j]) : j \in 1..(i - 1)}
               args == IF nodes[i].node = "call" /\ Sink(nodes[i].name)
                       THEN ToSet(nodes[i].args) ELSE {}
           IN {Violation("TAINT001", "high") : e \in {e \in args :
                   e.kind = "name" /\ e.name \in tainted}}
              \cup {Violation("TAINT002", "critical") : e \in {e \in args :
                   e.kind = "format" /\ \E x \in e.names : <<x>> \in tainted}}
           : i \in DOMAIN nodes}

-----------------------------------------------------------------------------
(* What validate() parses: the lines a diff adds, or all of a patch that    *)
(* has no diff header among its first ten lines.  A diff whose header comes *)
(* late is no Python.  What does not parse has no violations.               *)
Parses(patch) == patch.header # "late" /\ patch.parses

Violations(patch) ==
    IF patch.added = << >> \/ ~Parses(patch) THEN {}
    ELSE AuthViolations(patch.added) \cup PrivViolations(patch.added)
         \cup SecViolations(patch.added) \cup TaintViolations(patch.added)

Severities(patch) == {v.severity : v \in Violations(patch)}
=============================================================================
