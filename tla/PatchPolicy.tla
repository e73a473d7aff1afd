------------------------------ MODULE PatchPolicy ------------------------------
(***************************************************************************)
(* The policy gate (src/src/services/policy_engine.py) and the limits of   *)
(* the sandbox (sandbox_config.py, resource_enforcer.py).                  *)
(*                                                                         *)
(* A path is a sequence of fragments, of which "/" is one: what the        *)
(* prefixes and patterns of a policy tell apart, so that "src/" and        *)
(* "src-tauri/" begin alike.  "words" are the strings of the policy that   *)
(* occur in the text of a patch.                                           *)
(***************************************************************************)
EXTENDS PatchRules

(* _load: each key that the file leaves out has its default, and a missing *)
(* file is an empty one. *)
NoTier == [patterns |-> {}, block |-> FALSE, review |-> FALSE]
PolicyDefaults ==
    [blocked |-> {}, allowed |-> {}, forbidden |-> {}, maxFiles |-> 5, maxLines |-> 120,
     tiers |-> [t \in {"high", "medium", "low"} |-> NoTier]]

WithDefaults(file, defaults) ==
    [key \in DOMAIN defaults |-> IF key \in DOMAIN file THEN file[key] ELSE defaults[key]]

LoadedPolicy(file) == WithDefaults(file, PolicyDefaults)

(* path.startswith(prefix.rstrip("/")): not only what is in the directory. *)
Stripped(prefix) ==
    SubSeq(prefix, 1, Max({0} \cup {i \in DOMAIN prefix : prefix[i] # "/"}))
Below(path, prefixes) == \E p \in prefixes : IsPrefix(Stripped(p), path)

BlockedPath(policy, path) == Below(path, policy.blocked)
AllowedPath(policy, path) == policy.allowed = {} \/ Below(path, policy.allowed)
Forbidden(policy, patch)  == policy.forbidden \cap patch.words

(* The first tier, from high to low, of which a pattern occurs in the path *)
(* or the patch. *)
RiskTier(policy, path, patch) ==
    LET hit(t) == policy.tiers[t].patterns \cap (patch.words \cup ToSet(path)) # {}
    IN IF hit("high") THEN "high" ELSE IF hit("medium") THEN "medium" ELSE "low"

Verdict(decision, tier) == [decision |-> decision, tier |-> tier]

(* check(): the gates in their order; the first that objects decides.  A   *)
(* patch counts as one file, whatever it names. *)
Check(policy, path, patch) ==
    LET tier == RiskTier(policy, path, patch)
    IN IF \/ BlockedPath(policy, path) \/ ~AllowedPath(policy, path)
          \/ Forbidden(policy, patch) # {}
          \/ 1 > policy.maxFiles \/ patch.lines > policy.maxLines
       THEN Verdict("block", "high")
       ELSE IF "critical" \in Severities(patch) THEN Verdict("block", "critical")
       ELSE IF "high" \in Severities(patch) THEN Verdict("review", "high")
       ELSE IF policy.tiers[tier].block THEN Verdict("block", tier)
       ELSE IF policy.tiers[tier].review THEN Verdict("review", tier)
       ELSE Verdict("allow", tier)

-----------------------------------------------------------------------------
(* SandboxConfig.from_yaml, likewise. *)
SandboxDefaults ==
    [network |-> "none", readOnlyRoot |-> TRUE, tmpfs |-> TRUE, tmpfsMb |-> 64,
     memoryMb |-> 256, centiCpus |-> 50, timeout |-> 120, user |-> "sentinai",
     securityOpt |-> {"no-new-privileges"}, dropCapabilities |-> {"ALL"},
     hostFallback |-> FALSE]

SandboxConfig(file) == WithDefaults(file, SandboxDefaults)

(* ResourceLimitEnforcer.validate: all violations are collected. *)
LimitViolations(config) ==
    {v \in {"memory", "cpus", "timeout", "tmpfs", "network", "root", "user",
            "privileges", "capabilities"} :
        \/ v = "memory"       /\ config.memoryMb \notin 64..1024
        \/ v = "cpus"         /\ config.centiCpus \notin 1..200
        \/ v = "timeout"      /\ config.timeout \notin 10..300
        \/ v = "tmpfs"        /\ config.tmpfsMb > 256
        \/ v = "network"      /\ config.network # "none"
        \/ v = "root"         /\ ~config.readOnlyRoot
        \/ v = "user"         /\ config.user \in {"", "root"}
        \/ v = "privileges"   /\ "no-new-privileges" \notin config.securityOpt
        \/ v = "capabilities" /\ "ALL" \notin config.dropCapabilities}

(* to_docker_args: what of the configuration reaches the container. *)
DockerArgs(config) ==
    {<<"--network", config.network>>, <<"--memory", config.memoryMb>>,
     <<"--cpus", config.centiCpus>>, <<"--user", config.user>>}
    \cup (IF config.readOnlyRoot THEN {<<"--read-only", "">>} ELSE {})
    \cup (IF config.tmpfs THEN {<<"--tmpfs", config.tmpfsMb>>} ELSE {})
    \cup {<<"--security-opt", o>> : o \in config.securityOpt}
    \cup {<<"--cap-drop", c>> : c \in config.dropCapabilities}
=============================================================================
