---------------------------- MODULE Configuration ----------------------------
(***************************************************************************)
(* From the configuration file an operator wrote to the policies an intent *)
(* is decided by: the spelling is normalised, the file validated, an       *)
(* external policies file read, durations and defaults resolved, the       *)
(* firewall started (src/config, src/engine/resolved-policy.ts,            *)
(* src/sdk/firewall.ts), and then PolicyResolution picks the policy of an  *)
(* intent out of what runs.                                                *)
(*                                                                         *)
(* A part of a file whose content nothing reads here is a function from    *)
(* its fields to "absent", "good" or "bad"; the field "unlisted" stands    *)
(* for the keys the schema does not know.                                  *)
(***************************************************************************)
EXTENDS PolicyResolution, Preconditions

CONSTANTS
    Files,              \* the configuration files
    Globs,              \* matcher patterns
    MatchingGlobs,      \* those that match the intent
    Metadata,           \* what the preconditions may meet at run time
    MaxDeadline         \* MAX_EXECUTION_DEADLINE_MS

-----------------------------------------------------------------------------
(* What is written in a file. *)

Statuses == {"absent", "good", "bad"}

\* "ALLOW" and "critical" stand for the spellings in another case.
OutcomeWords == Outcomes \cup {"ALLOW", "absent", "malformed"}

RiskWords == Risks \cup {"critical", "malformed", None}

ModeWords == {"observe", "enforce", "strict", "STRICT", "malformed"}

Absent == Null

Malformed == -2

\* A duration that parses, in clock units, or one of the two above.
Durations == Nat \cup {Absent, Malformed}

\* `hybrid` says whether that section is there, `on` and `off` which components it
\* sets; aging_threshold is in percent.
WrittenFreshness ==
    [strategy : Strategies \cup {"hybrid", "absent", "malformed"}, max_age : Durations,
     aging_threshold : Int, skew : Durations,
     hybrid : BOOLEAN, on : SUBSET Strategies, off : SUBSET Strategies]

ExecutionFields == {"require_fresh_at_execution", "allow_idempotent_retry",
                    "require_conditional_execution", "unlisted"}

PolicyFields == {"name", "description", "match", "require_dependencies", "unlisted"}

\* require_conditional is what the flag says when its status is good; key_order says in
\* which order the dimensions of the matcher are written.
WrittenPolicies ==
    [name : Names, fields : [PolicyFields -> Statuses],
     tool : Globs \cup {None}, operation : Globs \cup {None}, target : Globs \cup {None},
     floor : RiskWords, key_order : {1, 2}, declared : RiskWords,
     freshness : WrittenFreshness, dependency_freshness : Seq(WrittenFreshness),
     preconditions : Seq(WrittenPreconditions), outcomes : [Bases -> OutcomeWords],
     execution : [ExecutionFields -> Statuses], require_conditional : BOOLEAN,
     deadline : Durations, on_conditional_unavailable : OutcomeWords]

StorageFields == {"type", "path", "unlisted"}

HttpResourceFields == {"url", "headers", "version", "observed_at", "metadata_paths",
                       "content_hash", "timeout_ms", "conditional", "mutation", "unlisted"}

ProviderFields == {"memory", "http", "github", "unlisted"}

TestFields == {"name", "action", "state", "expect_decision", "expect_policy", "unlisted"}

RootFields == {"firewall", "telemetry", "logging", "unlisted"}

WrittenDefaults ==
    [on : [Bases -> OutcomeWords], alias : [Bases -> OutcomeWords], default_freshness : WrittenFreshness,
     aging_threshold : Int, skew : Durations, execution_deadline : Durations, unlisted : BOOLEAN]

\* A rule may leave out its level: the type demands one, validation does not.
WrittenRiskDefaults ==
    [given : BOOLEAN, rules : Seq([match : Globs, risk : RiskWords]), default : RiskWords,
     unlisted : BOOLEAN]

PoliciesFiles ==
    [given : BOOLEAN, readable : BOOLEAN, schema_version : Statuses, policies : Seq(WrittenPolicies)]

FileType ==
    [readable : BOOLEAN, root : [RootFields -> Statuses], mode : ModeWords,
     acknowledge_unknown_allow : {"absent", "true", "false", "malformed"},
     storage : [StorageFields -> Statuses], defaults : WrittenDefaults,
     actions : Seq(WrittenPolicies), policies_file : PoliciesFiles,
     providers : [ProviderFields -> Statuses], resources : Seq([HttpResourceFields -> Statuses]),
     policy_tests : Seq([TestFields -> Statuses]), risk_defaults : WrittenRiskDefaults]

ASSUME ConfigurationAssumption ==
    /\ Files \subseteq FileType
    /\ MatchingGlobs \subseteq Globs
    /\ None \notin Globs
    /\ Metadata \subseteq Subjects
    /\ MaxDeadline \in Nat
    /\ DefaultMaxAge \in Nat \ {0}
    /\ Configurations = {<<>>}

-----------------------------------------------------------------------------
(* Normalisation: the spelling of the words is forgiven. *)

Lower(word) == IF word = "ALLOW" THEN "allow" ELSE word

Upper(word) == IF word = "critical" THEN "CRITICAL" ELSE word

LowerAll(table) == [basis \in Bases |-> Lower(table[basis])]

NormalizePolicy(policy) ==
    [policy EXCEPT !.floor = Upper(@), !.declared = Upper(@), !.outcomes = LowerAll(@)]

NormalizePolicies(written) == [i \in DOMAIN written |-> NormalizePolicy(written[i])]

NormalizeMode(mode) == IF mode = "STRICT" THEN "strict" ELSE mode

NormalizeDefaults(defaults) ==
    [defaults EXCEPT !.on = LowerAll(@), !.alias = LowerAll(@)]

NormalizeRule(rule) == [rule EXCEPT !.risk = Upper(@)]

\* risk_defaults is rebuilt of its two known fields.
NormalizeRiskDefaults(riskFile) ==
    [riskFile EXCEPT !.rules = [i \in DOMAIN riskFile.rules |-> NormalizeRule(riskFile.rules[i])],
                     !.default = Upper(@), !.unlisted = FALSE]

NormalizeConfigFile(config) ==
    [config EXCEPT !.mode = NormalizeMode(@),
                   !.defaults = NormalizeDefaults(@),
                   !.actions = NormalizePolicies(@),
                   !.risk_defaults = NormalizeRiskDefaults(@)]

-----------------------------------------------------------------------------
(* Validation. *)

AcceptedFields(section, required, unchecked) ==
    \A key \in DOMAIN section :
        /\ key \in required => section[key] # "absent"
        /\ key \notin unchecked => section[key] # "bad"

AcceptedOutcome(word) == word \in Outcomes \cup {"absent"}

AcceptedRisk(word) == word \in Risks \cup {None}

AcceptedDuration(duration) == duration # Malformed

AcceptedThreshold(percent) == percent = Absent \/ percent \in 1..100

AcceptedFreshness(f) ==
    f.strategy # "absent" =>
        /\ f.strategy # "malformed"
        /\ f.strategy = "ttl" => f.max_age # Absent
        /\ f.strategy \in Strategies \ {"ttl"} => f.max_age = Absent
        /\ AcceptedDuration(f.max_age) /\ AcceptedDuration(f.skew)
        /\ AcceptedThreshold(f.aging_threshold)
        /\ f.hybrid => /\ f.on = {} => f.off = {}
                       /\ "ttl" \in f.on => f.max_age # Absent
        /\ (f.strategy = "hybrid" /\ ~f.hybrid) => f.max_age # Absent

\* The words that name an outcome after normalisation; "allow" may be refused.
AcceptedTable(outcomes) ==
    /\ \A basis \in Bases : AcceptedOutcome(outcomes[basis])
    /\ \A basis \in {"stale", "unknown", "invalid"} : outcomes[basis] # "allow"

AcceptedExecution(policy) ==
    /\ AcceptedFields(policy.execution, {}, {})
    /\ AcceptedDuration(policy.deadline)
    /\ AcceptedOutcome(policy.on_conditional_unavailable)
    /\ ~(policy.require_conditional /\ policy.on_conditional_unavailable = "allow")

AcceptedPolicy(policy) ==
    /\ AcceptedFields(policy.fields, {}, {"description"})
    /\ {policy.tool, policy.operation, policy.target, policy.floor} # {None}
    /\ AcceptedRisk(policy.floor) /\ AcceptedRisk(policy.declared)
    /\ AcceptedFreshness(policy.freshness)
    /\ \A i \in DOMAIN policy.dependency_freshness :
           /\ policy.dependency_freshness[i].strategy # "absent"
           /\ AcceptedFreshness(policy.dependency_freshness[i])
    /\ \A i \in DOMAIN policy.preconditions : AcceptedPrecondition(policy.preconditions[i])
    /\ AcceptedTable(policy.outcomes)
    /\ AcceptedExecution(policy)

\* Of a word and its short form the first that is there counts.
Effective(defaults, basis) ==
    IF defaults.on[basis] # "absent" THEN defaults.on[basis] ELSE defaults.alias[basis]

\* Mutant: only the long names of dangerous defaults are looked at.
MutantOverlooksAliases(defaults, acknowledged) ==
    /\ defaults.on["invalid"] # "allow"
    /\ ~acknowledged => \A basis \in {"stale", "unknown"} : defaults.on[basis] # "allow"

\* Allowing on uncertain state takes an acknowledgment, on refuted state nothing does.
AcceptedDangers(defaults, acknowledged) ==
    /\ Effective(defaults, "invalid") # "allow"
    /\ ~acknowledged => \A basis \in {"stale", "unknown"} : Effective(defaults, basis) # "allow"

AcceptedDefaults(defaults) ==
    /\ ~defaults.unlisted
    /\ \A basis \in Bases : AcceptedOutcome(defaults.on[basis]) /\ AcceptedOutcome(defaults.alias[basis])
    /\ AcceptedFreshness(defaults.default_freshness)
    /\ AcceptedThreshold(defaults.aging_threshold)
    /\ AcceptedDuration(defaults.skew) /\ AcceptedDuration(defaults.execution_deadline)

\* The text of a matcher, in the order in which its dimensions are written.
Signature(policy) ==
    <<policy.tool, policy.operation, policy.target, policy.floor, policy.key_order>>

\* Names are unique, and so are the texts of matchers.
AcceptedTogether(actions) ==
    \A i, j \in DOMAIN actions : i # j =>
        actions[i].name # actions[j].name /\ Signature(actions[i]) # Signature(actions[j])

AcceptedStorage(storage) == AcceptedFields(storage, {}, {})

\* What is under "conditional" is not looked at, nor unknown keys inside the others.
AcceptedHttpResource(resource) == AcceptedFields(resource, {"url"}, {"conditional"})

AcceptedProviders(file) ==
    /\ AcceptedFields(file.providers, {}, {})
    /\ \A i \in DOMAIN file.resources : AcceptedHttpResource(file.resources[i])

AcceptedPolicyTest(test) ==
    AcceptedFields(test, {"name", "action", "state", "expect_decision"}, {"expect_policy"})

AcceptedRiskDefaults(riskDefaults0) ==
    /\ ~riskDefaults0.unlisted
    /\ \A i \in DOMAIN riskDefaults0.rules : AcceptedRisk(riskDefaults0.rules[i].risk)
    /\ AcceptedRisk(riskDefaults0.default)

\* validateConfig returns no violation.
ValidateConfig(file) ==
    /\ AcceptedFields(file.root, {"firewall"}, {})
    /\ file.mode \in {"observe", "enforce", "strict"}
    /\ AcceptedStorage(file.storage)
    /\ file.acknowledge_unknown_allow # "malformed"
    /\ AcceptedDefaults(file.defaults)
    /\ AcceptedDangers(file.defaults, file.acknowledge_unknown_allow = "true")
    /\ \A i \in DOMAIN file.actions : AcceptedPolicy(file.actions[i])
    /\ AcceptedTogether(file.actions)
    /\ AcceptedProviders(file)
    /\ AcceptedRiskDefaults(file.risk_defaults)
    /\ \A i \in DOMAIN file.policy_tests : AcceptedPolicyTest(file.policy_tests[i])

\* The external file is validated as it is written, one policy at a time.
AcceptedPoliciesFile(external) ==
    /\ external.readable
    /\ external.schema_version # "bad"
    /\ \A i \in DOMAIN external.policies : AcceptedPolicy(external.policies[i])

-----------------------------------------------------------------------------
(* Resolution into runtime form. *)

FirstGiven(a, b, otherwise) == IF a # Absent THEN a ELSE IF b # Absent THEN b ELSE otherwise

Components(f) ==
    IF f.strategy # "hybrid" THEN {f.strategy}
    ELSE IF f.hybrid /\ f.on # {} THEN f.on ELSE {"ttl", "version", "preconditions"}

\* An absent section is the built-in one; a ttl of zero is refused, a hybrid of ttl
\* alone with an age of zero is not.
Resolvable(f) == f.strategy = "ttl" => f.max_age > 0

ResolveFreshness(f, threshold, skew) ==
    IF f.strategy = "absent"
    THEN [components |-> {"ttl"}, max_age |-> DefaultMaxAge, aging_percent |-> 75, skew |-> 0]
    ELSE [components |-> Components(f), max_age |-> f.max_age,
          aging_percent |-> FirstGiven(f.aging_threshold, threshold, 75),
          skew |-> FirstGiven(f.skew, skew, 0)]

\* Mutant: the range of the platform's timers is not looked at.
MutantIgnoresTimerRange(deadline) == deadline # Malformed

DeadlineInRange(deadline) == deadline <= MaxDeadline

Table(outcomes) ==
    [basis \in Bases |-> IF outcomes[basis] = "absent" THEN "unset" ELSE outcomes[basis]]

ResolvablePolicy(policy) ==
    /\ Resolvable(policy.freshness)
    /\ \A i \in DOMAIN policy.dependency_freshness : Resolvable(policy.dependency_freshness[i])
    /\ DeadlineInRange(policy.deadline)

\* resolvePolicyConfig; the defaults of the file give no fallbacks here.
ResolvePolicyConfig(policy) ==
    [outcomes |-> Table(policy.outcomes),
     freshness |-> ResolveFreshness(policy.freshness, Absent, Absent),
     rules |-> [i \in DOMAIN policy.dependency_freshness |->
                    ResolveFreshness(policy.dependency_freshness[i], Absent, Absent)],
     preconditions |-> policy.preconditions,
     deadline |-> policy.deadline,
     require_conditional |-> policy.require_conditional,
     on_conditional_unavailable |-> IF policy.on_conditional_unavailable = "absent" THEN "deny"
                                    ELSE policy.on_conditional_unavailable]

\* The same choice, made again when the file is resolved.
DefaultWord(defaults, basis) ==
    IF defaults.on[basis] # "absent" THEN defaults.on[basis] ELSE defaults.alias[basis]

ResolvableDefaults(defaults) ==
    Resolvable(defaults.default_freshness) /\ DeadlineInRange(defaults.execution_deadline)

\* The outcome of fresh state is filled in; the fallbacks for threshold and skew reach
\* default_freshness only.
ResolveGlobalDefaults(defaults) ==
    LET table == Table([basis \in Bases |-> DefaultWord(defaults, basis)])
    IN  [outcomes |-> [table EXCEPT !["fresh"] = IF @ = "unset" THEN "allow" ELSE @],
         freshness |-> ResolveFreshness(defaults.default_freshness, defaults.aging_threshold, defaults.skew),
         deadline |-> defaults.execution_deadline]

RuntimeMode == [observe |-> "OBSERVE", enforce |-> "ENFORCE", strict |-> "STRICT"]

\* A dimension of a matcher as PolicyResolution sees it.
Dimension(glob) ==
    IF glob = None THEN "absent" ELSE IF glob \in MatchingGlobs THEN "match" ELSE "miss"

MatcherOf(policy) ==
    [name |-> policy.name, tool |-> Dimension(policy.tool), operation |-> Dimension(policy.operation),
     target |-> Dimension(policy.target), floor |-> policy.floor, declared |-> policy.declared]

RiskDefaultsOf(written) ==
    [configured |-> written.given,
     rules |-> [i \in DOMAIN written.rules |->
                    [matches |-> written.rules[i].match \in MatchingGlobs, risk |-> written.rules[i].risk]],
     default |-> IF written.default = None THEN "MEDIUM" ELSE written.default]

-----------------------------------------------------------------------------
(* Startup. *)

VARIABLES
    written,        \* the file as the operator wrote it
    via,            \* given as an object, or as a path
    stage,          \* how far the startup is
    file,           \* the configuration as loadConfigFile sees it
    external,       \* the policies of the external file, LoadedConfig.policies
    running         \* what the context of the firewall holds

startup == <<written, via, stage, file, external, running>>

allVars == <<vars, startup>>

Stages == {"created", "normalized", "external", "loaded", "built", "running",
           "PolicyValidationError", "ConfigurationError", "StorageError"}

\* Nothing runs before the file is built.
NotRunning == [mode |-> None, policies |-> <<>>, outcomes |-> [basis \in Bases |-> "unset"], deadline |-> Absent,
               freshness |-> ResolveFreshness([strategy |-> "absent"], Absent, Absent)]

StartupInit ==
    /\ written \in Files
    /\ via \in {"object", "path"}
    /\ stage = "created"
    /\ file = written
    /\ external = <<>>
    /\ running = NotRunning
    /\ Init

\* Only a path is read from disk.
ReadConfigFile ==
    /\ stage = "created"
    /\ via = "path" /\ ~written.readable
    /\ stage' = "PolicyValidationError"
    /\ UNCHANGED <<vars, written, via, file, external, running>>

Normalize ==
    /\ stage = "created"
    /\ via = "path" => written.readable
    /\ file' = NormalizeConfigFile(written)
    /\ stage' = "normalized"
    /\ UNCHANGED <<vars, written, via, external, running>>

Validate ==
    /\ stage = "normalized"
    /\ stage' = IF ~ValidateConfig(file) THEN "PolicyValidationError"
                ELSE IF via = "path" /\ file.policies_file.given THEN "external" ELSE "loaded"
    /\ UNCHANGED <<vars, written, via, file, external, running>>

LoadPoliciesFile ==
    /\ stage = "external"
    /\ IF AcceptedPoliciesFile(file.policies_file)
       THEN external' = NormalizePolicies(file.policies_file.policies) /\ stage' = "loaded"
       ELSE stage' = "PolicyValidationError" /\ UNCHANGED external
    /\ UNCHANGED <<vars, written, via, file, running>>

\* buildPolicyCore: out of the file alone.
BuildPolicyCore ==
    /\ stage = "loaded"
    /\ IF /\ \A i \in DOMAIN file.actions : ResolvablePolicy(file.actions[i])
          /\ ResolvableDefaults(file.defaults)
       THEN /\ stage' = "built"
            /\ LET defaults == ResolveGlobalDefaults(file.defaults)
               IN  running' = [mode |-> RuntimeMode[file.mode],
                               policies |-> [i \in DOMAIN file.actions |-> ResolvePolicyConfig(file.actions[i])],
                               outcomes |-> defaults.outcomes, freshness |-> defaults.freshness,
                               deadline |-> defaults.deadline]
            /\ policies' = [i \in DOMAIN file.actions |-> MatcherOf(file.actions[i])]
            /\ riskDefaults' = RiskDefaultsOf(file.risk_defaults)
       ELSE stage' = "ConfigurationError" /\ UNCHANGED <<running, policies, riskDefaults>>
    /\ UNCHANGED <<intent, pc, cursor, best, bestScore, risk, written, via, file, external>>

\* The store opens and the context is complete, or the store cannot be opened.
OpenStore ==
    /\ stage = "built"
    /\ stage' \in {"running", "StorageError"}
    /\ UNCHANGED <<vars, written, via, file, external, running>>

ResolveIntent == stage = "running" /\ Next /\ UNCHANGED startup

Halt == stage \in {"PolicyValidationError", "ConfigurationError", "StorageError"} /\ UNCHANGED allVars

StartupNext ==
    \/ ReadConfigFile \/ Normalize \/ Validate \/ LoadPoliciesFile
    \/ BuildPolicyCore \/ OpenStore \/ ResolveIntent \/ Halt

StartupSpec == StartupInit /\ [][StartupNext]_allVars

-----------------------------------------------------------------------------
(* Properties. *)

\* The outcome of a basis for the intent, before the floors of the decision engine.
ConfiguredOutcome(basis) ==
    OutcomeFor(IF best = 0 THEN running.outcomes ELSE running.policies[best].outcomes,
               running.outcomes, basis, risk)

\* docs/policies.md, "Dangerous defaults": whatever policy applies, however its words
\* are spelled and whichever name of a default they stand under, a firewall that runs
\* allows nothing on refuted state, and nothing on stale or unknown state unless the
\* operator acknowledged it.
NoUnacknowledgedAllow ==
    (stage = "running" /\ pc = "resolved") =>
        /\ ConfiguredOutcome("invalid") # "allow"
        /\ written.acknowledge_unknown_allow # "true" =>
               \A basis \in {"stale", "unknown"} : ConfiguredOutcome(basis) # "allow"

\* The first rule of risk_defaults that matches an intent without a risk names no level.
RuleNamesNoRisk ==
    /\ intent.risk_level = None
    /\ riskDefaults.configured
    /\ \E i \in DOMAIN riskDefaults.rules : FirstMatchingRule(i) /\ riskDefaults.rules[i].risk = None

\* "A malformed policy never reaches the decision engine" (config/validation.ts): what
\* runs is in the domain the engines are written for.  Ages and thresholds can be
\* graded, deadlines fit the platform's timers, no precondition throws on any metadata,
\* and the risk of a resolved intent has a rank, with one exception: validation accepts a
\* risk_defaults rule without a level, and where it is the first to match, and the selected
\* policy declares no risk, the engine decides at none, without the floor of CRITICAL.
EngineAssumptionsHold ==
    stage = "running" =>
        /\ TypeOK
        /\ (pc = "resolved" /\ risk = None) =>
               RuleNamesNoRisk /\ (best = 0 \/ policies[best].declared = None)
        /\ running.mode \in Modes
        /\ running.freshness \in FreshnessPolicies /\ running.deadline \in Absent..MaxDeadline
        /\ \A i \in DOMAIN running.policies :
               LET policy == running.policies[i]
               IN  /\ policy.freshness \in FreshnessPolicies
                   /\ \A j \in DOMAIN policy.rules : policy.rules[j] \in FreshnessPolicies
                   /\ policy.deadline \in Absent..MaxDeadline
                   /\ policy.outcomes \in OutcomeTables
                   /\ \A j \in DOMAIN policy.preconditions : \A subject \in Metadata :
                          EvaluatePrecondition(policy.preconditions[j], subject) # "throws"

\* docs/policies.md, "File layout": the policies of the external file are policies of
\* the configuration, after the inline ones.
ExternalPoliciesAreEnforced ==
    stage = "running" => Len(policies) = Len(file.actions) + Len(external)
=============================================================================
