--------------------------- MODULE MCConfiguration ---------------------------
(* A small instance of Configuration for TLC. *)
EXTENDS Configuration

CONSTANTS n1, n2, n3, g1, g2, g3

-----------------------------------------------------------------------------
(* Parts of files. *)

Silent == [basis \in Bases |-> "absent"]

NoFreshness ==
    [strategy |-> "absent", max_age |-> Absent, aging_threshold |-> Absent, skew |-> Absent,
     hybrid |-> FALSE, on |-> {}, off |-> {}]

Ttl(maxAge) == [NoFreshness EXCEPT !.strategy = "ttl", !.max_age = maxAge]

Hybrid(on, off, maxAge) ==
    [NoFreshness EXCEPT !.strategy = "hybrid", !.max_age = maxAge,
                        !.hybrid = TRUE, !.on = on, !.off = off]

Clear(fields) == [key \in fields |-> "absent"]

Policy ==
    [name |-> n1, fields |-> [Clear(PolicyFields) EXCEPT !["name"] = "good", !["match"] = "good"],
     tool |-> None, operation |-> g1, target |-> None, floor |-> None, key_order |-> 1,
     declared |-> None, freshness |-> NoFreshness, dependency_freshness |-> <<>>,
     preconditions |-> <<>>, outcomes |-> Silent, execution |-> Clear(ExecutionFields),
     require_conditional |-> FALSE, deadline |-> Absent, on_conditional_unavailable |-> "absent"]

NoDefaults ==
    [on |-> Silent, alias |-> Silent, default_freshness |-> NoFreshness, aging_threshold |-> Absent,
     skew |-> Absent, execution_deadline |-> Absent, unlisted |-> FALSE]

NoRiskDefaults == [given |-> FALSE, rules |-> <<>>, default |-> None, unlisted |-> FALSE]

NoPoliciesFile == [given |-> FALSE, readable |-> FALSE, schema_version |-> "absent", policies |-> <<>>]

File ==
    [readable |-> TRUE, root |-> [Clear(RootFields) EXCEPT !["firewall"] = "good"], mode |-> "enforce",
     acknowledge_unknown_allow |-> "absent", storage |-> Clear(StorageFields),
     defaults |-> NoDefaults, actions |-> <<Policy>>, policies_file |-> NoPoliciesFile,
     providers |-> Clear(ProviderFields), resources |-> <<>>, policy_tests |-> <<>>,
     risk_defaults |-> NoRiskDefaults]

-----------------------------------------------------------------------------
(* Families of files. *)

\* Precedence: up to three policies out of six, under four risk defaults, one with
\* a rule that names no level.
Matchers ==
    { Policy,
      [Policy EXCEPT !.operation = None, !.tool = g2, !.declared = "critical"],
      [Policy EXCEPT !.tool = g3, !.declared = "LOW"],
      [Policy EXCEPT !.operation = None, !.tool = g2, !.target = g1, !.declared = "HIGH"],
      [Policy EXCEPT !.floor = "HIGH"],
      [Policy EXCEPT !.tool = g1, !.target = g1, !.floor = "critical"] }

RiskFiles ==
    { NoRiskDefaults,
      [given |-> TRUE, unlisted |-> FALSE, default |-> None,
       rules |-> <<[match |-> g3, risk |-> "CRITICAL"], [match |-> g1, risk |-> "HIGH"],
                   [match |-> g2, risk |-> "LOW"]>>],
      [given |-> TRUE, unlisted |-> FALSE, default |-> "LOW",
       rules |-> <<[match |-> g3, risk |-> "HIGH"], [match |-> g1, risk |-> None]>>],
      [given |-> TRUE, unlisted |-> TRUE, default |-> "critical",
       rules |-> <<[match |-> g3, risk |-> "LOW"]>>] }

PrecedenceFiles ==
    { [File EXCEPT !.actions = actions, !.risk_defaults = riskFile] :
          actions \in {<<>>} \cup {<<p>> : p \in Matchers}
                      \cup {[<<p, q>> EXCEPT ![2].name = n2] : p, q \in Matchers}
                      \cup {[<<p, q, r>> EXCEPT ![2].name = n2, ![3].name = n3] : p, q, r \in Matchers},
          riskFile \in RiskFiles }

\* Outcomes: words in both names of a default, in a policy, acknowledged or not.
OutcomeFiles ==
    { [File EXCEPT !.acknowledge_unknown_allow = acknowledged,
                   !.defaults.on[basis] = on, !.defaults.alias[basis] = alias,
                   !.actions[1].outcomes[basis] = word, !.actions[1].tool = tool, !.mode = mode] :
          acknowledged \in {"absent", "true"}, basis \in Bases,
          on \in {"absent", "deny", "ALLOW", "malformed"}, alias \in {"absent", "ALLOW", "escalate"},
          word \in {"absent", "ALLOW", "revalidate"}, tool \in {None, g3},
          mode \in {"STRICT", "observe"} }

Freshnesses ==
    { NoFreshness, Ttl(1), Ttl(0), Ttl(Absent), Ttl(Malformed),
      [Ttl(2) EXCEPT !.aging_threshold = 0], [Ttl(2) EXCEPT !.aging_threshold = 50, !.skew = 1],
      [NoFreshness EXCEPT !.strategy = "version"], [Ttl(1) EXCEPT !.strategy = "hash"],
      [NoFreshness EXCEPT !.strategy = "malformed"],
      Hybrid({}, {}, Absent), Hybrid({}, {"ttl"}, 1), Hybrid({"ttl"}, {}, Absent),
      Hybrid({"ttl"}, {}, 0), Hybrid({"hash"}, {"ttl"}, Absent), Hybrid({"ttl", "version"}, {}, 2),
      [Ttl(Absent) EXCEPT !.strategy = "hybrid"], [Ttl(0) EXCEPT !.strategy = "hybrid"] }

\* Freshness, in the three places it is written in, and deadlines.
FreshnessFiles ==
    { [File EXCEPT !.actions[1].freshness = f, !.actions[1].deadline = d] :
          f \in Freshnesses, d \in {Absent, 1, MaxDeadline + 1} }
    \cup { [File EXCEPT !.defaults.default_freshness = f, !.defaults.aging_threshold = percent,
                        !.defaults.execution_deadline = d, !.actions = <<>>] :
               f \in Freshnesses, percent \in {Absent, 90, 101}, d \in {Absent, Malformed, MaxDeadline + 1} }
    \cup { [File EXCEPT !.actions[1].dependency_freshness = <<f>>] : f \in Freshnesses }

String(n) == [type |-> "string", n |-> n, items |-> {}]
Number(n) == [type |-> "number", n |-> n, items |-> {}]
List(values) == [type |-> "list", n |-> 0, items |-> {Scalar(v) : v \in values}]

MCValues == {String(BadPattern), String(1), Number(1), List({}), List({Number(1), String(1)})}

MCMetadata == [found : BOOLEAN, value : MCValues]

PreconditionFiles ==
    { [File EXCEPT !.actions[1].preconditions =
           <<[operator |-> operator, given |-> present, value |-> value, well_formed |-> TRUE]>>] :
          operator \in Operators \cup {"malformed"}, present \in BOOLEAN, value \in MCValues }

\* One field of one section is not what it should be, or not there.
Defective(section, key) == {[section EXCEPT ![key] = status] : status \in Statuses}

DefectiveFiles ==
    LET resource == [Clear(HttpResourceFields) EXCEPT !["url"] = "good"]
        test == [key \in TestFields |-> IF key = "unlisted" THEN "absent" ELSE "good"]
    IN  {[File EXCEPT !.mode = "malformed"], [File EXCEPT !.acknowledge_unknown_allow = "malformed"]}
        \cup UNION {{[File EXCEPT !.root = s] : s \in Defective(File.root, key)} : key \in RootFields}
        \cup UNION {{[File EXCEPT !.storage = s] : s \in Defective(File.storage, key)} : key \in StorageFields}
        \cup UNION {{[File EXCEPT !.providers = s] : s \in Defective(File.providers, key)} : key \in ProviderFields}
        \cup UNION {{[File EXCEPT !.resources = <<s>>] : s \in Defective(resource, key)} : key \in HttpResourceFields}
        \cup UNION {{[File EXCEPT !.policy_tests = <<s>>] : s \in Defective(test, key)} : key \in TestFields}
        \cup UNION {{[File EXCEPT !.actions[1].fields = s] : s \in Defective(Policy.fields, key)} : key \in PolicyFields}
        \cup UNION {{[File EXCEPT !.actions[1].execution = s] : s \in Defective(Policy.execution, key)} : key \in ExecutionFields}
        \cup { [File EXCEPT !.actions[1].require_conditional = demanded,
                            !.actions[1].on_conditional_unavailable = word] :
                   demanded \in BOOLEAN, word \in {"allow", "ALLOW", "absent"} }

\* An external file: absent, unreadable, of another schema, or with policies of its own.
ExternalFiles ==
    { [File EXCEPT !.readable = readable,
                   !.policies_file = [given |-> TRUE, readable |-> there, schema_version |-> version,
                                      policies |-> <<[Policy EXCEPT !.name = n2, !.tool = g2, !.declared = level]>>]] :
          readable, there \in BOOLEAN, version \in Statuses, level \in {"CRITICAL", "critical"} }

MCFiles ==
    PrecedenceFiles \cup OutcomeFiles \cup FreshnessFiles \cup PreconditionFiles
        \cup DefectiveFiles \cup ExternalFiles

\* The context is empty before the startup is complete.
NoRiskDefaultsSet == {[configured |-> FALSE, rules |-> <<>>, default |-> "MEDIUM"]}

MCConfigurations == {<<>>}

MCIntents == [risk_level : {None, "LOW", "HIGH"}, policy_name : {None, n1, n2}]
=============================================================================
