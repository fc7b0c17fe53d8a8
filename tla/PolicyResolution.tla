--------------------------- MODULE PolicyResolution ---------------------------
(***************************************************************************)
(* Which policy applies to an intent, and at which risk: the base risk, an *)
(* explicitly named policy, the scan for the most specific matcher, the    *)
(* global default (src/engine/policy-resolver.ts, called by                *)
(* src/application/validate-action.ts).                                    *)
(*                                                                         *)
(* The intent is fixed, so a dimension of a matcher is its relation to the *)
(* intent: absent, a glob that matches, or one that does not.              *)
(***************************************************************************)
EXTENDS Decision, Sequences

CONSTANTS
    Names,              \* policy names
    Configurations,     \* sequences of policies, in the order of declaration
    RiskDefaultsSet,    \* risk defaults a configuration may have
    Intents             \* what an intent says about policy and risk

None == "none"

Rank == [risk \in Risks |-> CASE risk = "LOW" -> 0 [] risk = "MEDIUM" -> 1
                              [] risk = "HIGH" -> 2 [] risk = "CRITICAL" -> 3]

\* None is also the undefined risk of a rule that names no level: comparing its rank is
\* false in either direction.
AtLeast(a, b) == a # None /\ Rank[a] >= Rank[b]

MaxRisk(a, b) == IF AtLeast(a, b) THEN a ELSE b

Dimensions == {"absent", "match", "miss"}

\* A policy: its matcher, whose risk is a floor, and the risk it declares.
DeclaredPolicies == [name : Names, tool : Dimensions, operation : Dimensions, target : Dimensions,
                     floor : Risks \cup {None}, declared : Risks \cup {None}]

\* Rules are tried in order; without a configuration the risk is MEDIUM.
Rules == [matches : BOOLEAN, risk : Risks \cup {None}]

RiskDefaults == [configured : BOOLEAN, rules : Seq(Rules), default : Risks]

IntentType == [risk_level : Risks \cup {None}, policy_name : Names \cup {None}]

ASSUME PolicyResolutionAssumption ==
    /\ None \notin Names
    /\ Configurations \subseteq Seq(DeclaredPolicies)
    /\ RiskDefaultsSet \subseteq RiskDefaults
    /\ Intents \subseteq IntentType

VARIABLES
    policies, riskDefaults, intent,     \* what resolvePolicy is given
    pc,
    cursor, best, bestScore,            \* the scan; best is 0 before the first match
    risk                                \* the final risk

vars == <<policies, riskDefaults, intent, pc, cursor, best, bestScore, risk>>

given == <<policies, riskDefaults, intent>>

TypeOK ==
    /\ policies \in Seq(DeclaredPolicies)
    /\ riskDefaults \in RiskDefaults
    /\ intent \in IntentType
    /\ pc \in {"start", "scan", "resolved", "not_found"}
    /\ cursor \in 1..(Len(policies) + 1)
    /\ best \in 0..Len(policies)
    /\ bestScore \in -1..5
    /\ risk \in Risks \cup {None}

Init ==
    /\ policies \in Configurations
    /\ riskDefaults \in RiskDefaultsSet
    /\ intent \in Intents
    /\ pc = "start"
    /\ cursor = 1
    /\ best = 0
    /\ bestScore = -1
    /\ risk = None

-----------------------------------------------------------------------------
(* Risk and matching. *)

FirstMatchingRule(i) ==
    /\ i \in DOMAIN riskDefaults.rules
    /\ riskDefaults.rules[i].matches
    /\ \A j \in 1..(i - 1) : ~riskDefaults.rules[j].matches

\* deriveRisk: the intent's word, else the first rule, with or without a level, else the
\* default.
BaseRisk ==
    IF intent.risk_level # None THEN intent.risk_level
    ELSE IF ~riskDefaults.configured THEN "MEDIUM"
    ELSE IF \E i \in DOMAIN riskDefaults.rules : FirstMatchingRule(i)
    THEN riskDefaults.rules[CHOOSE i \in DOMAIN riskDefaults.rules : FirstMatchingRule(i)].risk
    ELSE riskDefaults.default

\* Mutant: the declared risk replaces the base risk.
MutantTrustsDeclaredRisk(policy) == IF policy.declared = None THEN BaseRisk ELSE policy.declared

RiskUnder(policy) ==
    IF policy.declared = None THEN BaseRisk ELSE MaxRisk(BaseRisk, policy.declared)

\* matchesPolicy, on the base risk; an undefined one is below no floor.
Matches(policy) ==
    /\ policy.tool # "miss"
    /\ policy.operation # "miss"
    /\ policy.target # "miss"
    /\ policy.floor = None \/ BaseRisk = None \/ AtLeast(BaseRisk, policy.floor)

Weight(present, weight) == IF present THEN weight ELSE 0

\* matcherSpecificity: the operation counts twice.
Specificity(policy) ==
    Weight(policy.tool # "absent", 1) + Weight(policy.operation # "absent", 2)
        + Weight(policy.target # "absent", 1) + Weight(policy.floor # None, 1)

-----------------------------------------------------------------------------
(* Resolution. *)

Named(i) == i \in DOMAIN policies /\ policies[i].name = intent.policy_name

\* validateAction refuses a name nobody declared.
NameUnknown ==
    /\ pc = "start"
    /\ intent.policy_name # None
    /\ ~\E i \in DOMAIN policies : Named(i)
    /\ pc' = "not_found"
    /\ UNCHANGED <<given, cursor, best, bestScore, risk>>

\* The first policy of that name, whatever its matcher says.
ResolveExplicit ==
    /\ pc = "start"
    /\ intent.policy_name # None
    /\ \E i \in DOMAIN policies :
           /\ Named(i) /\ \A j \in 1..(i - 1) : ~Named(j)
           /\ best' = i
           /\ risk' = RiskUnder(policies[i])
    /\ pc' = "resolved"
    /\ UNCHANGED <<given, cursor, bestScore>>

StartScan ==
    /\ pc = "start"
    /\ intent.policy_name = None
    /\ pc' = "scan"
    /\ UNCHANGED <<given, cursor, best, bestScore, risk>>

\* Mutant: a later policy of the same specificity wins.
MutantPrefersLater(policy) == Specificity(policy) >= bestScore

Improves(policy) == Specificity(policy) > bestScore

\* One round of the loop over the policies.
Scan ==
    /\ pc = "scan"
    /\ cursor <= Len(policies)
    /\ cursor' = cursor + 1
    /\ IF Matches(policies[cursor]) /\ Improves(policies[cursor])
       THEN best' = cursor /\ bestScore' = Specificity(policies[cursor])
       ELSE UNCHANGED <<best, bestScore>>
    /\ UNCHANGED <<given, pc, risk>>

\* The best match, or the global default at the base risk.
FinishScan ==
    /\ pc = "scan"
    /\ cursor > Len(policies)
    /\ pc' = "resolved"
    /\ risk' = IF best = 0 THEN BaseRisk ELSE RiskUnder(policies[best])
    /\ UNCHANGED <<given, cursor, best, bestScore>>

Stop == pc \in {"resolved", "not_found"} /\ UNCHANGED vars

Next == NameUnknown \/ ResolveExplicit \/ StartScan \/ Scan \/ FinishScan \/ Stop

Spec == Init /\ [][Next]_vars

-----------------------------------------------------------------------------
(* Properties. *)

Candidate(i) == i \in DOMAIN policies /\ Matches(policies[i])

\* docs/policies.md, "Precedence": the matching policy with the most dimensions
\* applies, and among equally specific ones the one declared first.  Without a
\* match, and only then, the global default applies.
MostSpecific(i) ==
    /\ Candidate(i)
    /\ \A j \in DOMAIN policies : Candidate(j) =>
           \/ Specificity(policies[j]) < Specificity(policies[i])
           \/ Specificity(policies[j]) = Specificity(policies[i]) /\ i <= j

\* The scan returns what the order of precedence defines.
ScanKeepsPrecedence ==
    (pc = "resolved" /\ intent.policy_name = None) =>
        IF best = 0 THEN \A i \in DOMAIN policies : ~Candidate(i) ELSE MostSpecific(best)

\* The selected policy only ever raises the risk: an action is decided at no less than its
\* base risk, than what the policy declares, and than the floor the policy was matched for.
\* Between the sources of the base risk nothing is promised: the word of an intent
\* overrides a higher risk_defaults rule, and where the base risk is undefined, a floor
\* matches whatever it is.
PolicyNeverLowersRisk ==
    pc = "resolved" =>
        /\ BaseRisk = None \/ AtLeast(risk, BaseRisk)
        /\ best # 0 =>
               /\ policies[best].declared = None \/ AtLeast(risk, policies[best].declared)
               /\ \/ intent.policy_name # None
                  \/ policies[best].floor = None
                  \/ BaseRisk = None
                  \/ AtLeast(risk, policies[best].floor)
=============================================================================
