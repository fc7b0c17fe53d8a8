-------------------------- MODULE ConfigurationProofs --------------------------
(***************************************************************************)
(* Proofs about PolicyResolution and Configuration: the loop over the      *)
(* policies returns what the order of precedence defines, for any number   *)
(* of policies, the selected policy never lowers the risk, and what a      *)
(* configuration file says reaches the decision only in the form the       *)
(* engines are written for, for any set of files.                          *)
(***************************************************************************)
EXTENDS Configuration, TLAPS

USE PolicyResolutionAssumption

-----------------------------------------------------------------------------
(* Risks and scores. *)

\* At least as high is an order in which any risk is at least itself.
LEMMA AtLeastOrders ==
    /\ \A a \in Risks : AtLeast(a, a)
    /\ \A a, b, c \in Risks : AtLeast(a, b) /\ AtLeast(b, c) => AtLeast(a, c)
BY DEF AtLeast, Rank, Risks, None

\* The higher of two risks is at least both; of an undefined one and a risk it is the risk.
LEMMA MaxRiskBounds ==
    ASSUME NEW a \in Risks \cup {None}, NEW b \in Risks
    PROVE  /\ MaxRisk(a, b) \in Risks
           /\ a # None => AtLeast(MaxRisk(a, b), a)
           /\ AtLeast(MaxRisk(a, b), b)
BY DEF MaxRisk, AtLeast, Rank, Risks, None

\* deriveRisk returns a risk, or none where the first rule that matches names none.
LEMMA BaseRiskType ==
    ASSUME riskDefaults \in RiskDefaults, intent \in IntentType
    PROVE  /\ BaseRisk \in Risks \cup {None}
           /\ BaseRisk = None => RuleNamesNoRisk
<1>1. riskDefaults.default \in Risks /\ riskDefaults.rules \in Seq(Rules)
  BY DEF RiskDefaults
<1>2. intent.risk_level # None => intent.risk_level \in Risks
  BY DEF IntentType
<1>3. ASSUME NEW i \in DOMAIN riskDefaults.rules
      PROVE  riskDefaults.rules[i].risk \in Risks \cup {None}
  <2>1. riskDefaults.rules[i] \in Rules
    <3> DEFINE rules == riskDefaults.rules
    <3>1. rules \in Seq(Rules) /\ i \in DOMAIN rules
      BY <1>1, <1>3
    <3> HIDE DEF rules
    <3>2. rules[i] \in Rules
      BY <3>1
    <3> QED
      BY <3>2 DEF rules
  <2> QED
    BY <2>1 DEF Rules
<1>4. "MEDIUM" \in Risks /\ None \notin Risks
  BY DEF Risks, None
<1>5. CASE \E i \in DOMAIN riskDefaults.rules : FirstMatchingRule(i)
  <2> DEFINE first == CHOOSE i \in DOMAIN riskDefaults.rules : FirstMatchingRule(i)
  <2>1. first \in DOMAIN riskDefaults.rules /\ FirstMatchingRule(first)
    BY <1>5
  <2>2. riskDefaults.rules[first].risk \in Risks \cup {None}
    BY <2>1, <1>3
  <2>3. BaseRisk = IF intent.risk_level # None THEN intent.risk_level
                   ELSE IF ~riskDefaults.configured THEN "MEDIUM" ELSE riskDefaults.rules[first].risk
    BY <1>5 DEF BaseRisk
  <2> HIDE DEF first
  <2> QED
    BY <1>2, <1>4, <2>1, <2>2, <2>3 DEF RuleNamesNoRisk
<1>6. CASE ~\E i \in DOMAIN riskDefaults.rules : FirstMatchingRule(i)
  BY <1>1, <1>2, <1>4, <1>6 DEF BaseRisk
<1> QED
  BY <1>5, <1>6

\* The risk under a policy is at least the base risk and at least what the policy
\* declares; it is undefined only if neither speaks.
LEMMA RiskUnderBounds ==
    ASSUME riskDefaults \in RiskDefaults, intent \in IntentType, NEW policy \in DeclaredPolicies
    PROVE  /\ RiskUnder(policy) \in Risks \cup {None}
           /\ RiskUnder(policy) = None => BaseRisk = None /\ policy.declared = None
           /\ BaseRisk # None => AtLeast(RiskUnder(policy), BaseRisk)
           /\ policy.declared # None => AtLeast(RiskUnder(policy), policy.declared)
<1>1. BaseRisk \in Risks \cup {None}
  BY BaseRiskType
<1>2. policy.declared # None => policy.declared \in Risks
  BY DEF DeclaredPolicies
<1>3. None \notin Risks
  BY DEF Risks, None
<1>4. CASE policy.declared = None
  BY <1>1, <1>4, AtLeastOrders DEF RiskUnder
<1>5. CASE policy.declared # None
  BY <1>1, <1>2, <1>3, <1>5, MaxRiskBounds DEF RiskUnder
<1> QED
  BY <1>4, <1>5

\* A score is at most five: one for each dimension, two for the operation.
LEMMA SpecificityType ==
    ASSUME NEW policy
    PROVE  Specificity(policy) \in 0..5
BY DEF Specificity, Weight

-----------------------------------------------------------------------------
(* The invariant of the loop. *)

\* best is the first of the most specific candidates before the cursor.
BestSoFar ==
    IF best = 0
    THEN bestScore = -1 /\ \A i \in 1..(cursor - 1) : ~Candidate(i)
    ELSE /\ best < cursor
         /\ Candidate(best)
         /\ bestScore = Specificity(policies[best])
         /\ \A j \in 1..(cursor - 1) : Candidate(j) =>
                \/ Specificity(policies[j]) < bestScore
                \/ Specificity(policies[j]) = bestScore /\ best <= j

ScanInvariant ==
    /\ TypeOK
    /\ pc = "start" => cursor = 1 /\ best = 0 /\ bestScore = -1
    /\ pc = "scan" => intent.policy_name = None
    /\ intent.policy_name = None => BestSoFar
    /\ pc = "resolved" =>
           /\ intent.policy_name = None => cursor > Len(policies)
           /\ risk = IF best = 0 THEN BaseRisk ELSE RiskUnder(policies[best])

\* The configurations and intents enumerated by Init are typed.
LEMMA InitInvariant == Init => ScanInvariant
BY DEF Init, ScanInvariant, TypeOK, BestSoFar, Candidate, IntentType

\* Every step keeps the invariant.
LEMMA StepInvariant == ScanInvariant /\ [Next]_vars => ScanInvariant'
<1> SUFFICES ASSUME ScanInvariant, [Next]_vars
             PROVE  ScanInvariant'
  OBVIOUS
<1> USE DEF ScanInvariant
<1>t. TypeOK
  OBVIOUS
<1>l. Len(policies) \in Nat /\ DOMAIN policies = 1..Len(policies)
  BY DEF TypeOK
<1>p. \A i \in DOMAIN policies : policies[i] \in DeclaredPolicies
  BY DEF TypeOK
<1>s. \A policy : Specificity(policy) \in 0..5
  BY SpecificityType
<1>b. BaseRisk \in Risks \cup {None}
  BY BaseRiskType DEF TypeOK
<1>g. ASSUME UNCHANGED given
      PROVE  /\ BaseRisk' = BaseRisk
             /\ \A i : Candidate(i)' <=> Candidate(i)
             /\ \A i : RiskUnder(policies[i])' = RiskUnder(policies[i])
  <2>1. BaseRisk' = BaseRisk
    BY <1>g DEF given, BaseRisk, FirstMatchingRule
  <2> QED
    BY <1>g, <2>1 DEF given, Candidate, Matches, RiskUnder
<1>1. CASE NameUnknown
  BY <1>1, <1>g DEF NameUnknown, given, TypeOK, BestSoFar
<1>2. CASE ResolveExplicit
  BY <1>2, <1>g, <1>l, <1>p, RiskUnderBounds DEF ResolveExplicit, given, TypeOK, BestSoFar, Named
<1>3. CASE StartScan
  BY <1>3, <1>g DEF StartScan, given, TypeOK, BestSoFar
<1>4. CASE Scan
  <2>1. intent.policy_name = None /\ BestSoFar /\ cursor \in DOMAIN policies
    BY <1>4, <1>l DEF Scan, TypeOK
  <2>2. TypeOK'
    BY <1>4, <1>l, <1>s, <2>1 DEF Scan, TypeOK, given
  <2>3. CASE Matches(policies[cursor]) /\ Improves(policies[cursor])
    <3>1. best' = cursor /\ cursor' = cursor + 1 /\ bestScore' = Specificity(policies[cursor]) /\ given' = given
      BY <1>4, <2>3 DEF Scan, given
    <3>2. Candidate(cursor) /\ Specificity(policies[cursor]) > bestScore
      BY <2>1, <2>3 DEF Candidate, Improves
    <3>3. ASSUME NEW j \in 1..cursor, Candidate(j)
          PROVE  \/ Specificity(policies[j]) < Specificity(policies[cursor])
                 \/ Specificity(policies[j]) = Specificity(policies[cursor]) /\ cursor <= j
      BY <1>s, <1>l, <2>1, <3>2, <3>3 DEF BestSoFar, TypeOK
    <3> QED
      BY <1>4, <1>g, <1>l, <2>1, <2>2, <3>1, <3>2, <3>3 DEF Scan, BestSoFar, given, TypeOK
  <2>4. CASE ~(Matches(policies[cursor]) /\ Improves(policies[cursor]))
    <3>1. best' = best /\ cursor' = cursor + 1 /\ bestScore' = bestScore /\ given' = given
      BY <1>4, <2>4 DEF Scan, given
    <3>2. Candidate(cursor) => Specificity(policies[cursor]) <= bestScore
      BY <1>s, <2>4, <1>t DEF Candidate, Improves, TypeOK
    <3>3. best = 0 => ~Candidate(cursor)
      BY <1>s, <2>1, <3>2 DEF BestSoFar
    <3>4. BestSoFar'
      <4>1. CASE best = 0
        BY <1>g, <1>l, <1>t, <2>1, <3>1, <3>3, <4>1 DEF BestSoFar, given, TypeOK
      <4>2. CASE best # 0
        <5>1. /\ best < cursor
              /\ Candidate(best)
              /\ bestScore = Specificity(policies[best])
              /\ \A j \in 1..(cursor - 1) : Candidate(j) =>
                     \/ Specificity(policies[j]) < bestScore
                     \/ Specificity(policies[j]) = bestScore /\ best <= j
          BY <2>1, <4>2 DEF BestSoFar
        <5>2. ASSUME NEW j \in 1..cursor, Candidate(j)
              PROVE  \/ Specificity(policies[j]) < bestScore
                     \/ Specificity(policies[j]) = bestScore /\ best <= j
          BY <1>s, <1>t, <1>l, <2>1, <3>2, <5>1, <5>2 DEF TypeOK
        <5>3. 1..(cursor' - 1) = 1..cursor /\ best' # 0 /\ policies' = policies
          BY <1>t, <3>1, <4>2 DEF TypeOK, given
        <5>4. \A i : Candidate(i)' <=> Candidate(i)
          BY <1>g, <3>1
        <5> QED
          BY <1>t, <3>1, <5>1, <5>2, <5>3, <5>4 DEF BestSoFar, TypeOK
      <4> QED
        BY <4>1, <4>2
    <3> QED
      BY <1>4, <2>1, <2>2, <3>4 DEF Scan, given
  <2> QED
    BY <2>3, <2>4
<1>5. CASE FinishScan
  <2>1. RiskUnder(policies[best]) \in Risks \cup {None} \/ best = 0
    BY <1>l, <1>p, RiskUnderBounds DEF TypeOK
  <2> QED
    BY <1>5, <1>g, <1>b, <1>l, <2>1 DEF FinishScan, given, TypeOK, BestSoFar
<1>6. CASE Stop \/ UNCHANGED vars
  BY <1>6, <1>g DEF Stop, vars, given, TypeOK, BestSoFar
<1> QED
  BY <1>1, <1>2, <1>3, <1>4, <1>5, <1>6 DEF Next

-----------------------------------------------------------------------------
(* Theorems. *)

\* The loop invariant holds in every state: best is the first of the most specific
\* candidates seen so far.
THEOREM LoopInvariant == Spec => []ScanInvariant
BY InitInvariant, StepInvariant, PTL DEF Spec

\* When the loop is over, the best so far is the best.
LEMMA PrecedenceFollows == ScanInvariant => ScanKeepsPrecedence
  BY DEF ScanInvariant, BestSoFar, TypeOK, ScanKeepsPrecedence, MostSpecific, Candidate

\* resolvePolicy returns the most specific matching policy, the first declared among
\* equals, and the global default only where nothing matches.
THEOREM PrecedenceKept == Spec => []ScanKeepsPrecedence
  BY PrecedenceFollows, LoopInvariant, PTL

\* The risk resolved is that of the selected policy over the base risk.
LEMMA RiskFollows ==
    ASSUME ScanInvariant
    PROVE  PolicyNeverLowersRisk
<1> SUFFICES ASSUME pc = "resolved"
             PROVE  /\ BaseRisk = None \/ AtLeast(risk, BaseRisk)
                    /\ best # 0 =>
                           /\ policies[best].declared = None \/ AtLeast(risk, policies[best].declared)
                           /\ \/ intent.policy_name # None
                              \/ policies[best].floor = None
                              \/ BaseRisk = None
                              \/ AtLeast(risk, policies[best].floor)
  BY DEF PolicyNeverLowersRisk
<1>1. riskDefaults \in RiskDefaults /\ intent \in IntentType
  BY DEF ScanInvariant, TypeOK
<1>2. BaseRisk \in Risks \cup {None}
  BY <1>1, BaseRiskType
<1>3. CASE best = 0
  BY <1>2, <1>3, AtLeastOrders DEF ScanInvariant
<1>4. CASE best # 0
  <2>1. policies[best] \in DeclaredPolicies
    BY <1>4 DEF ScanInvariant, TypeOK
  <2>2. risk = RiskUnder(policies[best])
    BY <1>4 DEF ScanInvariant
  <2>3. /\ risk \in Risks \cup {None}
        /\ risk = None => BaseRisk = None
        /\ BaseRisk # None => AtLeast(risk, BaseRisk)
        /\ policies[best].declared # None => AtLeast(risk, policies[best].declared)
    BY <1>1, <2>1, <2>2, RiskUnderBounds
  <2>4. intent.policy_name = None =>
            \/ policies[best].floor = None
            \/ BaseRisk = None
            \/ AtLeast(BaseRisk, policies[best].floor)
    BY <1>4 DEF ScanInvariant, BestSoFar, Candidate, Matches
  <2>5. policies[best].floor # None => policies[best].floor \in Risks
    BY <2>1 DEF DeclaredPolicies
  <2> QED
    BY <1>2, <2>3, <2>4, <2>5, AtLeastOrders
<1> QED
  BY <1>3, <1>4

\* A selected policy only raises the risk: over the base risk, whatever its source, to no
\* less than the policy declares and than the floor it was matched for.
THEOREM PolicyRaisesRisk == Spec => []PolicyNeverLowersRisk
  BY RiskFollows, LoopInvariant, PTL

\* An intent is decided at no risk only where a rule without a level matched it first and
\* its policy declares none.
LEMMA RankFollows ==
    ASSUME ScanInvariant, pc = "resolved", risk = None
    PROVE  RuleNamesNoRisk /\ (best = 0 \/ policies[best].declared = None)
<1>1. riskDefaults \in RiskDefaults /\ intent \in IntentType
  BY DEF ScanInvariant, TypeOK
<1>2. CASE best = 0
  BY <1>1, <1>2, BaseRiskType DEF ScanInvariant
<1>3. CASE best # 0
  <2>1. policies[best] \in DeclaredPolicies
    BY <1>3 DEF ScanInvariant, TypeOK
  <2>2. RiskUnder(policies[best]) = None
    BY <1>3 DEF ScanInvariant
  <2> QED
    BY <1>1, <2>1, <2>2, BaseRiskType, RiskUnderBounds
<1> QED
  BY <1>2, <1>3

-----------------------------------------------------------------------------
(* From the file to what runs. *)

\* What later steps read of the normalised file.
LEMMA NormalizedFields ==
    ASSUME NEW f \in FileType
    PROVE  LET n == NormalizeConfigFile(f) IN
               /\ n.mode = NormalizeMode(f.mode)
               /\ n.acknowledge_unknown_allow = f.acknowledge_unknown_allow
               /\ n.actions = NormalizePolicies(f.actions)
               /\ n.defaults.default_freshness = f.defaults.default_freshness
               /\ n.defaults.aging_threshold = f.defaults.aging_threshold
               /\ n.defaults.skew = f.defaults.skew
               /\ n.defaults.execution_deadline = f.defaults.execution_deadline
               /\ n.risk_defaults.given = f.risk_defaults.given
               /\ n.risk_defaults.default = Upper(f.risk_defaults.default)
               /\ n.risk_defaults.rules =
                      [i \in DOMAIN f.risk_defaults.rules |-> NormalizeRule(f.risk_defaults.rules[i])]
<1> DEFINE d == NormalizeDefaults(f.defaults)
           r == NormalizeRiskDefaults(f.risk_defaults)
           f1 == [f EXCEPT !.mode = NormalizeMode(f.mode)]
           f2 == [f1 EXCEPT !.defaults = d]
           f3 == [f2 EXCEPT !.actions = NormalizePolicies(f.actions)]
           f4 == [f3 EXCEPT !.risk_defaults = r]
<1>0. f.defaults \in WrittenDefaults /\ f.risk_defaults \in WrittenRiskDefaults
  BY DEF FileType
<1>1. /\ d.default_freshness = f.defaults.default_freshness
      /\ d.aging_threshold = f.defaults.aging_threshold
      /\ d.skew = f.defaults.skew
      /\ d.execution_deadline = f.defaults.execution_deadline
  BY <1>0 DEF NormalizeDefaults, WrittenDefaults
<1>2. /\ r.given = f.risk_defaults.given
      /\ r.default = Upper(f.risk_defaults.default)
      /\ r.rules = [i \in DOMAIN f.risk_defaults.rules |-> NormalizeRule(f.risk_defaults.rules[i])]
  BY <1>0 DEF NormalizeRiskDefaults, WrittenRiskDefaults
<1> HIDE DEF d, r
<1>3. NormalizeConfigFile(f) = f4
  BY DEF NormalizeConfigFile, d, r
<1>4. /\ f4.mode = NormalizeMode(f.mode)
      /\ f4.acknowledge_unknown_allow = f.acknowledge_unknown_allow
      /\ f4.actions = NormalizePolicies(f.actions)
      /\ f4.defaults = d
      /\ f4.risk_defaults = r
  BY DEF FileType
<1> QED
  BY <1>1, <1>2, <1>3, <1>4

\* A normalised policy keeps the types of what resolution reads.
LEMMA NormalizedPolicy ==
    ASSUME NEW policy \in WrittenPolicies
    PROVE  LET n == NormalizePolicy(policy) IN
               /\ n.name \in Names
               /\ n.floor \in RiskWords /\ n.declared \in RiskWords
               /\ n.freshness \in WrittenFreshness
               /\ n.dependency_freshness \in Seq(WrittenFreshness)
               /\ n.deadline \in Durations
  BY DEF NormalizePolicy, WrittenPolicies, Upper, RiskWords, Risks

\* A policy of a normalised file that validation accepted has a rank wherever it names a
\* risk, so its matcher is one PolicyResolution is written for.
LEMMA MatcherType ==
    ASSUME NEW policy \in WrittenPolicies, AcceptedPolicy(NormalizePolicy(policy))
    PROVE  MatcherOf(NormalizePolicy(policy)) \in DeclaredPolicies
<1> DEFINE n == NormalizePolicy(policy)
<1>1. n.name \in Names
  BY NormalizedPolicy
<1>2. n.floor \in Risks \cup {None} /\ n.declared \in Risks \cup {None}
  BY DEF AcceptedPolicy, AcceptedRisk
<1> HIDE DEF n
<1>3. \A glob : Dimension(glob) \in Dimensions
  BY DEF Dimension, Dimensions
<1> QED
  BY <1>1, <1>2, <1>3 DEF MatcherOf, DeclaredPolicies, n

\* The same for the matchers of all policies of the file.
LEMMA MatchersType ==
    ASSUME NEW f \in FileType, ValidateConfig(NormalizeConfigFile(f))
    PROVE  LET actions == NormalizeConfigFile(f).actions IN
               /\ f.actions \in Seq(WrittenPolicies)
               /\ DOMAIN actions = DOMAIN f.actions
               /\ \A i \in DOMAIN f.actions : actions[i] = NormalizePolicy(f.actions[i])
               /\ [i \in DOMAIN actions |-> MatcherOf(actions[i])] \in Seq(DeclaredPolicies)
<1> DEFINE actions == NormalizeConfigFile(f).actions
<1>1. f.actions \in Seq(WrittenPolicies)
  BY DEF FileType
<1>2. /\ DOMAIN actions = DOMAIN f.actions
      /\ \A i \in DOMAIN f.actions : actions[i] = NormalizePolicy(f.actions[i])
  BY NormalizedFields DEF NormalizePolicies
<1>3. \A i \in DOMAIN f.actions : f.actions[i] \in WrittenPolicies
  BY <1>1
<1>4. \A i \in DOMAIN f.actions : MatcherOf(actions[i]) \in DeclaredPolicies
  BY <1>2, <1>3, MatcherType DEF ValidateConfig
<1>5. PICK len \in Nat : DOMAIN f.actions = 1..len
  BY <1>1
<1> HIDE DEF actions
<1>6. [i \in DOMAIN actions |-> MatcherOf(actions[i])] \in Seq(DeclaredPolicies)
  BY <1>2, <1>4, <1>5
<1> QED
  BY <1>1, <1>2, <1>6 DEF actions

\* Every rule of the risk defaults that runs names a risk or nothing, and the default is a
\* risk.
LEMMA RiskDefaultsType ==
    ASSUME NEW f \in FileType, ValidateConfig(NormalizeConfigFile(f))
    PROVE  RiskDefaultsOf(NormalizeConfigFile(f).risk_defaults) \in RiskDefaults
<1> DEFINE r == NormalizeConfigFile(f).risk_defaults
           rules == f.risk_defaults.rules
           WrittenRule == [match : Globs, risk : RiskWords]
<1>1. rules \in Seq(WrittenRule) /\ f.risk_defaults.given \in BOOLEAN
  BY DEF FileType, WrittenRiskDefaults
<1>2. /\ r.given \in BOOLEAN
      /\ DOMAIN r.rules = DOMAIN rules
  BY <1>1, NormalizedFields
<1>3. r.default \in Risks \cup {None} /\ \A i \in DOMAIN rules : r.rules[i].risk \in Risks \cup {None}
  BY <1>2 DEF ValidateConfig, AcceptedRiskDefaults, AcceptedRisk
<1> HIDE DEF r, rules
<1>4. PICK len \in Nat : DOMAIN rules = 1..len
  BY <1>1
<1> DEFINE resolved == [i \in DOMAIN r.rules |->
                           [matches |-> r.rules[i].match \in MatchingGlobs, risk |-> r.rules[i].risk]]
<1>5. resolved \in Seq(Rules)
  BY <1>2, <1>3, <1>4 DEF Rules
<1>6. "MEDIUM" \in Risks
  BY DEF Risks
<1> HIDE DEF resolved
<1>7. RiskDefaultsOf(r) = [configured |-> r.given, rules |-> resolved,
                           default |-> IF r.default = None THEN "MEDIUM" ELSE r.default]
  BY DEF RiskDefaultsOf, resolved
<1> QED
  BY <1>2, <1>3, <1>5, <1>6, <1>7 DEF RiskDefaults, r

\* What the stages of the startup have established.  The scan starts when all of it is there.
StartupInvariant ==
    /\ ScanInvariant
    /\ written \in FileType
    /\ stage \in Stages
    /\ stage = "created" => file = written
    /\ stage \in {"normalized", "external", "loaded", "built", "running"} =>
           file = NormalizeConfigFile(written)
    /\ stage \in {"external", "loaded", "built", "running"} => ValidateConfig(file)
    /\ stage # "running" => pc = "start"
    /\ stage \in {"built", "running"} =>
           /\ \A i \in DOMAIN file.actions : ResolvablePolicy(file.actions[i])
           /\ ResolvableDefaults(file.defaults)
           /\ policies = [i \in DOMAIN file.actions |-> MatcherOf(file.actions[i])]
           /\ running = [mode |-> RuntimeMode[file.mode],
                         policies |-> [i \in DOMAIN file.actions |-> ResolvePolicyConfig(file.actions[i])],
                         outcomes |-> ResolveGlobalDefaults(file.defaults).outcomes,
                         freshness |-> ResolveGlobalDefaults(file.defaults).freshness,
                         deadline |-> ResolveGlobalDefaults(file.defaults).deadline]

\* Before the startup there is nothing to scan.
LEMMA StartupInitKeeps == StartupInit => StartupInvariant
<1> SUFFICES ASSUME StartupInit PROVE StartupInvariant
  OBVIOUS
<1>1. ScanInvariant /\ pc = "start"
  BY InitInvariant DEF StartupInit, Init
<1> QED
  BY <1>1, ConfigurationAssumption DEF StartupInit, StartupInvariant, Stages

\* What the scan works on is typed when it comes to be.
LEMMA BuildKeepsScan ==
    ASSUME StartupInvariant, BuildPolicyCore
    PROVE  ScanInvariant'
<1>1. CASE UNCHANGED <<policies, riskDefaults>>
  <2>1. UNCHANGED vars
    BY <1>1 DEF BuildPolicyCore, vars
  <2> QED
    BY <2>1, StepInvariant DEF StartupInvariant
<1>2. CASE /\ policies' = [i \in DOMAIN file.actions |-> MatcherOf(file.actions[i])]
           /\ riskDefaults' = RiskDefaultsOf(file.risk_defaults)
  <2>1. /\ policies' \in Seq(DeclaredPolicies) /\ riskDefaults' \in RiskDefaults
    BY <1>2, MatchersType, RiskDefaultsType DEF BuildPolicyCore, StartupInvariant
  <2>2. /\ pc = "start" /\ cursor = 1 /\ best = 0 /\ bestScore = -1
        /\ intent \in IntentType /\ risk \in Risks \cup {None}
    BY DEF BuildPolicyCore, StartupInvariant, ScanInvariant, TypeOK
  <2>3. UNCHANGED <<intent, pc, cursor, best, bestScore, risk>>
    BY DEF BuildPolicyCore
  <2>4. Len(policies') \in Nat
    BY <2>1
  <2>5. TypeOK'
    BY <2>1, <2>2, <2>3, <2>4 DEF TypeOK
  <2> QED
    BY <2>2, <2>3, <2>5 DEF ScanInvariant, BestSoFar
<1> QED
  BY <1>1, <1>2 DEF BuildPolicyCore

\* Every step of the startup, and of the scan after it, keeps the invariant.
LEMMA StartupStepKeeps == StartupInvariant /\ [StartupNext]_allVars => StartupInvariant'
<1> SUFFICES ASSUME StartupInvariant, [StartupNext]_allVars PROVE StartupInvariant'
  OBVIOUS
<1>1. ASSUME UNCHANGED vars PROVE ScanInvariant'
  BY <1>1, StepInvariant DEF StartupInvariant
<1>2. CASE UNCHANGED allVars
  <2>1. ScanInvariant'
    BY <1>1, <1>2 DEF allVars
  <2> QED
    BY <1>2, <2>1 DEF allVars, vars, startup, StartupInvariant
<1>3. CASE ReadConfigFile
  <2>1. ScanInvariant' /\ UNCHANGED vars
    BY <1>1, <1>3 DEF ReadConfigFile
  <2> QED
    BY <1>3, <2>1 DEF ReadConfigFile, StartupInvariant, vars, Stages
<1>4. CASE Normalize
  <2>1. ScanInvariant' /\ UNCHANGED vars
    BY <1>1, <1>4 DEF Normalize
  <2> QED
    BY <1>4, <2>1 DEF Normalize, StartupInvariant, vars, Stages
<1>5. CASE Validate
  <2>1. ScanInvariant' /\ UNCHANGED vars
    BY <1>1, <1>5 DEF Validate
  <2> QED
    BY <1>5, <2>1 DEF Validate, StartupInvariant, vars, Stages
<1>6. CASE LoadPoliciesFile
  <2>1. ScanInvariant' /\ UNCHANGED vars
    BY <1>1, <1>6 DEF LoadPoliciesFile
  <2> QED
    BY <1>6, <2>1 DEF LoadPoliciesFile, StartupInvariant, vars, Stages
<1>7. CASE BuildPolicyCore
  <2>1. ScanInvariant'
    BY <1>7, BuildKeepsScan
  <2>2. UNCHANGED <<written, file, pc>> /\ stage = "loaded" /\ stage' \in {"built", "ConfigurationError"}
    BY <1>7 DEF BuildPolicyCore
  <2>3. stage' = "built" =>
            /\ \A i \in DOMAIN file.actions : ResolvablePolicy(file.actions[i])
            /\ ResolvableDefaults(file.defaults)
            /\ policies' = [i \in DOMAIN file.actions |-> MatcherOf(file.actions[i])]
            /\ running' = [mode |-> RuntimeMode[file.mode],
                           policies |-> [i \in DOMAIN file.actions |-> ResolvePolicyConfig(file.actions[i])],
                           outcomes |-> ResolveGlobalDefaults(file.defaults).outcomes,
                           freshness |-> ResolveGlobalDefaults(file.defaults).freshness,
                           deadline |-> ResolveGlobalDefaults(file.defaults).deadline]
    BY <1>7, Zenon DEF BuildPolicyCore
  <2> QED
    BY <2>1, <2>2, <2>3 DEF StartupInvariant, Stages
<1>8. CASE OpenStore
  <2>1. ScanInvariant' /\ UNCHANGED vars
    BY <1>1, <1>8 DEF OpenStore
  <2> QED
    BY <1>8, <2>1 DEF OpenStore, StartupInvariant, vars, Stages
<1>9. CASE ResolveIntent
  <2>1. ScanInvariant'
    BY <1>9, StepInvariant DEF ResolveIntent, StartupInvariant
  <2>2. UNCHANGED policies
    BY <1>9 DEF ResolveIntent, Next, NameUnknown, ResolveExplicit, StartScan, Scan, FinishScan, Stop,
       given, vars
  <2> QED
    BY <1>9, <2>1, <2>2 DEF ResolveIntent, startup, StartupInvariant
<1>10. CASE Halt
  BY <1>2, <1>10 DEF Halt
<1> QED
  BY <1>2, <1>3, <1>4, <1>5, <1>6, <1>7, <1>8, <1>9, <1>10 DEF StartupNext

\* What a stage of the startup has established stays true, and the scan runs on typed
\* policies only.
THEOREM StartupIsInvariant == StartupSpec => []StartupInvariant
  BY StartupInitKeeps, StartupStepKeeps, PTL DEF StartupSpec

-----------------------------------------------------------------------------
(* What a validated file cannot make the firewall do. *)

\* A dangerous word under either name of a default is not accepted, so the table of the
\* defaults does not allow on the bases that need an acknowledgment.
LEMMA DefaultsDoNotAllow ==
    ASSUME NEW defaults, NEW basis \in {"stale", "unknown", "invalid"},
           Effective(defaults, basis) # "allow"
    PROVE  ResolveGlobalDefaults(defaults).outcomes[basis] # "allow"
<1>1. DefaultWord(defaults, basis) # "allow"
  BY DEF DefaultWord, Effective
<1>2. basis \in Bases /\ basis # "fresh"
  BY DEF Bases
<1>3. ResolveGlobalDefaults(defaults).outcomes[basis]
          = Table([b \in Bases |-> DefaultWord(defaults, b)])[basis]
  BY <1>2 DEF ResolveGlobalDefaults, Table
<1>4. Table([b \in Bases |-> DefaultWord(defaults, b)])[basis] # "allow"
  BY <1>1, <1>2 DEF Table
<1> QED
  BY <1>3, <1>4

\* Whatever a validated file spells out, its firewall allows nothing on refuted state, and
\* on stale or unknown state only with the acknowledgment of the operator.
THEOREM AllowNeedsAcknowledgment == StartupSpec => []NoUnacknowledgedAllow
<1>1. ASSUME StartupInvariant PROVE NoUnacknowledgedAllow
  <2> SUFFICES ASSUME stage = "running", pc = "resolved",
                      NEW basis \in {"stale", "unknown", "invalid"},
                      basis # "invalid" => written.acknowledge_unknown_allow # "true"
               PROVE  ConfiguredOutcome(basis) # "allow"
    BY DEF NoUnacknowledgedAllow
  <2>1. /\ file = NormalizeConfigFile(written) /\ written \in FileType
        /\ ValidateConfig(file) /\ ScanInvariant
        /\ policies = [i \in DOMAIN file.actions |-> MatcherOf(file.actions[i])]
        /\ running.policies = [i \in DOMAIN file.actions |-> ResolvePolicyConfig(file.actions[i])]
        /\ running.outcomes = ResolveGlobalDefaults(file.defaults).outcomes
    BY <1>1 DEF StartupInvariant
  <2>2. running.outcomes[basis] # "allow"
    <3>1. file.acknowledge_unknown_allow = written.acknowledge_unknown_allow
      BY <2>1, NormalizedFields
    <3>2. AcceptedDangers(file.defaults, file.acknowledge_unknown_allow = "true")
      BY <2>1 DEF ValidateConfig
    <3>3. Effective(file.defaults, basis) # "allow"
      <4>1. CASE basis = "invalid"
        BY <3>2, <4>1 DEF AcceptedDangers
      <4>2. CASE basis # "invalid"
        BY <3>1, <3>2, <4>2 DEF AcceptedDangers
      <4> QED
        BY <4>1, <4>2
    <3>4. ResolveGlobalDefaults(file.defaults).outcomes[basis] # "allow"
      BY <3>3, DefaultsDoNotAllow
    <3> QED
      BY <2>1, <3>4
  <2>3. BuiltInOutcome(basis, risk) # "allow"
    BY DEF BuiltInOutcome
  <2>4. CASE best = 0
    BY <2>2, <2>3, <2>4 DEF ConfiguredOutcome, OutcomeFor
  <2>5. CASE best # 0
    <3>1. best \in DOMAIN policies
      BY <2>1, <2>5 DEF ScanInvariant, TypeOK
    <3>2. best \in DOMAIN file.actions
      BY <2>1, <3>1
    <3>3. file.actions[best].outcomes[basis] # "allow"
      BY <2>1, <3>2 DEF ValidateConfig, AcceptedPolicy, AcceptedTable
    <3>4. running.policies[best].outcomes = Table(file.actions[best].outcomes)
      BY <2>1, <3>2 DEF ResolvePolicyConfig
    <3>5. Table(file.actions[best].outcomes)[basis] # "allow"
      BY <3>3 DEF Table, Bases
    <3> QED
      BY <2>2, <2>3, <2>5, <3>4, <3>5 DEF ConfiguredOutcome, OutcomeFor
  <2> QED
    BY <2>4, <2>5
<1> QED
  BY <1>1, StartupIsInvariant, PTL

\* An accepted and resolvable freshness section is one the freshness engine is written for.
LEMMA FreshnessResolves ==
    ASSUME NEW f \in WrittenFreshness, AcceptedFreshness(f),
           NEW threshold \in Int, AcceptedThreshold(threshold),
           NEW skew \in Nat \cup {Absent}
    PROVE  ResolveFreshness(f, threshold, skew) \in FreshnessPolicies
<1>1. CASE f.strategy = "absent"
  BY <1>1, ConfigurationAssumption DEF ResolveFreshness, FreshnessPolicies, Strategies, Optional
<1>2. CASE f.strategy # "absent"
  <2>1. Components(f) \in (SUBSET Strategies) \ {{}}
    <3>1. f.strategy \in Strategies \cup {"hybrid"} /\ f.on \in SUBSET Strategies
      BY <1>2 DEF AcceptedFreshness, WrittenFreshness
    <3> QED
      BY <3>1 DEF Components, Strategies
  <2>2. f.max_age \in Optional(Nat)
    BY <1>2 DEF AcceptedFreshness, AcceptedDuration, WrittenFreshness, Durations, Absent, Optional, Null
  <2>3. FirstGiven(f.aging_threshold, threshold, 75) \in 1..100
    BY <1>2 DEF AcceptedFreshness, AcceptedThreshold, FirstGiven, WrittenFreshness, Absent, Null
  <2>4. FirstGiven(f.skew, skew, 0) \in Nat
    BY <1>2 DEF AcceptedFreshness, AcceptedDuration, FirstGiven, WrittenFreshness, Durations
  <2> QED
    BY <1>2, <2>1, <2>2, <2>3, <2>4 DEF ResolveFreshness, FreshnessPolicies
<1> QED
  BY <1>1, <1>2

\* A deadline that is accepted and in range fits the timers, or is not given.
LEMMA DeadlineResolves ==
    ASSUME NEW deadline \in Durations, AcceptedDuration(deadline), DeadlineInRange(deadline)
    PROVE  deadline \in Absent..MaxDeadline
  BY ConfigurationAssumption DEF Durations, AcceptedDuration, DeadlineInRange, Absent, Null, Malformed

\* An accepted precondition evaluates on any metadata.
LEMMA PreconditionEvaluates ==
    ASSUME NEW precondition, AcceptedPrecondition(precondition), NEW subject
    PROVE  EvaluatePrecondition(precondition, subject) # "throws"
<1>1. ~Throws(precondition, subject)
  BY DEF AcceptedPrecondition, Throws
<1>2. "passed" # "throws" /\ "failed" # "throws"
  OBVIOUS
<1> QED
  BY <1>1, <1>2, Zenon DEF EvaluatePrecondition

\* "A malformed policy never reaches the decision engine": of any set of files, those that
\* start a firewall resolve into the domain the engines are written for, but for the risk
\* of an intent that a rule without a level matches first.
THEOREM EnginesGetTheirDomain == StartupSpec => []EngineAssumptionsHold
<1>1. ASSUME StartupInvariant PROVE EngineAssumptionsHold
  <2> SUFFICES ASSUME stage = "running"
               PROVE  /\ TypeOK
                      /\ (pc = "resolved" /\ risk = None) =>
                             RuleNamesNoRisk /\ (best = 0 \/ policies[best].declared = None)
                      /\ running.mode \in Modes
                      /\ running.freshness \in FreshnessPolicies /\ running.deadline \in Absent..MaxDeadline
                      /\ \A i \in DOMAIN running.policies :
                             LET policy == running.policies[i]
                             IN  /\ policy.freshness \in FreshnessPolicies
                                 /\ \A j \in DOMAIN policy.rules : policy.rules[j] \in FreshnessPolicies
                                 /\ policy.deadline \in Absent..MaxDeadline
                                 /\ policy.outcomes \in OutcomeTables
                                 /\ \A j \in DOMAIN policy.preconditions : \A subject \in Metadata :
                                        EvaluatePrecondition(policy.preconditions[j], subject) # "throws"
    BY DEF EngineAssumptionsHold
  <2>1. /\ file = NormalizeConfigFile(written) /\ written \in FileType
        /\ ValidateConfig(file) /\ ScanInvariant
        /\ \A i \in DOMAIN file.actions : ResolvablePolicy(file.actions[i])
        /\ ResolvableDefaults(file.defaults)
        /\ running.mode = RuntimeMode[file.mode]
        /\ running.policies = [i \in DOMAIN file.actions |-> ResolvePolicyConfig(file.actions[i])]
        /\ running.freshness = ResolveGlobalDefaults(file.defaults).freshness
        /\ running.deadline = ResolveGlobalDefaults(file.defaults).deadline
    BY <1>1 DEF StartupInvariant
  <2>2. /\ TypeOK
        /\ (pc = "resolved" /\ risk = None) =>
               RuleNamesNoRisk /\ (best = 0 \/ policies[best].declared = None)
    BY <2>1, RankFollows DEF ScanInvariant
  <2>3. running.mode \in Modes
    BY <2>1 DEF ValidateConfig, RuntimeMode, Modes
  <2>4. running.freshness \in FreshnessPolicies /\ running.deadline \in Absent..MaxDeadline
    <3>1. written.defaults \in WrittenDefaults
      BY <2>1 DEF FileType
    <3>2. /\ file.defaults.default_freshness \in WrittenFreshness
          /\ file.defaults.aging_threshold \in Int
          /\ file.defaults.skew \in Durations
          /\ file.defaults.execution_deadline \in Durations
      BY <2>1, <3>1, NormalizedFields DEF WrittenDefaults
    <3>3. AcceptedDefaults(file.defaults)
      BY <2>1 DEF ValidateConfig
    <3>4. /\ AcceptedFreshness(file.defaults.default_freshness)
          /\ AcceptedThreshold(file.defaults.aging_threshold)
          /\ file.defaults.skew \in Nat \cup {Absent}
          /\ AcceptedDuration(file.defaults.execution_deadline)
          /\ DeadlineInRange(file.defaults.execution_deadline)
      BY <2>1, <3>2, <3>3 DEF AcceptedDefaults, AcceptedDuration, ResolvableDefaults, Durations
    <3> QED
      BY <2>1, <3>2, <3>4, FreshnessResolves, DeadlineResolves DEF ResolveGlobalDefaults
  <2>5. ASSUME NEW i \in DOMAIN running.policies
        PROVE  LET policy == running.policies[i]
               IN  /\ policy.freshness \in FreshnessPolicies
                   /\ \A j \in DOMAIN policy.rules : policy.rules[j] \in FreshnessPolicies
                   /\ policy.deadline \in Absent..MaxDeadline
                   /\ policy.outcomes \in OutcomeTables
                   /\ \A j \in DOMAIN policy.preconditions : \A subject \in Metadata :
                          EvaluatePrecondition(policy.preconditions[j], subject) # "throws"
    <3> DEFINE action == file.actions[i]
    <3>1. i \in DOMAIN file.actions /\ running.policies[i] = ResolvePolicyConfig(action)
      BY <2>1, <2>5
    <3>2. i \in DOMAIN written.actions /\ action = NormalizePolicy(written.actions[i])
          /\ written.actions[i] \in WrittenPolicies
      <4>1. file.actions = [k \in DOMAIN written.actions |-> NormalizePolicy(written.actions[k])]
        <5>1. file.actions = NormalizePolicies(written.actions)
          BY <2>1, NormalizedFields
        <5> QED
          BY <5>1 DEF NormalizePolicies
      <4>2. written.actions \in Seq(WrittenPolicies)
        BY <2>1 DEF FileType
      <4>3. i \in DOMAIN written.actions /\ action = NormalizePolicy(written.actions[i])
        BY <3>1, <4>1
      <4>4. written.actions[i] \in WrittenPolicies
        BY <4>2, <4>3
      <4> QED
        BY <4>3, <4>4
    <3>3. AcceptedPolicy(action) /\ ResolvablePolicy(action)
      BY <2>1, <3>1 DEF ValidateConfig
    <3>4. /\ action.freshness \in WrittenFreshness
          /\ action.dependency_freshness \in Seq(WrittenFreshness)
          /\ action.deadline \in Durations
      BY <3>2, NormalizedPolicy
    <3> HIDE DEF action
    <3>5. /\ AcceptedFreshness(action.freshness)
          /\ \A j \in DOMAIN action.dependency_freshness : AcceptedFreshness(action.dependency_freshness[j])
          /\ \A j \in DOMAIN action.preconditions : AcceptedPrecondition(action.preconditions[j])
          /\ AcceptedDuration(action.deadline) /\ DeadlineInRange(action.deadline)
          /\ \A basis \in Bases : action.outcomes[basis] \in Outcomes \cup {"absent"}
      BY <3>3 DEF AcceptedPolicy, ResolvablePolicy, AcceptedExecution, AcceptedTable, AcceptedOutcome
    <3>6. Absent \in Int /\ AcceptedThreshold(Absent) /\ Absent \in Nat \cup {Absent}
      BY DEF Absent, Null, AcceptedThreshold
    <3>7. ResolveFreshness(action.freshness, Absent, Absent) \in FreshnessPolicies
      BY <3>4, <3>5, <3>6, FreshnessResolves
    <3>8. \A j \in DOMAIN action.dependency_freshness :
              ResolveFreshness(action.dependency_freshness[j], Absent, Absent) \in FreshnessPolicies
      BY <3>4, <3>5, <3>6, FreshnessResolves
    <3>9. action.deadline \in Absent..MaxDeadline
      BY <3>4, <3>5, DeadlineResolves
    <3>10. Table(action.outcomes) \in OutcomeTables
      BY <3>5 DEF Table, OutcomeTables
    <3>11. \A j \in DOMAIN action.preconditions : \A subject \in Metadata :
               EvaluatePrecondition(action.preconditions[j], subject) # "throws"
      BY <3>5, PreconditionEvaluates
    <3> QED
      BY <3>1, <3>7, <3>8, <3>9, <3>10, <3>11 DEF ResolvePolicyConfig
  <2> QED
    BY <2>2, <2>3, <2>4, <2>5
<1> QED
  BY <1>1, StartupIsInvariant, PTL

\* Out of any file that starts a firewall, an intent is decided by the most specific
\* matching policy.
THEOREM StartupKeepsPrecedence == StartupSpec => []ScanKeepsPrecedence
<1>1. StartupInvariant => ScanKeepsPrecedence
  BY PrecedenceFollows DEF StartupInvariant
<1> QED
  BY <1>1, StartupIsInvariant, PTL

\* Out of any file that starts a firewall, no selected policy lowers the risk of an intent.
THEOREM StartupPolicyRaisesRisk == StartupSpec => []PolicyNeverLowersRisk
<1>1. StartupInvariant => PolicyNeverLowersRisk
  BY RiskFollows DEF StartupInvariant
<1> QED
  BY <1>1, StartupIsInvariant, PTL
=============================================================================
