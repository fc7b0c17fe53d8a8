--------------------------- MODULE DecisionLemmas ---------------------------
(***************************************************************************)
(* Facts about the freshness and decision operators that hold for every    *)
(* verdict, policy, risk and mode.  The proofs about DecisionFlow and      *)
(* ExecuteAction cite them by name.                                        *)
(***************************************************************************)
EXTENDS Decision, TLAPS

-----------------------------------------------------------------------------
(* Freshness. *)

\* worstOf returns one of the classes it was given, and a most severe one.
LEMMA WorstOfMember ==
    ASSUME NEW S \in SUBSET Classes, S # {}
    PROVE  WorstOf(S) \in S /\ \A d \in S : Severity[d] <= Severity[WorstOf(S)]
<1>1. \E c \in S : \A d \in S : Severity[d] <= Severity[c]
  <2>1. CASE "INVALID" \in S
    BY <2>1 DEF Classes, Severity
  <2>2. CASE "INVALID" \notin S /\ "UNKNOWN" \in S
    BY <2>2 DEF Classes, Severity
  <2>3. CASE S \subseteq {"FRESH", "AGING", "STALE"} /\ "STALE" \in S
    BY <2>3 DEF Classes, Severity
  <2>4. CASE S \subseteq {"FRESH", "AGING"} /\ "AGING" \in S
    BY <2>4 DEF Classes, Severity
  <2>5. CASE S = {"FRESH"}
    BY <2>5 DEF Severity
  <2> QED
    BY <2>1, <2>2, <2>3, <2>4, <2>5 DEF Classes
<1> QED
  BY <1>1 DEF WorstOf

\* Every strategy classifies into one of the five classes.
LEMMA EvaluateComponentType ==
    ASSUME NEW s \in Strategies, NEW claim, NEW current, NEW policy, NEW passed, NEW now
    PROVE  EvaluateComponent(s, claim, current, policy, passed, now) \in Classes
<1>1. EvaluateTtl(claim, policy, now) \in Classes
  BY DEF EvaluateTtl, ClassifyByAge, Classes
<1> QED
  BY <1>1 DEF EvaluateComponent, EvaluateVersion, EvaluateHash, Strategies, Classes

\* evaluateFreshness returns one of the five classes for every claim and fetch.
LEMMA EvaluateFreshnessType ==
    ASSUME NEW claim, NEW current, NEW policy \in FreshnessPolicies, NEW passed, NEW now
    PROVE  EvaluateFreshness(claim, current, policy, passed, now) \in Classes
<1> DEFINE S == {EvaluateComponent(s, claim, current, policy, passed, now) :
                     s \in policy.components}
<1>1. policy.components \in SUBSET Strategies /\ policy.components # {}
  BY DEF FreshnessPolicies
<1>2. S \in SUBSET Classes /\ S # {}
  BY <1>1, EvaluateComponentType
<1>3. WorstOf(S) \in Classes
  BY <1>2, WorstOfMember
<1> QED
  BY <1>3 DEF EvaluateFreshness, Classes

\* A recomputed class is one of the five if the original one was.
LEMMA RecomputeFreshnessType ==
    ASSUME NEW original \in Classes, NEW snapshot, NEW policy \in FreshnessPolicies,
           NEW passed, NEW at, NEW now
    PROVE  RecomputeFreshness(original, snapshot, policy, passed, at, now) \in Classes
BY EvaluateFreshnessType DEF RecomputeFreshness

-----------------------------------------------------------------------------
(* Decisions. *)

\* The basis is one of the five keys of an outcome table.
LEMMA EffectiveBasisType ==
    ASSUME NEW verdicts
    PROVE  EffectiveBasis(verdicts) \in Bases
BY DEF EffectiveBasis, BasisOf, Bases

\* Whatever the tables leave unset, an outcome is found.
LEMMA OutcomeForType ==
    ASSUME NEW policy \in OutcomeTables, NEW defaults \in OutcomeTables,
           NEW basis \in Bases, NEW risk
    PROVE  OutcomeFor(policy, defaults, basis, risk) \in Outcomes
<1>1. BuiltInOutcome(basis, risk) \in Outcomes
  BY DEF BuiltInOutcome, Bases, Outcomes
<1>2. policy[basis] \in Outcomes \cup {"unset"} /\ defaults[basis] \in Outcomes \cup {"unset"}
  BY DEF OutcomeTables
<1> QED
  BY <1>1, <1>2 DEF OutcomeFor

\* What the floor, the fail-closed rule and STRICT mode make of an outcome.
LastOutcome(outcome, basis, risk, mode, revalidated) ==
    LET closed == FailClosedAfterRevalidation(
                      ApplySafetyFloor(outcome, basis, risk), basis, revalidated)
    IN  IF mode = "STRICT" THEN ApplyStrictMode(closed, basis) ELSE closed

\* Safety floor, fail-closed rule and STRICT mode return an outcome.
LEMMA LastOutcomeType ==
    ASSUME NEW outcome \in Outcomes, NEW basis, NEW risk, NEW mode, NEW revalidated
    PROVE  LastOutcome(outcome, basis, risk, mode, revalidated) \in Outcomes
BY DEF LastOutcome, FailClosedAfterRevalidation, ApplySafetyFloor, ApplyStrictMode, Outcomes

\* decide() is the last stage applied to some outcome of the tables.
LEMMA DecideStages ==
    ASSUME NEW verdicts, NEW policy \in OutcomeTables, NEW defaults \in OutcomeTables,
           NEW risk, NEW mode, NEW revalidated
    PROVE  \E outcome \in Outcomes :
               Decide(verdicts, policy, defaults, risk, mode, revalidated) =
                   ToDecision[LastOutcome(outcome, EffectiveBasis(verdicts), risk,
                                          mode, revalidated)]
<1> DEFINE outcome == OutcomeFor(policy, defaults, EffectiveBasis(verdicts), risk)
<1>1. outcome \in Outcomes
  BY EffectiveBasisType, OutcomeForType
<1>2. Decide(verdicts, policy, defaults, risk, mode, revalidated) =
          ToDecision[LastOutcome(outcome, EffectiveBasis(verdicts), risk, mode, revalidated)]
  BY DEF Decide, LastOutcome
<1> QED
  BY <1>1, <1>2

\* The four outcomes map to four different decisions.
LEMMA ToDecisionFacts ==
    /\ \A o \in Outcomes : ToDecision[o] \in Decisions
    /\ \A o \in Outcomes : ToDecision[o] = "ALLOW" => o = "allow"
    /\ \A o \in Outcomes : ToDecision[o] = "REVALIDATE" => o = "revalidate"
BY DEF ToDecision, Outcomes, Decisions

\* decide() is total.
THEOREM DecideType ==
    ASSUME NEW verdicts, NEW policy \in OutcomeTables, NEW defaults \in OutcomeTables,
           NEW risk, NEW mode, NEW revalidated
    PROVE  Decide(verdicts, policy, defaults, risk, mode, revalidated) \in Decisions
BY DecideStages, LastOutcomeType, ToDecisionFacts

\* The safety floor: no table, mode or stage allows a refuted basis, nor an
\* unknown one at CRITICAL risk.
THEOREM FloorHolds ==
    ASSUME NEW verdicts, NEW policy \in OutcomeTables, NEW defaults \in OutcomeTables,
           NEW risk, NEW mode, NEW revalidated,
           \/ EffectiveBasis(verdicts) = "invalid"
           \/ EffectiveBasis(verdicts) = "unknown" /\ risk = "CRITICAL"
    PROVE  Decide(verdicts, policy, defaults, risk, mode, revalidated) # "ALLOW"
<1>1. ASSUME NEW outcome \in Outcomes
      PROVE  LastOutcome(outcome, EffectiveBasis(verdicts), risk, mode, revalidated) # "allow"
  BY DEF LastOutcome, ApplySafetyFloor, FailClosedAfterRevalidation, ApplyStrictMode
<1> QED
  BY <1>1, DecideStages, LastOutcomeType, ToDecisionFacts

\* STRICT mode allows neither unknown nor aging state.
THEOREM StrictHolds ==
    ASSUME NEW verdicts, NEW policy \in OutcomeTables, NEW defaults \in OutcomeTables,
           NEW risk, NEW revalidated,
           EffectiveBasis(verdicts) \in {"unknown", "aging"}
    PROVE  Decide(verdicts, policy, defaults, risk, "STRICT", revalidated) # "ALLOW"
<1>1. ASSUME NEW outcome \in Outcomes
      PROVE  LastOutcome(outcome, EffectiveBasis(verdicts), risk, "STRICT", revalidated)
                 # "allow"
  BY DEF LastOutcome, ApplyStrictMode
<1> QED
  BY <1>1, DecideStages, LastOutcomeType, ToDecisionFacts
=============================================================================
