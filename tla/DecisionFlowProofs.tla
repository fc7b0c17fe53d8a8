-------------------------- MODULE DecisionFlowProofs --------------------------
(***************************************************************************)
(* The decisions of one action, for any number of dependencies, any tables *)
(* and any verdicts: DecisionFlow's invariants proved of its specification. *)
(***************************************************************************)
EXTENDS DecisionFlow, DecisionLemmas

\* A dependency that was not fetched stays UNKNOWN through the recomputation.
UnfetchedUnknown == \A d \in Dependencies \ fetched : verdict[d].staleness = "UNKNOWN"

FlowInv == TypeOK /\ UnfetchedUnknown

\* The decision of the flow is one of the four.
LEMMA DecidedType == ASSUME policy \in OutcomeTables, defaults \in OutcomeTables
                     PROVE  Decided \in Decisions
BY DecideType DEF Decided

\* The invariant of the flow holds initially.
LEMMA FlowInit == Init => FlowInv
<1> SUFFICES ASSUME Init PROVE FlowInv
  OBVIOUS
<1>1. policy \in OutcomeTables /\ defaults \in OutcomeTables
  BY DecisionFlowAssumption DEF Init
<1>2. Decided \in Decisions
  BY <1>1, DecidedType
<1> QED
  BY <1>1, <1>2 DEF Init, FlowInv, TypeOK, UnfetchedUnknown

\* The recomputation keeps the invariant of the flow.
LEMMA FlowStep == FlowInv /\ [Next]_vars => FlowInv'
<1> SUFFICES ASSUME FlowInv, [Next]_vars PROVE FlowInv'
  OBVIOUS
<1>1. CASE Next
  <2>1. policy' \in OutcomeTables /\ defaults' \in OutcomeTables
    BY <1>1 DEF FlowInv, TypeOK, Next, Revalidate
  <2>2. Decided' \in Decisions
    BY <2>1, DecideType DEF Decided
  <2> QED
    BY <1>1, <2>1, <2>2 DEF FlowInv, TypeOK, UnfetchedUnknown, Next, Revalidate
<1>2. CASE UNCHANGED vars
  BY <1>2 DEF FlowInv, TypeOK, UnfetchedUnknown, vars, Decided
<1> QED
  BY <1>1, <1>2

\* Every decision is one of the four, and outages stay visible in the verdicts.
THEOREM FlowTypeCorrect == Spec => []FlowInv
BY FlowInit, FlowStep, PTL DEF Spec

-----------------------------------------------------------------------------

VerdictSet == {verdict[d] : d \in Dependencies}

\* What the verdicts of an action say about its effective basis.
LEMMA EffectiveBasisFacts ==
    ASSUME TypeOK
    PROVE  /\ Classified("INVALID") => EffectiveBasis(VerdictSet) = "invalid"
           /\ (~Classified("INVALID") /\ (Classified("UNKNOWN") \/ Dependencies = {}))
                  => EffectiveBasis(VerdictSet) = "unknown"
           /\ (~Classified("UNKNOWN") /\ ~Classified("STALE")
               /\ \E d \in Dependencies : ~verdict[d].passed)
                  => EffectiveBasis(VerdictSet) = "invalid"
           /\ (~Classified("INVALID") /\ ~Classified("UNKNOWN") /\ ~Classified("STALE")
               /\ Classified("AGING")) => EffectiveBasis(VerdictSet) \in {"invalid", "aging"}
<1> DEFINE S == VerdictSet
           P == {v.staleness : v \in S}
<1>1. \A class : class \in P <=> Classified(class)
  BY DEF Classified, VerdictSet
<1>2. S = {} <=> Dependencies = {}
  BY DEF VerdictSet
<1>3. (\E v \in S : ~v.passed) <=> (\E d \in Dependencies : ~verdict[d].passed)
  BY DEF VerdictSet
<1>4. /\ Classified("INVALID") => BasisOf(S) = "invalid"
      /\ (~Classified("INVALID") /\ (Classified("UNKNOWN") \/ Dependencies = {}))
             => BasisOf(S) = "unknown"
      /\ (~Classified("UNKNOWN") /\ Dependencies # {} /\ ~Classified("STALE"))
             => BasisOf(S) \in {"invalid", "aging", "fresh"}
      /\ (~Classified("INVALID") /\ ~Classified("UNKNOWN") /\ ~Classified("STALE")
          /\ Classified("AGING")) => BasisOf(S) = "aging"
  <2>1. Classified("AGING") => Dependencies # {}
    BY DEF Classified
  <2> QED
    BY <1>1, <1>2, <2>1 DEF BasisOf
<1>5. (\E d \in Dependencies : ~verdict[d].passed) => Dependencies # {}
  OBVIOUS
<1> HIDE DEF S, P
<1> QED
  BY <1>3, <1>4, <1>5 DEF EffectiveBasis, S

\* No configuration allows a CRITICAL action on unknown state, for any number of
\* dependencies, at validation or after revalidation.
THEOREM CriticalFloor == Spec => []CriticalNeverAllowedOnUnknown
<1>1. FlowInv => CriticalNeverAllowedOnUnknown
  <2> SUFFICES ASSUME FlowInv, risk = "CRITICAL", Classified("UNKNOWN") \/ Dependencies = {}
               PROVE  Decided # "ALLOW"
    BY DEF CriticalNeverAllowedOnUnknown
  <2>1. EffectiveBasis(VerdictSet) \in {"invalid", "unknown"}
    BY EffectiveBasisFacts DEF FlowInv
  <2> QED
    BY <2>1, FloorHolds DEF Decided, VerdictSet, FlowInv, TypeOK
<1> QED
  BY <1>1, FlowTypeCorrect, PTL

\* No configuration allows an action on refuted state.
THEOREM RefutedFloor == Spec => []RefutedStateNeverAllowed
<1>1. FlowInv => RefutedStateNeverAllowed
  <2> SUFFICES ASSUME FlowInv,
                      \/ Classified("INVALID")
                      \/ /\ ~Classified("UNKNOWN") /\ ~Classified("STALE")
                         /\ \E d \in Dependencies : ~verdict[d].passed
               PROVE  Decided # "ALLOW"
    BY DEF RefutedStateNeverAllowed
  <2>1. EffectiveBasis(VerdictSet) = "invalid"
    BY EffectiveBasisFacts DEF FlowInv
  <2> QED
    BY <2>1, FloorHolds DEF Decided, VerdictSet, FlowInv, TypeOK
<1> QED
  BY <1>1, FlowTypeCorrect, PTL

\* An outage ends in a decision other than REVALIDATE after one recomputation.
THEOREM OutageTerminates == Spec => []OutageNeverRevalidatesTwice
<1>1. FlowInv => OutageNeverRevalidatesTwice
  <2>1. ASSUME FlowInv, EffectiveBasis(VerdictSet) = "unknown"
        PROVE  (stage = "revalidated") => Decided # "REVALIDATE"
    <3> DEFINE again == stage = "revalidated"
    <3> SUFFICES again => Decided # "REVALIDATE"
      OBVIOUS
    <3>1. Decided = Decide(VerdictSet, policy, defaults, risk, mode, again)
      BY DEF Decided, VerdictSet
    <3> HIDE DEF again
    <3>2. PICK outcome \in Outcomes :
              Decided = ToDecision[LastOutcome(outcome, EffectiveBasis(VerdictSet), risk, mode,
                                               again)]
      BY <2>1, <3>1, DecideStages DEF FlowInv, TypeOK
    <3>3. LastOutcome(outcome, EffectiveBasis(VerdictSet), risk, mode, again) \in Outcomes
      BY LastOutcomeType
    <3>4. again =>
              LastOutcome(outcome, EffectiveBasis(VerdictSet), risk, mode, again) # "revalidate"
      BY <2>1 DEF LastOutcome, FailClosedAfterRevalidation, ApplyStrictMode
    <3> QED
      BY <3>2, <3>3, <3>4, ToDecisionFacts
  <2>2. ASSUME FlowInv, fetched # Dependencies, ~Classified("INVALID")
        PROVE  EffectiveBasis(VerdictSet) = "unknown"
    <3>1. Classified("UNKNOWN")
      BY <2>2 DEF FlowInv, TypeOK, UnfetchedUnknown, Classified
    <3> QED
      BY <2>2, <3>1, EffectiveBasisFacts DEF FlowInv
  <2> QED
    BY <2>1, <2>2 DEF OutageNeverRevalidatesTwice
<1> QED
  BY <1>1, FlowTypeCorrect, PTL

\* STRICT mode never allows uncertain or aging state.
THEOREM StrictFloor == Spec => []StrictNeverAllowsUncertainty
<1>1. FlowInv => StrictNeverAllowsUncertainty
  <2> SUFFICES ASSUME FlowInv, mode = "STRICT", ~Classified("STALE"),
                      Classified("UNKNOWN") \/ Classified("AGING")
               PROVE  Decided # "ALLOW"
    BY DEF StrictNeverAllowsUncertainty
  <2>1. EffectiveBasis(VerdictSet) \in {"invalid", "unknown", "aging"}
    BY EffectiveBasisFacts DEF FlowInv
  <2> QED
    BY <2>1, FloorHolds, StrictHolds DEF Decided, VerdictSet, FlowInv, TypeOK
<1> QED
  BY <1>1, FlowTypeCorrect, PTL
=============================================================================
