------------------------------ MODULE Decision ------------------------------
(***************************************************************************)
(* The deterministic decision engine (src/engine/decision-engine.ts): from *)
(* the verdicts of all declared dependencies, the policy, the risk and the *)
(* firewall mode to one decision.                                          *)
(*                                                                         *)
(* A verdict is a record [staleness, passed]: `passed` says whether all    *)
(* preconditions routed to that dependency held.  The decision depends on  *)
(* the set of verdicts only, never on their order or number.               *)
(***************************************************************************)
EXTENDS Freshness

Verdicts == [staleness : Classes, passed : BOOLEAN]

Risks == {"LOW", "MEDIUM", "HIGH", "CRITICAL"}

Modes == {"OBSERVE", "ENFORCE", "STRICT"}

Outcomes == {"allow", "deny", "revalidate", "escalate"}

Decisions == {"ALLOW", "DENY", "REVALIDATE", "ESCALATE"}

Bases == {"fresh", "aging", "stale", "unknown", "invalid"}

\* An outcome table of a policy or of the global defaults; "unset" falls through.
OutcomeTables == [Bases -> Outcomes \cup {"unset"}]

-----------------------------------------------------------------------------

\* The worst class present decides; no declared dependency is no evidence.
BasisOf(verdicts) ==
    LET present == {v.staleness : v \in verdicts}
    IN  CASE "INVALID" \in present                       -> "invalid"
          [] "INVALID" \notin present
             /\ ("UNKNOWN" \in present \/ verdicts = {}) -> "unknown"
          [] OTHER -> IF "STALE" \in present THEN "stale"
                      ELSE IF "AGING" \in present THEN "aging" ELSE "fresh"

\* Mutant: failed preconditions do not turn the basis.
MutantIgnoresPreconditions(verdicts) == BasisOf(verdicts)

\* Any failed precondition on fresh or aging state is an invariant failure.
EffectiveBasis(verdicts) ==
    IF BasisOf(verdicts) \in {"fresh", "aging"} /\ \E v \in verdicts : ~v.passed
    THEN "invalid"
    ELSE BasisOf(verdicts)

BuiltInOutcome(basis, risk) ==
    CASE basis = "fresh"   -> "allow"
      [] basis = "aging"   -> IF risk \in {"HIGH", "CRITICAL"} THEN "revalidate" ELSE "allow"
      [] basis = "stale"   -> "revalidate"
      [] basis = "unknown" -> "revalidate"
      [] basis = "invalid" -> "deny"

\* Policy first, then the global defaults, then the built-in table.
OutcomeFor(policy, defaults, basis, risk) ==
    IF policy[basis] # "unset" THEN policy[basis]
    ELSE IF defaults[basis] # "unset" THEN defaults[basis]
    ELSE BuiltInOutcome(basis, risk)

\* Mutant: unknown state of a critical action has no floor.
MutantFloorsInvalidOnly(outcome, basis, risk) ==
    IF outcome = "allow" /\ basis = "invalid" THEN "revalidate" ELSE outcome

\* The floor no configuration can override.
ApplySafetyFloor(outcome, basis, risk) ==
    IF /\ outcome = "allow"
       /\ basis = "invalid" \/ (basis = "unknown" /\ risk = "CRITICAL")
    THEN "revalidate"
    ELSE outcome

\* Mutant: revalidation may ask for revalidation.
MutantLoops(outcome, basis, revalidated) == outcome

\* Revalidation must resolve uncertainty, not loop on it.
FailClosedAfterRevalidation(outcome, basis, revalidated) ==
    IF revalidated /\ basis = "unknown" /\ outcome = "revalidate" THEN "deny" ELSE outcome

ApplyStrictMode(outcome, basis) ==
    CASE basis = "unknown" /\ outcome \in {"allow", "revalidate"} -> "deny"
      [] basis = "aging" /\ outcome = "allow"                     -> "revalidate"
      [] OTHER                                                    -> outcome

ToDecision ==
    [allow |-> "ALLOW", deny |-> "DENY", revalidate |-> "REVALIDATE", escalate |-> "ESCALATE"]

\* decide()
Decide(verdicts, policy, defaults, risk, mode, revalidated) ==
    LET basis   == EffectiveBasis(verdicts)
        floored == ApplySafetyFloor(OutcomeFor(policy, defaults, basis, risk), basis, risk)
        closed  == FailClosedAfterRevalidation(floored, basis, revalidated)
        outcome == IF mode = "STRICT" THEN ApplyStrictMode(closed, basis) ELSE closed
    IN  ToDecision[outcome]

\* In OBSERVE mode the record says ALLOW and keeps the decision it would have been.
Recorded(decision, mode) == IF mode = "OBSERVE" THEN "ALLOW" ELSE decision
=============================================================================
