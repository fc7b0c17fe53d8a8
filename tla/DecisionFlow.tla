---------------------------- MODULE DecisionFlow ----------------------------
(***************************************************************************)
(* The decisions one action can receive: the initial one on the verdicts   *)
(* of validation, and, when that is REVALIDATE, one recomputed decision in *)
(* which every dependency with a fetched snapshot gets a new verdict while *)
(* the others keep theirs (src/application/execute-action.ts).             *)
(***************************************************************************)
EXTENDS Decision

CONSTANTS
    Dependencies,   \* positions of the declared dependencies, possibly none
    PolicySet,      \* outcome tables of the policies
    DefaultsSet     \* outcome tables of the global defaults

ASSUME DecisionFlowAssumption ==
    PolicySet \subseteq OutcomeTables /\ DefaultsSet \subseteq OutcomeTables

VARIABLES
    policy, defaults, risk, mode,   \* fixed for the action
    fetched,                        \* dependencies validation got a snapshot for
    verdict,                        \* per dependency
    stage                           \* "validated" or "revalidated"

vars == <<policy, defaults, risk, mode, fetched, verdict, stage>>

Decided ==
    Decide({verdict[d] : d \in Dependencies}, policy, defaults, risk, mode,
           stage = "revalidated")

TypeOK ==
    /\ policy \in OutcomeTables
    /\ defaults \in OutcomeTables
    /\ risk \in Risks
    /\ mode \in Modes
    /\ fetched \in SUBSET Dependencies
    /\ verdict \in [Dependencies -> Verdicts]
    /\ stage \in {"validated", "revalidated"}
    /\ Decided \in Decisions

\* Validation: what could not be fetched is UNKNOWN.
Init ==
    /\ policy \in PolicySet
    /\ defaults \in DefaultsSet
    /\ risk \in Risks
    /\ mode \in Modes
    /\ fetched \in SUBSET Dependencies
    /\ verdict \in [Dependencies -> Verdicts]
    /\ \A d \in Dependencies \ fetched : verdict[d].staleness = "UNKNOWN"
    /\ stage = "validated"

\* The recomputation of the REVALIDATE flow.
Revalidate ==
    /\ stage = "validated"
    /\ Recorded(Decided, mode) = "REVALIDATE"
    /\ verdict' \in [Dependencies -> Verdicts]
    /\ \A d \in Dependencies \ fetched : verdict'[d] = verdict[d]
    /\ stage' = "revalidated"
    /\ UNCHANGED <<policy, defaults, risk, mode, fetched>>

Next == Revalidate

Spec == Init /\ [][Next]_vars

-----------------------------------------------------------------------------
(* Properties. *)

Classified(class) == \E d \in Dependencies : verdict[d].staleness = class

\* The hard floor of the engine: no policy, defaults or mode, at validation or
\* after revalidation, lets a CRITICAL action be ALLOWED when a dependency could
\* not be fetched and none was refuted, or when no dependency was declared.
CriticalNeverAllowedOnUnknown ==
    (risk = "CRITICAL" /\ (Classified("UNKNOWN") \/ Dependencies = {})) => Decided # "ALLOW"

\* Neither a proven state change nor an invariant that fails on state the age
\* rules still accept can be ALLOWED, whatever the configuration says.
RefutedStateNeverAllowed ==
    (\/ Classified("INVALID")
     \/ /\ ~Classified("UNKNOWN") /\ ~Classified("STALE")
        /\ \E d \in Dependencies : ~verdict[d].passed)
        => Decided # "ALLOW"

\* Revalidation resolves an outage instead of looping on it: a dependency that
\* was never fetched cannot end in a second REVALIDATE, unless another one is
\* refuted and the policy asks to revalidate refuted state.
OutageNeverRevalidatesTwice ==
    (stage = "revalidated" /\ fetched # Dependencies /\ ~Classified("INVALID"))
        => Decided # "REVALIDATE"

\* In STRICT mode an action whose basis is uncertain or close to its boundary
\* is not ALLOWED, even where the policy allows unknown or aging state.
StrictNeverAllowsUncertainty ==
    (mode = "STRICT" /\ ~Classified("STALE") /\ (Classified("UNKNOWN") \/ Classified("AGING")))
        => Decided # "ALLOW"
=============================================================================
