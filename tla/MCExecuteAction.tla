--------------------------- MODULE MCExecuteAction ---------------------------
(* Small instances of ExecuteAction for TLC. *)
EXTENDS ExecuteAction, TLC

CONSTANTS a1, c1, c2, c3, r1, r2, v1, v2

-----------------------------------------------------------------------------
(* Parts of requests. *)

Unset == [basis \in Bases |-> "unset"]

MCFreshness(components) ==
    [components |-> components, max_age |-> 1, aging_percent |-> 100, skew |-> 0]

\* The default policy of the tests: version check, fresh state at execution.
MCPolicy ==
    [outcomes |-> Unset, defaults |-> Unset, risk |-> "MEDIUM",
     freshness |-> MCFreshness({"version"}), deadline |-> 1,
     require_fresh |-> TRUE, require_conditional |-> FALSE,
     on_conditional_unavailable |-> "deny", allow_idempotent_retry |-> FALSE]

LegacyExecutor == [conditional |-> FALSE, idempotent |-> FALSE, writes |-> {r1}]

ConditionalExecutor == [LegacyExecutor EXCEPT !.conditional = TRUE]

Observed(version) ==
    [r \in Refs |-> [version |-> version, content_hash |-> Null, observed_at |-> 0]]

\* The plain request: one dependency, observed at its first version.
MCRequest ==
    [action_id |-> a1, via_approval |-> FALSE, mode |-> "ENFORCE", operation |-> "op", arguments |-> "args",
     dependencies |-> <<r1>>, observed |-> Observed(0),
     executor |-> LegacyExecutor, policy |-> MCPolicy]

Idempotent(q) ==
    [q EXCEPT !.executor.idempotent = TRUE, !.policy.allow_idempotent_retry = TRUE]

Approved(q) == [q EXCEPT !.via_approval = TRUE]

\* Nothing declared and a policy that tolerates it: the bare gate.
Undeclared ==
    [MCRequest EXCEPT !.dependencies = <<>>, !.policy.outcomes["unknown"] = "allow"]

-----------------------------------------------------------------------------
(* Request sets, one per run. *)

\* Both paths.  Best effort: a retry that is allowed, on a claim that may be outdated.
\* Conditional: the executor writes r1 under a condition, and r2 is read too; or r1
\* was never observed; or r2 is read instead, whose version cannot be the condition.
ExecutionRequests ==
    LET q == [MCRequest EXCEPT !.dependencies = <<r1, r2>>, !.executor = ConditionalExecutor]
        blind(r) == [q EXCEPT !.dependencies = <<r>>, !.observed = Observed(Null),
                              !.policy.require_conditional = TRUE,
                              !.policy.outcomes["unknown"] = "allow"]
    IN  { Idempotent(MCRequest), q, blind(r1), blind(r2) }

\* Many calls on one action id, with nothing between them and the gate, and a window that
\* closes at the next tick.
RaceRequests == { [Idempotent(Undeclared) EXCEPT !.policy.deadline = 0] }

\* Uncertain state is escalated, and then executed on the approved path.
Escalating ==
    [MCRequest EXCEPT !.observed = Observed(Null), !.policy.outcomes["unknown"] = "escalate"]

\* Conditional execution is required of executors that cannot provide it.
Gated(verdict) ==
    [MCRequest EXCEPT !.policy.require_conditional = TRUE,
                      !.policy.on_conditional_unavailable = verdict]

EscalationRequests ==
    { Escalating, Approved(Escalating),
      Approved([Escalating EXCEPT !.operation = "other"]),
      Approved([Escalating EXCEPT !.arguments = "other"]),
      Gated("escalate"), Gated("deny"), [Gated("revalidate") EXCEPT !.mode = "OBSERVE"] }

\* Answering, hanging, refusing and failing executors on both paths.
LivenessRequests == { MCRequest, [MCRequest EXCEPT !.executor = ConditionalExecutor] }

\* Calls without a retry: nothing declared, and a claim without a version.
NoRetryRequests == { Undeclared, [MCRequest EXCEPT !.observed = Observed(Null)] }

-----------------------------------------------------------------------------
(* Values of the other constants. *)

\* The invariants of a resource hold on its first two versions.
MCHolds == [r \in Refs |-> {0, 1}]

CallSymmetry == Permutations(Calls)
=============================================================================
