---------------------------- MODULE ExecuteAction ----------------------------
(***************************************************************************)
(* The enforcement boundary: concurrent execute() and executeApproved()    *)
(* calls over one store, the external executors they start, the reviewers  *)
(* who resolve escalations, and the world that moves meanwhile             *)
(* (src/application/execute-action.ts, validate-action.ts,                 *)
(* revalidate-action.ts, src/engine/dependency-evaluator.ts,               *)
(* src/sdk/firewall.ts and the stores).                                    *)
(*                                                                         *)
(* Every await is a point where other calls run.  An action below is one   *)
(* store operation, provider fetch or executor answer together with the    *)
(* code that runs from there to the next await.                            *)
(*                                                                         *)
(* A call without an actionId gets an identity no other call uses, which   *)
(* is the case of an action id that occurs in one request only.            *)
(***************************************************************************)
EXTENDS Decision, Sequences, FiniteSets

CONSTANTS
    Calls,          \* invocations of execute() and executeApproved()
    NoCall,         \* not a call
    ActionIds,      \* action identities, the keys of the store
    Refs,           \* external resources: one refKey each
    Operations,     \* tool, operation and target of an intent, taken together
    Arguments,      \* redacted, canonicalised arguments of an intent
    Requests,       \* what agents may submit: a subset of RequestType
    Holds,          \* for every ref, the versions on which its preconditions hold
    Backend,        \* "memory" or "sqlite"
    Reviewers,      \* people resolving escalations
    FetchMayFail,   \* whether provider fetches can fail
    MayCrash,       \* whether the process of a call can die
    KeptAlive,      \* the calls whose process something else keeps running
    StoreMayFail,   \* whether operations on the sqlite file can raise
    MaxVersion,     \* bound: the world mutates a resource up to this version
    MaxTime         \* bound: the clock stops here and stands for any later time

Stages == {"validated", "revalidated", "gate", "recheck", "condition_failed"}

Executors == [conditional : BOOLEAN, idempotent : BOOLEAN, writes : SUBSET Refs]

\* ResolvedPolicy with the risk resolved for the intent.  An undefined one (Configuration)
\* decides as MEDIUM does.
Policies == [outcomes : OutcomeTables, defaults : OutcomeTables, risk : Risks,
             freshness : FreshnessPolicies, deadline : Nat,
             require_fresh : BOOLEAN, require_conditional : BOOLEAN,
             on_conditional_unavailable : Outcomes, allow_idempotent_retry : BOOLEAN]

\* What an agent submits, and the mode of the firewall it submits it to.
RequestType == [action_id : ActionIds, via_approval : BOOLEAN,
                mode : Modes, operation : Operations, arguments : Arguments,
                dependencies : Seq(Refs), observed : [Refs -> Claims],
                executor : Executors, policy : Policies]

ASSUME ExecuteActionAssumption ==
    /\ NoCall \notin Calls
    /\ ActionIds # {}
    /\ Refs # {}
    /\ Requests \subseteq RequestType
    /\ \A q \in Requests : \A i, j \in 1..Len(q.dependencies) :
           q.dependencies[i] = q.dependencies[j] => i = j
    /\ Holds \in [Refs -> SUBSET Nat]
    /\ Backend \in {"memory", "sqlite"}
    /\ FetchMayFail \in BOOLEAN
    /\ MayCrash \in BOOLEAN
    /\ KeptAlive \subseteq Calls
    /\ Backend = "memory" => KeptAlive = Calls     \* its store ends with its process
    /\ StoreMayFail \in BOOLEAN
    /\ MaxVersion \in Nat
    /\ MaxTime \in Nat
    /\ DefaultMaxAge \in Nat

VARIABLES
    \* the calls
    pc,             \* where each call stands
    req,            \* what each call is asked to do
    local,          \* what each call holds in memory
    outcome,        \* how each call ended
    \* the store
    actions,        \* per action id, the call whose intent was recorded first
    decisions,      \* per call and stage, the persisted decision
    authorization,  \* per action id, the authorization record
    escalation,     \* per action id, the escalation record
    execution,      \* per call, the persisted execution result
    \* outside the firewall
    review,         \* what each reviewer is about to resolve
    executor,       \* the executor invoked by each call
    world,          \* the authoritative version of each resource
    clock,
    \* history
    atClaim         \* the world when a call's authorization was granted

calls   == <<pc, req, local, outcome>>
store   == <<actions, decisions, authorization, escalation, execution>>
outside == <<review, executor, world, clock>>
vars    == <<pc, req, local, outcome, actions, decisions, authorization, escalation,
             execution, review, executor, world, clock, atClaim>>

-----------------------------------------------------------------------------
(* Types. *)

Finished == {"done", "crashed"}

\* Between the claim and the consumption of the authorization.
Holding == {"recheck_fetch", "execute", "save_first", "consume_first", "consume_last"}

Steps == {"idle", "escalation_guard", "approval_guard", "authorization_guard", "propose",
          "fetch", "consumed_guard", "revalidate", "escalate", "gate", "gate_escalate",
          "claim", "save_last", "refetch"}
             \cup Holding \cup Finished

\* executed / not_executed are ExecutionOutcome.executed; the others are raised.
CallOutcomes == {"none", "executed", "not_executed", "replay", "expired",
                 "escalation_pending", "unauthorized", "storage_error"}

ExecutionResults == {"none", "success", "failed", "unknown", "condition_failed", "unavailable"}

ExecutorStates == {"idle", "running", "applied", "refused", "unavailable", "failed"}

StateIdentity == [Refs -> Optional(Nat)]

NothingFetched == [r \in Refs |-> Null]

Locals == [evaluated_at : Nat, cursor : Nat, fetched : StateIdentity,
           snapshots : StateIdentity, verdicts : UNION {[D -> Verdicts] : D \in SUBSET Refs},
           stage : Stages, started_at : Nat, result : ExecutionResults]

NoLocal == [evaluated_at |-> 0, cursor |-> 0, fetched |-> NothingFetched,
            snapshots |-> NothingFetched, verdicts |-> [r \in {} |-> Null],
            stage |-> "validated", started_at |-> 0, result |-> "none"]

\* A record names its decision by the call and the stage that made it.
Authorizations == [owner : Calls \cup {NoCall}, stage : Stages,
                   expires_at : Nat, consumed : BOOLEAN]

NoAuthorization == [owner |-> NoCall, stage |-> "validated", expires_at |-> 0, consumed |-> TRUE]

Escalations == [owner : Calls \cup {NoCall}, stage : Stages,
                status : {"NONE", "PENDING", "APPROVED", "REJECTED"}]

NoEscalation == [owner |-> NoCall, stage |-> "validated", status |-> "NONE"]

Reviews == [action_id : ActionIds, verdict : {"none", "APPROVED", "REJECTED", "given"}]

NoReview == [action_id |-> CHOOSE a \in ActionIds : TRUE, verdict |-> "none"]

TypeOK ==
    /\ pc \in [Calls -> Steps]
    /\ req \in [Calls -> Requests]
    /\ local \in [Calls -> Locals]
    /\ outcome \in [Calls -> CallOutcomes]
    /\ actions \in [ActionIds -> Calls \cup {NoCall}]
    /\ decisions \in [Calls -> [Stages -> Decisions \cup {"none"}]]
    /\ authorization \in [ActionIds -> Authorizations]
    /\ escalation \in [ActionIds -> Escalations]
    /\ execution \in [Calls -> ExecutionResults]
    /\ review \in [Reviewers -> Reviews]
    /\ executor \in [Calls -> ExecutorStates]
    /\ world \in [Refs -> Nat]
    /\ clock \in Nat
    /\ atClaim \in [Calls -> StateIdentity]

Init ==
    /\ pc = [c \in Calls |-> "idle"]
    /\ req \in [Calls -> Requests]
    /\ local = [c \in Calls |-> NoLocal]
    /\ outcome = [c \in Calls |-> "none"]
    /\ actions = [a \in ActionIds |-> NoCall]
    /\ decisions = [c \in Calls |-> [s \in Stages |-> "none"]]
    /\ authorization = [a \in ActionIds |-> NoAuthorization]
    /\ escalation = [a \in ActionIds |-> NoEscalation]
    /\ execution = [c \in Calls |-> "none"]
    /\ review = [v \in Reviewers |-> NoReview]
    /\ executor = [c \in Calls |-> "idle"]
    /\ world = [r \in Refs |-> 0]
    /\ clock = 0
    /\ atClaim = [c \in Calls |-> NothingFetched]

-----------------------------------------------------------------------------
(* What a call computes from its own data. *)

ActionOf(c) == req[c].action_id

Policy(c) == req[c].policy

DependenciesOf(c) ==
    {req[c].dependencies[i] : i \in 1..Len(req[c].dependencies)}

\* A snapshot carries the version; the content is determined by it.
SnapshotOf(version) ==
    [UnavailableCurrentState EXCEPT !.available = version # Null, !.version = version]

\* The verdicts of evaluateDependencies on what was fetched.
EvaluatedVerdicts(c) ==
    [r \in DependenciesOf(c) |->
        [staleness |-> EvaluateFreshness(req[c].observed[r], SnapshotOf(local[c].fetched[r]),
                                         Policy(c).freshness, local[c].fetched[r] \in Holds[r],
                                         local[c].evaluated_at),
         passed |-> local[c].fetched[r] \in Holds[r]]]

\* recomputeVerdictsFromCurrentState, on the fetches of the last evaluation.
RecomputedVerdicts(c) ==
    [r \in DependenciesOf(c) |->
        IF local[c].fetched[r] = Null THEN local[c].verdicts[r]
        ELSE [staleness |-> RecomputeFreshness(local[c].verdicts[r].staleness,
                                               SnapshotOf(local[c].fetched[r]),
                                               Policy(c).freshness,
                                               local[c].fetched[r] \in Holds[r],
                                               local[c].evaluated_at, clock),
              passed |-> local[c].fetched[r] \in Holds[r]]]

\* The decision recorded on a function of verdicts.
DecisionOn(c, verdicts, revalidated) ==
    Recorded(Decide({verdicts[r] : r \in DependenciesOf(c)}, Policy(c).outcomes,
                    Policy(c).defaults, Policy(c).risk, req[c].mode, revalidated),
             req[c].mode)

\* The executor can enforce an expected state, and there is one.
ConditionalExecutionAvailable(c) ==
    /\ req[c].executor.conditional
    /\ \E r \in DependenciesOf(c) : local[c].snapshots[r] # Null

\* Conditional execution is required but cannot be enforced.
GateCloses(c) ==
    /\ Policy(c).require_conditional
    /\ ~ConditionalExecutionAvailable(c)
    /\ ~req[c].via_approval

GateDecision(c) ==
    CASE Policy(c).on_conditional_unavailable = "revalidate" -> "REVALIDATE"
      [] Policy(c).on_conditional_unavailable = "escalate"   -> "ESCALATE"
      [] OTHER                                               -> "DENY"

\* Mutant: an escalated decision is admitted on either path.
MutantAdmitsEscalated(c, decision) == decision \in {"ALLOW", "ESCALATE"}

\* An approved escalation turns ESCALATE into ALLOW.
Admitted(c, decision) ==
    decision = "ALLOW" \/ (decision = "ESCALATE" /\ req[c].via_approval)

\* The fetched state identity differs from the authorized one.
FingerprintMismatch(c) == local[c].fetched # local[c].snapshots

NothingFetchedBy(c) == \A r \in DependenciesOf(c) : local[c].fetched[r] = Null

\* Store lookups.
Live(a) == authorization[a].owner # NoCall /\ ~authorization[a].consumed

\* Mutant: the guard looks for an authorization still in use.
MutantLooksForLive(a) == Live(a)

ConsumedBefore(a) == authorization[a].owner # NoCall /\ authorization[a].consumed

-----------------------------------------------------------------------------
(* Control shared by the steps of a call. *)

Goto(c, step) ==
    /\ pc' = [pc EXCEPT ![c] = step]
    /\ UNCHANGED <<req, outcome>>

Finish(c, result) ==
    /\ pc' = [pc EXCEPT ![c] = "done"]
    /\ outcome' = [outcome EXCEPT ![c] = result]
    /\ UNCHANGED req

\* evaluateDependencies takes the time once, before the first fetch.
StartEvaluation(c) ==
    [local[c] EXCEPT !.evaluated_at = clock, !.cursor = 1, !.fetched = NothingFetched]

\* buildDecisionRecord and saveDecision.
SaveDecision(c, stage, decision) ==
    decisions' = [decisions EXCEPT ![c][stage] = decision]

\* Where a recorded decision leads: nothing executes unless it is admitted.
Route(c, decision) ==
    \/ /\ Admitted(c, decision)
       /\ Goto(c, IF GateCloses(c) THEN "gate" ELSE "claim")
    \/ /\ decision = "ESCALATE"
       /\ ~req[c].via_approval
       /\ Goto(c, "escalate")
    \/ /\ decision \in {"DENY", "REVALIDATE"}
       /\ Finish(c, "not_executed")

-----------------------------------------------------------------------------
(* Guards that run before validation. *)

Submit(c) ==
    /\ pc[c] = "idle"
    /\ Goto(c, IF req[c].via_approval THEN "approval_guard" ELSE "escalation_guard")
    /\ UNCHANGED <<local, store, outside, atClaim>>

\* An action id with an escalation is held, reserved for executeApproved, or dead.
EscalationGuard(c) ==
    /\ pc[c] = "escalation_guard"
    /\ CASE escalation[ActionOf(c)].status = "NONE"     -> Goto(c, "authorization_guard")
         [] escalation[ActionOf(c)].status = "PENDING"  -> Finish(c, "escalation_pending")
         [] escalation[ActionOf(c)].status = "APPROVED" -> Finish(c, "unauthorized")
         [] escalation[ActionOf(c)].status = "REJECTED" -> Finish(c, "replay")
    /\ UNCHANGED <<local, store, outside, atClaim>>

\* Mutant: the operation is not compared.
MutantIgnoresOperation(c) ==
    /\ DependenciesOf(escalation[ActionOf(c)].owner) = DependenciesOf(c)
    /\ req[actions[ActionOf(c)]].arguments = req[c].arguments

\* The submitted intent must have the semantics of the escalated decision, and
\* the arguments of the action recorded first under the id.
SameSemantics(c) ==
    LET escalated == escalation[ActionOf(c)].owner
        recorded  == actions[ActionOf(c)]
    IN  /\ req[escalated].operation = req[c].operation
        /\ DependenciesOf(escalated) = DependenciesOf(c)
        /\ req[recorded].arguments = req[c].arguments

\* executeApprovedAction up to its call of executeAction.  The decision and the
\* action it reads after the escalation never change once they are stored, so
\* the three reads are one step.
ApprovalGuard(c) ==
    LET e == escalation[ActionOf(c)] IN
    /\ pc[c] = "approval_guard"
    /\ IF e.status # "APPROVED" THEN Finish(c, "replay")
       ELSE IF decisions[e.owner][e.stage] # "none" /\ SameSemantics(c)
       THEN Goto(c, "authorization_guard")
       ELSE Finish(c, "unauthorized")
    /\ UNCHANGED <<local, store, outside, atClaim>>

\* A live authorization refuses the call; an expired live one says so.
AuthorizationGuard(c) ==
    LET a == ActionOf(c) IN
    /\ pc[c] = "authorization_guard"
    /\ IF ~Live(a) THEN Goto(c, "propose")
       ELSE Finish(c, IF authorization[a].expires_at < clock THEN "expired" ELSE "replay")
    /\ UNCHANGED <<local, store, outside, atClaim>>

-----------------------------------------------------------------------------
(* Validation. *)

\* saveAction keeps the first intent recorded under the id.
Propose(c) ==
    LET a == ActionOf(c) IN
    /\ pc[c] = "propose"
    /\ actions' = [actions EXCEPT ![a] = IF actions[a] = NoCall THEN c ELSE actions[a]]
    /\ local' = [local EXCEPT ![c] = StartEvaluation(c)]
    /\ Goto(c, "fetch")
    /\ UNCHANGED <<decisions, authorization, escalation, execution, outside, atClaim>>

Fetching == {"fetch", "recheck_fetch", "refetch"}

Fetched(c) == local[c].cursor > Len(req[c].dependencies)

\* One provider fetch, of validation, of the recheck or after a refusal.  It
\* returns the current version or fails.
Fetch(c) ==
    LET r == req[c].dependencies[local[c].cursor] IN
    /\ pc[c] \in Fetching
    /\ ~Fetched(c)
    /\ \E version \in {world[r]} \cup (IF FetchMayFail THEN {Null} ELSE {}) :
           local' = [local EXCEPT ![c] = [local[c] EXCEPT !.fetched[r] = version, !.cursor = @ + 1]]
    /\ UNCHANGED <<pc, req, outcome, store, outside, atClaim>>

\* validateAction decides on what was fetched and persists the decision.
Validate(c) ==
    LET decision == DecisionOn(c, EvaluatedVerdicts(c), FALSE) IN
    /\ pc[c] = "fetch"
    /\ Fetched(c)
    /\ SaveDecision(c, "validated", decision)
    /\ local' = [local EXCEPT ![c] =
                    [local[c] EXCEPT !.snapshots = local[c].fetched,
                                     !.verdicts = EvaluatedVerdicts(c),
                                     !.stage = "validated"]]
    /\ Goto(c, "consumed_guard")
    /\ UNCHANGED <<actions, authorization, escalation, execution, outside, atClaim>>

RetryAllowed(c) == Policy(c).allow_idempotent_retry /\ req[c].executor.idempotent

\* A consumed authorization refuses the call unless the retry is idempotent.
\* A live one is left to the claim.
ConsumedGuard(c) ==
    LET decision == decisions[c]["validated"] IN
    /\ pc[c] = "consumed_guard"
    /\ \/ /\ ConsumedBefore(ActionOf(c)) /\ ~RetryAllowed(c)
          /\ Finish(c, "replay")
       \/ /\ ~ConsumedBefore(ActionOf(c)) \/ RetryAllowed(c)
          /\ IF decision = "REVALIDATE" THEN Goto(c, "revalidate") ELSE Route(c, decision)
    /\ UNCHANGED <<local, store, outside, atClaim>>

\* The REVALIDATE flow: no new fetch, the fetched state becomes the basis.
Revalidate(c) ==
    LET decision == DecisionOn(c, RecomputedVerdicts(c), TRUE) IN
    /\ pc[c] = "revalidate"
    /\ SaveDecision(c, "revalidated", decision)
    /\ local' = [local EXCEPT ![c] =
                    [local[c] EXCEPT !.verdicts = RecomputedVerdicts(c), !.stage = "revalidated"]]
    /\ Route(c, decision)
    /\ UNCHANGED <<actions, authorization, escalation, execution, outside, atClaim>>

-----------------------------------------------------------------------------
(* Escalation and the gate of conditional execution. *)

\* Mutant: every backend overwrites.
MutantOverwritesEscalation(c, stage) ==
    /\ escalation' = [escalation EXCEPT ![ActionOf(c)] =
                         [owner |-> c, stage |-> stage, status |-> "PENDING"]]
    /\ Finish(c, "not_executed")

\* saveEscalation: the memory store overwrites, the sqlite store has a primary
\* key on the action id and raises StorageError.
SaveEscalation(c, stage) ==
    LET a == ActionOf(c) IN
    IF Backend = "sqlite" /\ escalation[a].status # "NONE"
    THEN /\ Finish(c, "storage_error")
         /\ UNCHANGED escalation
    ELSE /\ escalation' = [escalation EXCEPT ![a] =
                             [owner |-> c, stage |-> stage, status |-> "PENDING"]]
         /\ Finish(c, "not_executed")

Escalate(c) ==
    /\ pc[c] = "escalate"
    /\ SaveEscalation(c, local[c].stage)
    /\ UNCHANGED <<local, actions, decisions, authorization, execution, outside, atClaim>>

\* The policy requires a condition nobody can enforce.  OBSERVE records it and
\* goes on; the authorization then still cites the admitting decision.
Gate(c) ==
    /\ pc[c] = "gate"
    /\ SaveDecision(c, "gate", Recorded(GateDecision(c), req[c].mode))
    /\ IF req[c].mode = "OBSERVE" THEN Goto(c, "claim")
       ELSE IF GateDecision(c) = "ESCALATE" THEN Goto(c, "gate_escalate")
       ELSE Finish(c, "not_executed")
    /\ UNCHANGED <<local, actions, authorization, escalation, execution, outside, atClaim>>

\* Mutant: the escalation cites the validated decision.
MutantCitesValidation(c) ==
    /\ pc[c] = "gate_escalate"
    /\ SaveEscalation(c, local[c].stage)
    /\ UNCHANGED <<local, actions, decisions, authorization, execution, outside, atClaim>>

GateEscalate(c) ==
    /\ pc[c] = "gate_escalate"
    /\ SaveEscalation(c, "gate")
    /\ UNCHANGED <<local, actions, decisions, authorization, execution, outside, atClaim>>

-----------------------------------------------------------------------------
(* Authorization, recheck and execution. *)

\* The executor is invoked and the deadline timer set.
StartExecutor(c) == executor' = [executor EXCEPT ![c] = "running"]

\* The legacy path re-verifies the state before the effect, if the policy says so.
RecheckNeeded(c) == ~ConditionalExecutionAvailable(c) /\ Policy(c).require_fresh

\* Mutant: the claim replaces a live authorization.
MutantClaimsUnchecked(a) == a \in ActionIds

\* Mutant: the claim replaces an expired live authorization.
MutantClaimsExpired(a) == ~Live(a) \/ authorization[a].expires_at < clock

\* claimAuthorization refuses iff an unconsumed authorization exists, expired or
\* not.
Claimable(a) == ~Live(a)

Claim(c) ==
    LET a == ActionOf(c) IN
    /\ pc[c] = "claim"
    /\ \/ /\ ~Claimable(a)
          /\ Finish(c, "replay")
          /\ UNCHANGED <<local, authorization, executor, atClaim>>
       \/ /\ Claimable(a)
          /\ authorization' = [authorization EXCEPT ![a] =
                 [owner |-> c, stage |-> local[c].stage,
                  expires_at |-> clock + Policy(c).deadline, consumed |-> FALSE]]
          /\ atClaim' = [atClaim EXCEPT ![c] = world]
          /\ \/ /\ RecheckNeeded(c)
                /\ local' = [local EXCEPT ![c] = StartEvaluation(c)]
                /\ Goto(c, "recheck_fetch")
                /\ UNCHANGED executor
             \/ /\ ~RecheckNeeded(c)
                /\ local' = [local EXCEPT ![c].started_at = clock]
                /\ Goto(c, "execute")
                /\ StartExecutor(c)
    /\ UNCHANGED <<actions, decisions, escalation, execution, review, world, clock>>

\* Mutant: the recheck compares nothing.
MutantRechecksAvailability(c) == DependenciesOf(c) # {} /\ NothingFetchedBy(c)

RecheckFails(c) ==
    /\ DependenciesOf(c) # {}
    /\ NothingFetchedBy(c) \/ FingerprintMismatch(c)

\* The verdict of the recheck: a second decision record and an authorization
\* left live, or the start of the executor.
Recheck(c) ==
    /\ pc[c] = "recheck_fetch"
    /\ Fetched(c)
    /\ \/ /\ RecheckFails(c)
          /\ SaveDecision(c, "recheck", "DENY")
          /\ Finish(c, "not_executed")
          /\ UNCHANGED <<local, executor>>
       \/ /\ ~RecheckFails(c)
          /\ local' = [local EXCEPT ![c].started_at = clock]
          /\ Goto(c, "execute")
          /\ StartExecutor(c)
          /\ UNCHANGED decisions
    /\ UNCHANGED <<actions, authorization, escalation, execution, review, world, clock, atClaim>>

\* The outcome of the executor is known to the call, which settles it: with an
\* answer the authorization is consumed first, after an error the result is.
Settle(c, result, step) ==
    /\ local' = [local EXCEPT ![c].result = result]
    /\ Goto(c, step)
    /\ UNCHANGED <<store, outside, atClaim>>

ExecutorSucceeds(c) ==
    /\ pc[c] = "execute"
    /\ executor[c] = "applied"
    /\ Settle(c, "success", "consume_first")

\* A clean failure: reported in the result, or raised by a legacy executor.
ExecutorReportsFailure(c) ==
    /\ pc[c] = "execute"
    /\ executor[c] = "failed"
    /\ \/ Settle(c, "failed", "consume_first")
       \/ /\ ~ConditionalExecutionAvailable(c)
          /\ Settle(c, "failed", "save_first")

\* The external system refused, or could not enforce, the authorized state.
ConditionRefused(c) ==
    /\ pc[c] = "execute"
    /\ \/ executor[c] = "refused" /\ Settle(c, "condition_failed", "save_first")
       \/ executor[c] = "unavailable" /\ Settle(c, "unavailable", "save_first")

\* A conditional operation that raises leaves its outcome unknown.
ConditionalFault(c) ==
    /\ pc[c] = "execute"
    /\ ConditionalExecutionAvailable(c)
    /\ Settle(c, "unknown", "save_first")

\* Mutant: a deadline is reported as a clean failure.
MutantReportsTimeoutAsFailure(c) ==
    /\ pc[c] = "execute"
    /\ clock >= local[c].started_at + Policy(c).deadline \/ clock = MaxTime
    /\ Settle(c, "failed", "save_first")

\* Mutant: conditional executions have no deadline.
MutantWaitsForCondition(c) ==
    /\ pc[c] = "execute"
    /\ ~ConditionalExecutionAvailable(c)
    /\ clock >= local[c].started_at + Policy(c).deadline \/ clock = MaxTime
    /\ Settle(c, "unknown", "save_first")

\* The deadline wins the race; the executor is not stopped.  The timer is unref'd: it
\* fires only if the process is still there (MayExit).
DeadlineReached(c) ==
    LET deadline == local[c].started_at + Policy(c).deadline IN
    /\ pc[c] = "execute"
    /\ clock >= deadline \/ clock = MaxTime
    /\ Settle(c, "unknown", "save_first")

\* Mutant: an errored execution is not consumed.
MutantLeavesAuthorizationLive(c) ==
    /\ pc[c] \in {"save_first", "save_last"}
    /\ execution' = [execution EXCEPT ![c] = local[c].result]
    /\ Finish(c, "executed")
    /\ UNCHANGED <<local, actions, decisions, authorization, escalation, outside, atClaim>>

\* Mutant: unknown outcomes are not recorded.
MutantSkipsUnknownResult(c) ==
    /\ pc[c] \in {"save_first", "save_last"}
    /\ execution' = [execution EXCEPT ![c] =
                         IF local[c].result = "unknown" THEN @ ELSE local[c].result]
    /\ IF pc[c] = "save_first" THEN Goto(c, "consume_last") ELSE Finish(c, "executed")
    /\ UNCHANGED <<local, actions, decisions, authorization, escalation, outside, atClaim>>

SaveExecution(c) ==
    /\ pc[c] \in {"save_first", "save_last"}
    /\ execution' = [execution EXCEPT ![c] = local[c].result]
    /\ IF pc[c] = "save_first" THEN Goto(c, "consume_last") ELSE Finish(c, "executed")
    /\ UNCHANGED <<local, actions, decisions, authorization, escalation, outside, atClaim>>

\* Mutant: an unknown outcome counts as not executed.
MutantHidesUnknown(result) == result \in {"unavailable", "unknown"}

\* The results after which the caller hears that nothing was executed.
FailedClosed(result) == result = "unavailable"

\* consumeAuthorization marks whatever authorization the action id has.
Consume(c) ==
    LET a == ActionOf(c) IN
    /\ pc[c] \in {"consume_first", "consume_last"}
    /\ authorization' = [authorization EXCEPT ![a].consumed = TRUE]
    /\ \/ /\ pc[c] = "consume_first"
          /\ Goto(c, "save_last")
          /\ UNCHANGED local
       \/ /\ pc[c] = "consume_last" /\ local[c].result = "condition_failed"
          /\ Goto(c, "refetch")
          /\ local' = [local EXCEPT ![c] = StartEvaluation(c)]
       \/ /\ pc[c] = "consume_last" /\ local[c].result # "condition_failed"
          /\ Finish(c, IF FailedClosed(local[c].result) THEN "not_executed" ELSE "executed")
          /\ UNCHANGED local
    /\ UNCHANGED <<actions, decisions, escalation, execution, outside, atClaim>>

\* After a refusal: a new decision on the current state, and nothing executes.
Reassess(c) ==
    /\ pc[c] = "refetch"
    /\ Fetched(c)
    /\ SaveDecision(c, "condition_failed", DecisionOn(c, RecomputedVerdicts(c), TRUE))
    /\ Finish(c, "not_executed")
    /\ UNCHANGED <<local, actions, authorization, escalation, execution, outside, atClaim>>

-----------------------------------------------------------------------------
(* External executors.  Once invoked they run on their own: a deadline or a *)
(* crash of the caller does not stop them.                                  *)

Written(c) == req[c].executor.writes

\* The condition covers the refs the effect writes, and only those.
Enforceable(c) == \A r \in Written(c) : r \in DependenciesOf(c) /\ local[c].snapshots[r] # Null

ConditionHolds(c) == \A r \in Written(c) : world[r] = local[c].snapshots[r]

AnswerOf(c, answer) ==
    /\ executor' = [executor EXCEPT ![c] = answer]
    /\ UNCHANGED <<calls, store, review, clock, atClaim>>

\* The effect: at once, and for a conditional executor only if the condition holds.
ExecutorApplies(c) ==
    /\ executor[c] = "running"
    /\ ConditionalExecutionAvailable(c) => Enforceable(c) /\ ConditionHolds(c)
    /\ world' = [r \in Refs |-> IF r \in Written(c) THEN world[r] + 1 ELSE world[r]]
    /\ AnswerOf(c, "applied")

ExecutorRefuses(c) ==
    /\ executor[c] = "running"
    /\ ConditionalExecutionAvailable(c)
    /\ \/ ~Enforceable(c) /\ AnswerOf(c, "unavailable")
       \/ Enforceable(c) /\ ~ConditionHolds(c) /\ AnswerOf(c, "refused")
    /\ UNCHANGED world

\* A clean failure has no effect.
ExecutorFails(c) ==
    /\ executor[c] = "running"
    /\ ConditionalExecutionAvailable(c) => Enforceable(c) /\ ConditionHolds(c)
    /\ AnswerOf(c, "failed")
    /\ UNCHANGED world

-----------------------------------------------------------------------------
(* Reviewers, the world, the clock and crashes. *)

\* resolveEscalation reads the escalation, and checks it is pending ...
ReadEscalation(v) ==
    /\ review[v].verdict = "none"
    /\ \E a \in ActionIds, verdict \in {"APPROVED", "REJECTED"} :
           /\ escalation[a].status = "PENDING"
           /\ review' = [review EXCEPT ![v] = [action_id |-> a, verdict |-> verdict]]
    /\ UNCHANGED <<calls, store, executor, world, clock, atClaim>>

\* ... and then updates it, unconditionally.
ResolveEscalation(v) ==
    LET a == review[v].action_id IN
    /\ review[v].verdict \in {"APPROVED", "REJECTED"}
    /\ escalation' = [escalation EXCEPT ![a].status = review[v].verdict]
    /\ review' = [review EXCEPT ![v].verdict = "given"]
    /\ UNCHANGED <<calls, actions, decisions, authorization, execution,
                   executor, world, clock, atClaim>>

Mutate(r) ==
    /\ world[r] < MaxVersion
    /\ world' = [world EXCEPT ![r] = @ + 1]
    /\ UNCHANGED <<calls, store, review, executor, clock, atClaim>>

Tick ==
    /\ clock < MaxTime
    /\ clock' = clock + 1
    /\ UNCHANGED <<calls, store, review, executor, world, atClaim>>

\* A call that awaits its executor holds nothing that keeps its process: where the
\* executor holds nothing either, node exits before the unref'd timer of the deadline.
MayExit(c) == c \notin KeptAlive /\ pc[c] = "execute"

\* The process of a call dies, or exits with the call unfinished; the shared sqlite
\* file and the external executor survive it.
Crash(c) ==
    /\ MayCrash \/ MayExit(c)
    /\ Backend = "sqlite"
    /\ pc[c] \notin Finished \cup {"idle"}
    /\ pc' = [pc EXCEPT ![c] = "crashed"]
    /\ UNCHANGED <<req, local, outcome, store, outside, atClaim>>

\* The steps of a call that read or write the store, at the time they do: an
\* evaluation saves its snapshots after its last fetch.
UsesStore(c) ==
    /\ pc[c] \notin Finished \cup {"idle", "execute"}
    /\ pc[c] \in Fetching => Fetched(c)
    /\ pc[c] = "recheck_fetch" => DependenciesOf(c) # {}

\* An operation on the shared file raises, and nothing catches it: the call ends where
\* it stands, and what it stored before stays.
StoreFails(c) ==
    /\ StoreMayFail
    /\ Backend = "sqlite"
    /\ UsesStore(c)
    /\ Finish(c, "storage_error")
    /\ UNCHANGED <<local, store, outside, atClaim>>

Guards(c) ==
    Submit(c) \/ EscalationGuard(c) \/ ApprovalGuard(c) \/ AuthorizationGuard(c)

Validation(c) ==
    Propose(c) \/ Fetch(c) \/ Validate(c) \/ ConsumedGuard(c) \/ Revalidate(c)

Authorizing(c) ==
    Escalate(c) \/ Gate(c) \/ GateEscalate(c) \/ Claim(c) \/ Recheck(c)

\* What reaches the call from its executor; it may never come.
Answer(c) ==
    ExecutorSucceeds(c) \/ ExecutorReportsFailure(c) \/ ConditionRefused(c) \/ ConditionalFault(c)

Settlement(c) == DeadlineReached(c) \/ SaveExecution(c) \/ Consume(c) \/ Reassess(c)

CallStep(c) == Guards(c) \/ Validation(c) \/ Authorizing(c) \/ Answer(c) \/ Settlement(c)

ExecutorStep(c) == ExecutorApplies(c) \/ ExecutorRefuses(c) \/ ExecutorFails(c)

ReviewStep(v) == ReadEscalation(v) \/ ResolveEscalation(v)

\* Every call has ended; nothing more needs to happen.
Terminated == (\A c \in Calls : pc[c] \in Finished) /\ UNCHANGED vars

Next ==
    \/ \E c \in Calls : CallStep(c) \/ ExecutorStep(c) \/ Crash(c) \/ StoreFails(c)
    \/ \E v \in Reviewers : ReviewStep(v)
    \/ \E r \in Refs : Mutate(r)
    \/ Tick
    \/ Terminated

Spec == Init /\ [][Next]_vars

\* The steps of a submitted call that the runtime owes it, the exit of its process
\* among them: where that is possible the deadline is not promised to be reached.
Owed(c) ==
    /\ pc[c] # "idle"
    /\ \/ Guards(c) \/ Validation(c) \/ Authorizing(c) \/ Settlement(c)
       \/ MayExit(c) /\ Crash(c)

\* The event loop runs every continuation while its process lives, stores answer,
\* fetches resolve or time out, and real time passes.  Nothing is assumed of
\* executors, reviewers and agents.
FairSpec == Spec /\ WF_vars(Tick) /\ \A c \in Calls : WF_vars(Owed(c))

-----------------------------------------------------------------------------
(* Properties: the single-use gate. *)

InFlight(c) == pc[c] \in Holding

Started(c) == executor[c] # "idle"

\* A call between its claim and its consumption owns the live authorization of
\* its action id.
HolderOwnsAuthorization ==
    \A c \in Calls : InFlight(c) =>
        authorization[ActionOf(c)].owner = c /\ Live(ActionOf(c))

\* However many calls race on one action id, at most one of them is between a
\* successful claim and the consumption of the authorization.
SingleInFlight ==
    \A c, d \in Calls :
        (InFlight(c) /\ InFlight(d) /\ ActionOf(c) = ActionOf(d)) => c = d

\* An executor is only ever invoked while its call owns the live authorization.
ExecutorStartsUnderOwnAuthorization ==
    [][ \A c \in Calls : (~Started(c) /\ Started(c)') =>
            authorization'[ActionOf(c)].owner = c /\ ~authorization'[ActionOf(c)].consumed ]_vars

\* A call not yet submitted whose action id was executed, with no other call of
\* the id under way but those that ran its executor, and none that may retry.
Replays(c) ==
    /\ pc[c] = "idle"
    /\ \E d \in Calls : Started(d) /\ ActionOf(d) = ActionOf(c)
    /\ \A d \in Calls : ActionOf(d) = ActionOf(c) =>
           /\ Started(d) \/ pc[d] = "idle" \/ pc[d] \in Finished
           /\ ~RetryAllowed(d)

\* A call submitted when the executor of its action id has been invoked, and no
\* other call of the id is still on its way there, never invokes its own: not
\* while the first one runs, and not after it was settled, whatever its result.
ReplayNeverExecutes == \A c \in Calls : [](Replays(c) => [](~Started(c)))

\* An attempt that ended without consuming its authorization, because its recheck
\* denied, a store operation failed or its process died, freezes its action id for good:
\* whether or not the effect happened, no later call replaces or consumes it.
UnsettledAttemptFreezes ==
    [][ \A a \in ActionIds : (Live(a) /\ pc[authorization[a].owner] \in Finished) =>
            authorization'[a] = authorization[a] ]_vars

\* A call that ran an executor to its end leaves no live authorization behind
\* and its result is on record, whichever of the two was written first, unless it
\* told its caller that the store failed.
FinishedExecutionIsSettled ==
    \A c \in Calls : (pc[c] = "done" /\ Started(c) /\ outcome[c] # "storage_error") =>
        /\ execution[c] # "none"
        /\ ~(authorization[ActionOf(c)].owner = c /\ Live(ActionOf(c)))

\* The calls implement the single-use gate: a call's authorization was granted
\* once it recorded the world at its claim.
SingleUse == INSTANCE AuthorizationGate WITH
    holder    <- [a \in ActionIds |-> IF Live(a) THEN authorization[a].owner ELSE NoCall],
    claimants <- {c \in Calls : atClaim[c] # NothingFetched},
    started   <- {c \in Calls : executor[c] # "idle"},
    applied   <- {c \in Calls : executor[c] = "applied"}

\* Whatever calls, executors, reviewers and crashes do, the exclusive grant of
\* claimAuthorization and its release by consumeAuthorization hold together.
ImplementsGate == SingleUse!Spec

-----------------------------------------------------------------------------
(* Properties: what records and answers promise. *)

\* executed: false, and every error of the firewall itself, mean that no effect happened
\* and that none will: no executor of the call has applied or is still running.  An error
\* of the store says nothing.
NotExecutedMeansNoEffect ==
    \A c \in Calls : outcome[c] \notin {"none", "executed", "storage_error"} =>
        executor[c] \notin {"running", "applied"}

\* A result recorded without "side effect possible" is final: a refused or
\* failed execution has no executor that could still apply its effect.
RecordedResultIsTrue ==
    \A c \in Calls :
        /\ execution[c] = "success" => executor[c] = "applied"
        /\ execution[c] \in {"failed", "condition_failed", "unavailable"} =>
               executor[c] \notin {"running", "applied"}

\* Every authorization cites a decision that is persisted and that admitted its
\* call: ALLOW, or ESCALATE for a call on the approved path.
AuthorizationCitesAdmission ==
    \A a \in ActionIds : authorization[a].owner # NoCall =>
        LET c == authorization[a].owner
            decision == decisions[c][authorization[a].stage]
        IN  decision = "ALLOW" \/ (decision = "ESCALATE" /\ req[c].via_approval)

\* Every escalation cites a persisted ESCALATE decision of the same action id.
EscalationCitesDecision ==
    \A a \in ActionIds : escalation[a].status # "NONE" =>
        LET c == escalation[a].owner
        IN  ActionOf(c) = a /\ decisions[c][escalation[a].stage] = "ESCALATE"

-----------------------------------------------------------------------------
(* Properties: state drift. *)

\* On the best-effort path, a change between validation and the claim is always
\* caught: the executor is invoked only if every validated version was still
\* current when the authorization was granted.
DriftBeforeClaimNeverExecutes ==
    \A c \in Calls : (Started(c) /\ RecheckNeeded(c)) =>
        \A r \in DependenciesOf(c) :
            local[c].snapshots[r] = Null \/ local[c].snapshots[r] = atClaim[c][r]

\* Policies under which a refuted claim is denied outright.
DeniesRefutedClaims(c) ==
    /\ req[c].mode # "OBSERVE"
    /\ OutcomeFor(Policy(c).outcomes, Policy(c).defaults, "invalid", Policy(c).risk) = "deny"

\* A claim dated in the future is never refuted: no verdict on it can be trusted.
FutureDated(c, r) ==
    FutureStamp(req[c].observed[r], local[c].evaluated_at, Policy(c).freshness.skew)

\* Where refuted claims are denied, an effect conditioned on the written refs
\* lands on exactly the versions the agent declared for them, unless it declared
\* them from the future, whatever happened between validation, claim and effect.
EffectLandsOnDeclaredVersion ==
    [][ \A c \in Calls :
            (/\ executor[c] = "running" /\ executor'[c] = "applied"
             /\ ConditionalExecutionAvailable(c) /\ DeniesRefutedClaims(c)) =>
            \A r \in Written(c) :
                req[c].observed[r].version \in {Null, world[r]} \/ FutureDated(c, r) ]_vars

-----------------------------------------------------------------------------
(* Properties: escalation. *)

\* An approved-path executor runs only for an action id whose escalation stands
\* approved, and only for the operation and dependencies that were escalated.
ApprovalCoversExecution ==
    \A c \in Calls : (Started(c) /\ req[c].via_approval) =>
        LET e == escalation[ActionOf(c)]
        IN  /\ e.status = "APPROVED"
            /\ req[e.owner].operation = req[c].operation
            /\ DependenciesOf(e.owner) = DependenciesOf(c)

\* A resolution is final: an approved or rejected escalation never changes.
ResolutionIsFinal ==
    [][ \A a \in ActionIds : escalation[a].status \in {"APPROVED", "REJECTED"} =>
            escalation'[a] = escalation[a] ]_vars

-----------------------------------------------------------------------------
(* Liveness, under FairSpec and without crashes. *)

\* The process of c ended while c awaited its executor.
ExitedEarly(c) == pc[c] = "crashed" /\ Started(c) /\ c \notin KeptAlive

\* Every submitted call ends, even when its executor never answers, unless its process
\* has nothing left to do but to wait for that executor, and exits.
EveryCallEnds == \A c \in Calls : pc[c] # "idle" ~> (pc[c] = "done" \/ ExitedEarly(c))

\* Every invocation of an executor ends up in a persisted execution record or in an
\* error of the store that the caller is told, unless its process exits while waiting:
\* only then is an effect left without a record and without an answer.
EveryExecutionIsRecorded ==
    \A c \in Calls : Started(c) ~>
        (execution[c] # "none" \/ outcome[c] = "storage_error" \/ ExitedEarly(c))

-----------------------------------------------------------------------------
(* Statements of the documentation that the code does not keep. *)

\* docs/limitations.md: "two concurrent executions of one action id cannot both
\* pass, even when both reach the gate before either lands".
AtMostOneExecution ==
    \A c, d \in Calls :
        (Started(c) /\ Started(d) /\ ActionOf(c) = ActionOf(d)) => c = d

=============================================================================
