------------------------- MODULE ExecuteActionProofs -------------------------
(***************************************************************************)
(* Theorems about ExecuteAction, for any number of calls, action ids and   *)
(* resources, any requests, modes, stores and reviewers, and any bounds:   *)
(*   - its type invariant (Typed);                                         *)
(*   - the single-use gate and its refinement of AuthorizationGate         *)
(*     (GateInv);                                                          *)
(*   - the records: results, outcomes and releases (RecordInv);            *)
(*   - what authorizations and escalations cite (CiteInv);                 *)
(*   - drift before the claim (DriftInv) and effects that land on what was *)
(*     declared (RefuteInv);                                               *)
(*   - approvals (ApprovalInv) and replays (GrantInv, Doomed).             *)
(* Each invariant is a conjunction of named parts over one call, one       *)
(* action id or one reviewer.  A step is taken for one call, or by its     *)
(* surroundings (NextSteps), and leaves every other call alone             *)
(* (OthersKeep): what remains of an inductive step is about that one call. *)
(***************************************************************************)
EXTENDS ExecuteAction, DecisionLemmas

-----------------------------------------------------------------------------
(* Requests and the values computed from them. *)

\* The parts of a request have the types of RequestType.
LEMMA RequestFacts ==
    ASSUME TypeOK, NEW c \in Calls
    PROVE  /\ ActionOf(c) \in ActionIds
           /\ req[c].dependencies \in Seq(Refs)
           /\ DependenciesOf(c) \subseteq Refs
           /\ req[c].observed \in [Refs -> Claims]
           /\ Policy(c).outcomes \in OutcomeTables
           /\ Policy(c).defaults \in OutcomeTables
           /\ Policy(c).freshness \in FreshnessPolicies
           /\ Policy(c).deadline \in Nat
<1>1. req[c] \in RequestType
  BY ExecuteActionAssumption DEF TypeOK
<1>2. req[c].policy \in Policies /\ req[c].dependencies \in Seq(Refs)
  BY <1>1 DEF RequestType
<1> QED
  BY <1>1, <1>2 DEF RequestType, Policies, ActionOf, Policy, DependenciesOf

\* Evaluation gives every dependency a verdict.
LEMMA EvaluatedVerdictsType ==
    ASSUME TypeOK, NEW c \in Calls
    PROVE  EvaluatedVerdicts(c) \in [DependenciesOf(c) -> Verdicts]
<1>1. ASSUME NEW r \in DependenciesOf(c), NEW passed
      PROVE  EvaluateFreshness(req[c].observed[r], SnapshotOf(local[c].fetched[r]),
                               Policy(c).freshness, passed, local[c].evaluated_at) \in Classes
  BY RequestFacts, EvaluateFreshnessType
<1> QED
  BY <1>1 DEF EvaluatedVerdicts, Verdicts

\* Recomputation gives every dependency a verdict if it had one.
LEMMA RecomputedVerdictsType ==
    ASSUME TypeOK, NEW c \in Calls,
           local[c].verdicts \in [DependenciesOf(c) -> Verdicts]
    PROVE  RecomputedVerdicts(c) \in [DependenciesOf(c) -> Verdicts]
<1>1. ASSUME NEW r \in DependenciesOf(c), NEW passed
      PROVE  RecomputeFreshness(local[c].verdicts[r].staleness, SnapshotOf(local[c].fetched[r]),
                                Policy(c).freshness, passed, local[c].evaluated_at, clock)
                 \in Classes
  <2>1. local[c].verdicts[r].staleness \in Classes
    BY DEF Verdicts
  <2> QED
    BY <2>1, RequestFacts, RecomputeFreshnessType
<1> QED
  BY <1>1 DEF RecomputedVerdicts, Verdicts

\* Every recorded decision is one of the four.
LEMMA DecisionOnType ==
    ASSUME TypeOK, NEW c \in Calls, NEW verdicts, NEW revalidated
    PROVE  DecisionOn(c, verdicts, revalidated) \in Decisions
<1>1. Decide({verdicts[r] : r \in DependenciesOf(c)}, Policy(c).outcomes,
             Policy(c).defaults, Policy(c).risk, req[c].mode, revalidated) \in Decisions
  BY RequestFacts, DecideType
<1> QED
  BY <1>1 DEF DecisionOn, Recorded, Decisions

-----------------------------------------------------------------------------
(* The type invariant needs to know how far an evaluation has come. *)

Undecided == {"idle", "escalation_guard", "approval_guard", "authorization_guard",
              "propose", "fetch", "crashed", "done"}

\* Once a call has validated, every dependency has a verdict.
VerdictsKnown ==
    \A c \in Calls : pc[c] \notin Undecided =>
        local[c].verdicts \in [DependenciesOf(c) -> Verdicts]

\* A fetching call points at one of its dependencies, or past the last one.
CursorPositive == \A c \in Calls : pc[c] \in Fetching => local[c].cursor # 0

Typed == TypeOK /\ VerdictsKnown /\ CursorPositive

\* The memory of a call that has not begun is well-typed.
LEMMA NoLocalType == NoLocal \in Locals
<1>1. [r \in {} |-> Null] \in [{} -> Verdicts]
  OBVIOUS
<1>2. [r \in {} |-> Null] \in UNION {[D -> Verdicts] : D \in SUBSET Refs}
  BY <1>1
<1> QED
  BY <1>2 DEF NoLocal, Locals, NothingFetched, StateIdentity, Optional, Stages, ExecutionResults

\* The inductive type invariant holds initially.
LEMMA TypedInit == Init => Typed
<1> SUFFICES ASSUME Init PROVE Typed
  OBVIOUS
<1>1. local \in [Calls -> Locals]
  BY NoLocalType DEF Init
<1>2. review \in [Reviewers -> Reviews]
  BY ExecuteActionAssumption DEF Init, NoReview, Reviews
<1>3. atClaim \in [Calls -> StateIdentity]
  BY DEF Init, NothingFetched, StateIdentity, Optional
<1>4. TypeOK
  BY <1>1, <1>2, <1>3 DEF Init, TypeOK, Steps, CallOutcomes, Authorizations, NoAuthorization,
     Escalations, NoEscalation, Stages, ExecutionResults, ExecutorStates
<1>5. VerdictsKnown /\ CursorPositive
  BY DEF Init, VerdictsKnown, CursorPositive, Undecided, Fetching
<1> QED
  BY <1>4, <1>5 DEF Typed

-----------------------------------------------------------------------------
(* Moves of a call: what the control part of an action does to the types. *)

\* Call c goes to a step, its memory becomes l, and the step finds in it what
\* it needs.
Moves(c, step, l) ==
    /\ step \in Steps
    /\ l \in Locals
    /\ step \notin Undecided => l.verdicts \in [DependenciesOf(c) -> Verdicts]
    /\ step \in Fetching => l.cursor # 0
    /\ pc' = [pc EXCEPT ![c] = step]
    /\ req' = req
    /\ local' = [local EXCEPT ![c] = l]
    /\ outcome' \in [Calls -> CallOutcomes]

\* The part of Typed that is about the calls.
CallsTyped ==
    /\ pc \in [Calls -> Steps]
    /\ req \in [Calls -> Requests]
    /\ local \in [Calls -> Locals]
    /\ outcome \in [Calls -> CallOutcomes]
    /\ VerdictsKnown
    /\ CursorPositive

\* A move of one call keeps the types of all calls.
LEMMA MovesType ==
    ASSUME Typed, NEW c \in Calls, NEW step, NEW l, Moves(c, step, l)
    PROVE  CallsTyped'
<1>1. /\ pc' \in [Calls -> Steps] /\ req' \in [Calls -> Requests]
      /\ local' \in [Calls -> Locals] /\ outcome' \in [Calls -> CallOutcomes]
  BY DEF Typed, TypeOK, Moves
<1>2. \A d \in Calls : DependenciesOf(d)' = DependenciesOf(d)
  BY DEF DependenciesOf, Moves
<1>3. VerdictsKnown'
  <2> SUFFICES ASSUME NEW d \in Calls, (pc[d] \notin Undecided)'
               PROVE  local'[d].verdicts \in [DependenciesOf(d) -> Verdicts]
    BY <1>2 DEF VerdictsKnown
  <2>1. CASE d = c
    BY <2>1 DEF Typed, TypeOK, Moves
  <2>2. CASE d # c
    BY <2>2 DEF Typed, TypeOK, VerdictsKnown, Moves
  <2> QED
    BY <2>1, <2>2
<1>4. CursorPositive'
  BY DEF Typed, TypeOK, CursorPositive, Moves
<1> QED
  BY <1>1, <1>3, <1>4 DEF CallsTyped

\* A call that stays within known verdicts, or leaves for good, may keep its memory.
LEMMA KeepsMemory ==
    ASSUME Typed, NEW c \in Calls, NEW step \in Steps \ Fetching,
           pc[c] \notin Undecided \/ step \in Undecided,
           pc' = [pc EXCEPT ![c] = step], req' = req, local' = local,
           outcome' \in [Calls -> CallOutcomes]
    PROVE  CallsTyped'
<1>1. local[c] \in Locals /\ local' = [local EXCEPT ![c] = local[c]]
  BY DEF Typed, TypeOK
<1>2. Moves(c, step, local[c])
  BY <1>1 DEF Typed, VerdictsKnown, Moves
<1> QED
  BY <1>2, MovesType

\* A step to elsewhere than a fetch keeps the types of the calls.
LEMMA GotoKeeps ==
    ASSUME Typed, NEW c \in Calls, NEW step \in Steps \ Fetching,
           pc[c] \notin Undecided \/ step \in Undecided,
           Goto(c, step), local' = local
    PROVE  CallsTyped'
BY KeepsMemory DEF Goto, Typed, TypeOK

\* The end of a call keeps the types of the calls.
LEMMA FinishKeeps ==
    ASSUME Typed, NEW c \in Calls, NEW result \in CallOutcomes,
           Finish(c, result), local' = local
    PROVE  CallsTyped'
<1>1. outcome' \in [Calls -> CallOutcomes]
  BY DEF Finish, Typed, TypeOK
<1>2. "done" \in Steps \ Fetching /\ "done" \in Undecided
  BY DEF Steps, Finished, Fetching, Undecided
<1> QED
  BY <1>1, <1>2, KeepsMemory DEF Finish

\* A new evaluation starts at the first dependency, with the verdicts it had.
LEMMA StartEvaluationType ==
    ASSUME Typed, NEW c \in Calls
    PROVE  /\ StartEvaluation(c) \in Locals
           /\ StartEvaluation(c).cursor = 1
           /\ StartEvaluation(c).verdicts = local[c].verdicts
<1>1. NothingFetched \in StateIdentity
  BY DEF NothingFetched, StateIdentity, Optional
<1> QED
  BY <1>1 DEF StartEvaluation, Typed, TypeOK, Locals

VerdictFunctions == UNION {[D -> Verdicts] : D \in SUBSET Refs}

\* Updates of a call's memory: new verdicts, ...
LEMMA VerdictsUpdate ==
    ASSUME NEW l \in Locals, NEW f \in VerdictFunctions, NEW stage \in Stages,
           NEW k, k = [l EXCEPT !.verdicts = f, !.stage = stage]
    PROVE  k \in Locals /\ k.verdicts = f
BY DEF Locals, VerdictFunctions

\* ... with the snapshots they were made on.
LEMMA SnapshotsUpdate ==
    ASSUME NEW l \in Locals, NEW f \in VerdictFunctions, NEW stage \in Stages,
           NEW k, k = [l EXCEPT !.snapshots = l.fetched, !.verdicts = f, !.stage = stage]
    PROVE  k \in Locals /\ k.verdicts = f
BY DEF Locals, VerdictFunctions

-----------------------------------------------------------------------------
(* Every action preserves the types. *)

\* A guard lets the call on or ends it.
LEMMA GuardMoves ==
    ASSUME Typed, NEW c \in Calls, Guards(c)
    PROVE  \/ \E step \in {"approval_guard", "escalation_guard", "authorization_guard", "propose"} :
                  Goto(c, step)
           \/ \E result \in CallOutcomes : Finish(c, result)
<1>1. CASE Submit(c)
  BY <1>1 DEF Submit
<1>2. CASE EscalationGuard(c)
  <2>1. escalation[ActionOf(c)].status \in {"NONE", "PENDING", "APPROVED", "REJECTED"}
    BY RequestFacts DEF Typed, TypeOK, Escalations
  <2> QED
    BY <1>2, <2>1 DEF EscalationGuard, CallOutcomes
<1>3. CASE ApprovalGuard(c)
  BY <1>3 DEF ApprovalGuard, CallOutcomes
<1>4. CASE AuthorizationGuard(c)
  BY <1>4 DEF AuthorizationGuard, CallOutcomes
<1> QED
  BY <1>1, <1>2, <1>3, <1>4 DEF Guards

\* The guards before validation keep the type invariant.
LEMMA TypedGuards ==
    ASSUME Typed, NEW c \in Calls, Guards(c)
    PROVE  Typed'
<1>1. UNCHANGED <<local, store, outside, atClaim>>
  BY DEF Guards, Submit, EscalationGuard, ApprovalGuard, AuthorizationGuard
<1>2. CallsTyped'
  BY <1>1, GuardMoves, GotoKeeps, FinishKeeps DEF Steps, Fetching, Undecided
<1> QED
  BY <1>1, <1>2 DEF Typed, TypeOK, CallsTyped, store, outside

\* Routing goes to the claim, to a hold, or to the end.
LEMMA RouteMoves ==
    ASSUME Typed, NEW c \in Calls, NEW decision, Route(c, decision)
    PROVE  \E step \in {"gate", "claim", "escalate", "done"} :
               /\ pc' = [pc EXCEPT ![c] = step]
               /\ req' = req
               /\ outcome' \in [Calls -> CallOutcomes]
<1>1. CASE \E step \in {"gate", "claim", "escalate"} : Goto(c, step)
  BY <1>1 DEF Goto, Typed, TypeOK
<1>2. CASE Finish(c, "not_executed")
  BY <1>2 DEF Finish, Typed, TypeOK, CallOutcomes
<1> QED
  BY <1>1, <1>2 DEF Route

\* Validation and revalidation keep the type invariant.
LEMMA TypedValidation ==
    ASSUME Typed, NEW c \in Calls, Validation(c)
    PROVE  Typed'
<1>1. CASE Propose(c)
  <2>1. Moves(c, "fetch", StartEvaluation(c))
    BY <1>1, StartEvaluationType DEF Propose, Goto, Moves, Typed, TypeOK, Steps, Undecided
  <2>2. actions' \in [ActionIds -> Calls \cup {NoCall}]
    BY <1>1 DEF Propose, Typed, TypeOK
  <2> QED
    BY <1>1, <2>1, <2>2, MovesType DEF Propose, Typed, TypeOK, CallsTyped, outside
<1>2. CASE Fetch(c)
  <2> DEFINE r == req[c].dependencies[local[c].cursor]
  <2>1. local[c].cursor \in 1..Len(req[c].dependencies)
    BY <1>2, RequestFacts DEF Fetch, Fetched, Typed, TypeOK, CursorPositive, Locals
  <2>2. r \in Refs
    BY <2>1, RequestFacts DEF Typed
  <2>3. PICK version \in Optional(Nat) :
            local' = [local EXCEPT ![c] = [local[c] EXCEPT !.fetched[r] = version,
                                                           !.cursor = @ + 1]]
    BY <1>2, <2>2 DEF Fetch, Optional, Typed, TypeOK
  <2> DEFINE l == [local[c] EXCEPT !.fetched[r] = version, !.cursor = @ + 1]
  <2>4. local' = [local EXCEPT ![c] = l]
    BY <2>3
  <2> HIDE DEF r
  <2>5. l \in Locals /\ l.verdicts = local[c].verdicts /\ l.cursor # 0
    <3> DEFINE f == [local[c].fetched EXCEPT ![r] = version]
               n == local[c].cursor + 1
    <3>1. local[c] \in Locals
      BY DEF Typed, TypeOK
    <3>2. f \in StateIdentity
      BY <2>2, <3>1 DEF Locals, StateIdentity
    <3>3. n \in Nat /\ n # 0
      BY <3>1 DEF Locals
    <3>4. l = [local[c] EXCEPT !.fetched = f, !.cursor = n]
      OBVIOUS
    <3> HIDE DEF l, f, n
    <3> QED
      BY <3>1, <3>2, <3>3, <3>4 DEF Locals
  <2> HIDE DEF l
  <2>6. pc[c] \in Steps /\ pc' = [pc EXCEPT ![c] = pc[c]]
    BY <1>2 DEF Fetch, Typed, TypeOK
  <2>7. Moves(c, pc[c], l)
    BY <1>2, <2>4, <2>5, <2>6 DEF Moves, Fetch, Typed, TypeOK, VerdictsKnown
  <2> QED
    BY <1>2, <2>7, MovesType DEF Fetch, Typed, TypeOK, CallsTyped, store, outside
<1>3. CASE Validate(c)
  <2> DEFINE l == [local[c] EXCEPT !.snapshots = local[c].fetched,
                                   !.verdicts = EvaluatedVerdicts(c),
                                   !.stage = "validated"]
  <2>1. local' = [local EXCEPT ![c] = l]
    BY <1>3 DEF Validate, Typed, TypeOK
  <2>2. /\ l \in Locals
        /\ l.verdicts \in [DependenciesOf(c) -> Verdicts]
    <3>1. EvaluatedVerdicts(c) \in [DependenciesOf(c) -> Verdicts]
      BY EvaluatedVerdictsType DEF Typed
    <3>2. EvaluatedVerdicts(c) \in VerdictFunctions
      BY <3>1, RequestFacts DEF Typed, VerdictFunctions
    <3>3. local[c] \in Locals /\ "validated" \in Stages
      BY DEF Typed, TypeOK, Stages
    <3>4. l = [local[c] EXCEPT !.snapshots = local[c].fetched, !.verdicts = EvaluatedVerdicts(c),
                               !.stage = "validated"]
      OBVIOUS
    <3> HIDE DEF l
    <3> QED
      BY <3>1, <3>2, <3>3, <3>4, SnapshotsUpdate
  <2> HIDE DEF l
  <2>3. Moves(c, "consumed_guard", l)
    BY <1>3, <2>1, <2>2 DEF Validate, Goto, Moves, Typed, TypeOK, Steps, Fetching
  <2>4. decisions' \in [Calls -> [Stages -> Decisions \cup {"none"}]]
    BY <1>3, DecisionOnType DEF Validate, SaveDecision, Typed, TypeOK, Stages
  <2> QED
    BY <1>3, <2>3, <2>4, MovesType DEF Validate, Typed, TypeOK, CallsTyped, outside
<1>4. CASE ConsumedGuard(c)
  <2>1. CallsTyped'
    <3>1. CASE Finish(c, "replay")
      BY <1>4, <3>1, FinishKeeps DEF ConsumedGuard, CallOutcomes
    <3>2. CASE Goto(c, "revalidate")
      BY <1>4, <3>2, GotoKeeps DEF ConsumedGuard, Steps, Fetching, Undecided
    <3>3. CASE Route(c, decisions[c]["validated"])
      BY <1>4, <3>3, RouteMoves, KeepsMemory DEF ConsumedGuard, Steps, Finished, Fetching,
         Undecided
    <3> QED
      BY <1>4, <3>1, <3>2, <3>3 DEF ConsumedGuard
  <2> QED
    BY <1>4, <2>1 DEF ConsumedGuard, Typed, TypeOK, CallsTyped, store, outside
<1>5. CASE Revalidate(c)
  <2> DEFINE l == [local[c] EXCEPT !.verdicts = RecomputedVerdicts(c), !.stage = "revalidated"]
  <2>1. local' = [local EXCEPT ![c] = l]
    BY <1>5 DEF Revalidate, Typed, TypeOK
  <2>2. /\ l \in Locals
        /\ l.verdicts \in [DependenciesOf(c) -> Verdicts]
    <3>1. local[c].verdicts \in [DependenciesOf(c) -> Verdicts]
      BY <1>5 DEF Revalidate, Typed, VerdictsKnown, Undecided
    <3>2. RecomputedVerdicts(c) \in [DependenciesOf(c) -> Verdicts]
      BY <3>1, RecomputedVerdictsType DEF Typed
    <3>3. RecomputedVerdicts(c) \in VerdictFunctions
      BY <3>2, RequestFacts DEF Typed, VerdictFunctions
    <3>4. local[c] \in Locals /\ "revalidated" \in Stages
      BY DEF Typed, TypeOK, Stages
    <3>5. l = [local[c] EXCEPT !.verdicts = RecomputedVerdicts(c), !.stage = "revalidated"]
      OBVIOUS
    <3> HIDE DEF l
    <3> QED
      BY <3>2, <3>3, <3>4, <3>5, VerdictsUpdate
  <2> HIDE DEF l
  <2>3. \E step : Moves(c, step, l)
    BY <1>5, <2>1, <2>2, RouteMoves DEF Revalidate, Moves, Steps, Finished, Fetching, Undecided
  <2>4. decisions' \in [Calls -> [Stages -> Decisions \cup {"none"}]]
    BY <1>5, DecisionOnType DEF Revalidate, SaveDecision, Typed, TypeOK, Stages
  <2> QED
    BY <1>5, <2>3, <2>4, MovesType DEF Revalidate, Typed, TypeOK, CallsTyped, outside
<1> QED
  BY <1>1, <1>2, <1>3, <1>4, <1>5 DEF Validation

\* An escalation is written as PENDING, or refused.
LEMMA SaveEscalationMoves ==
    ASSUME Typed, NEW c \in Calls, NEW stage \in Stages, SaveEscalation(c, stage)
    PROVE  /\ \E result \in CallOutcomes : Finish(c, result)
           /\ escalation' \in [ActionIds -> Escalations]
<1>1. \E result \in CallOutcomes : Finish(c, result)
  BY DEF SaveEscalation, CallOutcomes
<1>2. escalation \in [ActionIds -> Escalations] /\ ActionOf(c) \in ActionIds
  BY RequestFacts DEF Typed, TypeOK
<1>3. [owner |-> c, stage |-> stage, status |-> "PENDING"] \in Escalations
  BY DEF Escalations
<1>4. escalation' \in [ActionIds -> Escalations]
  BY <1>2, <1>3 DEF SaveEscalation
<1> QED
  BY <1>1, <1>4

\* The start of the executor.
LEMMA StartExecutorType ==
    ASSUME Typed, NEW c \in Calls, StartExecutor(c)
    PROVE  executor' \in [Calls -> ExecutorStates]
BY DEF StartExecutor, Typed, TypeOK, ExecutorStates

\* A call enters the execution with the time in its memory.
LEMMA ExecuteMoves ==
    ASSUME Typed, NEW c \in Calls, pc[c] \notin Undecided,
           local' = [local EXCEPT ![c].started_at = clock], Goto(c, "execute")
    PROVE  CallsTyped'
<1> DEFINE l == [local[c] EXCEPT !.started_at = clock]
<1>1. local' = [local EXCEPT ![c] = l]
  BY DEF Typed, TypeOK
<1>2. l \in Locals /\ l.verdicts = local[c].verdicts
  BY DEF Typed, TypeOK, Locals
<1> HIDE DEF l
<1>3. Moves(c, "execute", l)
  BY <1>1, <1>2 DEF Moves, Goto, Typed, TypeOK, VerdictsKnown, Steps, Holding, Fetching
<1> QED
  BY <1>3, MovesType

\* A call turns to a further evaluation of its dependencies.
LEMMA ReevaluateMoves ==
    ASSUME Typed, NEW c \in Calls, NEW step \in Fetching, pc[c] \notin Undecided,
           local' = [local EXCEPT ![c] = StartEvaluation(c)], Goto(c, step)
    PROVE  CallsTyped'
<1>1. step \in Steps
  BY DEF Fetching, Steps, Holding
<1>2. Moves(c, step, StartEvaluation(c))
  BY <1>1, StartEvaluationType DEF Moves, Goto, Typed, TypeOK, VerdictsKnown
<1> QED
  BY <1>2, MovesType

\* A saved decision keeps the type of the decision table.
LEMMA SaveDecisionType ==
    ASSUME Typed, NEW c \in Calls, NEW stage \in Stages, NEW decision \in Decisions,
           SaveDecision(c, stage, decision)
    PROVE  decisions' \in [Calls -> [Stages -> Decisions \cup {"none"}]]
BY DEF SaveDecision, Typed, TypeOK

\* Escalation, gate, claim and recheck keep the type invariant.
LEMMA TypedAuthorizing ==
    ASSUME Typed, NEW c \in Calls, Authorizing(c)
    PROVE  Typed'
<1>1. CASE Escalate(c)
  <2>1. local[c].stage \in Stages
    BY DEF Typed, TypeOK, Locals
  <2> QED
    BY <1>1, <2>1, SaveEscalationMoves, FinishKeeps
    DEF Escalate, Typed, TypeOK, CallsTyped, outside
<1>2. CASE GateEscalate(c)
  <2>1. "gate" \in Stages
    BY DEF Stages
  <2> QED
    BY <1>2, <2>1, SaveEscalationMoves, FinishKeeps
    DEF GateEscalate, Typed, TypeOK, CallsTyped, outside
<1>3. CASE Gate(c)
  <2>1. \/ \E step \in {"claim", "gate_escalate"} : Goto(c, step)
        \/ Finish(c, "not_executed")
    BY <1>3 DEF Gate
  <2>2. CallsTyped'
    BY <1>3, <2>1, GotoKeeps, FinishKeeps
    DEF Gate, Steps, Fetching, Undecided, CallOutcomes
  <2>3. decisions' \in [Calls -> [Stages -> Decisions \cup {"none"}]]
    <3>1. Recorded(GateDecision(c), req[c].mode) \in Decisions
      BY DEF Recorded, GateDecision, Decisions
    <3> QED
      BY <1>3, <3>1 DEF Gate, SaveDecision, Typed, TypeOK, Stages
  <2> QED
    BY <1>3, <2>2, <2>3 DEF Gate, Typed, TypeOK, CallsTyped, outside
<1>4. CASE Claim(c)
  <2>1. CASE ~Claimable(ActionOf(c))
    BY <1>4, <2>1, FinishKeeps
    DEF Claim, CallOutcomes, Typed, TypeOK, CallsTyped
  <2>2. CASE Claimable(ActionOf(c))
    <3>1. CallsTyped' /\ executor' \in [Calls -> ExecutorStates]
      BY <1>4, <2>2, ExecuteMoves, ReevaluateMoves, StartExecutorType
      DEF Claim, Undecided, Fetching, Typed, TypeOK
    <3>2. authorization' \in [ActionIds -> Authorizations]
      <4>1. ActionOf(c) \in ActionIds /\ Policy(c).deadline \in Nat
        BY RequestFacts DEF Typed
      <4>2. local[c].stage \in Stages /\ clock + Policy(c).deadline \in Nat
        BY <4>1 DEF Typed, TypeOK, Locals
      <4> DEFINE granted == [owner |-> c, stage |-> local[c].stage,
                             expires_at |-> clock + Policy(c).deadline, consumed |-> FALSE]
      <4>3. granted \in Authorizations
        BY <4>2 DEF Authorizations
      <4>4. authorization' = [authorization EXCEPT ![ActionOf(c)] = granted]
        BY <1>4, <2>2 DEF Claim
      <4> HIDE DEF granted
      <4> QED
        BY <4>1, <4>3, <4>4 DEF Typed, TypeOK
    <3>3. atClaim' \in [Calls -> StateIdentity]
      <4>1. world \in StateIdentity
        BY DEF Typed, TypeOK, StateIdentity, Optional
      <4>2. atClaim' = [atClaim EXCEPT ![c] = world]
        BY <1>4, <2>2 DEF Claim
      <4> QED
        BY <4>1, <4>2 DEF Typed, TypeOK
    <3> QED
      BY <1>4, <3>1, <3>2, <3>3 DEF Claim, Typed, TypeOK, CallsTyped
  <2> QED
    BY <2>1, <2>2
<1>5. CASE Recheck(c)
  <2>1. CASE RecheckFails(c)
    <3>1. decisions' \in [Calls -> [Stages -> Decisions \cup {"none"}]]
      <4>1. SaveDecision(c, "recheck", "DENY") /\ "recheck" \in Stages /\ "DENY" \in Decisions
        BY <1>5, <2>1 DEF Recheck, Stages, Decisions
      <4> QED
        BY <4>1, SaveDecisionType
    <3> QED
      BY <1>5, <2>1, <3>1, FinishKeeps
      DEF Recheck, CallOutcomes, Typed, TypeOK, CallsTyped
  <2>2. CASE ~RecheckFails(c)
    BY <1>5, <2>2, ExecuteMoves, StartExecutorType
    DEF Recheck, Undecided, Typed, TypeOK, CallsTyped
  <2> QED
    BY <2>1, <2>2
<1> QED
  BY <1>1, <1>2, <1>3, <1>4, <1>5 DEF Authorizing

\* A settled result goes into the memory of the call.
LEMMA SettleMoves ==
    ASSUME Typed, NEW c \in Calls, pc[c] = "execute", NEW result \in ExecutionResults,
           NEW step \in {"save_first", "consume_first"}, Settle(c, result, step)
    PROVE  Typed'
<1> DEFINE l == [local[c] EXCEPT !.result = result]
<1>1. local' = [local EXCEPT ![c] = l]
  BY DEF Settle, Typed, TypeOK
<1>2. l \in Locals /\ l.verdicts = local[c].verdicts
  BY DEF Typed, TypeOK, Locals
<1> HIDE DEF l
<1>3. Moves(c, step, l)
  BY <1>1, <1>2
  DEF Settle, Moves, Goto, Typed, TypeOK, VerdictsKnown, Undecided, Steps, Holding, Fetching
<1> QED
  BY <1>3, MovesType DEF Settle, Typed, TypeOK, CallsTyped, store, outside

\* Answers of executors and deadlines keep the type invariant.
LEMMA TypedAnswer ==
    ASSUME Typed, NEW c \in Calls, Answer(c) \/ DeadlineReached(c)
    PROVE  Typed'
<1>1. /\ pc[c] = "execute"
      /\ \E result \in ExecutionResults, step \in {"save_first", "consume_first"} :
             Settle(c, result, step)
  BY DEF Answer, ExecutorSucceeds, ExecutorReportsFailure, ConditionRefused, ConditionalFault,
     DeadlineReached, ExecutionResults
<1> QED
  BY <1>1, SettleMoves

\* Records and consumptions keep the type invariant.
LEMMA TypedSettlement ==
    ASSUME Typed, NEW c \in Calls, SaveExecution(c) \/ Consume(c) \/ Reassess(c)
    PROVE  Typed'
<1>1. CASE SaveExecution(c)
  <2>1. CallsTyped'
    BY <1>1, GotoKeeps, FinishKeeps
    DEF SaveExecution, Undecided, Steps, Holding, Fetching, CallOutcomes
  <2>2. execution' \in [Calls -> ExecutionResults]
    BY <1>1 DEF SaveExecution, Typed, TypeOK, Locals
  <2> QED
    BY <1>1, <2>1, <2>2 DEF SaveExecution, Typed, TypeOK, CallsTyped, outside
<1>2. CASE Consume(c)
  <2>1. CallsTyped'
    <3>1. pc[c] \notin Undecided
      BY <1>2 DEF Consume, Undecided
    <3>2. CASE pc[c] = "consume_first"
      BY <1>2, <3>1, <3>2, GotoKeeps DEF Consume, Steps, Fetching
    <3>3. CASE pc[c] = "consume_last" /\ local[c].result = "condition_failed"
      <4>1. Goto(c, "refetch") /\ local' = [local EXCEPT ![c] = StartEvaluation(c)]
        BY <1>2, <3>3 DEF Consume
      <4> QED
        BY <3>1, <4>1, ReevaluateMoves DEF Fetching
    <3>4. CASE pc[c] = "consume_last" /\ local[c].result # "condition_failed"
      <4>1. \E result \in {"executed", "not_executed"} : Finish(c, result)
        BY <1>2, <3>4 DEF Consume
      <4>2. UNCHANGED local
        BY <1>2, <3>4 DEF Consume
      <4> QED
        BY <4>1, <4>2, FinishKeeps DEF CallOutcomes
    <3>5. pc[c] \in {"consume_first", "consume_last"}
      BY <1>2 DEF Consume
    <3> QED
      BY <3>2, <3>3, <3>4, <3>5
  <2>2. authorization' \in [ActionIds -> Authorizations]
    BY <1>2, RequestFacts DEF Consume, Typed, TypeOK, Authorizations
  <2> QED
    BY <1>2, <2>1, <2>2 DEF Consume, Typed, TypeOK, CallsTyped, outside
<1>3. CASE Reassess(c)
  <2>1. decisions' \in [Calls -> [Stages -> Decisions \cup {"none"}]]
    BY <1>3, DecisionOnType DEF Reassess, SaveDecision, Typed, TypeOK, Stages
  <2> QED
    BY <1>3, <2>1, FinishKeeps DEF Reassess, CallOutcomes, Typed, TypeOK, CallsTyped, outside
<1> QED
  BY <1>1, <1>2, <1>3

\* Executors, reviewers, crashes, store errors, the world and the clock keep the type invariant.
LEMMA TypedOutside ==
    ASSUME Typed,
           \/ \E c \in Calls : ExecutorStep(c) \/ Crash(c) \/ StoreFails(c)
           \/ \E v \in Reviewers : ReviewStep(v)
           \/ \E r \in Refs : Mutate(r)
           \/ Tick
           \/ UNCHANGED vars
    PROVE  Typed'
<1>1. CASE UNCHANGED calls /\ TypeOK'
  BY <1>1 DEF Typed, calls, VerdictsKnown, CursorPositive, DependenciesOf
<1>2. ASSUME NEW c \in Calls, ExecutorStep(c) PROVE Typed'
  <2>1. world' \in [Refs -> Nat]
    BY <1>2 DEF ExecutorStep, ExecutorApplies, ExecutorRefuses, ExecutorFails, Typed, TypeOK
  <2>2. UNCHANGED <<calls, store, review, clock, atClaim>>
    BY <1>2 DEF ExecutorStep, ExecutorApplies, ExecutorRefuses, ExecutorFails, AnswerOf
  <2>3. executor' \in [Calls -> ExecutorStates]
    BY <1>2 DEF ExecutorStep, ExecutorApplies, ExecutorRefuses, ExecutorFails, AnswerOf,
       Typed, TypeOK, ExecutorStates
  <2> QED
    BY <1>1, <2>1, <2>2, <2>3 DEF Typed, TypeOK, calls, store
<1>3. ASSUME NEW c \in Calls, Crash(c) PROVE Typed'
  <2>1. CallsTyped'
    BY <1>3, KeepsMemory
    DEF Crash, Steps, Finished, Fetching, Undecided, Typed, TypeOK
  <2> QED
    BY <1>3, <2>1 DEF Crash, Typed, TypeOK, CallsTyped, store, outside
<1>4. ASSUME NEW v \in Reviewers, ReviewStep(v) PROVE Typed'
  <2>1. CASE ReadEscalation(v)
    BY <1>1, <2>1 DEF ReadEscalation, Reviews, Typed, TypeOK, calls, store
  <2>2. CASE ResolveEscalation(v)
    <3>1. review' \in [Reviewers -> Reviews]
      BY <2>2 DEF ResolveEscalation, Reviews, Typed, TypeOK
    <3>2. escalation' \in [ActionIds -> Escalations]
      <4>1. review[v].action_id \in ActionIds
        BY DEF Reviews, Typed, TypeOK
      <4> QED
        BY <2>2, <4>1 DEF ResolveEscalation, Escalations, Typed, TypeOK
    <3> QED
      BY <1>1, <2>2, <3>1, <3>2 DEF ResolveEscalation, Typed, TypeOK, calls
  <2> QED
    BY <1>4, <2>1, <2>2 DEF ReviewStep
<1>5. ASSUME NEW r \in Refs, Mutate(r) PROVE Typed'
  BY <1>1, <1>5 DEF Mutate, Typed, TypeOK, calls, store
<1>6. CASE Tick
  BY <1>1, <1>6 DEF Tick, Typed, TypeOK, calls, store
<1>7. CASE UNCHANGED vars
  BY <1>1, <1>7 DEF vars, Typed, TypeOK, calls
<1>8. ASSUME NEW c \in Calls, StoreFails(c) PROVE Typed'
  BY <1>8, FinishKeeps DEF StoreFails, CallOutcomes, Typed, TypeOK, CallsTyped, store, outside
<1> QED
  BY <1>2, <1>3, <1>4, <1>5, <1>6, <1>7, <1>8

\* The type invariant is inductive.
LEMMA TypedStep == Typed /\ [Next]_vars => Typed'
<1> SUFFICES ASSUME Typed, [Next]_vars PROVE Typed'
  OBVIOUS
<1>1. ASSUME NEW c \in Calls, CallStep(c) PROVE Typed'
  BY <1>1, TypedGuards, TypedValidation, TypedAuthorizing, TypedAnswer, TypedSettlement
  DEF CallStep, Settlement
<1> QED
  BY <1>1, TypedOutside DEF Next, Terminated

\* Every state of the model is well typed: decide() and the freshness engine are
\* total on what validation, revalidation and reassessment give them, and a call
\* past validation has a verdict for each of its dependencies.
THEOREM TypeCorrect == Spec => []TypeOK
<1>1. Typed => TypeOK
  BY DEF Typed
<1> QED
  BY TypedInit, TypedStep, <1>1, PTL DEF Spec

-----------------------------------------------------------------------------
(* What a step does to the gate. *)

\* Steps before the claim, and steps of a call whose executor was invoked.
BeforeClaim == Steps \ (Holding \cup Finished \cup {"save_last", "refetch"})

Executing == Holding \ {"recheck_fetch"}

\* A call advances without touching the gate.
Passes(c) ==
    /\ \E step \in Steps :
           /\ pc' = [pc EXCEPT ![c] = step]
           /\ step \in BeforeClaim => pc[c] \in BeforeClaim
           /\ step = "recheck_fetch" => pc[c] = "recheck_fetch"
           /\ step \in Executing => pc[c] \in Executing
    /\ UNCHANGED <<req, authorization, executor, atClaim>>

\* A call is granted the authorization, and may invoke its executor at once.
Claiming(c) ==
    /\ pc[c] = "claim"
    /\ Claimable(ActionOf(c))
    /\ \E stage \in Stages, expires_at \in Nat :
           authorization' = [authorization EXCEPT ![ActionOf(c)] =
               [owner |-> c, stage |-> stage, expires_at |-> expires_at, consumed |-> FALSE]]
    /\ atClaim' = [atClaim EXCEPT ![c] = world]
    /\ req' = req
    /\ \/ pc' = [pc EXCEPT ![c] = "recheck_fetch"] /\ executor' = executor
       \/ pc' = [pc EXCEPT ![c] = "execute"] /\ StartExecutor(c)

\* A rechecked call invokes its executor.
Starts(c) ==
    /\ pc[c] = "recheck_fetch"
    /\ pc' = [pc EXCEPT ![c] = "execute"]
    /\ StartExecutor(c)
    /\ UNCHANGED <<req, authorization, atClaim>>

\* A call consumes the authorization and holds it no longer.
Releases(c) ==
    /\ pc[c] \in {"consume_first", "consume_last"}
    /\ \E step \in {"save_last", "refetch", "done"} : pc' = [pc EXCEPT ![c] = step]
    /\ authorization' = [authorization EXCEPT ![ActionOf(c)].consumed = TRUE]
    /\ UNCHANGED <<req, executor, atClaim>>

GateStep(c) == Passes(c) \/ Claiming(c) \/ Starts(c) \/ Releases(c)

\* An executor answers.
Answers(c) ==
    /\ executor[c] = "running"
    /\ \E answer \in {"applied", "refused", "unavailable", "failed"} :
           executor' = [executor EXCEPT ![c] = answer]
    /\ UNCHANGED <<pc, req, authorization, atClaim>>

\* A move that skips neither the claim nor the release leaves the gate alone.
LEMMA GotoPasses ==
    ASSUME Typed, NEW c \in Calls, NEW step \in Steps, Goto(c, step),
           step \in BeforeClaim => pc[c] \in BeforeClaim,
           step = "recheck_fetch" => pc[c] = "recheck_fetch",
           step \in Executing => pc[c] \in Executing,
           UNCHANGED <<authorization, executor, atClaim>>
    PROVE  Passes(c)
BY DEF Goto, Passes

\* A call that ends without a claim leaves the gate alone.
LEMMA FinishPasses ==
    ASSUME Typed, NEW c \in Calls, NEW result, Finish(c, result),
           UNCHANGED <<authorization, executor, atClaim>>
    PROVE  Passes(c)
<1>1. "done" \in Steps /\ "done" \notin BeforeClaim /\ "done" \notin Executing
  BY DEF Steps, Finished, BeforeClaim, Executing, Holding
<1> QED
  BY <1>1 DEF Finish, Passes

\* Each step of a call advances it, claims, starts its executor, or releases.
LEMMA CallGateStep ==
    ASSUME Typed, NEW c \in Calls, CallStep(c)
    PROVE  GateStep(c)
<1> USE DEF Steps, BeforeClaim, Executing, Holding, Finished
<1>1. CASE Guards(c)
  <2>1. /\ UNCHANGED <<authorization, executor, atClaim>>
        /\ pc[c] \in {"idle", "escalation_guard", "approval_guard", "authorization_guard"}
    BY <1>1 DEF Guards, Submit, EscalationGuard, ApprovalGuard, AuthorizationGuard, store, outside
  <2>2. \/ \E step \in {"approval_guard", "escalation_guard", "authorization_guard", "propose"} :
               Goto(c, step)
        \/ \E result \in CallOutcomes : Finish(c, result)
    BY <1>1, GuardMoves
  <2> QED
    BY <2>1, <2>2, GotoPasses, FinishPasses DEF GateStep
<1>2. CASE Validation(c)
  <2>1. /\ UNCHANGED <<authorization, executor, atClaim>>
        /\ pc[c] \in {"propose", "fetch", "recheck_fetch", "refetch", "consumed_guard", "revalidate"}
    BY <1>2 DEF Validation, Propose, Fetch, Validate, ConsumedGuard, Revalidate, Fetching,
       store, outside
  <2>2. CASE Fetch(c)
    BY <2>1, <2>2 DEF Fetch, GateStep, Passes, Typed, TypeOK
  <2>3. CASE Propose(c)
    BY <2>1, <2>3, GotoPasses DEF Propose, GateStep
  <2>4. CASE Validate(c)
    BY <2>1, <2>4, GotoPasses DEF Validate, GateStep
  <2>5. CASE ConsumedGuard(c)
    <3>1. \/ Finish(c, "replay") \/ Goto(c, "revalidate")
          \/ Route(c, decisions[c]["validated"])
      BY <2>5 DEF ConsumedGuard
    <3>2. pc[c] = "consumed_guard"
      BY <2>5 DEF ConsumedGuard
    <3> QED
      BY <2>1, <3>1, <3>2, GotoPasses, FinishPasses DEF Route, GateStep
  <2>6. CASE Revalidate(c)
    <3>1. \E decision : Route(c, decision)
      BY <2>6 DEF Revalidate
    <3>2. pc[c] = "revalidate"
      BY <2>6 DEF Revalidate
    <3> QED
      BY <2>1, <3>1, <3>2, GotoPasses, FinishPasses DEF Route, GateStep
  <2> QED
    BY <1>2, <2>2, <2>3, <2>4, <2>5, <2>6 DEF Validation
<1>3. CASE Authorizing(c)
  <2>1. CASE Escalate(c) \/ GateEscalate(c)
    <3>1. \E result \in CallOutcomes : Finish(c, result)
      BY <2>1 DEF Escalate, GateEscalate, SaveEscalation, CallOutcomes
    <3> QED
      BY <2>1, <3>1, FinishPasses DEF Escalate, GateEscalate, GateStep, outside
  <2>2. CASE Gate(c)
    <3>1. \/ \E step \in {"claim", "gate_escalate"} : Goto(c, step)
          \/ Finish(c, "not_executed")
      BY <2>2 DEF Gate
    <3>2. pc[c] = "gate" /\ UNCHANGED <<authorization, executor, atClaim>>
      BY <2>2 DEF Gate, outside
    <3> QED
      BY <3>1, <3>2, GotoPasses, FinishPasses DEF GateStep
  <2>3. CASE Claim(c)
    <3>1. CASE ~Claimable(ActionOf(c))
      BY <2>3, <3>1, FinishPasses DEF Claim, GateStep
    <3>2. CASE Claimable(ActionOf(c))
      <4>1. local[c].stage \in Stages /\ clock + Policy(c).deadline \in Nat
        BY RequestFacts DEF Typed, TypeOK, Locals
      <4> QED
        BY <2>3, <3>2, <4>1 DEF Claim, Claiming, Goto, GateStep
    <3> QED
      BY <3>1, <3>2
  <2>4. CASE Recheck(c)
    <3>1. CASE RecheckFails(c)
      BY <2>4, <3>1, FinishPasses DEF Recheck, GateStep
    <3>2. CASE ~RecheckFails(c)
      BY <2>4, <3>2 DEF Recheck, Starts, Goto, GateStep
    <3> QED
      BY <3>1, <3>2
  <2> QED
    BY <1>3, <2>1, <2>2, <2>3, <2>4 DEF Authorizing
<1>4. CASE Answer(c) \/ DeadlineReached(c)
  <2>1. /\ pc[c] = "execute"
        /\ \E result \in ExecutionResults, step \in {"save_first", "consume_first"} :
               Settle(c, result, step)
    BY <1>4 DEF Answer, ExecutorSucceeds, ExecutorReportsFailure, ConditionRefused,
       ConditionalFault, DeadlineReached, ExecutionResults
  <2> QED
    BY <2>1, GotoPasses DEF Settle, store, outside, GateStep
<1>5. CASE SaveExecution(c)
  BY <1>5, GotoPasses, FinishPasses DEF SaveExecution, outside, GateStep
<1>6. CASE Consume(c)
  <2>1. \E step \in {"save_last", "refetch", "done"} :
            pc' = [pc EXCEPT ![c] = step] /\ req' = req
    BY <1>6 DEF Consume, Goto, Finish
  <2> QED
    BY <1>6, <2>1 DEF Consume, Releases, outside, GateStep
<1>7. CASE Reassess(c)
  BY <1>7, FinishPasses DEF Reassess, outside, GateStep
<1> QED
  BY <1>1, <1>2, <1>3, <1>4, <1>5, <1>6, <1>7 DEF CallStep, Settlement

\* Every step of the system is one of these, an answer, or leaves the gate alone.
LEMMA GateSteps ==
    ASSUME Typed, [Next]_vars
    PROVE  \/ \E c \in Calls : GateStep(c) \/ Answers(c)
           \/ UNCHANGED <<pc, req, authorization, executor, atClaim>>
<1>1. CASE \E c \in Calls : CallStep(c)
  BY <1>1, CallGateStep
<1>2. CASE \E c \in Calls : ExecutorStep(c)
  BY <1>2 DEF ExecutorStep, ExecutorApplies, ExecutorRefuses, ExecutorFails, AnswerOf, Answers,
     calls, store
<1>3. CASE \E c \in Calls : Crash(c)
  <2>1. "crashed" \in Steps /\ "crashed" \notin BeforeClaim /\ "crashed" \notin Executing
    BY DEF Steps, Finished, BeforeClaim, Executing, Holding
  <2> QED
    BY <1>3, <2>1 DEF Crash, Passes, GateStep, store, outside
<1>4. CASE \E c \in Calls : StoreFails(c)
  BY <1>4, FinishPasses DEF StoreFails, GateStep, store, outside
<1>5. CASE \/ \E v \in Reviewers : ReviewStep(v)
           \/ \E r \in Refs : Mutate(r)
           \/ Tick
           \/ Terminated
           \/ UNCHANGED vars
  BY <1>5 DEF ReviewStep, ReadEscalation, ResolveEscalation, Mutate, Tick, Terminated, vars,
     calls, store
<1> QED
  BY <1>1, <1>2, <1>3, <1>4, <1>5 DEF Next

-----------------------------------------------------------------------------
(* The inductive invariant of the gate. *)

\* A call has neither claimed nor started before its claim; it starts exactly
\* when it leaves the recheck for the execution.
StartedInTime ==
    \A c \in Calls :
        /\ pc[c] \in BeforeClaim => atClaim[c] = NothingFetched /\ executor[c] = "idle"
        /\ pc[c] = "recheck_fetch" => executor[c] = "idle"
        /\ pc[c] \in Executing => executor[c] # "idle"

GateInv == Typed /\ HolderOwnsAuthorization /\ StartedInTime

\* The gate invariant holds initially: nothing is held or started.
LEMMA GateInit == Init => GateInv
<1> SUFFICES ASSUME Init PROVE GateInv
  OBVIOUS
<1>1. HolderOwnsAuthorization /\ StartedInTime
  BY DEF Init, HolderOwnsAuthorization, InFlight, Holding, StartedInTime, BeforeClaim, Executing
<1> QED
  BY <1>1, TypedInit DEF GateInv

\* A holder keeps the authorization whatever another call does.
LEMMA HolderKeeps ==
    ASSUME GateInv, Typed', NEW c \in Calls, GateStep(c)
    PROVE  HolderOwnsAuthorization'
<1> SUFFICES ASSUME NEW d \in Calls, InFlight(d)'
             PROVE  (authorization[ActionOf(d)].owner = d /\ Live(ActionOf(d)))'
  BY DEF HolderOwnsAuthorization
<1>1. ActionOf(d)' = ActionOf(d) /\ ActionOf(d) \in ActionIds /\ ActionOf(c) \in ActionIds
  BY RequestFacts
  DEF GateInv, Typed, GateStep, Passes, Claiming, Starts, Releases, ActionOf
<1>2. d # c => InFlight(d)
  BY DEF InFlight, GateInv, Typed, TypeOK, GateStep, Passes, Claiming, Starts, Releases
<1>3. CASE Passes(c) \/ Starts(c)
  <2>1. InFlight(d)
    BY <1>2, <1>3 DEF InFlight, Passes, Starts, Executing, Holding, GateInv, Typed, TypeOK
  <2> QED
    BY <1>1, <1>3, <2>1
    DEF Passes, Starts, GateInv, HolderOwnsAuthorization, Live
<1>4. CASE Claiming(c)
  <2>1. CASE d = c
    <3>1. c # NoCall
      BY ExecuteActionAssumption
    <3> QED
      BY <1>1, <1>4, <2>1, <3>1 DEF Claiming, Live, GateInv, Typed, TypeOK
  <2>2. CASE d # c
    <3>1. authorization[ActionOf(d)].owner = d /\ Live(ActionOf(d))
      BY <1>2, <2>2 DEF GateInv, HolderOwnsAuthorization
    <3>2. ActionOf(d) # ActionOf(c)
      BY <1>4, <3>1 DEF Claiming, Claimable
    <3> QED
      BY <1>1, <1>4, <3>1, <3>2 DEF Claiming, Live, GateInv, Typed, TypeOK
  <2> QED
    BY <2>1, <2>2
<1>5. CASE Releases(c)
  <2>1. d # c
    BY <1>5 DEF Releases, InFlight, Holding, GateInv, Typed, TypeOK
  <2>2. authorization[ActionOf(d)].owner = d /\ Live(ActionOf(d))
    BY <1>2, <2>1 DEF GateInv, HolderOwnsAuthorization
  <2>3. authorization[ActionOf(c)].owner = c
    BY <1>5 DEF Releases, GateInv, HolderOwnsAuthorization, InFlight, Holding
  <2> QED
    BY <1>1, <1>5, <2>1, <2>2, <2>3 DEF Releases, Live, GateInv, Typed, TypeOK
<1> QED
  BY <1>3, <1>4, <1>5 DEF GateStep

\* No step of a call starts an executor early, or a second time.
LEMMA StartKeeps ==
    ASSUME GateInv, NEW c \in Calls, GateStep(c)
    PROVE  StartedInTime'
<1> SUFFICES ASSUME NEW d \in Calls
             PROVE  /\ pc'[d] \in BeforeClaim =>
                           atClaim'[d] = NothingFetched /\ executor'[d] = "idle"
                    /\ pc'[d] = "recheck_fetch" => executor'[d] = "idle"
                    /\ pc'[d] \in Executing => executor'[d] # "idle"
  BY DEF StartedInTime
<1>1. CASE Passes(c)
  BY <1>1 DEF Passes, GateInv, StartedInTime, Typed, TypeOK
<1>2. CASE Claiming(c)
  <2>1. pc[c] \in BeforeClaim
    BY <1>2 DEF Claiming, BeforeClaim, Steps, Holding, Finished
  <2>2. CASE d # c
    BY <1>2, <2>2 DEF Claiming, StartExecutor, GateInv, StartedInTime, Typed, TypeOK
  <2>3. CASE d = c /\ pc' = [pc EXCEPT ![c] = "recheck_fetch"] /\ executor' = executor
    BY <2>1, <2>3 DEF GateInv, StartedInTime, Typed, TypeOK, BeforeClaim, Executing, Holding
  <2>4. CASE d = c /\ pc' = [pc EXCEPT ![c] = "execute"] /\ StartExecutor(c)
    BY <2>4 DEF StartExecutor, GateInv, Typed, TypeOK, BeforeClaim, Executing, Holding
  <2> QED
    BY <1>2, <2>2, <2>3, <2>4 DEF Claiming
<1>3. CASE Starts(c)
  BY <1>3 DEF Starts, StartExecutor, GateInv, StartedInTime, Typed, TypeOK,
     BeforeClaim, Executing, Holding
<1>4. CASE Releases(c)
  BY <1>4 DEF Releases, GateInv, StartedInTime, Typed, TypeOK,
     BeforeClaim, Executing, Holding, Finished
<1> QED
  BY <1>1, <1>2, <1>3, <1>4 DEF GateStep

\* The gate invariant is inductive.
LEMMA GateInductive == GateInv /\ [Next]_vars => GateInv'
<1> SUFFICES ASSUME GateInv, [Next]_vars PROVE GateInv'
  OBVIOUS
<1>1. Typed'
  BY TypedStep DEF GateInv
<1>2. CASE \E c \in Calls : GateStep(c)
  BY <1>1, <1>2, HolderKeeps, StartKeeps DEF GateInv
<1>3. CASE \E c \in Calls : Answers(c)
  <2>1. HolderOwnsAuthorization'
    BY <1>3 DEF Answers, GateInv, HolderOwnsAuthorization, InFlight, ActionOf, Live
  <2>2. StartedInTime'
    BY <1>3 DEF Answers, GateInv, StartedInTime, Typed, TypeOK
  <2> QED
    BY <1>1, <2>1, <2>2 DEF GateInv
<1>4. CASE UNCHANGED <<pc, req, authorization, executor, atClaim>>
  BY <1>1, <1>4
  DEF GateInv, HolderOwnsAuthorization, InFlight, ActionOf, Live, StartedInTime
<1> QED
  BY <1>2, <1>3, <1>4, GateSteps DEF GateInv

\* The gate invariant holds in every reachable state.
LEMMA GateInvariant == Spec => []GateInv
BY GateInit, GateInductive, PTL DEF Spec

-----------------------------------------------------------------------------
(* Theorems. *)

\* A call between its claim and its consumption owns the live authorization of
\* its action id, under any number of concurrent calls, reviewers, store
\* errors and crashes.
THEOREM HoldersOwn == Spec => []HolderOwnsAuthorization
BY GateInvariant, PTL DEF GateInv

\* At most one call of an action id is between its claim and its consumption.
THEOREM Exclusive == Spec => []SingleInFlight
<1>1. GateInv => SingleInFlight
  BY DEF GateInv, HolderOwnsAuthorization, SingleInFlight
<1> QED
  BY <1>1, GateInvariant, PTL

\* An executor is invoked under the live authorization of its own call only.
THEOREM StartsUnderOwn == Spec => ExecutorStartsUnderOwnAuthorization
<1>1. ASSUME GateInv, GateInv', [Next]_vars, NEW c \in Calls, ~Started(c), Started(c)'
      PROVE  authorization'[ActionOf(c)].owner = c /\ ~authorization'[ActionOf(c)].consumed
  <2>1. InFlight(c)'
    BY <1>1, GateSteps
    DEF GateStep, Passes, Claiming, Starts, Releases, Answers, StartExecutor, Started,
        InFlight, Holding, GateInv, Typed, TypeOK
  <2>2. ActionOf(c)' = ActionOf(c)
    BY <1>1, GateSteps
    DEF GateStep, Passes, Claiming, Starts, Releases, Answers, ActionOf, GateInv
  <2> QED
    BY <1>1, <2>1, <2>2 DEF GateInv, HolderOwnsAuthorization, Live
<1>2. GateInv /\ GateInv' /\ [Next]_vars =>
        [ \A c \in Calls : (~Started(c) /\ Started(c)') =>
            authorization'[ActionOf(c)].owner = c /\ ~authorization'[ActionOf(c)].consumed ]_vars
  BY <1>1
<1> QED
  BY <1>2, GateInvariant, PTL DEF Spec, ExecutorStartsUnderOwnAuthorization

\* An attempt that a denied recheck, a store error or a crash ended before it consumed its
\* authorization freezes its action id for good.
THEOREM UnsettledFreezes == Spec => UnsettledAttemptFreezes
<1>1. ASSUME GateInv, [Next]_vars, NEW a \in ActionIds,
             Live(a), pc[authorization[a].owner] \in Finished
      PROVE  authorization'[a] = authorization[a]
  <2>1. ASSUME NEW c \in Calls, Claiming(c) PROVE authorization'[a] = authorization[a]
    <3>1. ActionOf(c) # a
      BY <1>1, <2>1 DEF Claiming, Claimable
    <3> QED
      BY <1>1, <2>1, <3>1 DEF Claiming, GateInv, Typed, TypeOK
  <2>2. ASSUME NEW c \in Calls, Releases(c) PROVE authorization'[a] = authorization[a]
    <3>1. authorization[ActionOf(c)].owner = c
      BY <2>2, <1>1 DEF Releases, InFlight, Holding, GateInv, HolderOwnsAuthorization
    <3>2. ActionOf(c) # a
      BY <1>1, <2>2, <3>1 DEF Releases, Finished
    <3> QED
      BY <1>1, <2>2, <3>2 DEF Releases, GateInv, Typed, TypeOK
  <2> QED
    BY <1>1, <2>1, <2>2, GateSteps DEF GateStep, Passes, Starts, Answers, GateInv
<1>2. GateInv /\ [Next]_vars =>
        [ \A a \in ActionIds : (Live(a) /\ pc[authorization[a].owner] \in Finished) =>
            authorization'[a] = authorization[a] ]_vars
  BY <1>1
<1> QED
  BY <1>2, GateInvariant, PTL DEF Spec, UnsettledAttemptFreezes

-----------------------------------------------------------------------------
(* The calls implement AuthorizationGate. *)

HolderOf == [a \in ActionIds |-> IF Live(a) THEN authorization[a].owner ELSE NoCall]

Claimants == {c \in Calls : atClaim[c] # NothingFetched}

StartedCalls == {c \in Calls : executor[c] # "idle"}

AppliedCalls == {c \in Calls : executor[c] = "applied"}

\* An authorization that is not replaced leaves the holder where it is.
LEMMA SameHolder ==
    ASSUME authorization' = authorization
    PROVE  HolderOf' = HolderOf
BY DEF HolderOf, Live

\* The start of an idle call's executor.
LEMMA StartMaps ==
    ASSUME GateInv, NEW c \in Calls, StartExecutor(c), executor[c] = "idle"
    PROVE  StartedCalls' = StartedCalls \cup {c} /\ AppliedCalls' = AppliedCalls
BY DEF StartExecutor, StartedCalls, AppliedCalls, GateInv, Typed, TypeOK

\* A claim is a Claim of the abstract gate.
LEMMA ClaimMaps ==
    ASSUME GateInv, NEW c \in Calls, NEW a \in ActionIds, a = ActionOf(c), Claiming(c)
    PROVE  SingleUse!Claim(c, a)
<1>1. ActionOf(c) \in ActionIds /\ c # NoCall
  BY RequestFacts, ExecuteActionAssumption DEF GateInv, Typed
<1>2. pc[c] \in BeforeClaim
  BY DEF Claiming, BeforeClaim, Steps, Holding, Finished
<1>3. HolderOf[a] = NoCall
  BY <1>1 DEF Claiming, Claimable, HolderOf
<1>4. HolderOf' = [HolderOf EXCEPT ![a] = c]
  <2>1. ASSUME NEW b \in ActionIds
        PROVE  HolderOf'[b] = IF b = a THEN c ELSE HolderOf[b]
    BY <1>1 DEF Claiming, HolderOf, Live, GateInv, Typed, TypeOK
  <2> QED
    BY <2>1 DEF HolderOf
<1>5. c \notin Claimants
  BY <1>2 DEF Claimants, GateInv, StartedInTime
<1>6. Claimants' = Claimants \cup {c}
  <2>1. world # NothingFetched
    BY ExecuteActionAssumption DEF NothingFetched, Null, GateInv, Typed, TypeOK
  <2> QED
    BY <2>1 DEF Claiming, Claimants, GateInv, Typed, TypeOK
<1>7. /\ StartedCalls' \in {StartedCalls, StartedCalls \cup {c}}
      /\ AppliedCalls' = AppliedCalls
  <2>1. CASE executor' = executor
    BY <2>1 DEF StartedCalls, AppliedCalls
  <2>2. CASE StartExecutor(c)
    BY <1>2, <2>2, StartMaps DEF GateInv, StartedInTime
  <2> QED
    BY <2>1, <2>2 DEF Claiming
<1> QED
  BY <1>3, <1>4, <1>5, <1>6, <1>7
  DEF SingleUse!Claim, SingleUse!Grant, HolderOf, Claimants, StartedCalls, AppliedCalls

\* A start after the recheck is a Start of the abstract gate.
LEMMA StartStepMaps ==
    ASSUME GateInv, NEW c \in Calls, NEW a \in ActionIds, a = ActionOf(c), Starts(c)
    PROVE  SingleUse!Start(c, a)
<1>1. HolderOf[a] = c
  BY RequestFacts
  DEF Starts, HolderOf, GateInv, HolderOwnsAuthorization, InFlight, Holding, Typed
<1>2. executor[c] = "idle"
  BY DEF Starts, GateInv, StartedInTime
<1>3. HolderOf' = HolderOf /\ Claimants' = Claimants
  BY SameHolder DEF Starts, Claimants
<1>4. StartedCalls' = StartedCalls \cup {c} /\ AppliedCalls' = AppliedCalls
  BY <1>2, StartMaps DEF Starts
<1> QED
  BY <1>1, <1>2, <1>3, <1>4
  DEF SingleUse!Start, HolderOf, Claimants, StartedCalls, AppliedCalls

\* The consumption is a Release of the abstract gate.
LEMMA ReleaseMaps ==
    ASSUME GateInv, NEW c \in Calls, NEW a \in ActionIds, a = ActionOf(c), Releases(c)
    PROVE  SingleUse!Release(c, a)
<1>1. ActionOf(c) \in ActionIds
  BY RequestFacts DEF GateInv, Typed
<1>2. HolderOf[a] = c
  BY <1>1 DEF Releases, HolderOf, GateInv, HolderOwnsAuthorization, InFlight, Holding
<1>3. executor[c] # "idle"
  BY DEF Releases, GateInv, StartedInTime, Executing, Holding
<1>4. HolderOf' = [HolderOf EXCEPT ![a] = NoCall]
  BY <1>1 DEF Releases, HolderOf, Live, GateInv, Typed, TypeOK, Authorizations
<1> QED
  BY <1>2, <1>3, <1>4
  DEF Releases, SingleUse!Release, HolderOf

\* An answer of an executor is an Apply of the abstract gate, or a stutter.
LEMMA AnswerMaps ==
    ASSUME GateInv, NEW c \in Calls, Answers(c)
    PROVE  SingleUse!Apply(c) \/ UNCHANGED SingleUse!gateVars
<1>1. HolderOf' = HolderOf /\ Claimants' = Claimants
  BY SameHolder DEF Answers, Claimants
<1>2. PICK answer \in {"applied", "refused", "unavailable", "failed"} :
          executor' = [executor EXCEPT ![c] = answer]
  BY DEF Answers
<1>3. StartedCalls' = StartedCalls
  BY <1>2 DEF Answers, StartedCalls, GateInv, Typed, TypeOK
<1>4. CASE answer = "applied"
  <2>1. c \in StartedCalls \ AppliedCalls /\ AppliedCalls' = AppliedCalls \cup {c}
    BY <1>2, <1>4 DEF Answers, StartedCalls, AppliedCalls, GateInv, Typed, TypeOK
  <2> QED
    BY <1>1, <1>3, <2>1
    DEF SingleUse!Apply, HolderOf, Claimants, StartedCalls, AppliedCalls
<1>5. CASE answer # "applied"
  <2>1. AppliedCalls' = AppliedCalls
    BY <1>2, <1>5 DEF Answers, AppliedCalls, GateInv, Typed, TypeOK
  <2> QED
    BY <1>1, <1>3, <2>1
    DEF SingleUse!gateVars, HolderOf, Claimants, StartedCalls, AppliedCalls
<1> QED
  BY <1>4, <1>5

\* Every step maps to a step of the abstract gate, or a stutter.
LEMMA StepMaps == GateInv /\ [Next]_vars => [SingleUse!Next]_(SingleUse!gateVars)
<1> SUFFICES ASSUME GateInv, [Next]_vars
             PROVE  SingleUse!Next \/ UNCHANGED SingleUse!gateVars
  OBVIOUS
<1>1. ASSUME NEW c \in Calls, Claiming(c) \/ Starts(c) \/ Releases(c)
      PROVE  SingleUse!Next
  <2>1. PICK a \in ActionIds : a = ActionOf(c)
    BY RequestFacts DEF GateInv, Typed
  <2>2. CASE Claiming(c)
    BY <2>1, <2>2, ClaimMaps DEF SingleUse!Next
  <2>3. CASE Starts(c)
    BY <2>1, <2>3, StartStepMaps DEF SingleUse!Next
  <2>4. CASE Releases(c)
    BY <2>1, <2>4, ReleaseMaps DEF SingleUse!Next
  <2> QED
    BY <1>1, <2>2, <2>3, <2>4
<1>2. ASSUME NEW c \in Calls, Answers(c)
      PROVE  SingleUse!Next \/ UNCHANGED SingleUse!gateVars
  BY <1>2, AnswerMaps DEF SingleUse!Next
<1>3. CASE UNCHANGED <<authorization, executor, atClaim>>
  BY <1>3 DEF SingleUse!gateVars, Live
<1> QED
  BY <1>1, <1>2, <1>3, GateSteps DEF GateStep, Passes, GateInv

\* Initial states map to initial states of the abstract gate.
LEMMA InitMaps == Init => SingleUse!Init
BY DEF Init, SingleUse!Init, NoAuthorization, Live

\* Concurrent execute() and executeApproved() calls, with their executors,
\* reviewers, deadlines, store errors and crashes, implement the single-use gate.
THEOREM Implements == Spec => ImplementsGate
BY InitMaps, StepMaps, GateInvariant, PTL DEF Spec, ImplementsGate, SingleUse!Spec

-----------------------------------------------------------------------------
(* What one step changes. *)

\* A step that is taken for a call: its own, or one of its executor.
StepFor(c) == CallStep(c) \/ ExecutorStep(c) \/ Crash(c) \/ StoreFails(c)

\* What a call, its records and its executor are known by.
SameCall(d) ==
    /\ pc'[d] = pc[d]
    /\ local'[d] = local[d]
    /\ outcome'[d] = outcome[d]
    /\ decisions'[d] = decisions[d]
    /\ execution'[d] = execution[d]
    /\ executor'[d] = executor[d]
    /\ atClaim'[d] = atClaim[d]

\* A step for one call leaves every other call, its records and its executor as they
\* were.
LEMMA OthersKeep ==
    ASSUME Typed, NEW c \in Calls, StepFor(c), NEW d \in Calls, d # c
    PROVE  SameCall(d)
<1> USE DEF Typed, TypeOK, SameCall
<1>1. CASE Guards(c)
  <2>1. UNCHANGED <<local, store, outside, atClaim>>
    BY <1>1 DEF Guards, Submit, EscalationGuard, ApprovalGuard, AuthorizationGuard
  <2>2. pc'[d] = pc[d] /\ outcome'[d] = outcome[d]
    BY <1>1, GuardMoves DEF Goto, Finish
  <2> QED
    BY <2>1, <2>2 DEF store, outside
<1>2. CASE Validation(c)
  <2>1. CASE Propose(c) \/ Fetch(c) \/ Validate(c)
    BY <2>1 DEF Propose, Fetch, Validate, SaveDecision, store, outside, Goto, Finish
  <2>2. CASE ConsumedGuard(c) \/ Revalidate(c)
    BY <2>2
    DEF ConsumedGuard, Revalidate, Route, SaveDecision, store, outside, Goto, Finish
  <2> QED
    BY <1>2, <2>1, <2>2 DEF Validation
<1>3. CASE Authorizing(c)
  <2>1. CASE Escalate(c) \/ GateEscalate(c) \/ Gate(c)
    BY <2>1
    DEF Escalate, GateEscalate, Gate, SaveEscalation, SaveDecision, outside, Goto,
        Finish
  <2>2. CASE Claim(c)
    BY <2>2 DEF Claim, StartExecutor, Goto, Finish
  <2>3. CASE Recheck(c)
    BY <2>3 DEF Recheck, SaveDecision, StartExecutor, Goto, Finish
  <2> QED
    BY <1>3, <2>1, <2>2, <2>3 DEF Authorizing
<1>4. CASE Answer(c) \/ Settlement(c)
  BY <1>4
  DEF Answer, ExecutorSucceeds, ExecutorReportsFailure, ConditionRefused,
      ConditionalFault, Settlement, DeadlineReached, SaveExecution, Consume, Reassess,
      Settle, SaveDecision, store, outside, Goto, Finish
<1>5. CASE ExecutorStep(c)
  BY <1>5
  DEF ExecutorStep, ExecutorApplies, ExecutorRefuses, ExecutorFails, AnswerOf, calls,
      store
<1>6. CASE Crash(c) \/ StoreFails(c)
  BY <1>6 DEF Crash, StoreFails, store, outside, Finish
<1> QED
  BY <1>1, <1>2, <1>3, <1>4, <1>5, <1>6 DEF StepFor, CallStep

\* A new evaluation takes the time, forgets what was fetched, and keeps the
\* snapshots, the verdicts and the result of the one before.
LEMMA StartEvaluationFields ==
    ASSUME Typed, NEW c \in Calls
    PROVE  LET l == StartEvaluation(c) IN
           /\ l.evaluated_at = clock /\ l.cursor = 1 /\ l.fetched = NothingFetched
           /\ l.snapshots = local[c].snapshots /\ l.verdicts = local[c].verdicts
           /\ l.stage = local[c].stage /\ l.started_at = local[c].started_at
           /\ l.result = local[c].result
<1>1. local[c] \in Locals
  BY DEF Typed, TypeOK
<1> QED
  BY <1>1 DEF StartEvaluation, Locals

\* A fetch records the current version of one dependency, or that it is unavailable,
\* and nothing else.
LEMMA FetchFields ==
    ASSUME Typed, NEW c \in Calls, Fetch(c)
    PROVE  /\ local'[c].evaluated_at = local[c].evaluated_at
           /\ \E r \in DependenciesOf(c) : \E version \in {world[r], Null} :
                  local'[c].fetched = [local[c].fetched EXCEPT ![r] = version]
           /\ local'[c].snapshots = local[c].snapshots
           /\ local'[c].verdicts = local[c].verdicts
           /\ local'[c].stage = local[c].stage /\ local'[c].started_at = local[c].started_at
           /\ local'[c].result = local[c].result
<1> DEFINE r == req[c].dependencies[local[c].cursor]
<1>1. local[c].cursor \in 1..Len(req[c].dependencies)
  BY RequestFacts DEF Fetch, Fetched, Typed, TypeOK, CursorPositive, Locals
<1>2. r \in DependenciesOf(c)
  BY <1>1 DEF DependenciesOf
<1>3. PICK version \in {world[r], Null} :
     local' = [local EXCEPT ![c] =
                  [local[c] EXCEPT !.fetched[r] = version, !.cursor = @ + 1]]
  BY DEF Fetch
<1> HIDE DEF r
<1> DEFINE f == [local[c].fetched EXCEPT ![r] = version]
           n == local[c].cursor + 1
           l == [local[c] EXCEPT !.fetched = f, !.cursor = n]
<1>4. local'[c] = l
  BY <1>3 DEF Typed, TypeOK
<1>5. local[c] \in Locals
  BY DEF Typed, TypeOK
<1>6. l.fetched = f
  BY <1>5 DEF Locals
<1> HIDE DEF f, n
<1>7. /\ l.evaluated_at = local[c].evaluated_at
      /\ l.snapshots = local[c].snapshots
           /\ l.verdicts = local[c].verdicts
           /\ l.stage = local[c].stage /\ l.started_at = local[c].started_at
           /\ l.result = local[c].result
  BY <1>5 DEF Locals
<1> HIDE DEF l
<1> QED
  BY <1>2, <1>4, <1>6, <1>7 DEF f

\* Validation turns what was fetched into the snapshots and the verdicts on them.
LEMMA ValidateFields ==
    ASSUME Typed, NEW c \in Calls, Validate(c)
    PROVE  /\ local'[c].evaluated_at = local[c].evaluated_at
           /\ local'[c].fetched = local[c].fetched
           /\ local'[c].snapshots = local[c].fetched
           /\ local'[c].verdicts = EvaluatedVerdicts(c)
           /\ local'[c].stage = "validated"
           /\ local'[c].result = local[c].result
<1>5. local[c] \in Locals
  BY DEF Typed, TypeOK
<1> DEFINE v == EvaluatedVerdicts(c)
           l == [local[c] EXCEPT !.snapshots = local[c].fetched, !.verdicts = v,
                                 !.stage = "validated"]
<1>1. local'[c] = l
  BY DEF Validate, Typed, TypeOK
<1> HIDE DEF v
<1> QED
  BY <1>1, <1>5 DEF Locals, v

\* Revalidation recomputes the verdicts on the snapshots it has.
LEMMA RevalidateFields ==
    ASSUME Typed, NEW c \in Calls, Revalidate(c)
    PROVE  /\ local'[c].evaluated_at = local[c].evaluated_at
           /\ local'[c].fetched = local[c].fetched
           /\ local'[c].snapshots = local[c].snapshots
           /\ local'[c].verdicts = RecomputedVerdicts(c)
           /\ local'[c].stage = "revalidated"
           /\ local'[c].result = local[c].result
<1>5. local[c] \in Locals
  BY DEF Typed, TypeOK
<1> DEFINE v == RecomputedVerdicts(c)
           l == [local[c] EXCEPT !.verdicts = v, !.stage = "revalidated"]
<1>1. local'[c] = l
  BY DEF Revalidate, Typed, TypeOK
<1> HIDE DEF v
<1> QED
  BY <1>1, <1>5 DEF Locals, v

\* The start of the executor is dated, and nothing else of the memory changes.
LEMMA StartedFields ==
    ASSUME Typed, NEW c \in Calls, local' = [local EXCEPT ![c].started_at = clock]
    PROVE  /\ local'[c].evaluated_at = local[c].evaluated_at
           /\ local'[c].fetched = local[c].fetched
           /\ local'[c].snapshots = local[c].snapshots
           /\ local'[c].verdicts = local[c].verdicts
           /\ local'[c].stage = local[c].stage
           /\ local'[c].result = local[c].result
<1>1. local[c] \in Locals
  BY DEF Typed, TypeOK
<1> QED
  BY <1>1 DEF Locals, Typed, TypeOK

\* An answer, or the deadline, sets the result of the call and nothing else.
LEMMA SettleFields ==
    ASSUME Typed, NEW c \in Calls, NEW result, NEW step, Settle(c, result, step)
    PROVE  /\ local'[c].evaluated_at = local[c].evaluated_at
           /\ local'[c].fetched = local[c].fetched
           /\ local'[c].snapshots = local[c].snapshots
           /\ local'[c].verdicts = local[c].verdicts
           /\ local'[c].stage = local[c].stage
           /\ local'[c].result = result
<1>1. local[c] \in Locals
  BY DEF Typed, TypeOK
<1> QED
  BY <1>1 DEF Locals, Settle, Typed, TypeOK

\* A call that evaluates again keeps its snapshots, verdicts, stage and result.
LEMMA RestartFields ==
    ASSUME Typed, NEW c \in Calls, local' = [local EXCEPT ![c] = StartEvaluation(c)]
    PROVE  /\ local'[c].evaluated_at = clock
           /\ local'[c].fetched = NothingFetched
           /\ local'[c].snapshots = local[c].snapshots
           /\ local'[c].verdicts = local[c].verdicts
           /\ local'[c].stage = local[c].stage
           /\ local'[c].result = local[c].result
<1>1. local'[c] = StartEvaluation(c)
  BY DEF Typed, TypeOK
<1> QED
  BY <1>1, StartEvaluationFields

\* The memory of a call is as it was, but for a result or a start date.
MemoryKept(c) ==
    /\ local'[c].evaluated_at = local[c].evaluated_at
    /\ local'[c].fetched = local[c].fetched
    /\ local'[c].snapshots = local[c].snapshots
    /\ local'[c].verdicts = local[c].verdicts
    /\ local'[c].stage = local[c].stage

\* The call evaluates again, and keeps what the last validation established.
MemoryRestarted(c) ==
    /\ local'[c].evaluated_at = clock
    /\ local'[c].fetched = NothingFetched
    /\ local'[c].snapshots = local[c].snapshots
    /\ local'[c].verdicts = local[c].verdicts
    /\ local'[c].stage = local[c].stage

\* The steps that leave the memory of a call alone, but for a result.
Rests(c) ==
    \/ Guards(c) \/ ConsumedGuard(c)
    \/ Escalate(c) \/ Gate(c) \/ GateEscalate(c)
    \/ Answer(c) \/ DeadlineReached(c) \/ SaveExecution(c) \/ Reassess(c)
    \/ ExecutorStep(c) \/ Crash(c) \/ StoreFails(c)

\* These steps do leave the memory of the call alone.
LEMMA MemoryRests ==
    ASSUME Typed, NEW c \in Calls, Rests(c)
    PROVE  MemoryKept(c)
<1>1. UNCHANGED local => MemoryKept(c)
  BY DEF MemoryKept
<1>2. CASE Answer(c) \/ DeadlineReached(c)
  <2>1. \E result, step : Settle(c, result, step)
    BY <1>2
    DEF Answer, ExecutorSucceeds, ExecutorReportsFailure, ConditionRefused,
        ConditionalFault, DeadlineReached
  <2> QED
    BY <2>1, SettleFields DEF MemoryKept
<1>3. CASE Guards(c) \/ ExecutorStep(c) \/ Crash(c) \/ StoreFails(c)
  BY <1>1, <1>3
  DEF Guards, Submit, EscalationGuard, ApprovalGuard, AuthorizationGuard, ExecutorStep,
      ExecutorApplies, ExecutorRefuses, ExecutorFails, AnswerOf, calls, Crash,
      StoreFails
<1>4. CASE ConsumedGuard(c) \/ Escalate(c) \/ Gate(c) \/ GateEscalate(c) \/ SaveExecution(c)
           \/ Reassess(c)
  BY <1>1, <1>4 DEF ConsumedGuard, Escalate, Gate, GateEscalate, SaveExecution, Reassess
<1> QED
  BY <1>2, <1>3, <1>4 DEF Rests

\* The memory of a call changes by a fetch, a validation, a revalidation or a restart
\* of its evaluation.
LEMMA MemorySteps ==
    ASSUME Typed, NEW c \in Calls, StepFor(c)
    PROVE  \/ Fetch(c) \/ Validate(c) \/ Revalidate(c)
           \/ (Propose(c) \/ Claim(c) \/ Consume(c)) /\ MemoryRestarted(c)
           \/ MemoryKept(c)
<1>1. CASE Propose(c) \/ Claim(c) \/ Consume(c) \/ Recheck(c)
  BY <1>1, RestartFields, StartedFields
  DEF Propose, Claim, Consume, Recheck, MemoryRestarted, MemoryKept
<1>2. CASE Rests(c)
  BY <1>2, MemoryRests
<1> QED
  BY <1>1, <1>2 DEF Rests, StepFor, CallStep, Validation, Authorizing, Settlement

\* Only the executor's answer and the deadline set the result of a call.
LEMMA ResultKept ==
    ASSUME Typed, NEW c \in Calls, StepFor(c), pc[c] # "execute"
    PROVE  local'[c].result = local[c].result
<1>1. CASE UNCHANGED local
  BY <1>1
<1>2. CASE Propose(c) \/ Fetch(c) \/ Validate(c) \/ Revalidate(c)
  BY <1>2, RestartFields, FetchFields, ValidateFields, RevalidateFields DEF Propose
<1>3. CASE Claim(c) \/ Recheck(c) \/ Consume(c)
  BY <1>3, RestartFields, StartedFields DEF Claim, Recheck, Consume
<1>4. StepFor(c) => \/ UNCHANGED local
                    \/ Propose(c) \/ Fetch(c) \/ Validate(c) \/ Revalidate(c)
                    \/ Claim(c) \/ Recheck(c) \/ Consume(c)
  <2>1. Guards(c) => UNCHANGED local
    BY DEF Guards, Submit, EscalationGuard, ApprovalGuard, AuthorizationGuard
  <2>2. ~(Answer(c) \/ DeadlineReached(c))
    BY DEF Answer, ExecutorSucceeds, ExecutorReportsFailure, ConditionRefused,
           ConditionalFault, DeadlineReached
  <2>3. ExecutorStep(c) \/ Crash(c) \/ StoreFails(c) => UNCHANGED local
    BY DEF ExecutorStep, ExecutorApplies, ExecutorRefuses, ExecutorFails, AnswerOf,
           calls, Crash, StoreFails
  <2>4. \/ ConsumedGuard(c) \/ Escalate(c) \/ Gate(c) \/ GateEscalate(c)
        \/ SaveExecution(c) \/ Reassess(c)
        => UNCHANGED local
    BY DEF ConsumedGuard, Escalate, Gate, GateEscalate, SaveExecution, Reassess
  <2> QED
    BY <2>1, <2>2, <2>3, <2>4 DEF StepFor, CallStep, Validation, Authorizing, Settlement
<1> QED
  BY <1>1, <1>2, <1>3, <1>4

-----------------------------------------------------------------------------
(* Records: what results, outcomes and releases say. *)

\* The steps of a call whose executor has answered or timed out.
Settling == {"save_first", "consume_first", "consume_last", "save_last", "refetch"}

\* A result says what the executor really did: the parts of RecordedResultIsTrue, and
\* where the result is set and saved.
ResultKnown(c) ==
    LET result == local[c].result IN
    /\ result = "success" => executor[c] = "applied"
    /\ result = "failed" => executor[c] = "failed"
    /\ result = "condition_failed" => executor[c] = "refused"
    /\ result = "unavailable" => executor[c] = "unavailable"
    /\ pc[c] \in BeforeClaim \cup {"recheck_fetch", "execute"} => result = "none"
    /\ pc[c] \in Settling => result # "none"
    /\ pc[c] = "refetch" => result = "condition_failed"
    /\ execution[c] \in {"none", result}
    /\ pc[c] \in {"consume_last", "refetch"} => execution[c] = result

\* What the caller is told of a call: nothing before its end, never a refusal of what
\* was or may be applied, and no end without a saved record but a storage error.
OutcomeTold(c) ==
    /\ outcome[c] # "none" => pc[c] = "done"
    /\ outcome[c] \notin {"none", "executed", "storage_error"} =>
           executor[c] \notin {"running", "applied"}
    /\ (pc[c] = "done" /\ Started(c) /\ outcome[c] # "storage_error") =>
           execution[c] # "none"

\* A step of a call before its executor is invoked: it records no result, and ends,
\* goes on, or invokes the executor.
Unstarted(c) ==
    /\ pc[c] \in BeforeClaim \cup {"recheck_fetch"}
    /\ execution'[c] = execution[c]
    /\ executor[c] = "idle"
    /\ local'[c].result = local[c].result
    /\ \/ /\ executor'[c] = "idle"
          /\ pc'[c] \in BeforeClaim \cup {"recheck_fetch"} \cup Finished
          /\ outcome'[c] # outcome[c] => pc'[c] = "done"
       \/ executor'[c] = "running" /\ pc'[c] = "execute" /\ outcome'[c] = outcome[c]

\* Guards, validation and authorization are such steps.
LEMMA UnstartedSteps ==
    ASSUME GateInv, NEW c \in Calls, pc[c] # "refetch",
           Guards(c) \/ Validation(c) \/ Authorizing(c)
    PROVE  Unstarted(c)
<1>1. pc[c] \in BeforeClaim \cup {"recheck_fetch"}
  BY DEF Guards, Submit, EscalationGuard, ApprovalGuard, AuthorizationGuard, Validation,
         Propose, Fetch, Validate, ConsumedGuard, Revalidate, Fetching, Authorizing,
         Escalate, Gate, GateEscalate, Claim, Recheck, BeforeClaim, Steps, Holding,
         Finished
<1>2. executor[c] = "idle"
  BY <1>1 DEF GateInv, StartedInTime
<1>3. local'[c].result = local[c].result
  <2>1. StepFor(c)
    BY DEF StepFor, CallStep
  <2>2. pc[c] # "execute"
    BY <1>1 DEF BeforeClaim, Holding
  <2> QED
    BY <2>1, <2>2, ResultKept DEF GateInv
<1>4. execution'[c] = execution[c]
  BY DEF Guards, Submit, EscalationGuard, ApprovalGuard, AuthorizationGuard, Validation,
         Propose, Fetch, Validate, ConsumedGuard, Revalidate, store, Authorizing,
         Escalate, Gate, GateEscalate, Claim, Recheck
<1>5. \/ /\ executor'[c] = "idle"
         /\ pc'[c] \in BeforeClaim \cup {"recheck_fetch"} \cup Finished
         /\ outcome'[c] # outcome[c] => pc'[c] = "done"
      \/ executor'[c] = "running" /\ pc'[c] = "execute" /\ outcome'[c] = outcome[c]
  <2> USE DEF GateInv, Typed, TypeOK, BeforeClaim, Steps, Holding, Finished
  <2>1. CASE Guards(c)
    <3>1. executor' = executor
      BY <2>1
      DEF Guards, Submit, EscalationGuard, ApprovalGuard, AuthorizationGuard, outside
    <3>2. CASE \E step \in {"approval_guard", "escalation_guard", "authorization_guard",
                           "propose"} : Goto(c, step)
      BY <1>2, <3>1, <3>2 DEF Goto
    <3>3. CASE \E result \in CallOutcomes : Finish(c, result)
      BY <1>2, <3>1, <3>3 DEF Finish
    <3> QED
      BY <2>1, <3>2, <3>3, GuardMoves
  <2>2. CASE Validation(c)
    <3>1. executor' = executor
      BY <2>2
      DEF Validation, Propose, Fetch, Validate, ConsumedGuard, Revalidate, outside
    <3>2. \/ Fetch(c)
          \/ \E step \in {"fetch", "consumed_guard", "revalidate", "gate", "claim",
                          "escalate"} : Goto(c, step)
          \/ \E result \in CallOutcomes : Finish(c, result)
      BY <2>2
      DEF Validation, Propose, Validate, ConsumedGuard, Revalidate, Route, CallOutcomes
    <3>3. CASE Fetch(c)
      BY <1>1, <1>2, <3>1, <3>3 DEF Fetch
    <3>4. CASE \E step \in {"fetch", "consumed_guard", "revalidate", "gate", "claim",
                           "escalate"} : Goto(c, step)
      BY <1>2, <3>1, <3>4 DEF Goto
    <3>5. CASE \E result \in CallOutcomes : Finish(c, result)
      BY <1>2, <3>1, <3>5 DEF Finish
    <3> QED
      BY <3>2, <3>3, <3>4, <3>5
  <2>3. CASE Authorizing(c)
    BY <2>3, <1>2
    DEF Authorizing, Escalate, Gate, GateEscalate, Claim, Recheck, SaveEscalation,
        StartExecutor, outside, Goto, Finish
  <2> QED
    BY <2>1, <2>2, <2>3
<1> QED
  BY <1>1, <1>2, <1>3, <1>4, <1>5 DEF Unstarted

\* A step for a call keeps its result true and its outcome honest.
LEMMA RecordsStep ==
    ASSUME GateInv, NEW c \in Calls, StepFor(c), ResultKnown(c), OutcomeTold(c)
    PROVE  ResultKnown(c)' /\ OutcomeTold(c)'
<1> USE DEF Settling
<1>1. CASE pc[c] # "refetch" /\ (Guards(c) \/ Validation(c) \/ Authorizing(c))
  <2>1. Unstarted(c)
    BY <1>1, UnstartedSteps
  <2> QED
    BY <2>1
    DEF Unstarted, ResultKnown, OutcomeTold, BeforeClaim, Steps, Holding, Finished,
        Settling, Started
<1>2. CASE pc[c] = "refetch" /\ (Guards(c) \/ Validation(c) \/ Authorizing(c))
  <2>1. Fetch(c)
    BY <1>2
    DEF Guards, Submit, EscalationGuard, ApprovalGuard, AuthorizationGuard, Validation,
        Propose, Validate, ConsumedGuard, Revalidate, Authorizing, Escalate, Gate,
        GateEscalate, Claim, Recheck
  <2> QED
    BY <2>1, FetchFields
    DEF Fetch, ResultKnown, OutcomeTold, GateInv, store, outside, Started
<1>3. CASE Answer(c) \/ DeadlineReached(c)
  <2>1. /\ pc[c] = "execute"
        /\ \E result \in ExecutionResults, step \in {"save_first", "consume_first"} :
              /\ Settle(c, result, step)
              /\ result = "success" => executor[c] = "applied"
              /\ result = "failed" => executor[c] = "failed"
              /\ result = "condition_failed" => executor[c] = "refused"
              /\ result = "unavailable" => executor[c] = "unavailable"
              /\ result # "none"
    BY <1>3
    DEF Answer, ExecutorSucceeds, ExecutorReportsFailure, ConditionRefused,
        ConditionalFault, DeadlineReached, ExecutionResults
  <2> QED
    BY <2>1, SettleFields
    DEF Settle, Goto, GateInv, Typed, TypeOK, store, outside, ResultKnown, OutcomeTold,
        BeforeClaim, Steps, Holding, Finished, Settling, Started
<1>4. CASE SaveExecution(c)
  <2>1. local'[c].result = local[c].result
    BY <1>4 DEF SaveExecution
  <2> QED
    BY <1>4, <2>1
    DEF SaveExecution, Goto, Finish, GateInv, Typed, TypeOK, outside, ResultKnown,
        OutcomeTold, BeforeClaim, Steps, Holding, Finished, Settling, Started
<1>5. CASE Consume(c)
  <2>1. local'[c].result = local[c].result
    BY <1>5, RestartFields DEF Consume, GateInv
  <2> QED
    BY <1>5, <2>1
    DEF Consume, Goto, Finish, FailedClosed, GateInv, Typed, TypeOK, outside,
        ResultKnown, OutcomeTold, BeforeClaim, Steps, Holding, Finished, Settling,
        Started
<1>6. CASE Reassess(c)
  BY <1>6
  DEF Reassess, Finish, GateInv, Typed, TypeOK, outside, ResultKnown, OutcomeTold,
      BeforeClaim, Steps, Holding, Finished, Settling, Started
<1>7. CASE ExecutorStep(c)
  BY <1>7
  DEF ExecutorStep, ExecutorApplies, ExecutorRefuses, ExecutorFails, AnswerOf, calls,
      store, GateInv, Typed, TypeOK, ResultKnown, OutcomeTold, Started
<1>8. CASE Crash(c) \/ StoreFails(c)
  BY <1>8
  DEF Crash, StoreFails, UsesStore, Finish, GateInv, Typed, TypeOK, store, outside,
      ResultKnown, OutcomeTold, BeforeClaim, Steps, Holding, Finished, Settling, Started
<1> QED
  BY <1>1, <1>2, <1>3, <1>4, <1>5, <1>6, <1>7, <1>8 DEF StepFor, CallStep, Settlement

\* A call that is past its consumption, or ended without a storage error after its
\* executor was invoked, holds no live authorization.
Released(c) ==
    (\/ pc[c] \in {"save_last", "refetch"}
     \/ pc[c] = "done" /\ Started(c) /\ outcome[c] # "storage_error") =>
        ~(authorization[ActionOf(c)].owner = c /\ Live(ActionOf(c)))

\* The steps of reviewers, of the world and of the clock.
Surroundings ==
    /\ UNCHANGED <<calls, actions, decisions, authorization, execution, executor, atClaim>>
    /\ (\E v \in Reviewers : ReviewStep(v)) \/ UNCHANGED <<escalation, review>>

\* Every step is taken for one call, or by its surroundings.
LEMMA NextSteps ==
    ASSUME [Next]_vars
    PROVE  (\E c \in Calls : StepFor(c)) \/ Surroundings
<1>1. CASE \/ \E v \in Reviewers : ReviewStep(v)
           \/ \E r \in Refs : Mutate(r)
           \/ Tick
           \/ Terminated
           \/ UNCHANGED vars
  BY <1>1
  DEF ReviewStep, ReadEscalation, ResolveEscalation, Mutate, Tick, Terminated, vars,
      calls, store, Surroundings
<1> QED
  BY <1>1 DEF Next, StepFor

\* The request of a call never changes.
LEMMA RequestsStay ==
    ASSUME Typed, [Next]_vars
    PROVE  req' = req
BY GateSteps DEF GateStep, Passes, Claiming, Starts, Releases, Answers

\* No other call brings back an authorization that a call has released.
LEMMA ReleasedByOthers ==
    ASSUME GateInv, NEW c \in Calls, StepFor(c), NEW d \in Calls, d # c, Released(d)
    PROVE  Released(d)'
<1>1. [Next]_vars
  BY DEF StepFor, Next
<1>2. req' = req
  BY <1>1, RequestsStay DEF GateInv
<1>3. SameCall(d)
  BY OthersKeep DEF GateInv
<1>4. ActionOf(d) \in ActionIds /\ ActionOf(d)' = ActionOf(d)
  BY <1>2, RequestFacts DEF GateInv, Typed, ActionOf
<1>5. (authorization'[ActionOf(d)].owner = d /\ ~authorization'[ActionOf(d)].consumed) =>
         authorization[ActionOf(d)].owner = d /\ ~authorization[ActionOf(d)].consumed
  <2> SUFFICES ASSUME NEW a \in ActionIds,
                      authorization'[a].owner = d, ~authorization'[a].consumed
               PROVE  authorization[a].owner = d /\ ~authorization[a].consumed
    BY <1>4
  <2>1. authorization' = authorization \/ Claiming(c) \/ Releases(c)
    <3>1. CASE CallStep(c)
      BY <3>1, CallGateStep DEF GateStep, Passes, Starts, GateInv
    <3>2. CASE ExecutorStep(c) \/ Crash(c) \/ StoreFails(c)
      BY <3>2
      DEF ExecutorStep, ExecutorApplies, ExecutorRefuses, ExecutorFails, AnswerOf,
          Crash, StoreFails, store
    <3> QED
      BY <3>1, <3>2 DEF StepFor
  <2>2. CASE Claiming(c)
    BY <2>2, RequestFacts DEF Claiming, GateInv, Typed, TypeOK
  <2>3. CASE Releases(c)
    BY <2>3, RequestFacts DEF Releases, GateInv, Typed, TypeOK
  <2> QED
    BY <2>1, <2>2, <2>3
<1> QED
  BY <1>3, <1>4, <1>5 DEF SameCall, Released, Started, Live

\* A call that has released its authorization does not take it again.
LEMMA ReleasedStep ==
    ASSUME GateInv, NEW c \in Calls, StepFor(c), ResultKnown(c), OutcomeTold(c), Released(c)
    PROVE  Released(c)'
<1>1. [Next]_vars
  BY DEF StepFor, Next
<1>2. req' = req
  BY <1>1, RequestsStay DEF GateInv
<1>4. ActionOf(c) \in ActionIds /\ ActionOf(c)' = ActionOf(c)
  BY <1>2, RequestFacts DEF GateInv, Typed, ActionOf
<1>5. CASE Consume(c)
  BY <1>4, <1>5 DEF Consume, Released, GateInv, Typed, TypeOK, Live, Authorizations
<1>6. CASE pc[c] # "refetch" /\ (Guards(c) \/ Validation(c) \/ Authorizing(c))
  <2>1. Unstarted(c)
    BY <1>6, UnstartedSteps
  <2> QED
    BY <2>1
    DEF Unstarted, Released, BeforeClaim, Steps, Holding, Finished, Settling, Started
<1>7. CASE pc[c] = "refetch" /\ (Guards(c) \/ Validation(c) \/ Authorizing(c))
  <2>1. Fetch(c)
    BY <1>7
    DEF Guards, Submit, EscalationGuard, ApprovalGuard, AuthorizationGuard, Validation,
        Propose, Validate, ConsumedGuard, Revalidate, Authorizing, Escalate, Gate,
        GateEscalate, Claim, Recheck
  <2> QED
    BY <1>4, <1>7, <2>1 DEF Fetch, Released, store, outside, Live
<1>8. CASE Answer(c) \/ DeadlineReached(c)
  <2>1. pc'[c] \in {"save_first", "consume_first"}
    BY <1>8
    DEF Answer, ExecutorSucceeds, ExecutorReportsFailure, ConditionRefused,
        ConditionalFault, DeadlineReached, Settle, Goto, GateInv, Typed, TypeOK
  <2> QED
    BY <2>1 DEF Released
<1>9. CASE SaveExecution(c)
  BY <1>4, <1>9
  DEF SaveExecution, Goto, Finish, GateInv, Typed, TypeOK, outside, Released, Live,
      Started
<1>10. CASE Reassess(c)
  BY <1>4, <1>10
  DEF Reassess, Finish, GateInv, Typed, TypeOK, outside, Released, Live, Started
<1>11. CASE ExecutorStep(c)
  BY <1>4, <1>11
  DEF ExecutorStep, ExecutorApplies, ExecutorRefuses, ExecutorFails, AnswerOf, calls,
      store, GateInv, Typed, TypeOK, Released, Started, Live
<1>12. CASE Crash(c) \/ StoreFails(c)
  BY <1>4, <1>12
  DEF Crash, StoreFails, Finish, GateInv, Typed, TypeOK, store, outside, Released, Live
<1> QED
  BY <1>5, <1>6, <1>7, <1>8, <1>9, <1>10, <1>11, <1>12 DEF StepFor, CallStep, Settlement

\* The gate invariant, with every call's result, outcome and release.
RecordInv == GateInv /\ \A c \in Calls : ResultKnown(c) /\ OutcomeTold(c) /\ Released(c)

\* The records are true initially: there are none.
LEMMA RecordInit == Init => RecordInv
<1> SUFFICES ASSUME Init PROVE RecordInv
  OBVIOUS
<1> QED
  BY GateInit
  DEF Init, RecordInv, ResultKnown, OutcomeTold, Released, NoLocal, Settling,
      BeforeClaim, Steps, Holding, Finished, Started

\* The invariant of the records is inductive.
LEMMA RecordInductive == RecordInv /\ [Next]_vars => RecordInv'
<1> SUFFICES ASSUME RecordInv, [Next]_vars PROVE RecordInv'
  OBVIOUS
<1>1. GateInv'
  BY GateInductive DEF RecordInv
<1>2. req' = req
  BY RequestsStay DEF RecordInv, GateInv
<1>3. ASSUME NEW c \in Calls, StepFor(c), NEW d \in Calls
      PROVE  (ResultKnown(d) /\ OutcomeTold(d) /\ Released(d))'
  <2>1. CASE d = c
    BY <1>3, <2>1, RecordsStep, ReleasedStep DEF RecordInv
  <2>2. CASE d # c
    <3>1. Released(d)'
      BY <1>3, <2>2, ReleasedByOthers DEF RecordInv
    <3>2. SameCall(d)
      BY <1>3, <2>2, OthersKeep DEF RecordInv, GateInv
    <3> QED
      BY <3>1, <3>2 DEF SameCall, RecordInv, ResultKnown, OutcomeTold, Started
  <2> QED
    BY <2>1, <2>2
<1>4. CASE Surroundings
  BY <1>1, <1>4
  DEF Surroundings, calls, RecordInv, ResultKnown, OutcomeTold, Released, Started, Live,
      ActionOf
<1> QED
  BY <1>1, <1>3, <1>4, NextSteps DEF RecordInv

\* The invariant of the records holds in every reachable state.
LEMMA RecordInvariant == Spec => []RecordInv
BY RecordInit, RecordInductive, PTL DEF Spec

\* An execution recorded as a success was applied by its executor, and one recorded
\* as failed, unavailable or with a failed condition was not and will not be:
\* whatever the deadlines, the crashes and the errors of the store.
THEOREM RecordsAreTrue == Spec => []RecordedResultIsTrue
<1>1. RecordInv => RecordedResultIsTrue
  BY DEF RecordInv, ResultKnown, RecordedResultIsTrue
<1> QED
  BY <1>1, RecordInvariant, PTL

\* A caller that is told anything but that its action was executed, or that the store
\* failed, can rely on it: its executor was never invoked, or answered without an
\* effect.
THEOREM RefusalsHaveNoEffect == Spec => []NotExecutedMeansNoEffect
<1>1. RecordInv => NotExecutedMeansNoEffect
  BY DEF RecordInv, OutcomeTold, NotExecutedMeansNoEffect
<1> QED
  BY <1>1, RecordInvariant, PTL

\* A call that ends after its executor was invoked, and was told of no storage error,
\* left a saved result and no live authorization.
THEOREM EndsSettled == Spec => []FinishedExecutionIsSettled
<1>1. RecordInv => FinishedExecutionIsSettled
  BY DEF RecordInv, OutcomeTold, Released, FinishedExecutionIsSettled
<1> QED
  BY <1>1, RecordInvariant, PTL

-----------------------------------------------------------------------------
(* What authorizations and escalations cite. *)

\* The stages whose decision can admit an action.
CitedStages == {"validated", "revalidated"}

\* A call on its way to its claim or escalation holds the decision that sent it
\* there, under the stage its memory names.
Cites(c) ==
    /\ local[c].stage \in CitedStages
    /\ pc[c] = "consumed_guard" => local[c].stage = "validated"
    /\ pc[c] \in {"gate", "claim"} => Admitted(c, decisions[c][local[c].stage])
    /\ pc[c] = "escalate" => decisions[c][local[c].stage] = "ESCALATE"
    /\ pc[c] = "gate_escalate" => decisions[c]["gate"] = "ESCALATE"

\* The authorization of an action id cites an admitting decision of its owner, and
\* the owner is past its claim.
AuthorizationCites(a) ==
    LET c == authorization[a].owner IN
    c # NoCall =>
        /\ ActionOf(c) = a
        /\ pc[c] \notin BeforeClaim
        /\ authorization[a].stage \in CitedStages
        /\ Admitted(c, decisions[c][authorization[a].stage])

\* The escalation of an action id cites an escalating decision of its owner, and the
\* owner has ended.
EscalationCites(a) ==
    LET c == escalation[a].owner IN
    escalation[a].status # "NONE" =>
        /\ c \in Calls
        /\ pc[c] \in Finished
        /\ ActionOf(c) = a
        /\ decisions[c][escalation[a].stage] = "ESCALATE"

\* A reviewer with a verdict has seen an escalation.
ReviewSees(v) ==
    review[v].verdict \in {"APPROVED", "REJECTED"} =>
        escalation[review[v].action_id].status # "NONE"

\* The gate invariant, with everything that cites a decision.
CiteInv ==
    /\ GateInv
    /\ \A c \in Calls : Cites(c)
    /\ \A a \in ActionIds : AuthorizationCites(a) /\ EscalationCites(a)
    /\ \A v \in Reviewers : ReviewSees(v)

\* Past its claim a call stays there, and its cited decisions stay
LEMMA PastClaim ==
    ASSUME GateInv, NEW c \in Calls, StepFor(c), NEW d \in Calls, pc[d] \notin BeforeClaim
    PROVE  /\ pc'[d] \notin BeforeClaim
           /\ \A s \in CitedStages : decisions'[d][s] = decisions[d][s]
<1>1. CASE d # c
  BY <1>1, OthersKeep DEF SameCall, GateInv
<1>2. CASE d = c
  <2>1. pc'[c] \notin BeforeClaim
    <3>1. CASE CallStep(c)
      BY <1>2, <3>1, CallGateStep
      DEF GateStep, Passes, Claiming, Starts, Releases, GateInv, Typed, TypeOK,
          BeforeClaim, Holding, Finished
    <3>2. CASE ExecutorStep(c) \/ Crash(c) \/ StoreFails(c)
      BY <1>2, <3>2
      DEF ExecutorStep, ExecutorApplies, ExecutorRefuses, ExecutorFails, AnswerOf,
          calls, Crash, StoreFails, Finish, BeforeClaim, Holding, Finished, GateInv,
          Typed, TypeOK
    <3> QED
      BY <3>1, <3>2 DEF StepFor
  <2>2. \A s \in CitedStages : decisions'[c][s] = decisions[c][s]
    <3>1. CASE Recheck(c) \/ Reassess(c)
      <4>1. \/ decisions' = decisions
            \/ \E stage \in {"recheck", "condition_failed"} : \E decision :
                   SaveDecision(c, stage, decision)
        BY <3>1 DEF Recheck, Reassess
      <4>2. \A stage \in {"recheck", "condition_failed"} : \A decision :
               SaveDecision(c, stage, decision)
               => decisions'[c] = [decisions[c] EXCEPT ![stage] = decision]
        BY DEF SaveDecision, GateInv, Typed, TypeOK
      <4>3. decisions[c] \in [Stages -> Decisions \cup {"none"}]
        BY DEF GateInv, Typed, TypeOK
      <4> QED
        BY <4>1, <4>2, <4>3 DEF CitedStages, Stages
    <3>2. CASE ~(Recheck(c) \/ Reassess(c)) /\ (Validation(c) \/ Authorizing(c))
      <4>1. pc[c] \notin {"fetch", "revalidate", "gate"}
        BY <1>2 DEF BeforeClaim, Steps, Holding, Finished
      <4>2. decisions' = decisions
        BY <3>2, <4>1
        DEF Validation, Propose, Fetch, Validate, ConsumedGuard, Revalidate,
            Authorizing, Escalate, Gate, GateEscalate, Claim, store
      <4> QED
        BY <4>2
    <3>3. CASE \/ Guards(c) \/ Answer(c) \/ DeadlineReached(c)
               \/ SaveExecution(c) \/ Consume(c)
      BY <3>3
      DEF Guards, Submit, EscalationGuard, ApprovalGuard, AuthorizationGuard, Answer,
          ExecutorSucceeds, ExecutorReportsFailure, ConditionRefused, ConditionalFault,
          DeadlineReached, SaveExecution, Consume, Settle, store
    <3>4. CASE ExecutorStep(c) \/ Crash(c) \/ StoreFails(c)
      BY <3>4
      DEF ExecutorStep, ExecutorApplies, ExecutorRefuses, ExecutorFails, AnswerOf,
          Crash, StoreFails, store
    <3> QED
      BY <3>1, <3>2, <3>3, <3>4 DEF StepFor, CallStep, Settlement
  <2> QED
    BY <1>2, <2>1, <2>2
<1> QED
  BY <1>1, <1>2

\* A call that moves on to its claim or escalation takes the decision with it.
LEMMA CitesStep ==
    ASSUME GateInv, NEW c \in Calls, StepFor(c), Cites(c)
    PROVE  Cites(c)'
<1>1. [Next]_vars
  BY DEF StepFor, Next
<1>2. req' = req
  BY <1>1, RequestsStay DEF GateInv
<1>3. \A decision : Admitted(c, decision)' <=> Admitted(c, decision)
  BY <1>2 DEF Admitted
<1> HIDE DEF Admitted
<1>4. CASE Validate(c)
  <2>1. pc'[c] = "consumed_guard"
    BY <1>4 DEF Validate, Goto, GateInv, Typed, TypeOK
  <2> QED
    BY <1>4, <2>1, ValidateFields DEF Cites, CitedStages, GateInv
<1>5. CASE ConsumedGuard(c)
  <2>1. local[c].stage = "validated" /\ local' = local /\ decisions' = decisions
    BY <1>5 DEF ConsumedGuard, store, Cites
  <2>2. \/ pc'[c] \in {"done", "revalidate"}
        \/ pc'[c] \in {"gate", "claim"} /\ Admitted(c, decisions[c]["validated"])
        \/ pc'[c] = "escalate" /\ decisions[c]["validated"] = "ESCALATE"
    BY <1>5 DEF ConsumedGuard, Route, Goto, Finish, GateInv, Typed, TypeOK
  <2> QED
    BY <1>3, <2>1, <2>2 DEF Cites, CitedStages
<1>6. CASE Revalidate(c)
  <2>1. PICK decision : decision = DecisionOn(c, RecomputedVerdicts(c), TRUE)
    OBVIOUS
  <2>2. decisions'[c]["revalidated"] = decision
    BY <1>6, <2>1 DEF Revalidate, SaveDecision, GateInv, Typed, TypeOK, Stages
  <2>3. Route(c, decision)
    BY <1>6, <2>1 DEF Revalidate
  <2>4. \/ pc'[c] \in {"done", "revalidate"}
        \/ pc'[c] \in {"gate", "claim"} /\ Admitted(c, decision)
        \/ pc'[c] = "escalate" /\ decision = "ESCALATE"
    BY <2>3 DEF Route, Goto, Finish, GateInv, Typed, TypeOK
  <2>5. local'[c].stage = "revalidated"
    BY <1>6, RevalidateFields DEF GateInv
  <2> QED
    BY <1>3, <2>2, <2>4, <2>5 DEF Cites, CitedStages
<1>7. CASE Gate(c)
  <2>1. local' = local /\ decisions'[c]["gate"] = Recorded(GateDecision(c), req[c].mode)
        /\ \A s \in CitedStages : decisions'[c][s] = decisions[c][s]
    BY <1>7 DEF Gate, SaveDecision, GateInv, Typed, TypeOK, Stages, CitedStages
  <2>2. \/ pc'[c] = "claim" \/ pc'[c] = "done"
        \/ pc'[c] = "gate_escalate" /\ Recorded(GateDecision(c), req[c].mode) = "ESCALATE"
    BY <1>7 DEF Gate, Goto, Finish, GateInv, Typed, TypeOK, Recorded
  <2>3. pc[c] = "gate"
    BY <1>7 DEF Gate
  <2> QED
    BY <1>3, <2>1, <2>2, <2>3 DEF Cites
<1>8. CASE ExecutorStep(c)
  BY <1>3, <1>8
  DEF ExecutorStep, ExecutorApplies, ExecutorRefuses, ExecutorFails, AnswerOf, calls,
      store, Cites
<1>9. CASE ~(Validate(c) \/ ConsumedGuard(c) \/ Revalidate(c) \/ Gate(c) \/ ExecutorStep(c))
  <2>1. pc'[c] \notin {"consumed_guard", "gate", "claim", "escalate", "gate_escalate"}
    <3>1. CASE Guards(c)
      BY <3>1, GuardMoves DEF Goto, Finish, GateInv, Typed, TypeOK
    <3>2. CASE Propose(c) \/ Fetch(c)
      BY <3>2 DEF Propose, Fetch, Fetching, Goto, GateInv, Typed, TypeOK
    <3>3. CASE Authorizing(c)
      BY <1>9, <3>3
      DEF Authorizing, Escalate, GateEscalate, SaveEscalation, Claim, Recheck, Goto,
          Finish, GateInv, Typed, TypeOK
    <3>4. CASE Answer(c) \/ Settlement(c)
      BY <3>4
      DEF Answer, ExecutorSucceeds, ExecutorReportsFailure, ConditionRefused,
          ConditionalFault, Settlement, DeadlineReached, SaveExecution, Consume,
          Reassess, Settle, Goto, Finish, GateInv, Typed, TypeOK
    <3>5. CASE Crash(c) \/ StoreFails(c)
      BY <3>5 DEF Crash, StoreFails, Finish, GateInv, Typed, TypeOK
    <3> QED
      BY <1>9, <3>1, <3>2, <3>3, <3>4, <3>5 DEF StepFor, CallStep, Validation
  <2>2. local'[c].stage = local[c].stage
    BY <1>9, MemorySteps, FetchFields DEF MemoryRestarted, MemoryKept, GateInv
  <2> QED
    BY <2>1, <2>2 DEF Cites
<1> QED
  BY <1>4, <1>5, <1>6, <1>7, <1>8, <1>9

\* An authorization keeps citing an admitting decision: a claim cites the one that
\* routed it there, and past the claim that decision is never rewritten.
LEMMA AuthorizationCitesStep ==
    ASSUME CiteInv, NEW c \in Calls, StepFor(c), NEW a \in ActionIds
    PROVE  AuthorizationCites(a)'
<1>1. [Next]_vars
  BY DEF StepFor, Next
<1>2. req' = req
  BY <1>1, RequestsStay DEF CiteInv, GateInv
<1>3. \A d, decision : Admitted(d, decision)' <=> Admitted(d, decision)
  BY <1>2 DEF Admitted
<1>4. \A d : ActionOf(d)' = ActionOf(d)
  BY <1>2 DEF ActionOf
<1>5. CASE /\ authorization'[a].owner = authorization[a].owner
           /\ authorization'[a].stage = authorization[a].stage
  <2> SUFFICES ASSUME authorization[a].owner # NoCall PROVE AuthorizationCites(a)'
    BY <1>5 DEF AuthorizationCites
  <2>1. authorization[a].owner \in Calls
    BY DEF CiteInv, GateInv, Typed, TypeOK, Authorizations
  <2>2. AuthorizationCites(a)
    BY DEF CiteInv
  <2> QED
    BY <1>3, <1>4, <1>5, <2>1, <2>2, PastClaim DEF AuthorizationCites, CiteInv
<1>6. CASE Claim(c) /\ Claimable(ActionOf(c)) /\ a = ActionOf(c)
  <2>1. authorization'[a].owner = c /\ authorization'[a].stage = local[c].stage
    BY <1>6 DEF Claim, CiteInv, GateInv, Typed, TypeOK
  <2>2. pc'[c] \in {"recheck_fetch", "execute"}
    BY <1>6 DEF Claim, Goto, CiteInv, GateInv, Typed, TypeOK
  <2>3. decisions' = decisions /\ pc[c] = "claim"
    BY <1>6 DEF Claim
  <2>4. Cites(c)
    BY DEF CiteInv
  <2> QED
    BY <1>3, <1>4, <1>6, <2>1, <2>2, <2>3, <2>4
    DEF AuthorizationCites, Cites, BeforeClaim, Holding
<1>7. \/ Claim(c) /\ Claimable(ActionOf(c)) /\ a = ActionOf(c)
      \/ /\ authorization'[a].owner = authorization[a].owner
         /\ authorization'[a].stage = authorization[a].stage
  <2>1. CASE CallStep(c)
    <3>1. CASE Claiming(c)
      <4>1. Claim(c)
        BY <2>1, <3>1
        DEF Claiming, CallStep, Guards, Submit, EscalationGuard, ApprovalGuard,
            AuthorizationGuard, Validation, Propose, Fetch, Fetching, Validate,
            ConsumedGuard, Revalidate, Authorizing, Escalate, Gate, GateEscalate,
            Recheck, Answer, ExecutorSucceeds, ExecutorReportsFailure, ConditionRefused,
            ConditionalFault, Settlement, DeadlineReached, SaveExecution, Consume,
            Reassess
      <4> QED
        BY <3>1, <4>1 DEF Claiming, CiteInv, GateInv, Typed, TypeOK
    <3>2. CASE Releases(c)
      BY <3>2 DEF Releases, CiteInv, GateInv, Typed, TypeOK, Authorizations
    <3>3. CASE Passes(c) \/ Starts(c)
      BY <3>3 DEF Passes, Starts
    <3> QED
      BY <2>1, <3>1, <3>2, <3>3, CallGateStep DEF GateStep, CiteInv, GateInv
  <2>2. CASE ExecutorStep(c) \/ Crash(c) \/ StoreFails(c)
    BY <2>2
    DEF ExecutorStep, ExecutorApplies, ExecutorRefuses, ExecutorFails, AnswerOf, Crash,
        StoreFails, store
  <2> QED
    BY <2>1, <2>2 DEF StepFor
<1> QED
  BY <1>5, <1>6, <1>7

\* A call opens the escalation of its action id.
Opens(c, stage) ==
    escalation' = [escalation EXCEPT ![ActionOf(c)] =
                     [owner |-> c, stage |-> stage, status |-> "PENDING"]]

\* A step for a call opens an escalation or touches none. The durable store opens
\* none over an existing one.
LEMMA EscalationSteps ==
    ASSUME Typed, NEW c \in Calls, StepFor(c)
    PROVE  \/ escalation' = escalation
           \/ \E stage \in Stages :
                /\ \/ pc[c] = "escalate" /\ stage = local[c].stage
                   \/ pc[c] = "gate_escalate" /\ stage = "gate"
                /\ Backend = "sqlite" => escalation[ActionOf(c)].status = "NONE"
                /\ Opens(c, stage)
                /\ pc'[c] = "done" /\ decisions' = decisions
<1>1. CASE Escalate(c)
  BY <1>1 DEF Opens, Escalate, SaveEscalation, Finish, Typed, TypeOK, Locals
<1>2. CASE GateEscalate(c)
  BY <1>2 DEF Opens, GateEscalate, SaveEscalation, Finish, Typed, TypeOK, Stages
<1>3. CASE ~(Escalate(c) \/ GateEscalate(c))
  BY <1>3
  DEF StepFor, CallStep, Guards, Submit, EscalationGuard, ApprovalGuard,
      AuthorizationGuard, Validation, Propose, Fetch, Validate, ConsumedGuard,
      Revalidate, Authorizing, Gate, Claim, Recheck, Answer, ExecutorSucceeds,
      ExecutorReportsFailure, ConditionRefused, ConditionalFault, Settlement,
      DeadlineReached, SaveExecution, Consume, Reassess, Settle, ExecutorStep,
      ExecutorApplies, ExecutorRefuses, ExecutorFails, AnswerOf, Crash, StoreFails,
      store
<1> QED
  BY <1>1, <1>2, <1>3

\* A call that ended stays ended, with its decisions.
LEMMA EndedStays ==
    ASSUME Typed, NEW c \in Calls, StepFor(c), NEW d \in Calls, pc[d] \in Finished
    PROVE  pc'[d] \in Finished /\ decisions'[d] = decisions[d]
<1>1. CASE d # c
  BY <1>1, OthersKeep DEF SameCall
<1>2. CASE d = c
  <2>1. ExecutorStep(c)
    BY <1>2
    DEF StepFor, CallStep, Guards, Submit, EscalationGuard, ApprovalGuard,
        AuthorizationGuard, Validation, Propose, Fetch, Fetching, Validate,
        ConsumedGuard, Revalidate, Authorizing, Escalate, Gate, GateEscalate, Claim,
        Recheck, Answer, ExecutorSucceeds, ExecutorReportsFailure, ConditionRefused,
        ConditionalFault, Settlement, DeadlineReached, SaveExecution, Consume, Reassess,
        Crash, StoreFails, UsesStore, Finished
  <2> QED
    BY <1>2, <2>1
    DEF ExecutorStep, ExecutorApplies, ExecutorRefuses, ExecutorFails, AnswerOf, calls,
        store
<1> QED
  BY <1>1, <1>2

\* An escalation keeps citing an escalating decision of a call that ended.
LEMMA EscalationCitesStep ==
    ASSUME CiteInv, NEW c \in Calls, StepFor(c), NEW a \in ActionIds
    PROVE  EscalationCites(a)'
<1>1. [Next]_vars
  BY DEF StepFor, Next
<1>2. req' = req
  BY <1>1, RequestsStay DEF CiteInv, GateInv
<1>4. \A d : ActionOf(d)' = ActionOf(d)
  BY <1>2 DEF ActionOf
<1>5. CASE escalation'[a] = escalation[a]
  BY <1>4, <1>5, EndedStays DEF EscalationCites, CiteInv, GateInv
<1>6. CASE escalation'[a] # escalation[a]
  <2>1. PICK stage \in Stages :
                /\ \/ pc[c] = "escalate" /\ stage = local[c].stage
                   \/ pc[c] = "gate_escalate" /\ stage = "gate"
                /\ Opens(c, stage)
                /\ pc'[c] = "done" /\ decisions' = decisions
    BY <1>6, EscalationSteps DEF CiteInv, GateInv
  <2>2. a = ActionOf(c)
    BY <1>6, <2>1 DEF Opens, CiteInv, GateInv, Typed, TypeOK
  <2>3. escalation'[a].owner = c /\ escalation'[a].stage = stage
    BY <2>1, <2>2 DEF Opens, CiteInv, GateInv, Typed, TypeOK
  <2>4. Cites(c)
    BY DEF CiteInv
  <2> QED
    BY <1>4, <2>1, <2>2, <2>3, <2>4 DEF EscalationCites, Cites, Finished
<1> QED
  BY <1>5, <1>6

\* A reviewer that saw an escalation still has one to resolve.
LEMMA ReviewSeesStep ==
    ASSUME CiteInv, NEW c \in Calls, StepFor(c), NEW v \in Reviewers
    PROVE  ReviewSees(v)'
<1>1. review' = review
  BY DEF StepFor, CallStep, Guards, Submit, EscalationGuard, ApprovalGuard,
         AuthorizationGuard, Validation, Propose, Fetch, Validate, ConsumedGuard,
         Revalidate, Authorizing, Escalate, Gate, GateEscalate, Claim, Recheck, Answer,
         ExecutorSucceeds, ExecutorReportsFailure, ConditionRefused, ConditionalFault,
         Settlement, DeadlineReached, SaveExecution, Consume, Reassess, Settle,
         ExecutorStep, ExecutorApplies, ExecutorRefuses, ExecutorFails, AnswerOf, Crash,
         StoreFails, outside
<1>2. \A a \in ActionIds : escalation[a].status # "NONE" => escalation'[a].status # "NONE"
  <2> SUFFICES ASSUME NEW a \in ActionIds, escalation[a].status # "NONE"
               PROVE  escalation'[a].status # "NONE"
    OBVIOUS
  <2>1. CASE escalation' = escalation
    BY <2>1
  <2>2. CASE \E stage \in Stages : Opens(c, stage)
    BY <2>2 DEF Opens, CiteInv, GateInv, Typed, TypeOK
  <2> QED
    BY <2>1, <2>2, EscalationSteps DEF CiteInv, GateInv
<1>3. review[v].action_id \in ActionIds
  BY DEF CiteInv, GateInv, Typed, TypeOK, Reviews
<1> QED
  BY <1>1, <1>2, <1>3 DEF ReviewSees, CiteInv

\* Nothing is cited initially.
LEMMA CiteInit == Init => CiteInv
<1> SUFFICES ASSUME Init PROVE CiteInv
  OBVIOUS
<1>1. \A c \in Calls : Cites(c)
  BY DEF Init, Cites, NoLocal, CitedStages
<1>2. \A a \in ActionIds : AuthorizationCites(a) /\ EscalationCites(a)
  BY DEF Init, AuthorizationCites, EscalationCites, NoAuthorization, NoEscalation
<1>3. \A v \in Reviewers : ReviewSees(v)
  BY DEF Init, ReviewSees, NoReview
<1> QED
  BY <1>1, <1>2, <1>3, GateInit DEF CiteInv

\* The invariant of the citations is inductive.
LEMMA CiteInductive == CiteInv /\ [Next]_vars => CiteInv'
<1> SUFFICES ASSUME CiteInv, [Next]_vars PROVE CiteInv'
  OBVIOUS
<1>1. GateInv'
  BY GateInductive DEF CiteInv
<1>2. req' = req
  BY RequestsStay DEF CiteInv, GateInv
<1>3. ASSUME NEW c \in Calls, StepFor(c) PROVE CiteInv'
  <2>1. ASSUME NEW d \in Calls PROVE Cites(d)'
    <3>1. CASE d = c
      BY <1>3, <3>1, CitesStep DEF CiteInv
    <3>2. CASE d # c
      <4>1. SameCall(d)
        BY <1>3, <3>2, OthersKeep DEF CiteInv, GateInv
      <4> QED
        BY <1>2, <4>1 DEF SameCall, Cites, Admitted, CiteInv
    <3> QED
      BY <3>1, <3>2
  <2> QED
    BY <1>1, <1>3, <2>1, AuthorizationCitesStep, EscalationCitesStep, ReviewSeesStep
    DEF CiteInv
<1>4. CASE Surroundings
  <2>1. \A c \in Calls : Cites(c)'
    BY <1>2, <1>4 DEF Surroundings, calls, Cites, CiteInv, Admitted
  <2>2. \A a \in ActionIds : AuthorizationCites(a)'
    BY <1>2, <1>4
    DEF Surroundings, calls, AuthorizationCites, CiteInv, Admitted, ActionOf
  <2>3. CASE UNCHANGED <<escalation, review>>
    <3>1. \A a \in ActionIds : EscalationCites(a)'
      BY <1>2, <1>4, <2>3 DEF Surroundings, calls, EscalationCites, CiteInv, ActionOf
    <3>2. \A v \in Reviewers : ReviewSees(v)'
      BY <2>3 DEF ReviewSees, CiteInv
    <3> QED
      BY <1>1, <2>1, <2>2, <3>1, <3>2 DEF CiteInv
  <2>4. ASSUME NEW v \in Reviewers, ReadEscalation(v) PROVE CiteInv'
    <3>0. escalation' = escalation
      BY <2>4 DEF ReadEscalation, store
    <3>1. \A a \in ActionIds : EscalationCites(a)'
      BY <1>2, <1>4, <3>0 DEF Surroundings, calls, EscalationCites, CiteInv, ActionOf
    <3>2. \A w \in Reviewers : ReviewSees(w)'
      BY <2>4, <3>0 DEF ReadEscalation, ReviewSees, CiteInv, GateInv, Typed, TypeOK
    <3> QED
      BY <1>1, <2>1, <2>2, <3>1, <3>2 DEF CiteInv
  <2>5. ASSUME NEW v \in Reviewers, ResolveEscalation(v) PROVE CiteInv'
    <3> DEFINE b == review[v].action_id
    <3>0. b \in ActionIds /\ escalation[b].status # "NONE" /\ review[v].verdict # "NONE"
      BY <2>5
      DEF CiteInv, GateInv, Typed, TypeOK, Reviews, ResolveEscalation, ReviewSees
    <3>1. \A a \in ActionIds : /\ escalation'[a].owner = escalation[a].owner
                               /\ escalation'[a].stage = escalation[a].stage
                               /\ escalation'[a].status # "NONE"
                                     <=> escalation[a].status # "NONE"
      BY <2>5, <3>0 DEF ResolveEscalation, CiteInv, GateInv, Typed, TypeOK, Escalations
    <3>2. \A a \in ActionIds : EscalationCites(a)'
      BY <1>2, <1>4, <3>1 DEF Surroundings, calls, EscalationCites, CiteInv, ActionOf
    <3>3. \A w \in Reviewers : ReviewSees(w)'
      BY <2>5, <3>1
      DEF ResolveEscalation, ReviewSees, CiteInv, GateInv, Typed, TypeOK, Reviews
    <3> QED
      BY <1>1, <2>1, <2>2, <3>2, <3>3 DEF CiteInv
  <2> QED
    BY <1>4, <2>3, <2>4, <2>5 DEF Surroundings, ReviewStep
<1> QED
  BY <1>3, <1>4, NextSteps DEF CiteInv

\* The invariant of the citations holds in every reachable state.
LEMMA CiteInvariant == Spec => []CiteInv
BY CiteInit, CiteInductive, PTL DEF Spec

\* Every stored authorization cites a stored decision of its own call that admits the
\* action: none is granted on a decision that was not persisted, or was made for
\* another action id.
THEOREM AuthorizationsCite == Spec => []AuthorizationCitesAdmission
<1>1. CiteInv => AuthorizationCitesAdmission
  BY DEF CiteInv, AuthorizationCites, AuthorizationCitesAdmission, Admitted
<1> QED
  BY <1>1, CiteInvariant, PTL

\* Every stored escalation cites a stored decision to escalate, of a call of the same
\* action id.
THEOREM EscalationsCite == Spec => []EscalationCitesDecision
<1>1. CiteInv => EscalationCitesDecision
  BY DEF CiteInv, EscalationCites, EscalationCitesDecision
<1> QED
  BY <1>1, CiteInvariant, PTL

-----------------------------------------------------------------------------
(* Drift before the claim. *)

\* No version of a is newer than the one of b.
Behind(a, b) == \A r \in Refs : a[r] <= b[r]

\* What a call has fetched, its snapshots and the versions at its claim are versions
\* of the past; snapshots are no newer than the claim, and the refetch after the
\* claim is no older than it.
PastIsKnown(c) ==
    /\ Behind(local[c].fetched, world)
    /\ Behind(local[c].snapshots, world)
    /\ Behind(atClaim[c], world)
    /\ atClaim[c] # NothingFetched => Behind(local[c].snapshots, atClaim[c])
    /\ pc[c] = "recheck_fetch" =>
           /\ atClaim[c] # NothingFetched
           /\ \A r \in Refs :
                  local[c].fetched[r] # Null => atClaim[c][r] <= local[c].fetched[r]

\* What DriftBeforeClaimNeverExecutes says of one call
DriftCaught(c) ==
    (Started(c) /\ RecheckNeeded(c)) =>
        \A r \in DependenciesOf(c) :
            local[c].snapshots[r] = Null \/ local[c].snapshots[r] = atClaim[c][r]

\* The gate invariant, with what every call knows of the past and what its recheck
\* has established.
DriftInv == GateInv /\ \A c \in Calls : PastIsKnown(c) /\ DriftCaught(c)

\* Versions only grow: nobody takes a resource back to an earlier one.
LEMMA WorldGrows ==
    ASSUME Typed, [Next]_vars
    PROVE  Behind(world, world')
<1>0. \A r \in Refs : world[r] \in Nat
  BY DEF Typed, TypeOK
<1>1. CASE \E c \in Calls : CallStep(c)
  <2>1. world' = world
    BY <1>1
    DEF CallStep, Guards, Submit, EscalationGuard, ApprovalGuard, AuthorizationGuard,
        Validation, Propose, Fetch, Validate, ConsumedGuard, Revalidate, Authorizing,
        Escalate, Gate, GateEscalate, Claim, Recheck, Answer, ExecutorSucceeds,
        ExecutorReportsFailure, ConditionRefused, ConditionalFault, Settlement,
        DeadlineReached, SaveExecution, Consume, Reassess, Settle, outside
  <2> QED
    BY <1>0, <2>1 DEF Behind
<1>2. CASE \E c \in Calls : ExecutorStep(c)
  BY <1>0, <1>2
  DEF Behind, ExecutorStep, ExecutorApplies, ExecutorRefuses, ExecutorFails
<1>3. CASE \E r \in Refs : Mutate(r)
  BY <1>0, <1>3 DEF Mutate, Behind, Typed, TypeOK
<1>4. CASE \/ \E c \in Calls : Crash(c) \/ StoreFails(c)
           \/ \E v \in Reviewers : ReviewStep(v)
           \/ Tick \/ Terminated \/ UNCHANGED vars
  <2>1. world' = world
    BY <1>4
    DEF Crash, StoreFails, ReviewStep, ReadEscalation, ResolveEscalation, Tick,
        Terminated, vars, outside
  <2> QED
    BY <1>0, <2>1 DEF Behind
<1> QED
  BY <1>1, <1>2, <1>3, <1>4 DEF Next

\* Being no newer is transitive.
LEMMA BehindTransitive ==
    ASSUME NEW a \in StateIdentity, NEW b \in StateIdentity, NEW d \in StateIdentity,
           Behind(a, b), Behind(b, d)
    PROVE  Behind(a, d)
BY DEF Behind, StateIdentity, Optional, Null

\* The world, and what a call knows of it, map refs to versions.
LEMMA Identities ==
    ASSUME Typed
    PROVE  /\ world \in StateIdentity
           /\ \A c \in Calls : /\ local[c].fetched \in StateIdentity
                               /\ local[c].snapshots \in StateIdentity
                               /\ atClaim[c] \in StateIdentity
<1>1. world \in StateIdentity
  BY DEF Typed, TypeOK, StateIdentity, Optional
<1>2. \A c \in Calls : local[c] \in Locals /\ atClaim[c] \in StateIdentity
  BY DEF Typed, TypeOK
<1> QED
  BY <1>1, <1>2 DEF Locals

\* As long as the call keeps what it knows, a growing world changes nothing
LEMMA PastGrows ==
    ASSUME Typed, Typed', NEW d \in Calls, PastIsKnown(d), Behind(world, world'),
           pc'[d] = "recheck_fetch" => pc[d] = "recheck_fetch",
           local'[d].fetched = local[d].fetched,
           local'[d].snapshots = local[d].snapshots,
           atClaim'[d] = atClaim[d]
    PROVE  PastIsKnown(d)'
<1>0. world' \in StateIdentity
  BY DEF Typed, TypeOK, StateIdentity, Optional
<1>1. /\ Behind(local[d].fetched, world')
      /\ Behind(local[d].snapshots, world')
      /\ Behind(atClaim[d], world')
  BY <1>0, Identities, BehindTransitive DEF PastIsKnown
<1> QED
  BY <1>1 DEF PastIsKnown, Behind

\* Whether a call needs its recheck depends on its request and its snapshots only.
LEMMA SnapshotsOrRecheck ==
    ASSUME NEW c \in Calls, req' = req, local'[c].snapshots = local[c].snapshots
    PROVE  /\ RecheckNeeded(c)' <=> RecheckNeeded(c)
           /\ ConditionalExecutionAvailable(c)' <=> ConditionalExecutionAvailable(c)
<1>1. DependenciesOf(c)' = DependenciesOf(c) /\ Policy(c)' = Policy(c)
  BY DEF DependenciesOf, Policy
<1>2. ConditionalExecutionAvailable(c)' <=> ConditionalExecutionAvailable(c)
  BY <1>1 DEF ConditionalExecutionAvailable
<1> QED
  BY <1>1, <1>2 DEF RecheckNeeded

\* A step for a call keeps the order between its snapshots, its claim and its
\* refetch.
LEMMA PastStep ==
    ASSUME GateInv, Typed', NEW c \in Calls, StepFor(c), PastIsKnown(c)
    PROVE  PastIsKnown(c)'
<1>1. [Next]_vars
  BY DEF StepFor, Next
<1>2. Behind(world, world')
  BY <1>1, WorldGrows DEF GateInv
<1>3. CASE Claim(c)
  <2>1. world' = world /\ local'[c].snapshots = local[c].snapshots
    BY <1>3, RestartFields, StartedFields DEF Claim, GateInv
  <2>2. CASE Claimable(ActionOf(c))
    <3>1. atClaim'[c] = world
      BY <1>3, <2>2 DEF Claim, GateInv, Typed, TypeOK
    <3>2. Behind(world, world)
      BY DEF Behind, GateInv, Typed, TypeOK
    <3>3. world # NothingFetched
      BY ExecuteActionAssumption DEF NothingFetched, Null, GateInv, Typed, TypeOK
    <3>4. \/ pc'[c] = "execute" /\ local'[c].fetched = local[c].fetched
          \/ local'[c].fetched = NothingFetched
      BY <1>3, <2>2, RestartFields, StartedFields
      DEF Claim, Goto, GateInv, Typed, TypeOK
    <3>5. Behind(NothingFetched, world)
      BY DEF Behind, NothingFetched, Null, GateInv, Typed, TypeOK
    <3> QED
      BY <2>1, <3>1, <3>2, <3>3, <3>4, <3>5 DEF PastIsKnown, NothingFetched, Behind
  <2>3. CASE ~Claimable(ActionOf(c))
    BY <1>2, <1>3, <2>3, PastGrows DEF Claim, Finish, GateInv, Typed, TypeOK
  <2> QED
    BY <2>2, <2>3
<1>4. CASE ~Claim(c)
  <2>1. atClaim' = atClaim /\ (pc'[c] = "recheck_fetch" => pc[c] = "recheck_fetch")
    <3>1. CASE CallStep(c)
      <4>1. ~Claiming(c)
        BY <1>4, <3>1
        DEF Claiming, CallStep, Guards, Submit, EscalationGuard, ApprovalGuard,
            AuthorizationGuard, Validation, Propose, Fetch, Fetching, Validate,
            ConsumedGuard, Revalidate, Authorizing, Escalate, Gate, GateEscalate,
            Recheck, Answer, ExecutorSucceeds, ExecutorReportsFailure, ConditionRefused,
            ConditionalFault, Settlement, DeadlineReached, SaveExecution, Consume,
            Reassess
      <4> QED
        BY <3>1, <4>1, CallGateStep
        DEF GateStep, Passes, Starts, Releases, GateInv, Typed, TypeOK
    <3>2. CASE ExecutorStep(c) \/ Crash(c) \/ StoreFails(c)
      BY <3>2
      DEF ExecutorStep, ExecutorApplies, ExecutorRefuses, ExecutorFails, AnswerOf,
          calls, Crash, StoreFails, Finish, GateInv, Typed, TypeOK
    <3> QED
      BY <3>1, <3>2 DEF StepFor
  <2>2. CASE Fetch(c)
    <3>1. PICK r \in DependenciesOf(c) : \E version \in {world[r], Null} :
             local'[c].fetched = [local[c].fetched EXCEPT ![r] = version]
      BY <2>2, FetchFields DEF GateInv
    <3>2. PICK version \in {world[r], Null} :
             local'[c].fetched = [local[c].fetched EXCEPT ![r] = version]
      BY <3>1
    <3>3. r \in Refs
      BY RequestFacts DEF GateInv, Typed
    <3>4. \A s \in Refs :
             local'[c].fetched[s] = IF s = r THEN version ELSE local[c].fetched[s]
      BY <3>2, <3>3, Identities DEF GateInv, StateIdentity
    <3>5. local'[c].snapshots = local[c].snapshots
      BY <2>2, FetchFields DEF GateInv
    <3>6. world' = world
      BY <2>2 DEF Fetch, outside
    <3>7. \A s \in Refs : world[s] \in Nat
      BY DEF GateInv, Typed, TypeOK
    <3>8. Behind(local'[c].fetched, world)
      BY <3>3, <3>4, <3>7 DEF PastIsKnown, Behind, Null
    <3>9. pc[c] = "recheck_fetch" =>
             \A s \in Refs :
                 local'[c].fetched[s] # Null => atClaim[c][s] <= local'[c].fetched[s]
      BY <3>3, <3>4 DEF PastIsKnown, Behind
    <3> QED
      BY <2>1, <3>5, <3>6, <3>8, <3>9 DEF PastIsKnown
  <2>3. CASE Validate(c)
    <3>1. local'[c].fetched = local[c].fetched /\ local'[c].snapshots = local[c].fetched
      BY <2>3, ValidateFields DEF GateInv
    <3>2. world' = world /\ pc[c] = "fetch"
      BY <2>3 DEF Validate, outside
    <3>3. atClaim[c] = NothingFetched
      BY <3>2 DEF GateInv, StartedInTime, BeforeClaim, Steps, Holding, Finished
    <3> QED
      BY <2>1, <3>1, <3>2, <3>3 DEF PastIsKnown
  <2>4. CASE Revalidate(c)
    BY <1>2, <2>1, <2>4, RevalidateFields, PastGrows DEF GateInv
  <2>5. CASE MemoryKept(c)
    BY <1>2, <2>1, <2>5, PastGrows DEF GateInv, MemoryKept
  <2>6. CASE (Propose(c) \/ Consume(c)) /\ MemoryRestarted(c)
    <3>1. local'[c].fetched = NothingFetched /\ local'[c].snapshots = local[c].snapshots
      BY <2>6 DEF MemoryRestarted
    <3>2. world' = world /\ pc'[c] # "recheck_fetch"
      BY <2>6 DEF Propose, Consume, Goto, Finish, outside, GateInv, Typed, TypeOK
    <3>3. Behind(NothingFetched, world)
      BY DEF Behind, NothingFetched, Null, GateInv, Typed, TypeOK
    <3> QED
      BY <2>1, <3>1, <3>2, <3>3 DEF PastIsKnown
  <2> QED
    BY <1>4, <2>2, <2>3, <2>4, <2>5, <2>6, MemorySteps DEF GateInv
<1> QED
  BY <1>3, <1>4

\* A call that needs its recheck invokes its executor only when the refetch agrees
\* with the snapshots; between a snapshot no newer and a refetch no older, the
\* version at the claim is the same.
LEMMA DriftStep ==
    ASSUME GateInv, NEW c \in Calls, StepFor(c), PastIsKnown(c), DriftCaught(c)
    PROVE  DriftCaught(c)'
<1>1. [Next]_vars
  BY DEF StepFor, Next
<1>2. req' = req
  BY <1>1, RequestsStay DEF GateInv
<1>3. DependenciesOf(c)' = DependenciesOf(c) /\ DependenciesOf(c) \subseteq Refs
  BY <1>2, RequestFacts DEF DependenciesOf, GateInv, Typed
<1>4. CASE Validate(c)
  BY <1>4
  DEF Validate, outside, GateInv, StartedInTime, BeforeClaim, Steps, Holding, Finished,
      DriftCaught, Started
<1>5. CASE Claim(c)
  <2>1. local'[c].snapshots = local[c].snapshots
    BY <1>5, RestartFields, StartedFields DEF Claim, GateInv
  <2>2. executor[c] = "idle"
    BY <1>5 DEF Claim, GateInv, StartedInTime, BeforeClaim, Steps, Holding, Finished
  <2>3. executor' # executor => ~RecheckNeeded(c)
    BY <1>5 DEF Claim
  <2> QED
    BY <1>2, <2>1, <2>2, <2>3, SnapshotsOrRecheck DEF DriftCaught, Started
<1>6. CASE Recheck(c)
  <2>1. local'[c].snapshots = local[c].snapshots /\ atClaim' = atClaim
    BY <1>6, StartedFields DEF Recheck, GateInv
  <2>2. executor[c] = "idle" /\ pc[c] = "recheck_fetch"
    BY <1>6 DEF Recheck, GateInv, StartedInTime
  <2>3. CASE RecheckFails(c)
    BY <1>6, <2>2, <2>3 DEF Recheck, DriftCaught, Started
  <2>4. CASE DependenciesOf(c) = {}
    BY <1>3, <2>4 DEF DriftCaught
  <2>5. CASE local[c].fetched = local[c].snapshots
     <3>1. \A r \in DependenciesOf(c) :
              local[c].snapshots[r] # Null => local[c].snapshots[r] = atClaim[c][r]
       <4>1. \A r \in Refs : /\ local[c].snapshots[r] <= atClaim[c][r]
                             /\ local[c].snapshots[r] # Null =>
                                    atClaim[c][r] <= local[c].snapshots[r]
         BY <2>2, <2>5 DEF PastIsKnown, Behind
       <4>2. \A r \in Refs : local[c].snapshots[r] \in Int /\ atClaim[c][r] \in Int
         BY Identities DEF StateIdentity, Optional, Null, GateInv
       <4> QED
         BY <1>3, <4>1, <4>2
     <3> QED
       BY <1>3, <2>1, <3>1 DEF DriftCaught
  <2> QED
    BY <2>3, <2>4, <2>5 DEF RecheckFails, FingerprintMismatch
<1>7. CASE ~(Validate(c) \/ Claim(c) \/ Recheck(c))
  <2>1. local'[c].snapshots = local[c].snapshots
    BY <1>7, MemorySteps, FetchFields, RevalidateFields
    DEF GateInv, MemoryKept, MemoryRestarted
  <2>2. atClaim' = atClaim /\ (executor'[c] # "idle" => executor[c] # "idle")
    <3>1. CASE CallStep(c)
      <4>1. ~Claiming(c) /\ (~Starts(c) \/ executor'[c] = executor[c])
        <5>1. ~(pc[c] = "claim")
          BY <1>7, <3>1
          DEF CallStep, Guards, Submit, EscalationGuard, ApprovalGuard,
              AuthorizationGuard, Validation, Propose, Fetch, Fetching, Validate,
              ConsumedGuard, Revalidate, Authorizing, Escalate, Gate, GateEscalate,
              Recheck, Answer, ExecutorSucceeds, ExecutorReportsFailure,
              ConditionRefused, ConditionalFault, Settlement, DeadlineReached,
              SaveExecution, Consume, Reassess
        <5>2. pc[c] = "recheck_fetch" => Fetch(c)
          BY <1>7, <3>1
          DEF CallStep, Guards, Submit, EscalationGuard, ApprovalGuard,
              AuthorizationGuard, Validation, Propose, Fetch, Fetching, Validate,
              ConsumedGuard, Revalidate, Authorizing, Escalate, Gate, GateEscalate,
              Recheck, Answer, ExecutorSucceeds, ExecutorReportsFailure,
              ConditionRefused, ConditionalFault, Settlement, DeadlineReached,
              SaveExecution, Consume, Reassess
        <5> QED
          BY <5>1, <5>2 DEF Claiming, Starts, Fetch, outside
      <4> QED
        BY <3>1, <4>1, CallGateStep
        DEF GateStep, Passes, Starts, Releases, GateInv, Typed, TypeOK
    <3>2. CASE ExecutorStep(c) \/ Crash(c) \/ StoreFails(c)
      BY <3>2
      DEF ExecutorStep, ExecutorApplies, ExecutorRefuses, ExecutorFails, AnswerOf,
          Crash, StoreFails, outside, GateInv, Typed, TypeOK
    <3> QED
      BY <3>1, <3>2 DEF StepFor
  <2> QED
    BY <1>2, <1>3, <2>1, <2>2, SnapshotsOrRecheck DEF DriftCaught, Started
<1> QED
  BY <1>4, <1>5, <1>6, <1>7

\* Nothing is known initially, and nothing was started.
LEMMA DriftInit == Init => DriftInv
<1> SUFFICES ASSUME Init PROVE DriftInv
  OBVIOUS
<1>1. \A c \in Calls : PastIsKnown(c) /\ DriftCaught(c)
  BY DEF Init, PastIsKnown, Behind, NoLocal, NothingFetched, Null, DriftCaught, Started
<1> QED
  BY <1>1, GateInit DEF DriftInv

\* The invariant of the drift is inductive.
LEMMA DriftInductive == DriftInv /\ [Next]_vars => DriftInv'
<1> SUFFICES ASSUME DriftInv, [Next]_vars PROVE DriftInv'
  OBVIOUS
<1>1. GateInv'
  BY GateInductive DEF DriftInv
<1>2. req' = req
  BY RequestsStay DEF DriftInv, GateInv
<1>3. Behind(world, world')
  BY WorldGrows DEF DriftInv, GateInv
<1>4. ASSUME NEW d \in Calls, SameCall(d) PROVE PastIsKnown(d)' /\ DriftCaught(d)'
  <2>1. PastIsKnown(d)'
    BY <1>1, <1>3, <1>4, PastGrows DEF SameCall, DriftInv, GateInv
  <2>2. DriftCaught(d)'
    <3>1. RecheckNeeded(d)' <=> RecheckNeeded(d)
      BY <1>2, <1>4, SnapshotsOrRecheck DEF SameCall
    <3>2. DependenciesOf(d)' = DependenciesOf(d)
      BY <1>2 DEF DependenciesOf
    <3>3. DriftCaught(d)
      BY DEF DriftInv
    <3> QED
      BY <1>4, <3>1, <3>2, <3>3 DEF SameCall, DriftCaught, Started
  <2> QED
    BY <2>1, <2>2
<1>5. ASSUME NEW c \in Calls, StepFor(c), NEW d \in Calls
      PROVE  PastIsKnown(d)' /\ DriftCaught(d)'
  BY <1>1, <1>4, <1>5, PastStep, DriftStep, OthersKeep DEF DriftInv, GateInv
<1>6. CASE Surroundings
  <2>1. \A d \in Calls : SameCall(d)
    BY <1>6 DEF Surroundings, calls, SameCall
  <2> QED
    BY <1>1, <1>4, <2>1 DEF DriftInv
<1> QED
  BY <1>1, <1>5, <1>6, NextSteps DEF DriftInv

\* The invariant of the drift holds in every reachable state.
LEMMA DriftInvariant == Spec => []DriftInv
BY DriftInit, DriftInductive, PTL DEF Spec

\* Without a condition the executor can enforce, drift between validation and claim
\* never reaches the executor: the recheck after the claim sees it, whatever is
\* mutated in between.
THEOREM DriftIsCaught == Spec => []DriftBeforeClaimNeverExecutes
<1>1. DriftInv => DriftBeforeClaimNeverExecutes
  BY DEF DriftInv, DriftCaught, DriftBeforeClaimNeverExecutes
<1> QED
  BY <1>1, DriftInvariant, PTL

-----------------------------------------------------------------------------
(* Effects that land on the declared version. *)

\* What the agent declared of every dependency is what validation saw, or is unknown:
\* no version was declared or available, or the claim is dated in the future.
DeclaredIsSnapshot(c) ==
    \A r \in DependenciesOf(c) :
        \/ local[c].snapshots[r] = Null
        \/ req[c].observed[r].version \in {Null, local[c].snapshots[r]}
        \/ FutureDated(c, r)

\* A refuted claim stops its call: past the decision on it, what was declared is what
\* was seen.
RefutedStops(c) ==
    /\ pc[c] = "recheck_fetch" => ~ConditionalExecutionAvailable(c)
    /\ DeniesRefutedClaims(c) =>
        /\ pc[c] = "consumed_guard" =>
               decisions[c]["validated"] = "DENY" \/ DeclaredIsSnapshot(c)
        /\ pc[c] \in {"revalidate", "escalate", "gate", "gate_escalate", "claim"} =>
               DeclaredIsSnapshot(c)
        /\ (executor[c] = "running" /\ ConditionalExecutionAvailable(c)) =>
               DeclaredIsSnapshot(c)

\* The invariant of the records, with the stop of every refuted claim.
RefuteInv == RecordInv /\ \A c \in Calls : RefutedStops(c)

\* A refuted claim is denied where the outcome of invalid state is deny
LEMMA InvalidIsDenied ==
    ASSUME NEW verdicts, NEW v \in verdicts, v.staleness = "INVALID",
           NEW policy, NEW defaults, NEW risk, NEW mode, NEW revalidated,
           OutcomeFor(policy, defaults, "invalid", risk) = "deny"
    PROVE  Decide(verdicts, policy, defaults, risk, mode, revalidated) = "DENY"
<1>1. BasisOf(verdicts) = "invalid"
  BY DEF BasisOf
<1>2. EffectiveBasis(verdicts) = "invalid"
  BY <1>1 DEF EffectiveBasis
<1>3. ToDecision["deny"] = "DENY"
  BY DEF ToDecision
<1> QED
  BY <1>2, <1>3
  DEF Decide, ApplySafetyFloor, FailClosedAfterRevalidation, ApplyStrictMode

\* A claim of another version than the current one is INVALID, unless it is dated in
\* the future.
LEMMA DriftIsInvalid ==
    ASSUME NEW claim, NEW version, NEW policy, NEW passed, NEW now,
           version # Null, claim.version # Null, claim.version # version,
           ~FutureStamp(claim, now, policy.skew)
    PROVE  EvaluateFreshness(claim, SnapshotOf(version), policy, passed, now) = "INVALID"
<1>1. SnapshotOf(version).available = TRUE /\ SnapshotOf(version).version = version
  BY DEF SnapshotOf, UnavailableCurrentState
<1> QED
  BY <1>1 DEF EvaluateFreshness, ProvenDrift, VersionDrift

\* A dependency refuted by the fetched state is denied by the validation, where the
\* outcome of invalid state is deny.
LEMMA ValidatedRefutation ==
    ASSUME NEW c \in Calls, DeniesRefutedClaims(c),
           NEW r \in DependenciesOf(c), local[c].fetched[r] # Null,
           req[c].observed[r].version \notin {Null, local[c].fetched[r]}, ~FutureDated(c, r)
    PROVE  DecisionOn(c, EvaluatedVerdicts(c), FALSE) = "DENY"
<1> DEFINE verdicts == {EvaluatedVerdicts(c)[s] : s \in DependenciesOf(c)}
<1>1. EvaluatedVerdicts(c)[r].staleness = "INVALID"
  BY DriftIsInvalid DEF EvaluatedVerdicts, FutureDated
<1>2. EvaluatedVerdicts(c)[r] \in verdicts
  OBVIOUS
<1> HIDE DEF verdicts
<1>3. Decide(verdicts, Policy(c).outcomes, Policy(c).defaults, Policy(c).risk,
             req[c].mode, FALSE) = "DENY"
  BY <1>1, <1>2, InvalidIsDenied DEF DeniesRefutedClaims
<1> QED
  BY <1>3 DEF DecisionOn, Recorded, DeniesRefutedClaims, verdicts

\* Whether what was declared was seen depends on the snapshots and the time of the
\* evaluation only.
LEMMA DeclaredKept ==
    ASSUME NEW c \in Calls, req' = req, local'[c].evaluated_at = local[c].evaluated_at,
           local'[c].snapshots = local[c].snapshots
    PROVE  DeclaredIsSnapshot(c)' <=> DeclaredIsSnapshot(c)
<1>1. DependenciesOf(c)' = DependenciesOf(c) /\ Policy(c)' = Policy(c)
  BY DEF DependenciesOf, Policy
<1>2. \A r : FutureDated(c, r)' <=> FutureDated(c, r)
  BY <1>1 DEF FutureDated
<1> QED
  BY <1>1, <1>2 DEF DeclaredIsSnapshot

\* Whether refuted claims are denied depends on the request only.
LEMMA DeniesKept ==
    ASSUME NEW c \in Calls, req' = req
    PROVE  DeniesRefutedClaims(c)' <=> DeniesRefutedClaims(c)
BY DEF DeniesRefutedClaims, Policy

\* A step for a call keeps its refuted claims from the executor.
LEMMA RefutedStep ==
    ASSUME GateInv, NEW c \in Calls, StepFor(c), ResultKnown(c), RefutedStops(c)
    PROVE  RefutedStops(c)'
<1>1. [Next]_vars
  BY DEF StepFor, Next
<1>2. req' = req
  BY <1>1, RequestsStay DEF GateInv
<1>3. DeniesRefutedClaims(c)' <=> DeniesRefutedClaims(c)
  BY <1>2, DeniesKept
<1>4. CASE Validate(c)
  <2>1. pc[c] = "fetch" /\ pc'[c] = "consumed_guard" /\ executor'[c] = "idle"
    BY <1>4
    DEF Validate, Goto, outside, GateInv, Typed, TypeOK, StartedInTime, BeforeClaim,
        Steps, Holding, Finished
  <2>2. ASSUME DeniesRefutedClaims(c), ~DeclaredIsSnapshot(c)'
        PROVE  decisions'[c]["validated"] = "DENY"
    <3>1. /\ local'[c].evaluated_at = local[c].evaluated_at
          /\ local'[c].snapshots = local[c].fetched
      BY <1>4, ValidateFields DEF GateInv
    <3>2. DependenciesOf(c)' = DependenciesOf(c) /\ Policy(c)' = Policy(c)
      BY <1>2 DEF DependenciesOf, Policy
    <3>3. PICK r \in DependenciesOf(c) :
             /\ local[c].fetched[r] # Null
             /\ req[c].observed[r].version \notin {Null, local[c].fetched[r]}
             /\ ~FutureDated(c, r)
      BY <1>2, <2>2, <3>1, <3>2 DEF DeclaredIsSnapshot, FutureDated
    <3>4. DecisionOn(c, EvaluatedVerdicts(c), FALSE) = "DENY"
      BY <2>2, <3>3, ValidatedRefutation
    <3> QED
      BY <1>4, <3>4 DEF Validate, SaveDecision, GateInv, Typed, TypeOK, Stages
  <2> QED
    BY <1>3, <2>1, <2>2 DEF RefutedStops
<1>5. CASE ConsumedGuard(c)
  <2>1. UNCHANGED <<local, decisions, executor>>
    BY <1>5 DEF ConsumedGuard, store, outside
  <2>2. DeclaredIsSnapshot(c)' <=> DeclaredIsSnapshot(c)
    BY <1>2, <2>1, DeclaredKept
  <2>3. decisions[c]["validated"] = "DENY" => pc'[c] = "done"
    BY <1>5 DEF ConsumedGuard, Route, Admitted, Goto, Finish, GateInv, Typed, TypeOK
  <2>4. /\ pc'[c] \notin {"consumed_guard", "recheck_fetch"}
        /\ executor'[c] = "idle"
        /\ pc[c] = "consumed_guard"
    BY <1>5
    DEF ConsumedGuard, Route, Goto, Finish, outside, GateInv, Typed, TypeOK,
        StartedInTime, BeforeClaim, Steps, Holding, Finished
  <2> QED
    BY <1>3, <2>2, <2>3, <2>4 DEF RefutedStops
<1>6. CASE Revalidate(c) \/ Gate(c)
  <2>1. /\ local'[c].evaluated_at = local[c].evaluated_at
        /\ local'[c].snapshots = local[c].snapshots
    BY <1>6, RevalidateFields DEF Gate, GateInv
  <2>2. DeclaredIsSnapshot(c)' <=> DeclaredIsSnapshot(c)
    BY <1>2, <2>1, DeclaredKept
  <2>3. pc[c] \in {"revalidate", "gate"}
    BY <1>6 DEF Revalidate, Gate
  <2>4. executor'[c] = "idle"
    BY <1>6, <2>3
    DEF Revalidate, Gate, outside, GateInv, StartedInTime, BeforeClaim, Steps, Holding,
        Finished
  <2>5. pc'[c] \notin {"consumed_guard", "recheck_fetch"}
    BY <1>6 DEF Revalidate, Gate, Route, Goto, Finish, GateInv, Typed, TypeOK
  <2> QED
    BY <1>3, <2>2, <2>3, <2>4, <2>5 DEF RefutedStops
<1>7. CASE Claim(c)
  <2>1. local'[c].snapshots = local[c].snapshots
    BY <1>7, RestartFields, StartedFields DEF Claim, GateInv
  <2>2. ConditionalExecutionAvailable(c)' <=> ConditionalExecutionAvailable(c)
    BY <1>2, <2>1, SnapshotsOrRecheck
  <2>3. pc[c] = "claim" /\ executor[c] = "idle"
    BY <1>7 DEF Claim, GateInv, StartedInTime, BeforeClaim, Steps, Holding, Finished
  <2>4. \/ pc'[c] = "done" /\ executor'[c] = "idle"
        \/ /\ pc'[c] = "recheck_fetch" /\ executor'[c] = "idle"
           /\ ~ConditionalExecutionAvailable(c)
        \/ pc'[c] = "execute" /\ local'[c].evaluated_at = local[c].evaluated_at
    BY <1>7, <2>3, StartedFields
    DEF Claim, RecheckNeeded, Goto, Finish, GateInv, Typed, TypeOK
  <2> QED
    BY <1>2, <1>3, <2>1, <2>2, <2>3, <2>4, DeclaredKept DEF RefutedStops
<1>8. CASE Recheck(c)
  <2>1. local'[c].snapshots = local[c].snapshots
    BY <1>8, StartedFields DEF Recheck, GateInv
  <2>2. ConditionalExecutionAvailable(c)' <=> ConditionalExecutionAvailable(c)
    BY <1>2, <2>1, SnapshotsOrRecheck
  <2>3. pc[c] = "recheck_fetch" /\ pc'[c] \in {"done", "execute"}
    BY <1>8 DEF Recheck, Goto, Finish, GateInv, Typed, TypeOK
  <2> QED
    BY <2>2, <2>3 DEF RefutedStops
<1>9. CASE Fetch(c)
  <2>1. /\ local'[c].evaluated_at = local[c].evaluated_at
        /\ local'[c].snapshots = local[c].snapshots
        /\ pc' = pc /\ executor' = executor /\ decisions' = decisions
    BY <1>9, FetchFields DEF Fetch, GateInv, store, outside
  <2> QED
    BY <1>2, <1>3, <2>1, DeclaredKept, SnapshotsOrRecheck DEF RefutedStops
<1>10. CASE \/ Propose(c) \/ Consume(c) \/ Guards(c) \/ Answer(c) \/ DeadlineReached(c)
            \/ SaveExecution(c) \/ Reassess(c) \/ Crash(c) \/ StoreFails(c)
            \/ Escalate(c) \/ GateEscalate(c)
  <2>1. pc'[c] \notin {"consumed_guard", "revalidate", "escalate", "gate",
                       "gate_escalate", "claim", "recheck_fetch"}
    <3>1. CASE Guards(c)
      BY <3>1, GuardMoves DEF Goto, Finish, GateInv, Typed, TypeOK
    <3>2. CASE \/ Answer(c) \/ DeadlineReached(c) \/ SaveExecution(c)
               \/ Reassess(c) \/ Consume(c)
      BY <3>2
      DEF Answer, ExecutorSucceeds, ExecutorReportsFailure, ConditionRefused,
          ConditionalFault, DeadlineReached, SaveExecution, Consume, Reassess, Settle,
          Goto, Finish, GateInv, Typed, TypeOK
    <3>3. CASE Propose(c) \/ Crash(c) \/ StoreFails(c) \/ Escalate(c) \/ GateEscalate(c)
      BY <3>3
      DEF Propose, Crash, StoreFails, Escalate, GateEscalate, SaveEscalation, Goto,
          Finish, GateInv, Typed, TypeOK
    <3> QED
      BY <1>10, <3>1, <3>2, <3>3
  <2>2. executor' = executor
    BY <1>10
    DEF Propose, Consume, Guards, Submit, EscalationGuard, ApprovalGuard,
        AuthorizationGuard, Answer, ExecutorSucceeds, ExecutorReportsFailure,
        ConditionRefused, ConditionalFault, DeadlineReached, SaveExecution, Reassess,
        Settle, Crash, StoreFails, Escalate, GateEscalate, outside
  <2>3. /\ local'[c].snapshots = local[c].snapshots
        /\ executor[c] = "running" => local'[c].evaluated_at = local[c].evaluated_at
    <3>1. CASE Propose(c)
      <4>1. executor[c] = "idle"
        BY <3>1
        DEF Propose, GateInv, StartedInTime, BeforeClaim, Steps, Holding, Finished
      <4> QED
        BY <3>1, <4>1, RestartFields DEF Propose, GateInv
    <3>2. CASE Consume(c)
      BY <3>2, RestartFields DEF Consume, ResultKnown, GateInv
    <3>3. CASE ~(Propose(c) \/ Consume(c))
      BY <1>10, <3>3, MemoryRests DEF Rests, MemoryKept, GateInv
    <3> QED
      BY <3>1, <3>2, <3>3
  <2> QED
    BY <1>2, <1>3, <2>1, <2>2, <2>3, DeclaredKept, SnapshotsOrRecheck DEF RefutedStops
<1>11. CASE ExecutorStep(c)
  <2>1. UNCHANGED <<pc, local, decisions>> /\ executor'[c] # "running"
    BY <1>11
    DEF ExecutorStep, ExecutorApplies, ExecutorRefuses, ExecutorFails, AnswerOf, calls,
        store, GateInv, Typed, TypeOK
  <2> QED
    BY <1>2, <1>3, <2>1, DeclaredKept, SnapshotsOrRecheck DEF RefutedStops
<1> QED
  BY <1>4, <1>5, <1>6, <1>7, <1>8, <1>9, <1>10, <1>11
  DEF StepFor, CallStep, Validation, Authorizing, Settlement

\* No claim was validated initially.
LEMMA RefuteInit == Init => RefuteInv
<1> SUFFICES ASSUME Init PROVE RefuteInv
  OBVIOUS
<1>1. \A c \in Calls : RefutedStops(c)
  BY DEF Init, RefutedStops
<1> QED
  BY <1>1, RecordInit DEF RefuteInv

\* The invariant of the refuted claims is inductive.
LEMMA RefuteInductive == RefuteInv /\ [Next]_vars => RefuteInv'
<1> SUFFICES ASSUME RefuteInv, [Next]_vars PROVE RefuteInv'
  OBVIOUS
<1>1. RecordInv'
  BY RecordInductive DEF RefuteInv
<1>2. req' = req
  BY RequestsStay DEF RefuteInv, RecordInv, GateInv
<1>3. ASSUME NEW d \in Calls, SameCall(d) PROVE RefutedStops(d)'
  <2>1. /\ DeclaredIsSnapshot(d)' <=> DeclaredIsSnapshot(d)
        /\ ConditionalExecutionAvailable(d)' <=> ConditionalExecutionAvailable(d)
        /\ DeniesRefutedClaims(d)' <=> DeniesRefutedClaims(d)
    BY <1>2, <1>3, DeclaredKept, DeniesKept, SnapshotsOrRecheck DEF SameCall
  <2>2. RefutedStops(d)
    BY DEF RefuteInv
  <2> QED
    BY <1>3, <2>1, <2>2 DEF SameCall, RefutedStops
<1>4. ASSUME NEW c \in Calls, StepFor(c), NEW d \in Calls PROVE RefutedStops(d)'
  BY <1>3, <1>4, RefutedStep, OthersKeep DEF RefuteInv, RecordInv, GateInv
<1>5. CASE Surroundings
  <2>1. \A d \in Calls : SameCall(d)
    BY <1>5 DEF Surroundings, calls, SameCall
  <2> QED
    BY <1>1, <1>3, <2>1 DEF RefuteInv
<1> QED
  BY <1>1, <1>4, <1>5, NextSteps DEF RefuteInv

\* The invariant of the refuted claims holds in every reachable state.
LEMMA RefuteInvariant == Spec => []RefuteInv
BY RefuteInit, RefuteInductive, PTL DEF Spec

\* An executor that goes from running to applied did it by its own effect
LEMMA AppliedByEffect ==
    ASSUME Typed, [Next]_vars, NEW c \in Calls,
           executor[c] = "running", executor'[c] = "applied"
    PROVE  ExecutorApplies(c)
<1>1. PICK d \in Calls : StepFor(d)
  BY NextSteps DEF Surroundings
<1>2. d = c
  BY <1>1, OthersKeep DEF SameCall
<1>3. ~CallStep(c)
  <2>1. CallStep(c) => executor'[c] \in {executor[c], "running"}
    BY CallGateStep
    DEF GateStep, Passes, Claiming, Starts, Releases, StartExecutor, Typed, TypeOK
  <2> QED
    BY <2>1
<1>4. ~(Crash(c) \/ StoreFails(c))
  BY DEF Crash, StoreFails, outside
<1> QED
  BY <1>1, <1>2, <1>3, <1>4
  DEF StepFor, ExecutorStep, ExecutorRefuses, ExecutorFails, AnswerOf, Typed, TypeOK

\* Where refuted claims are denied, an effect conditioned on the written refs lands
\* on the versions the agent declared, whatever is mutated between validation, claim
\* and effect.
THEOREM EffectsLand == Spec => EffectLandsOnDeclaredVersion
<1>1. ASSUME RefuteInv, [Next]_vars, NEW c \in Calls,
             executor[c] = "running", executor'[c] = "applied",
             ConditionalExecutionAvailable(c), DeniesRefutedClaims(c),
             NEW r \in Written(c)
      PROVE  req[c].observed[r].version \in {Null, world[r]} \/ FutureDated(c, r)
  <2>1. ExecutorApplies(c)
    BY <1>1, AppliedByEffect DEF RefuteInv, RecordInv, GateInv
  <2>2. DeclaredIsSnapshot(c)
    BY <1>1 DEF RefuteInv, RefutedStops
  <2> QED
    BY <1>1, <2>1, <2>2
    DEF ExecutorApplies, Enforceable, ConditionHolds, DeclaredIsSnapshot
<1>2. RefuteInv /\ [Next]_vars =>
       [ \A c \in Calls :
            (/\ executor[c] = "running" /\ executor'[c] = "applied"
             /\ ConditionalExecutionAvailable(c) /\ DeniesRefutedClaims(c)) =>
            \A r \in Written(c) :
                req[c].observed[r].version \in {Null, world[r]} \/ FutureDated(c, r) ]_vars
  BY <1>1
<1> QED
  BY <1>2, RefuteInvariant, PTL DEF Spec, EffectLandsOnDeclaredVersion

-----------------------------------------------------------------------------
(* Approvals. *)

\* The escalation a reviewer is about to resolve is still pending: so it is where the
\* store refuses to overwrite an escalation and one reviewer resolves.
ReviewPending(v) ==
    review[v].verdict \in {"APPROVED", "REJECTED"} =>
        escalation[review[v].action_id].status = "PENDING"

\* The escalation of a call's action id stands approved, for its operation and
\* dependencies.
Covered(c) ==
    LET e == escalation[ActionOf(c)] IN
    /\ e.status = "APPROVED"
    /\ req[e.owner].operation = req[c].operation
    /\ DependenciesOf(e.owner) = DependenciesOf(c)

\* A call of the approved path that is past its guard is covered.
Approved(c) ==
    /\ pc[c] = "escalation_guard" => ~req[c].via_approval
    /\ (/\ req[c].via_approval
        /\ pc[c] \notin Finished \cup {"idle", "approval_guard"} \/ Started(c)) =>
           Covered(c)

\* The gate invariant, with pending reviews and covered calls.
ApprovalInv ==
    /\ GateInv
    /\ \A v \in Reviewers : ReviewPending(v)
    /\ \A c \in Calls : Approved(c)

\* One reviewer at most.
SingleReviewer == \A v, w \in Reviewers : v = w

\* No step changes an approved or rejected escalation: calls do not overwrite one,
\* and the reviewer resolves pending ones only.
LEMMA ResolvedStays ==
    ASSUME Backend = "sqlite", Typed, \A v \in Reviewers : ReviewPending(v), [Next]_vars,
           NEW a \in ActionIds, escalation[a].status \in {"APPROVED", "REJECTED"}
    PROVE  escalation'[a] = escalation[a]
<1>1. CASE \E c \in Calls : StepFor(c)
  <2>1. PICK c \in Calls : StepFor(c)
    BY <1>1
  <2>2. CASE escalation' = escalation
    BY <2>2
  <2>3. CASE escalation[ActionOf(c)].status = "NONE" /\
             \E stage \in Stages : Opens(c, stage)
    BY <2>3 DEF Opens, Typed, TypeOK
  <2> QED
    BY <2>1, <2>2, <2>3, EscalationSteps
<1>2. CASE \E v \in Reviewers : ReviewStep(v)
  BY <1>2
  DEF ReviewStep, ReadEscalation, ResolveEscalation, ReviewPending, store, Typed, TypeOK
<1>3. CASE UNCHANGED escalation
  BY <1>3
<1> QED
  BY <1>1, <1>2, <1>3, NextSteps DEF Surroundings

\* No call changes what a reviewer is about to do.
LEMMA ReviewKept ==
    ASSUME NEW c \in Calls, StepFor(c)
    PROVE review' = review
BY DEF StepFor, CallStep, Guards, Submit, EscalationGuard, ApprovalGuard,
       AuthorizationGuard, Validation, Propose, Fetch, Validate, ConsumedGuard,
       Revalidate, Authorizing, Escalate, Gate, GateEscalate, Claim, Recheck, Answer,
       ExecutorSucceeds, ExecutorReportsFailure, ConditionRefused, ConditionalFault,
       Settlement, DeadlineReached, SaveExecution, Consume, Reassess, Settle,
       ExecutorStep, ExecutorApplies, ExecutorRefuses, ExecutorFails, AnswerOf, Crash,
       StoreFails, outside

\* What the reviewer read as pending is still pending.
LEMMA ReviewPendingStep ==
    ASSUME Backend = "sqlite", SingleReviewer, Typed,
           \A v \in Reviewers : ReviewPending(v), [Next]_vars,
           NEW v \in Reviewers
    PROVE  ReviewPending(v)'
<1>1. CASE \E c \in Calls : StepFor(c)
  <2>1. PICK c \in Calls : StepFor(c)
    BY <1>1
  <2>2. review' = review
    BY <2>1, ReviewKept
  <2>3. review[v].action_id \in ActionIds
    BY DEF Typed, TypeOK, Reviews
  <2>4. CASE escalation' = escalation
    BY <2>2, <2>4 DEF ReviewPending
  <2>5. CASE escalation[ActionOf(c)].status = "NONE" /\
             \E stage \in Stages : Opens(c, stage)
    BY <2>2, <2>3, <2>5 DEF Opens, Typed, TypeOK, ReviewPending
  <2> QED
    BY <2>1, <2>4, <2>5, EscalationSteps
<1>2. CASE ReadEscalation(v)
  BY <1>2 DEF ReadEscalation, ReviewPending, store, Typed, TypeOK
<1>3. CASE ResolveEscalation(v)
  BY <1>3 DEF ResolveEscalation, ReviewPending, Typed, TypeOK
<1>4. CASE UNCHANGED <<escalation, review>>
  BY <1>4 DEF ReviewPending
<1> QED
  BY <1>1, <1>2, <1>3, <1>4, NextSteps DEF Surroundings, ReviewStep, SingleReviewer

\* A covered call stays covered.
LEMMA CoveredStays ==
    ASSUME Backend = "sqlite", Typed, \A v \in Reviewers : ReviewPending(v), [Next]_vars,
           NEW c \in Calls, Covered(c)
    PROVE  Covered(c)'
<1>1. req' = req
  BY RequestsStay
<1>2. ActionOf(c) \in ActionIds /\ ActionOf(c)' = ActionOf(c)
  BY <1>1, RequestFacts DEF Typed, ActionOf
<1>3. escalation'[ActionOf(c)] = escalation[ActionOf(c)]
  BY <1>2, ResolvedStays DEF Covered
<1>4. \A d : DependenciesOf(d)' = DependenciesOf(d)
  BY <1>1 DEF DependenciesOf
<1> QED
  BY <1>1, <1>2, <1>3, <1>4 DEF Covered

\* A call passes the guard of the approved path only when covered.
LEMMA ApprovedStep ==
    ASSUME Backend = "sqlite", GateInv, \A v \in Reviewers : ReviewPending(v),
           NEW c \in Calls, StepFor(c), Approved(c)
    PROVE  Approved(c)'
<1>1. [Next]_vars
  BY DEF StepFor, Next
<1>2. req' = req
  BY <1>1, RequestsStay DEF GateInv
<1>3. Covered(c) => Covered(c)'
  BY <1>1, CoveredStays DEF GateInv
<1>4. CASE Submit(c)
  <2>1. pc'[c] = IF req[c].via_approval THEN "approval_guard" ELSE "escalation_guard"
    BY <1>4 DEF Submit, Goto, GateInv, Typed, TypeOK
  <2>2. executor'[c] = "idle"
    BY <1>4
    DEF Submit, outside, GateInv, StartedInTime, BeforeClaim, Steps, Holding, Finished
  <2> QED
    BY <1>2, <2>1, <2>2 DEF Approved, Started
<1>5. CASE ApprovalGuard(c)
  <2>1. executor'[c] = "idle"
    BY <1>5
    DEF ApprovalGuard, outside, GateInv, StartedInTime, BeforeClaim, Steps, Holding,
        Finished
  <2>2. \/ pc'[c] = "done"
        \/ pc'[c] = "authorization_guard" /\ Covered(c)
    BY <1>5
    DEF ApprovalGuard, SameSemantics, Covered, Goto, Finish, GateInv, Typed, TypeOK
  <2> QED
    BY <1>2, <1>3, <2>1, <2>2 DEF Approved, Started, Finished
<1>6. CASE ExecutorStep(c)
  <2>1. pc' = pc /\ Started(c)
    BY <1>6
    DEF ExecutorStep, ExecutorApplies, ExecutorRefuses, ExecutorFails, AnswerOf, calls,
        Started
  <2> QED
    BY <1>2, <1>3, <2>1 DEF Approved
<1>7. CASE Crash(c) \/ StoreFails(c)
  <2>1. executor' = executor /\ pc'[c] \in Finished /\ pc[c] # "idle"
    BY <1>7
    DEF Crash, StoreFails, UsesStore, Finish, outside, GateInv, Typed, TypeOK, Finished
  <2>2. Started(c) \/ pc'[c] \in Finished
    BY <2>1
  <2> QED
    BY <1>2, <1>3, <2>1 DEF Approved, Started, Finished
<1>8. CASE CallStep(c) /\ ~Submit(c) /\ ~ApprovalGuard(c)
  <2>1. pc[c] \notin Finished \cup {"idle", "approval_guard"}
    BY <1>8
    DEF CallStep, Guards, EscalationGuard, AuthorizationGuard, Validation, Propose,
        Fetch, Fetching, Validate, ConsumedGuard, Revalidate, Authorizing, Escalate,
        Gate, GateEscalate, Claim, Recheck, Answer, ExecutorSucceeds,
        ExecutorReportsFailure, ConditionRefused, ConditionalFault, Settlement,
        DeadlineReached, SaveExecution, Consume, Reassess, Finished
  <2>2. pc'[c] # "escalation_guard"
    <3>1. CASE EscalationGuard(c) \/ AuthorizationGuard(c)
      <4>1. escalation[ActionOf(c)].status \in {"NONE", "PENDING", "APPROVED", "REJECTED"}
        BY RequestFacts DEF GateInv, Typed, TypeOK, Escalations
      <4> QED
        BY <3>1, <4>1
        DEF EscalationGuard, AuthorizationGuard, Goto, Finish, GateInv, Typed, TypeOK
    <3>2. CASE Validation(c)
      BY <3>2
      DEF Validation, Propose, Fetch, Fetching, Validate, ConsumedGuard, Revalidate,
          Route, Goto, Finish, GateInv, Typed, TypeOK
    <3>3. CASE Authorizing(c)
      BY <3>3
      DEF Authorizing, Escalate, Gate, GateEscalate, SaveEscalation, Claim, Recheck,
          Goto, Finish, GateInv, Typed, TypeOK
    <3>4. CASE Answer(c) \/ Settlement(c)
      BY <3>4
      DEF Answer, ExecutorSucceeds, ExecutorReportsFailure, ConditionRefused,
          ConditionalFault, Settlement, DeadlineReached, SaveExecution, Consume,
          Reassess, Settle, Goto, Finish, GateInv, Typed, TypeOK
    <3> QED
      BY <1>8, <3>1, <3>2, <3>3, <3>4 DEF CallStep, Guards
  <2> QED
    BY <1>2, <1>3, <2>1, <2>2 DEF Approved
<1> QED
  BY <1>4, <1>5, <1>6, <1>7, <1>8 DEF StepFor

\* Nobody was approved initially.
LEMMA ApprovalInit == Init => ApprovalInv
<1> SUFFICES ASSUME Init PROVE ApprovalInv
  OBVIOUS
<1>1. \A v \in Reviewers : ReviewPending(v)
  BY DEF Init, ReviewPending, NoReview
<1>2. \A c \in Calls : Approved(c)
  BY DEF Init, Approved, Started
<1> QED
  BY <1>1, <1>2, GateInit DEF ApprovalInv

\* The invariant of the approvals is inductive, with the durable store and one
\* reviewer.
LEMMA ApprovalInductive ==
    ASSUME Backend = "sqlite", SingleReviewer
    PROVE  ApprovalInv /\ [Next]_vars => ApprovalInv'
<1> SUFFICES ASSUME ApprovalInv, [Next]_vars PROVE ApprovalInv'
  OBVIOUS
<1>1. GateInv'
  BY GateInductive DEF ApprovalInv
<1>2. req' = req
  BY RequestsStay DEF ApprovalInv, GateInv
<1>3. \A v \in Reviewers : ReviewPending(v)'
  BY ReviewPendingStep DEF ApprovalInv, GateInv
<1>4. ASSUME NEW d \in Calls, SameCall(d) PROVE Approved(d)'
  BY <1>2, <1>4, CoveredStays DEF SameCall, ApprovalInv, GateInv, Approved, Started
<1>5. ASSUME NEW c \in Calls, StepFor(c), NEW d \in Calls PROVE Approved(d)'
  BY <1>4, <1>5, ApprovedStep, OthersKeep DEF ApprovalInv, GateInv
<1>6. CASE Surroundings
  <2>1. \A d \in Calls : SameCall(d)
    BY <1>6 DEF Surroundings, calls, SameCall
  <2> QED
    BY <1>1, <1>3, <1>4, <2>1 DEF ApprovalInv
<1> QED
  BY <1>1, <1>3, <1>5, <1>6, NextSteps DEF ApprovalInv

\* On the durable store and with one reviewer, an executor of the approved path is
\* invoked only under an approval that stands, for the operation and dependencies
\* that were escalated. Without either hypothesis it fails: the memory store
\* overwrites a resolved escalation, and a second reviewer resolves on a stale read.
THEOREM ApprovalsCover ==
    ASSUME Backend = "sqlite", SingleReviewer
    PROVE  Spec => []ApprovalCoversExecution
<1>1. ApprovalInv => ApprovalCoversExecution
  BY DEF ApprovalInv, Approved, Covered, ApprovalCoversExecution, GateInv,
         StartedInTime, BeforeClaim, Steps, Holding, Finished
<1> QED
  BY <1>1, ApprovalInit, ApprovalInductive, PTL DEF Spec

\* On the durable store and with one reviewer, an approved or rejected escalation
\* never changes again.
THEOREM ResolutionsStand ==
    ASSUME Backend = "sqlite", SingleReviewer
    PROVE  Spec => ResolutionIsFinal
<1>1. ApprovalInv /\ [Next]_vars =>
        [ \A a \in ActionIds : escalation[a].status \in {"APPROVED", "REJECTED"} =>
            escalation'[a] = escalation[a] ]_vars
  BY ResolvedStays DEF ApprovalInv, GateInv
<1> QED
  BY <1>1, ApprovalInit, ApprovalInductive, PTL DEF Spec, ResolutionIsFinal

-----------------------------------------------------------------------------
(* Replays. *)

\* Where an executor was invoked, an authorization was granted.
StartedIsGranted == \A c \in Calls : Started(c) => authorization[ActionOf(c)].owner # NoCall

\* A call that may not retry, and that will not invoke its executor any more: it did,
\* or it ended, or it is in front of the guards, or past them with the id consumed.
Stopped(d) ==
    /\ ~RetryAllowed(d)
    /\ \/ Started(d)
       \/ pc[d] \in {"idle", "escalation_guard", "approval_guard", "authorization_guard"}
       \/ pc[d] \in Finished
       \/ pc[d] \in {"propose", "fetch", "consumed_guard"} /\ ConsumedBefore(ActionOf(d))

\* A replay, as an invariant: no call of its action id is on its way to another
\* claim.
Doomed(c) ==
    /\ ~Started(c)
    /\ authorization[ActionOf(c)].owner # NoCall
    /\ \A d \in Calls : ActionOf(d) = ActionOf(c) => Stopped(d)

\* The gate invariant, with a grant under every invocation.
GrantInv == GateInv /\ StartedIsGranted

\* An action id that was granted an authorization has one for good.
LEMMA GrantStays ==
    ASSUME Typed, [Next]_vars, NEW a \in ActionIds, authorization[a].owner # NoCall
    PROVE  authorization'[a].owner # NoCall
<1>1. NoCall \notin Calls
  BY ExecuteActionAssumption
<1>2. ASSUME NEW c \in Calls, Claiming(c) PROVE authorization'[a].owner # NoCall
  BY <1>1, <1>2 DEF Claiming, Typed, TypeOK
<1>3. ASSUME NEW c \in Calls, Releases(c) PROVE authorization'[a].owner # NoCall
  BY <1>3 DEF Releases, Typed, TypeOK, Authorizations
<1> QED
  BY <1>2, <1>3, GateSteps DEF GateStep, Passes, Starts, Answers

\* The invariant of the grants is inductive.
LEMMA GrantInductive == GrantInv /\ [Next]_vars => GrantInv'
<1> SUFFICES ASSUME GrantInv, [Next]_vars PROVE GrantInv'
  OBVIOUS
<1>1. GateInv'
  BY GateInductive DEF GrantInv
<1>2. ASSUME NEW c \in Calls, Started(c)' PROVE (authorization[ActionOf(c)].owner # NoCall)'
  <2>1. ActionOf(c) \in ActionIds /\ ActionOf(c)' = ActionOf(c)
    BY RequestsStay, RequestFacts DEF GrantInv, GateInv, Typed, ActionOf
  <2>2. CASE Started(c)
    BY <2>1, <2>2, GrantStays DEF GrantInv, GateInv, StartedIsGranted
  <2>3. CASE ~Started(c)
    <3>1. InFlight(c)'
      BY <1>2, <2>3, GateSteps
      DEF GateStep, Passes, Claiming, Starts, Releases, Answers, StartExecutor, Started,
          InFlight, Holding, GrantInv, GateInv, Typed, TypeOK
    <3> QED
      BY <1>1, <3>1, ExecuteActionAssumption DEF GateInv, HolderOwnsAuthorization
  <2> QED
    BY <2>2, <2>3
<1> QED
  BY <1>1, <1>2 DEF GrantInv, StartedIsGranted

\* The invariant of the grants holds in every reachable state.
LEMMA GrantInvariant == Spec => []GrantInv
<1>1. Init => GrantInv
  BY GateInit DEF GrantInv, Init, StartedIsGranted, Started
<1> QED
  BY <1>1, GrantInductive, PTL DEF Spec

\* A replay is doomed from the start.
LEMMA ReplaysAreDoomed ==
    ASSUME GrantInv, NEW c \in Calls, Replays(c)
    PROVE  Doomed(c)
<1>1. ~Started(c)
  BY DEF Replays, GrantInv, GateInv, StartedInTime, Started, BeforeClaim, Steps,
         Holding, Finished
<1> QED
  BY <1>1 DEF Replays, Doomed, Stopped, GrantInv, StartedIsGranted

\* What is stopped stays stopped
LEMMA StoppedStep ==
    ASSUME GrantInv, NEW c \in Calls, NEW d \in Calls, StepFor(c), Stopped(d),
           authorization[ActionOf(d)].owner # NoCall,
           ActionOf(c) = ActionOf(d) => Stopped(c)
    PROVE  Stopped(d)' /\ (Started(d)' => Started(d))
<1>1. [Next]_vars
  BY DEF StepFor, Next
<1>2. req' = req
  BY <1>1, RequestsStay DEF GrantInv, GateInv
<1>3. /\ ActionOf(d) \in ActionIds /\ ActionOf(d)' = ActionOf(d)
      /\ RetryAllowed(d)' <=> RetryAllowed(d)
  BY <1>2, RequestFacts DEF GrantInv, GateInv, Typed, ActionOf, RetryAllowed, Policy
<1>4. Started(d) => Started(d)'
  BY <1>1, GateSteps
  DEF GateStep, Passes, Claiming, Starts, Releases, Answers, StartExecutor, Started,
      GrantInv, GateInv, Typed, TypeOK
<1>5. ConsumedBefore(ActionOf(d)) => ConsumedBefore(ActionOf(d))'
  <2>1. CASE CallStep(c)
    <3>1. Claiming(c) => ActionOf(c) # ActionOf(d)
      BY DEF Claiming, Stopped, Finished, Started, GrantInv, GateInv, StartedInTime,
             BeforeClaim, Steps, Holding
    <3>2. CASE Claiming(c)
      BY <1>3, <3>1, <3>2 DEF Claiming, ConsumedBefore, GrantInv, GateInv, Typed, TypeOK
    <3>3. CASE Releases(c)
      BY <1>3, <3>3
      DEF Releases, ConsumedBefore, GrantInv, GateInv, Typed, TypeOK, Authorizations
    <3>4. CASE Passes(c) \/ Starts(c)
      BY <1>3, <3>4 DEF Passes, Starts, ConsumedBefore
    <3> QED
      BY <2>1, <3>2, <3>3, <3>4, CallGateStep DEF GateStep, GrantInv, GateInv
  <2>2. CASE ExecutorStep(c) \/ Crash(c) \/ StoreFails(c)
    BY <1>3, <2>2
    DEF ExecutorStep, ExecutorApplies, ExecutorRefuses, ExecutorFails, AnswerOf, Crash,
        StoreFails, store, ConsumedBefore
  <2> QED
    BY <2>1, <2>2 DEF StepFor
<1>6. CASE d # c
  <2>1. SameCall(d)
    BY <1>6, OthersKeep DEF GrantInv, GateInv
  <2> QED
    BY <1>3, <1>5, <2>1 DEF SameCall, Stopped, Started
<1>7. CASE d = c /\ Started(d)
  BY <1>3, <1>4, <1>7 DEF Stopped
<1>8. CASE d = c /\ ~Started(d)
  <2>1. executor[c] = "idle"
    BY <1>8 DEF Started
  <2>2. CASE Guards(c)
    <3>1. UNCHANGED <<executor, authorization>>
      BY <2>2
      DEF Guards, Submit, EscalationGuard, ApprovalGuard, AuthorizationGuard, store,
          outside
    <3>2. \/ pc'[c] \in {"idle", "escalation_guard", "approval_guard",
                         "authorization_guard"} \cup Finished
          \/ pc'[c] = "propose" /\ ~Live(ActionOf(c))
      <4>1. CASE AuthorizationGuard(c)
        BY <4>1
        DEF AuthorizationGuard, Goto, Finish, Finished, GrantInv, GateInv, Typed, TypeOK
      <4>2. CASE EscalationGuard(c)
        <5>1. escalation[ActionOf(c)].status \in {"NONE", "PENDING", "APPROVED", "REJECTED"}
          BY RequestFacts DEF GrantInv, GateInv, Typed, TypeOK, Escalations
        <5> QED
          BY <4>2, <5>1
          DEF EscalationGuard, Goto, Finish, Finished, GrantInv, GateInv, Typed, TypeOK
      <4>3. CASE Submit(c) \/ ApprovalGuard(c)
        BY <4>3
        DEF Submit, ApprovalGuard, Goto, Finish, Finished, GrantInv, GateInv, Typed,
            TypeOK
      <4> QED
        BY <2>2, <4>1, <4>2, <4>3 DEF Guards
    <3>3. ~Live(ActionOf(c)) => ConsumedBefore(ActionOf(c))'
      BY <1>3, <1>8, <3>1
      DEF Live, ConsumedBefore, GrantInv, GateInv, Typed, TypeOK, Authorizations
    <3> QED
      BY <1>3, <1>8, <2>1, <3>1, <3>2, <3>3 DEF Stopped, Started
  <2>3. CASE Validation(c)
    <3>1. executor' = executor
      BY <2>3
      DEF Validation, Propose, Fetch, Validate, ConsumedGuard, Revalidate, outside
    <3>2. pc[c] \in {"propose", "fetch", "consumed_guard"} /\ ConsumedBefore(ActionOf(c))
      BY <1>8, <2>3
      DEF Stopped, Finished, Validation, Propose, Fetch, Fetching, Validate,
          ConsumedGuard, Revalidate
    <3>3. pc'[c] \in {"propose", "fetch", "consumed_guard"} \cup Finished
      BY <1>8, <2>3, <3>2
      DEF Stopped, Finished, Validation, Propose, Fetch, Fetching, Validate,
          ConsumedGuard, Revalidate, Goto, Finish, GrantInv, GateInv, Typed, TypeOK
    <3> QED
      BY <1>3, <1>5, <1>8, <2>1, <3>1, <3>2, <3>3 DEF Stopped, Started
  <2>4. ~(Authorizing(c) \/ Answer(c) \/ Settlement(c))
    BY <1>8
    DEF Stopped, Finished, Authorizing, Escalate, Gate, GateEscalate, Claim, Recheck,
        Answer, ExecutorSucceeds, ExecutorReportsFailure, ConditionRefused,
        ConditionalFault, Settlement, DeadlineReached, SaveExecution, Consume, Reassess
  <2>5. ~ExecutorStep(c)
    BY <2>1 DEF ExecutorStep, ExecutorApplies, ExecutorRefuses, ExecutorFails
  <2>6. CASE Crash(c) \/ StoreFails(c)
    <3>1. executor' = executor /\ pc'[c] \in Finished
      BY <2>6
      DEF Crash, StoreFails, Finish, outside, Finished, GrantInv, GateInv, Typed, TypeOK
    <3> QED
      BY <1>3, <1>8, <2>1, <3>1 DEF Stopped, Started
  <2> QED
    BY <2>2, <2>3, <2>4, <2>5, <2>6 DEF StepFor, CallStep
<1> QED
  BY <1>6, <1>7, <1>8

\* What is doomed stays doomed, whatever any call of the action id does.
LEMMA DoomedStep ==
    ASSUME NEW c \in Calls
    PROVE  GrantInv /\ Doomed(c) /\ [Next]_vars => Doomed(c)'
<1> SUFFICES ASSUME GrantInv, Doomed(c), [Next]_vars PROVE Doomed(c)'
  OBVIOUS
<1>1. req' = req
  BY RequestsStay DEF GrantInv, GateInv
<1>2. \A d : ActionOf(d)' = ActionOf(d)
  BY <1>1 DEF ActionOf
<1>3. ActionOf(c) \in ActionIds
  BY RequestFacts DEF GrantInv, GateInv, Typed
<1>4. authorization'[ActionOf(c)].owner # NoCall
  BY <1>3, GrantStays DEF Doomed, GrantInv, GateInv
<1>5. CASE \E e \in Calls : StepFor(e)
  <2>1. PICK e \in Calls : StepFor(e)
    BY <1>5
  <2>2. ASSUME NEW d \in Calls, ActionOf(d) = ActionOf(c)
        PROVE  Stopped(d)' /\ (Started(d)' => Started(d))
    BY <2>1, <2>2, StoppedStep DEF Doomed
  <2> QED
    BY <1>2, <1>4, <2>2 DEF Doomed
<1>6. CASE Surroundings
  BY <1>1, <1>2, <1>4, <1>6
  DEF Surroundings, calls, Doomed, Stopped, Started, ConsumedBefore, RetryAllowed,
      Policy
<1> QED
  BY <1>5, <1>6, NextSteps

\* A call submitted when the executor of its action id has been invoked, with no
\* other call of the id on its way there and none that may retry, never invokes its
\* own: not while the first one runs, and not after it was settled, crashed or
\* reviewed.
THEOREM ReplaysNeverExecute == Spec => ReplayNeverExecutes
<1>1. ASSUME NEW c \in Calls PROVE Spec => [](Replays(c) => [](~Started(c)))
  <2>1. GrantInv => (Replays(c) => Doomed(c))
    BY ReplaysAreDoomed
  <2>2. Doomed(c) => ~Started(c)
    BY DEF Doomed
  <2>3. GrantInv /\ Doomed(c) /\ [Next]_vars => Doomed(c)'
    BY DoomedStep
  <2> QED
    BY <2>1, <2>2, <2>3, GrantInvariant, PTL DEF Spec
<1> QED
  BY <1>1 DEF ReplayNeverExecutes

=============================================================================
